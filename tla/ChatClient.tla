------------------------------ MODULE ChatClient ------------------------------
(***************************************************************************)
(* The threads of one running SecureMessaging client and what they share:  *)
(*                                                                         *)
(*   Swing    the event thread: ContactFrame, ChatFrame's buttons, dialogs *)
(*   Listener ListenerThread, which accepts incoming chats                 *)
(*   c        the MessageListenerThread of chat c                          *)
(*   (each chat also has an UpdaterThread, whose state is updater[c])      *)
(*                                                                         *)
(* They meet in the one MessagingHelper: its list of chats, the monitor of *)
(* that list, the monitor of the helper itself (findActiveChat is          *)
(* synchronized on both), and the pipe and the semaphore of each chat.     *)
(* The chats have different peers, so a search by destination finds the    *)
(* chat itself or nothing.  Logout only stops the listening: it is the     *)
(* case that nobody calls any more.                                        *)
(***************************************************************************)
EXTENDS Naturals, Sequences

CONSTANTS Outgoing,   \* the chats this user starts (STARTER)
          Incoming,   \* the chats other users start (NO_STARTER)
          Swing, Listener, Nobody,
          MaxTexts,   \* MaxTexts[c]: texts the peer sends in chat c at most
          MaxSends,   \* MaxSends[c]: texts the user sends in chat c at most
          Kinds,      \* the kinds of texts the peers send, out of Texts
          PipeSize    \* texts the pipe to the updater thread holds

Chats   == Outgoing \cup Incoming
Threads == Chats \cup {Swing, Listener}

\* "noise": a text the board does not confirm, or one with an error word in it.
Texts    == {"text", "noise"}
Messages == Texts \cup {"token", "END"}

ASSUME ClientAssumption ==
    /\ Kinds \subseteq Texts
    /\ Outgoing \cap Incoming = {}
    /\ Swing # Listener /\ {Swing, Listener, Nobody} \cap Chats = {}
    /\ Nobody \notin {Swing, Listener}
    /\ MaxTexts \in [Chats -> Nat] /\ MaxSends \in [Chats -> Nat]
    /\ PipeSize \in Nat \ {0}

VARIABLES chats,       \* MessagingHelper.chats
          helper,      \* who is inside findActiveChat (the helper's monitor)
          list,        \* who holds the monitor of the list between two steps
          pc, target,  \* what each thread does next; the chat Swing does it to
          socket, conn, wire, said, spoken,
          frame, ready, dialogs, contacts,
          hand, pipe, pipeClosed, permits, updater, interrupted

lockVars == <<chats, helper, list>>
netVars  == <<socket, conn, wire, said, spoken>>
guiVars  == <<frame, ready, dialogs, contacts>>
pipeVars == <<hand, pipe, pipeClosed, permits, updater, interrupted>>
vars     == <<lockVars, netVars, guiVars, pipeVars, pc, target>>

\* The operations that begin by searching the list, and where they lead.
Searches == {"call", "start", "token", "send", "stop", "answer"}
Labels   == Searches \cup {"none", "idle", "accept", "read", "add", "write",
                "failed", "close", "giveUp", "interrupt", "dialog", "remove", "show",
                "release", "ended"}

TypeOK ==
    /\ chats \subseteq Chats
    /\ helper \in Threads \cup {Nobody}
    /\ list \in Threads \cup {Nobody}
    /\ pc \in [Threads -> Labels]
    /\ target \in Chats \cup {Nobody}
    /\ socket \in [Chats -> {"none", "open", "closed"}]
    \* "lost": nothing more arrives, a write may still be taken; "broken": not even that
    /\ conn \in [Chats -> {"none", "up", "lost", "broken"}]
    /\ wire \in [Chats -> Seq(Messages)]
    /\ said \in [Chats -> Nat]                  \* messages the peer has sent
    /\ spoken \in [Chats -> Nat]                \* messages written to the peer
    /\ frame \in [Chats -> {"none", "built", "shown", "disposed"}]
    /\ ready \in [Chats -> BOOLEAN]             \* the key is derived
    /\ dialogs \in Seq(Threads)                 \* the modal dialogs, topmost last
    /\ contacts \in BOOLEAN                     \* a ContactFrame is open
    /\ hand \in [Chats -> BOOLEAN]              \* decrypted_msg is to be shown
    /\ pipe \in [Chats -> 0 .. PipeSize]        \* texts in the pipe
    /\ pipeClosed \in [Chats -> BOOLEAN]
    /\ permits \in [Chats -> Nat]
    /\ updater \in [Chats -> {"none", "waiting", "reading", "ended"}]
    /\ interrupted \in [Chats -> BOOLEAN]

Init ==
    /\ chats = {} /\ helper = Nobody /\ list = Nobody
    /\ pc = [t \in Threads |-> IF t = Swing THEN "idle" ELSE IF t = Listener THEN "accept" ELSE "none"]
    /\ target = Nobody
    /\ socket = [c \in Chats |-> "none"] /\ conn = socket
    /\ wire = [c \in Chats |-> <<>>]
    /\ said = [c \in Chats |-> 0] /\ spoken = said
    /\ frame = [c \in Chats |-> "none"]
    /\ ready = [c \in Chats |-> FALSE]
    /\ dialogs = <<>> /\ contacts = FALSE
    /\ hand = ready /\ pipe = said /\ pipeClosed = ready /\ permits = said
    /\ updater = [c \in Chats |-> "none"] /\ interrupted = ready

Subject(t) == IF t = Swing THEN target ELSE t
Goto(t, l) == pc' = [pc EXCEPT ![t] = l]
Done(t)    == IF t = Swing THEN "idle" ELSE "ended"

-------------------------------------------------------------------------------
(*************************** The two monitors ******************************)

\* findActiveChat: first the helper's monitor ...
EnterFind(t) ==
    /\ pc[t] \in Searches
    /\ helper = Nobody
    /\ helper' = t
    /\ UNCHANGED <<chats, list, netVars, guiVars, pipeVars, pc, target>>

\* ... then the list's, and both are left with the result.
\* (FindsKeepingLock, and the like below: how the step could have gone wrong;
\* nothing uses them but the runs that test the properties.)
FindsKeepingLock(t, op) ==
    /\ pc[t] = op
    /\ helper = t
    /\ list = Nobody
    /\ UNCHANGED <<helper, list, chats>>
Finds(t, op) ==
    /\ pc[t] = op
    /\ helper = t
    /\ list = Nobody
    /\ helper' = Nobody
    /\ UNCHANGED <<list, chats>>

\* closeChat and removeActiveChat take the list's monitor first and search
\* inside it, which needs the helper's.
EnterList(t) ==
    /\ pc[t] \in {"close", "giveUp", "remove"}
    /\ list = Nobody
    /\ list' = t
    /\ UNCHANGED <<chats, helper, netVars, guiVars, pipeVars, pc, target>>
FindsInside(t) == list = t /\ helper = Nobody /\ UNCHANGED helper

-------------------------------------------------------------------------------
(****************************** A new chat *********************************)

UserCanAct == pc[Swing] = "idle" /\ dialogs = <<>>

\* A "Contact ..." button of LandingFrame: refused while there are chats.
OpenContacts ==
    /\ UserCanAct
    /\ ~ contacts
    /\ chats = {}
    /\ contacts' = TRUE
    /\ UNCHANGED <<lockVars, netVars, pipeVars, pc, target, frame, ready, dialogs>>

\* "Contact" in ContactFrame, without looking again: build the ChatFrame.
StartCall(c) ==
    /\ UserCanAct
    /\ contacts
    /\ frame[c] = "none"
    /\ contacts' = FALSE
    /\ frame' = [frame EXCEPT ![c] = "built"]
    /\ target' = c
    /\ Goto(Swing, "call")
    /\ UNCHANGED <<lockVars, netVars, pipeVars, ready, dialogs>>

\* sendHandshakeMessage finds no chat and connects ...
Connect ==
    /\ Finds(Swing, "call")
    /\ socket' = [socket EXCEPT ![target] = "open"]
    /\ conn' = [conn EXCEPT ![target] = "up"]
    /\ Goto(Swing, "add")
    /\ UNCHANGED <<wire, said, spoken, guiVars, pipeVars, target>>

\* ... or fails to, which is only printed: the window comes up, Send disabled.
ConnectRefused ==
    /\ Finds(Swing, "call")
    /\ frame' = [frame EXCEPT ![target] = "shown"]
    /\ Goto(Swing, "idle")
    /\ UNCHANGED <<netVars, pipeVars, target, ready, dialogs, contacts>>

\* addActiveChat, and the chat's MessageListenerThread starts.
AddCalled ==
    /\ pc[Swing] = "add"
    /\ list = Nobody
    /\ chats' = chats \cup {target}
    /\ pc' = [pc EXCEPT ![Swing] = "start", ![target] = "read"]
    /\ UNCHANGED <<helper, list, netVars, guiVars, pipeVars, target>>

\* startUpdates: on the event thread for a call, on the chat's own thread for
\* the first text of an incoming chat, whose window is then shown.
StartUpdates(t) ==
    /\ Finds(t, "start")
    /\ updater' = IF Subject(t) \in chats /\ updater[Subject(t)] = "none"
                  THEN [updater EXCEPT ![Subject(t)] = "waiting"] ELSE updater
    /\ IF t = Swing
       THEN Goto(t, "token") /\ UNCHANGED frame
       ELSE Goto(t, "show") /\ frame' = [frame EXCEPT ![t] = "shown"]
    /\ UNCHANGED <<netVars, target, ready, dialogs, contacts,
                   hand, pipe, pipeClosed, permits, interrupted>>

\* What a write to c's socket does: taken, or an IOException.
WriteTaken(c) ==
    /\ socket[c] = "open" /\ conn[c] \in {"up", "lost"}
    /\ spoken' = [spoken EXCEPT ![c] = @ + 1]
    /\ UNCHANGED conn
WriteFails(c) ==
    /\ socket[c] # "open" \/ conn[c] # "up"
    /\ conn' = [conn EXCEPT ![c] = IF @ = "lost" THEN "broken" ELSE @]
    /\ UNCHANGED spoken

\* The recursive call finds the chat and writes the token; an IOException is
\* only printed.  ContactFrame shows the window.
SendToken ==
    /\ Finds(Swing, "token")
    /\ WriteTaken(target) \/ WriteFails(target)
    /\ frame' = [frame EXCEPT ![target] = IF @ = "built" THEN "shown" ELSE @]
    /\ Goto(Swing, "idle")
    /\ UNCHANGED <<socket, wire, said, pipeVars, target, ready, dialogs, contacts>>

\* ListenerThread accepts, whatever chats there are, and adds the chat.
Accept(c) ==
    /\ pc[Listener] = "accept"
    /\ socket[c] = "none"
    /\ socket' = [socket EXCEPT ![c] = "open"]
    /\ conn' = [conn EXCEPT ![c] = "up"]
    /\ Goto(Listener, "add")
    /\ UNCHANGED <<lockVars, guiVars, pipeVars, target, wire, said, spoken>>

AddAccepted(c) ==
    /\ pc[Listener] = "add"
    /\ socket[c] = "open" /\ pc[c] = "none"
    /\ list = Nobody
    /\ chats' = chats \cup {c}
    /\ pc' = [pc EXCEPT ![Listener] = "accept", ![c] = "read"]
    /\ UNCHANGED <<helper, list, netVars, guiVars, pipeVars, target>>

-------------------------------------------------------------------------------
(************************* MessageListenerThread ***************************)

Reads(c, kind) ==
    /\ pc[c] = "read"
    /\ socket[c] = "open"
    /\ wire[c] # <<>>
    /\ Head(wire[c]) = kind
    /\ wire' = [wire EXCEPT ![c] = Tail(@)]
    /\ UNCHANGED <<socket, conn, said, spoken, lockVars, target>>

\* The peer's token: a caller derives the key and enables Send; an incoming
\* chat gets its (invisible) window and must answer first.
ReadToken(c) ==
    /\ Reads(c, "token")
    /\ IF c \in Outgoing
       THEN ready' = [ready EXCEPT ![c] = TRUE] /\ UNCHANGED <<frame, pc>>
       ELSE frame' = [frame EXCEPT ![c] = "built"] /\ Goto(c, "answer") /\ UNCHANGED ready
    /\ UNCHANGED <<pipeVars, dialogs, contacts>>

\* sendHandshakeMessage with the board's own token, then setTokenShared.
Answer(c) ==
    /\ Finds(c, "answer")
    /\ WriteTaken(c) \/ WriteFails(c)
    /\ ready' = [ready EXCEPT ![c] = TRUE]
    /\ Goto(c, "read")
    /\ UNCHANGED <<socket, wire, said, pipeVars, target, frame, dialogs, contacts>>

\* A ciphertext, decrypted (hand); the first one of an incoming chat
\* (countMsg = 2) starts the updates.
ReadText(c) ==
    /\ \E m \in Texts : Reads(c, m) /\ hand' = [hand EXCEPT ![c] = m = "text"]
    /\ Goto(c, IF c \in Incoming /\ frame[c] = "built" THEN "start" ELSE "show")
    /\ UNCHANGED <<guiVars, pipe, pipeClosed, permits, updater, interrupted>>

\* A text with "HASHING" or "wrong" in it, the board's answer or not, goes no
\* further.
Suppress(c) ==
    /\ pc[c] = "show"
    /\ ~ hand[c]
    /\ Goto(c, "read")
    /\ UNCHANGED <<lockVars, netVars, guiVars, pipeVars, target>>

\* writeUTF blocks while the pipe is full ...
WriteTextOrDrop(c) ==
    /\ pc[c] = "show"
    /\ hand[c]
    /\ ~ pipeClosed[c]
    /\ pipe' = IF pipe[c] < PipeSize THEN [pipe EXCEPT ![c] = @ + 1] ELSE pipe
    /\ Goto(c, "release")
    /\ UNCHANGED <<lockVars, netVars, guiVars, target, hand, pipeClosed, permits, updater, interrupted>>
WriteText(c) ==
    /\ pc[c] = "show"
    /\ hand[c]
    /\ ~ pipeClosed[c]
    /\ pipe[c] < PipeSize
    /\ pipe' = [pipe EXCEPT ![c] = @ + 1]
    /\ Goto(c, "release")
    /\ UNCHANGED <<lockVars, netVars, guiVars, target, hand, pipeClosed, permits, updater, interrupted>>

\* ... and fails once its other end is closed; any exception ends the thread,
\* which closes its own end of the pipe and nothing else.
WriteTextFails(c) ==
    /\ pc[c] = "show"
    /\ hand[c]
    /\ pipeClosed[c]
    /\ Goto(c, "ended")
    /\ UNCHANGED <<lockVars, netVars, guiVars, pipeVars, target>>

Release(c) ==
    /\ pc[c] = "release"
    /\ permits' = [permits EXCEPT ![c] = @ + 1]
    /\ hand' = [hand EXCEPT ![c] = FALSE]
    /\ Goto(c, "read")
    /\ UNCHANGED <<lockVars, netVars, guiVars, target, pipe, pipeClosed, updater, interrupted>>

\* END_COMMUNICATION: closeChat(dest, false), then stopUpdates.
ReadEnd(c) ==
    /\ Reads(c, "END")
    /\ Goto(c, "close")
    /\ UNCHANGED <<guiVars, pipeVars>>

\* The socket was closed by this client, or the stream is at its end.
ReadFails(c) ==
    /\ pc[c] = "read"
    /\ socket[c] = "closed" \/ (conn[c] # "up" /\ wire[c] = <<>>)
    /\ Goto(c, "ended")
    /\ UNCHANGED <<lockVars, netVars, guiVars, pipeVars, target>>

-------------------------------------------------------------------------------
(***************************** UpdaterThread *******************************)

\* acquire(): an interrupt comes first, and closes the pipe.
Interrupted(c) ==
    /\ updater[c] = "waiting"
    /\ interrupted[c]
    /\ updater' = [updater EXCEPT ![c] = "ended"]
    /\ pipeClosed' = [pipeClosed EXCEPT ![c] = TRUE]
    /\ pipe' = [pipe EXCEPT ![c] = 0]
    /\ UNCHANGED <<lockVars, netVars, guiVars, pc, target, hand, permits, interrupted>>

AcquireAnyway(c) ==
    /\ updater[c] = "waiting"
    /\ ~ interrupted[c]
    /\ permits' = [permits EXCEPT ![c] = @ - 1]
    /\ updater' = [updater EXCEPT ![c] = "reading"]
    /\ UNCHANGED <<lockVars, netVars, guiVars, pc, target, hand, pipe, pipeClosed, interrupted>>
Acquire(c) ==
    /\ updater[c] = "waiting"
    /\ ~ interrupted[c]
    /\ permits[c] > 0
    /\ permits' = [permits EXCEPT ![c] = @ - 1]
    /\ updater' = [updater EXCEPT ![c] = "reading"]
    /\ UNCHANGED <<lockVars, netVars, guiVars, pc, target, hand, pipe, pipeClosed, interrupted>>

\* readUTF(), and the text is added to the chat box.
TakeText(c) ==
    /\ updater[c] = "reading"
    /\ ~ pipeClosed[c]
    /\ pipe[c] > 0
    /\ pipe' = [pipe EXCEPT ![c] = @ - 1]
    /\ updater' = [updater EXCEPT ![c] = "waiting"]
    /\ UNCHANGED <<lockVars, netVars, guiVars, pc, target, hand, pipeClosed, permits, interrupted>>

TakeTextFails(c) ==
    /\ updater[c] = "reading"
    /\ pipeClosed[c] \/ (interrupted[c] /\ pipe[c] = 0)
    /\ updater' = [updater EXCEPT ![c] = "ended"]
    /\ UNCHANGED <<lockVars, netVars, guiVars, pc, target, hand, pipe, pipeClosed, permits, interrupted>>

-------------------------------------------------------------------------------
(******************************* The window ********************************)

\* The Send button: encrypt, then sendChatMessage.
PressSend(c) ==
    /\ UserCanAct
    /\ frame[c] = "shown"
    /\ ready[c]
    /\ spoken[c] <= MaxSends[c]
    /\ target' = c
    /\ Goto(Swing, "send")
    /\ UNCHANGED <<lockVars, netVars, guiVars, pipeVars>>

\* It finds its chat.  (For a chat that is gone sendChatMessage would connect
\* anew; SendsFindTheirChat says that does not happen.)
SendFind ==
    /\ Finds(Swing, "send")
    /\ target \in chats
    /\ Goto(Swing, "write")
    /\ UNCHANGED <<netVars, guiVars, pipeVars, target>>

\* The write (and the line "[Me] ..." in the chat box).
SendWrite ==
    /\ pc[Swing] = "write"
    /\ WriteTaken(target)
    /\ Goto(Swing, "idle")
    /\ UNCHANGED <<lockVars, socket, wire, said, guiVars, pipeVars, target>>

\* The write fails: a dialog, after which closeChat(dest, true) is called and
\* the window disposed of - without stopUpdates.
SendFails ==
    /\ pc[Swing] = "write"
    /\ WriteFails(target)
    /\ dialogs' = Append(dialogs, Swing)
    /\ Goto(Swing, "failed")
    /\ UNCHANGED <<lockVars, socket, wire, said, pipeVars, target, frame, ready, contacts>>

\* "Close Chat" and the window's close button: dispose, closeChat(dest, true),
\* stopUpdates.
PressClose(c) ==
    /\ UserCanAct
    /\ frame[c] = "shown"
    /\ frame' = [frame EXCEPT ![c] = "disposed"]
    /\ target' = c
    /\ Goto(Swing, "close")
    /\ UNCHANGED <<lockVars, netVars, pipeVars, ready, dialogs, contacts>>

\* The user dismisses the topmost dialog, which takes the event thread: it is
\* not inside a handler, or inside one that shows a dialog itself.
Dispatching == pc[Swing] \in {"idle", "failed", "dialog"}
Top == dialogs[Len(dialogs)]
DismissFailed ==
    /\ dialogs # <<>> /\ Top = Swing /\ pc[Swing] = "failed"
    /\ dialogs' = SubSeq(dialogs, 1, Len(dialogs) - 1)
    /\ Goto(Swing, "giveUp")
    /\ UNCHANGED <<lockVars, netVars, pipeVars, target, frame, ready, contacts>>
DismissInterrupted(t) ==
    /\ dialogs # <<>> /\ Top = t /\ pc[t] = "dialog" /\ Dispatching
    /\ dialogs' = SubSeq(dialogs, 1, Len(dialogs) - 1)
    /\ frame' = [frame EXCEPT ![Subject(t)] = "disposed"]
    /\ list' = Nobody
    /\ Goto(t, IF t = Swing THEN "idle" ELSE "stop")
    /\ UNCHANGED <<chats, helper, netVars, pipeVars, target, ready, contacts>>

-------------------------------------------------------------------------------
(*********************** closeChat and stopUpdates *************************)

\* Leaving closeChat without having shown a dialog.
LeaveClose(t) ==
    /\ list' = Nobody
    /\ IF pc[t] = "giveUp"
       THEN Goto(t, "idle") /\ frame' = [frame EXCEPT ![target] = "disposed"]
       ELSE Goto(t, "stop") /\ UNCHANGED frame
CloseUnfound(t) ==
    /\ pc[t] \in {"close", "giveUp"}
    /\ FindsInside(t)
    /\ Subject(t) \notin chats
    /\ LeaveClose(t)
    /\ UNCHANGED <<chats, netVars, pipeVars, target, ready, dialogs, contacts>>

\* The closing side writes END first; if that fails nothing is closed.
CloseFails(t) ==
    /\ pc[t] \in {"close", "giveUp"}
    /\ FindsInside(t)
    /\ t = Swing /\ target \in chats
    /\ WriteFails(target)
    /\ LeaveClose(t)
    /\ UNCHANGED <<chats, socket, wire, said, pipeVars, target, ready, dialogs, contacts>>

\* The stream, the socket and the pipe are closed; if the window is still
\* visible, interruptCommunication() follows under the list's monitor.
ClosesAllButSocket(t) ==
    /\ pc[t] \in {"close", "giveUp"}
    /\ FindsInside(t)
    /\ Subject(t) \in chats
    /\ t = Swing => socket[target] = "open" /\ conn[target] \in {"up", "lost"}
    /\ pipeClosed' = [pipeClosed EXCEPT ![Subject(t)] = TRUE]
    /\ pipe' = [pipe EXCEPT ![Subject(t)] = 0]
    /\ UNCHANGED <<chats, netVars, target, ready, dialogs, contacts,
                   hand, permits, updater, interrupted>>
ClosesAll(t) ==
    /\ pc[t] \in {"close", "giveUp"}
    /\ FindsInside(t)
    /\ Subject(t) \in chats
    /\ t = Swing => socket[target] = "open" /\ conn[target] \in {"up", "lost"}
    /\ socket' = [socket EXCEPT ![Subject(t)] = "closed"]
    /\ pipeClosed' = [pipeClosed EXCEPT ![Subject(t)] = TRUE]
    /\ pipe' = [pipe EXCEPT ![Subject(t)] = 0]
    /\ UNCHANGED <<chats, conn, wire, said, spoken, target, ready, dialogs, contacts,
                   hand, permits, updater, interrupted>>
CloseHidden(t) ==
    /\ ClosesAll(t)
    /\ frame[Subject(t)] # "shown"
    /\ LeaveClose(t)
CloseShownSilently(t) ==
    /\ ClosesAll(t)
    /\ frame[Subject(t)] = "shown"
    /\ list' = Nobody
    /\ frame' = [frame EXCEPT ![Subject(t)] = "disposed"]
    /\ Goto(t, IF t = Swing THEN "idle" ELSE "stop")
CloseShown(t) ==
    /\ ClosesAll(t)
    /\ frame[Subject(t)] = "shown"
    /\ Goto(t, "interrupt")
    /\ UNCHANGED <<list, frame>>

ShowDialog(t) ==
    /\ pc[t] = "interrupt"
    /\ dialogs' = Append(dialogs, t)
    /\ Goto(t, "dialog")
    /\ UNCHANGED <<lockVars, netVars, pipeVars, target, frame, ready, contacts>>

\* stopUpdates: interrupt the updater thread and remove the chat.
StopUpdatesIfStarted(t) ==
    /\ Finds(t, "stop")
    /\ LET c == Subject(t) IN
       IF c \in chats /\ updater[c] # "none"
       THEN /\ interrupted' = [interrupted EXCEPT ![c] = TRUE]
            /\ Goto(t, "remove")
       ELSE Goto(t, Done(t)) /\ UNCHANGED interrupted
    /\ UNCHANGED <<netVars, guiVars, target, hand, pipe, pipeClosed, permits, updater>>
StopUpdates(t) ==
    /\ Finds(t, "stop")
    /\ LET c == Subject(t) IN
       IF c \in chats
       THEN /\ interrupted' = [interrupted EXCEPT ![c] = updater[c] # "none"]
            /\ Goto(t, "remove")
       ELSE Goto(t, Done(t)) /\ UNCHANGED interrupted
    /\ UNCHANGED <<netVars, guiVars, target, hand, pipe, pipeClosed, permits, updater>>

Remove(t) ==
    /\ pc[t] = "remove"
    /\ FindsInside(t)
    /\ chats' = chats \ {Subject(t)}
    /\ list' = Nobody
    /\ Goto(t, Done(t))
    /\ UNCHANGED <<netVars, guiVars, pipeVars, target>>

-------------------------------------------------------------------------------
(******************************** The peers ********************************)

PeerWrites(c, m) ==
    /\ socket[c] = "open" /\ conn[c] = "up"
    /\ wire' = [wire EXCEPT ![c] = Append(@, m)]
    /\ said' = [said EXCEPT ![c] = @ + 1]
    /\ UNCHANGED <<lockVars, guiVars, pipeVars, pc, target, socket, spoken>>

\* A caller's token comes first; a callee's answers ours.
PeerToken(c) ==
    /\ said[c] = 0
    /\ c \in Outgoing => spoken[c] > 0
    /\ PeerWrites(c, "token")
    /\ UNCHANGED conn

\* A caller has a usable window after our answer, a callee after our first text.
PeerHasWindow(c) == said[c] > 0 /\ spoken[c] >= IF c \in Outgoing THEN 2 ELSE 1
PeerText(c) ==
    /\ PeerHasWindow(c)
    /\ said[c] <= MaxTexts[c]
    /\ \E m \in Kinds : PeerWrites(c, m)
    /\ UNCHANGED conn

\* The peer closes the chat (a caller may at any time): END, and its socket.
PeerEnd(c) ==
    /\ said[c] > 0
    /\ c \in Outgoing => PeerHasWindow(c)
    /\ PeerWrites(c, "END")
    /\ conn' = [conn EXCEPT ![c] = "lost"]

\* The connection is lost; a first part of what was under way still arrives.
LinkLost(c) ==
    /\ socket[c] = "open" /\ conn[c] = "up"
    /\ conn' = [conn EXCEPT ![c] = "lost"]
    /\ \E k \in 0 .. Len(wire[c]) : wire' = [wire EXCEPT ![c] = SubSeq(@, 1, k)]
    /\ UNCHANGED <<lockVars, guiVars, pipeVars, pc, target, socket, said, spoken>>

-------------------------------------------------------------------------------
Closing(t) ==
    \/ CloseUnfound(t) \/ CloseFails(t) \/ CloseHidden(t) \/ CloseShown(t)
    \/ ShowDialog(t) \/ StopUpdates(t) \/ Remove(t)

User ==
    \/ OpenContacts
    \/ \E c \in Outgoing : StartCall(c)
    \/ \E c \in Chats : PressSend(c) \/ PressClose(c)
Dismiss == DismissFailed \/ \E t \in Chats \cup {Swing} : DismissInterrupted(t)
SwingStep ==
    \/ EnterFind(Swing) \/ EnterList(Swing) \/ Connect \/ ConnectRefused \/ AddCalled
    \/ StartUpdates(Swing) \/ SendToken \/ SendFind \/ SendWrite \/ SendFails
    \/ Closing(Swing)
ListenerStep(c) ==
    \/ EnterFind(c) \/ EnterList(c) \/ ReadToken(c) \/ Answer(c) \/ ReadText(c)
    \/ StartUpdates(c) \/ Suppress(c) \/ WriteText(c) \/ WriteTextFails(c) \/ Release(c)
    \/ ReadEnd(c) \/ ReadFails(c) \/ Closing(c)
UpdaterStep(c) == Interrupted(c) \/ Acquire(c) \/ TakeText(c) \/ TakeTextFails(c)
Peer(c) == PeerToken(c) \/ PeerText(c) \/ PeerEnd(c) \/ LinkLost(c)

Next ==
    \/ User \/ Dismiss \/ SwingStep
    \/ \E c \in Incoming : Accept(c) \/ AddAccepted(c)
    \/ \E c \in Chats : ListenerStep(c) \/ UpdaterStep(c) \/ Peer(c)

Spec == Init /\ [][Next]_vars

\* Threads that can run do, and the user dismisses a dialog that can be
\* dismissed; pressing buttons, and the peers, are free.
FairSpec ==
    /\ Spec
    /\ WF_vars(SwingStep) /\ WF_vars(Dismiss)
    /\ \A c \in Incoming : WF_vars(AddAccepted(c))
    /\ \A c \in Chats : WF_vars(ListenerStep(c)) /\ WF_vars(UpdaterStep(c))
-------------------------------------------------------------------------------
(******************************* Properties ********************************)

\* t cannot go on before u does: u holds the monitor t wants, or t's dialog
\* needs the event thread, which is inside a handler.
WantsHelper(t) ==
    /\ helper # t
    /\ pc[t] \in Searches \/ (list = t /\ pc[t] \in {"close", "giveUp", "remove"})
WantsList(t) ==
    /\ list # t
    /\ \/ pc[t] \in {"close", "giveUp", "remove", "add"}
       \/ pc[t] \in Searches /\ helper = t
Waits(t, u) ==
    \/ WantsHelper(t) /\ helper = u
    \/ WantsList(t) /\ list = u
    \/ pc[t] = "dialog" /\ u = Swing /\ ~ Dispatching

\* Threads that wait for each other, for ever.
Embrace == \E S \in SUBSET Threads \ {{}} : \A t \in S : \E u \in S : Waits(t, u)

\* The event thread comes back from whatever a button made it do, unless
\* threads embrace: there is no other way for the window to freeze.
EventThreadReturns == pc[Swing] # "idle" ~> (pc[Swing] = "idle" \/ Embrace)

\* An END that has arrived is read and its chat leaves the list, however many
\* texts are before it, unless threads embrace.
EndArrived(c) == \E i \in DOMAIN wire[c] : wire[c][i] = "END"
EndIsCarriedOut == \A c \in Chats : EndArrived(c) ~> (c \notin chats \/ Embrace)

\* "Se ricevo un msg speciale, vuol dire che l'interlocutore ha chiuso la chat.
\* Quindi devo chiuderla anche io" (MessageListenerThread): the same without
\* the exception.
EndClosesChat == \A c \in Chats : EndArrived(c) ~> c \notin chats

\* A handshake message or a text is only ever written to a chat the search
\* still finds.  (If it did not, sendChatMessage would open a connection to the
\* peer's listener and deliver a ciphertext where a token is expected.)
SendsFindTheirChat ==
    \A t \in Threads : pc[t] \in {"token", "send", "answer"} => Subject(t) \in chats

\* The updater thread never blocks on the pipe: each permit of the semaphore
\* stands for a text in it, until the pipe is closed.
PermitsHaveTexts ==
    \A c \in Chats :
        ~ pipeClosed[c] =>
            permits[c] + (IF updater[c] = "reading" THEN 1 ELSE 0) <= pipe[c]

\* A thread reading from a standing connection is in the list, where closeChat
\* can find its socket.
ConnectedIsListed ==
    \A c \in Chats :
        pc[c] = "read" /\ socket[c] = "open" /\ conn[c] = "up" => c \in chats

\* MessagingHelper's list: "Quando una chatFrame viene chiusa, andremo a
\* rimuovere anche la corrispondente entry": a closed window's chat is in it
\* only while a thread is removing it.
ClosedFrameIsForgotten ==
    \A c \in Chats :
        frame[c] = "disposed" /\ c \in chats =>
            \E t \in {c, Swing} : Subject(t) = c /\ pc[t] \in {"close", "stop", "remove"}
===============================================================================
