------------------------------ MODULE ChatNetwork ------------------------------
(***************************************************************************)
(* Several users who call each other.  Connections go to "localhost" and   *)
(* the keystore chooses its port by role, so all clients share a machine   *)
(* with two boards: one for whoever calls, one for whoever is called.      *)
(*                                                                         *)
(* What a client writes, a token or a text, is addressed to a number: it   *)
(* goes along the first chat in the list with that number, or along a new  *)
(* connection if there is none.  What it reads, its listener threads judge *)
(* by how many messages they have read.                                    *)
(*                                                                         *)
(* <<c, STARTER>> and <<c, NO_STARTER>> are the two ends of connection c.  *)
(* The threads of one client are the subject of ChatClient, one chat that  *)
(* nobody disturbs that of SecureLink, the serial ports that of Keystore.  *)
(***************************************************************************)
EXTENDS Board, Sequences, SequencesExt

CONSTANTS Users,
          MayCall,    \* the pairs <<u, v>> such that u may choose v to call
          MaxOpened,  \* contact windows all users open
          MaxConns,   \* connections there can be
          MaxTexts    \* texts typed by all users together

Ends    == (1 .. MaxConns) \X {STARTER, NO_STARTER}
Mate(e) == <<e[1], IF e[2] = STARTER THEN NO_STARTER ELSE STARTER>>
Nobody  == "nobody"    \* the number 0

\* Who writes: the users' event threads, and the listener threads that answer.
Writers == Users \cup {e \in Ends : e[2] = NO_STARTER}

\* Nobody is a user, and no user is an end of a connection.
ASSUME NetworkAssumption ==
    /\ Nobody \notin Users
    /\ Users \cap Ends = {}
    /\ MaxConns \in Nat

VARIABLES contacts, \* contacts[u]: contact windows u has open
          opened,   \* contact windows opened so far
          frames,   \* the chat windows
          conns,    \* the connections, oldest first
          chats,    \* chats[u]: the ends in u's list, in its order
          dest,     \* dest[e]: the number in the ActiveChat of e
          frame,    \* frame[e]: its window, 0 for none yet
          thread,   \* thread[e]: its listener thread
          countMsg, \* countMsg[e]: messages it has read, one more at a STARTER
          firstToken, \* firstToken[e]: the token it has read (first_token)
          streams,  \* streams[e]: what is under way to e, oldest first
          closed,   \* the ends whose socket is closed
          sending,  \* sending[t]: what writer t is about to write
          boards,   \* the board of those who call, that of those who are called
          draws,    \* tokens drawn so far
          texts,    \* texts typed so far
          calls,    \* calls[u][v]: the calls u has made to v
          calm      \* no call has come between another's handshake

netVars == <<contacts, opened, frames, conns, chats, dest, frame, thread, countMsg,
             firstToken, streams, closed, sending, boards, draws, texts, calls, calm>>
threadVars == <<thread, countMsg, firstToken>>
userVars   == <<contacts, opened, calls, calm>>

\* from and to: whose window the message was made in, and for whom.
TokenTo(b, u, v)  == [kind |-> "token", key |-> b.my_k, from |-> u, to |-> v]
CipherTo(b, u, v) == [kind |-> "cipher", key |-> b.my_k, from |-> u, to |-> v]
EndOfChat         == [kind |-> "END", key |-> {}, from |-> Nobody, to |-> Nobody]

\* reached: the connection it has opened for the message, 0 for none yet.
Nothing == [message |-> EndOfChat, frame |-> 0, reached |-> 0]
Sends(m, f) == [message |-> m, frame |-> f, reached |-> 0]

NetInit ==
    /\ contacts = [u \in Users |-> 0]
    /\ opened = 0
    /\ frames = <<>> /\ conns = <<>>
    /\ chats = [u \in Users |-> <<>>]
    /\ dest = [e \in Ends |-> Nobody]
    /\ frame = [e \in Ends |-> 0]
    /\ thread = [e \in Ends |-> "none"]
    /\ countMsg = [e \in Ends |-> 0]
    /\ firstToken = [e \in Ends |-> {}]
    /\ streams = [e \in Ends |-> <<>>]
    /\ closed = {}
    /\ sending = [t \in Writers |-> Nothing]
    /\ boards = [p \in {STARTER, NO_STARTER} |-> PoweredUp]
    /\ draws = 0 /\ texts = 0
    /\ calls = [u \in Users |-> [v \in Users |-> 0]]
    /\ calm = TRUE

Owner(e) == IF e[2] = STARTER THEN conns[e[1]].from ELSE conns[e[1]].to
Used     == {e \in Ends : e[1] <= Len(conns)}
EventFree(u) == sending[u] = Nothing

\* findActiveChat: the first chat in u's list with the number v.
PlacesOrUnknown(u, v) == {i \in DOMAIN chats[u] : dest[chats[u][i]] \in {v, Nobody}}
Places(u, v)    == {i \in DOMAIN chats[u] : dest[chats[u][i]] = v}
FindAny(u, v)   == chats[u][1]
Place(u, v)     == CHOOSE i \in Places(u, v) : \A j \in Places(u, v) : i <= j
Find(u, v)      == chats[u][Place(u, v)]
IsListed(u, v)  == Places(u, v) # {}

\* What the streams hold after end e has written m.
AfterWriting(e, m) ==
    IF Mate(e) \in closed \/ thread[Mate(e)] = "ended" THEN streams
    ELSE [streams EXCEPT ![Mate(e)] = Append(@, m)]

-------------------------------------------------------------------------------
(******************************** Calling **********************************)

\* A handshake has begun and is not through at both ends.
Shaking ==
    \/ \E t \in Writers : sending[t].message.kind = "token"
    \/ \E e \in Used : /\ e \notin closed
                       /\ \/ thread[e] = "deriving"
                          \/ e[2] = STARTER /\ thread[e] = "reading" /\ countMsg[e] = 1
                          \/ e[2] = NO_STARTER /\ countMsg[e] = 0 /\ thread[e] # "ended"

\* "Contact User": refused while there are chats; the window stays as long as
\* the user likes.
OpenContacts(u) ==
    /\ EventFree(u)
    /\ chats[u] = <<>>
    /\ opened < MaxOpened
    /\ opened' = opened + 1
    /\ contacts' = [contacts EXCEPT ![u] = @ + 1]
    /\ UNCHANGED <<frames, conns, chats, dest, frame, threadVars, streams, closed,
                   sending, boards, draws, texts, calls, calm>>

\* "Contact": a new window, whose handshake asks the board for a token.
StartCall(u, v) ==
    /\ contacts[u] > 0
    /\ <<u, v>> \in MayCall
    /\ EventFree(u)
    /\ contacts' = [contacts EXCEPT ![u] = @ - 1]
    /\ draws' = draws + 1
    /\ boards' = [boards EXCEPT ![STARTER] = SendTokenShared(@, STARTER, draws')]
    /\ frames' = Append(frames, [user |-> u, dest |-> v, type |-> STARTER,
                                 enabled |-> FALSE, shown |-> TRUE])
    /\ sending' = [sending EXCEPT ![u] = Sends(TokenTo(boards'[STARTER], u, v), Len(frames'))]
    /\ calls' = [calls EXCEPT ![u][v] = @ + 1]
    /\ calm' = (calm /\ ~ Shaking)
    /\ UNCHANGED <<opened, conns, chats, dest, frame, threadVars, streams, closed, texts>>

\* The user of a writer, and what it has to write.
Writer(t)  == IF t \in Users THEN t ELSE Owner(t)
HasToWrite(t) == sending[t] # Nothing
Target(t)  == sending[t].message.to

\* No chat with that number: connect ...
Reach(t) ==
    /\ HasToWrite(t) /\ sending[t].reached = 0
    /\ ~ IsListed(Writer(t), Target(t))
    /\ Len(conns) < MaxConns
    /\ conns' = Append(conns, [from |-> Writer(t), to |-> Target(t)])
    /\ sending' = [sending EXCEPT ![t].reached = Len(conns')]
    /\ UNCHANGED <<userVars, frames, chats, dest, frame, threadVars, streams, closed,
                   boards, draws, texts>>

\* ... and, once the other side has greeted, list the chat and listen.  The
\* greeting comes from a thread that takes one connection after the other.
InTurn(c) == \A d \in 1 .. c - 1 : conns[d].to = conns[c].to => thread[<<d, NO_STARTER>>] # "none"
Join(t) ==
    LET e == <<sending[t].reached, STARTER>> IN
    /\ HasToWrite(t) /\ sending[t].reached # 0
    /\ thread[e] = "none"
    /\ InTurn(e[1])
    /\ chats' = [chats EXCEPT ![Writer(t)] = Append(@, e)]
    /\ dest' = [dest EXCEPT ![e] = Target(t)]
    /\ frame' = [frame EXCEPT ![e] = sending[t].frame]
    /\ thread' = [thread EXCEPT ![e] = "reading"]
    /\ countMsg' = [countMsg EXCEPT ![e] = 1]
    /\ sending' = [sending EXCEPT ![t].reached = 0]
    /\ UNCHANGED <<userVars, frames, conns, firstToken, streams, closed, boards, draws, texts>>

\* The message is written along the first chat with the number.
WriteFound(t) ==
    /\ HasToWrite(t) /\ sending[t].reached = 0
    /\ IsListed(Writer(t), Target(t))
    /\ streams' = AfterWriting(Find(Writer(t), Target(t)), sending[t].message)
    /\ sending' = [sending EXCEPT ![t] = Nothing]
    /\ thread' = IF t \in Users THEN thread ELSE [thread EXCEPT ![t] = "deriving"]
    /\ UNCHANGED <<userVars, frames, conns, chats, dest, frame, countMsg, firstToken,
                   closed, boards, draws, texts>>

\* ListenerThread lists the chat, its number not known yet.
TakeCall(c) ==
    LET e == <<c, NO_STARTER>> IN
    /\ c <= Len(conns) /\ thread[e] = "none"
    /\ InTurn(c)
    /\ chats' = [chats EXCEPT ![conns[c].to] = Append(@, e)]
    /\ thread' = [thread EXCEPT ![e] = "reading"]
    /\ UNCHANGED <<userVars, frames, conns, dest, frame, countMsg, firstToken, streams,
                   closed, sending, boards, draws, texts>>

-------------------------------------------------------------------------------
(**************************** Listener threads *****************************)

Reads(e) ==
    /\ e \in Used /\ thread[e] = "reading"
    /\ e \notin closed
    /\ streams[e] # <<>> /\ Head(streams[e]).kind # "END"
    /\ countMsg' = [countMsg EXCEPT ![e] = @ + 1]
    /\ streams' = [streams EXCEPT ![e] = Tail(@)]

\* What a message is as a token: a ciphertext is none that anybody drew.
AsToken(m) == IF m.kind = "token" THEN m.key ELSE {0}

\* The first message: its sender gives the chat its number, a window is made,
\* the board is asked for a token, to be sent to that number.
ReadFirst(e) ==
    /\ Reads(e) /\ countMsg'[e] = 1
    /\ dest' = [dest EXCEPT ![e] = Owner(Mate(e))]
    /\ frames' = Append(frames, [user |-> Owner(e), dest |-> Owner(Mate(e)),
                                 type |-> NO_STARTER, enabled |-> TRUE, shown |-> FALSE])
    /\ frame' = [frame EXCEPT ![e] = Len(frames')]
    /\ draws' = draws + 1
    /\ boards' = [boards EXCEPT ![NO_STARTER] = SendTokenShared(@, NO_STARTER, draws')]
    /\ firstToken' = [firstToken EXCEPT ![e] = AsToken(Head(streams[e]))]
    /\ sending' = [sending EXCEPT ![e] =
                      Sends(TokenTo(boards'[NO_STARTER], Owner(e), Owner(Mate(e))), Len(frames'))]
    /\ thread' = [thread EXCEPT ![e] = "answering"]
    /\ UNCHANGED <<userVars, conns, chats, closed, texts>>

\* setTokenShared(first_token).  (DeriveOwn: with the token sent instead;
\* FindAny and PlacesOrUnknown: taking any chat, or one without a number.)
DeriveOwn(e) ==
    /\ thread[e] = "deriving"
    /\ boards' = [boards EXCEPT ![NO_STARTER] = ReceivedTokenShared(@, @.my_k)]
    /\ thread' = [thread EXCEPT ![e] = "reading"]
    /\ UNCHANGED <<userVars, frames, conns, chats, dest, frame, countMsg, firstToken,
                   streams, closed, sending, draws, texts>>
Derive(e) ==
    /\ thread[e] = "deriving"
    /\ boards' = [boards EXCEPT ![NO_STARTER] = ReceivedTokenShared(@, firstToken[e])]
    /\ thread' = [thread EXCEPT ![e] = "reading"]
    /\ UNCHANGED <<userVars, frames, conns, chats, dest, frame, countMsg, firstToken,
                   streams, closed, sending, draws, texts>>

\* The second message at a STARTER: derive the key, enable the window.
ReadAnswer(e) ==
    /\ Reads(e) /\ countMsg'[e] = 2 /\ e[2] = STARTER
    /\ boards' = [boards EXCEPT ![STARTER] = ReceivedTokenShared(@, AsToken(Head(streams[e])))]
    /\ frames' = [frames EXCEPT ![frame[e]].enabled = TRUE]
    /\ UNCHANGED <<userVars, conns, chats, dest, frame, thread, firstToken, closed,
                   sending, draws, texts>>

\* Any other message is for the board to decrypt; a token has no msg_key,
\* which ends the thread.  The second message shows the window of a NO_STARTER.
ReadText(e) ==
    /\ Reads(e) /\ countMsg'[e] >= 2
    /\ e[2] = STARTER => countMsg'[e] > 2
    /\ IF Head(streams[e]).kind = "token"
       THEN thread' = [thread EXCEPT ![e] = "ended"] /\ UNCHANGED frames
       ELSE /\ frames' = IF e[2] = NO_STARTER /\ countMsg'[e] = 2
                         THEN [frames EXCEPT ![frame[e]].shown = TRUE] ELSE frames
            /\ UNCHANGED thread
    /\ UNCHANGED <<userVars, conns, chats, dest, frame, firstToken, closed, sending,
                   boards, draws, texts>>

\* closeChat and stopUpdates, or what is left of them without a chat: the
\* first chat with the number is closed and leaves the list, unless it has no
\* window to be asked for: that exception ends the thread before.  left are
\* the streams so far.
Closes(u, v, left) ==
    IF IsListed(u, v)
    THEN /\ closed' = closed \cup {Find(u, v)}
         /\ streams' = [left EXCEPT ![Find(u, v)] = <<>>]
         /\ chats' = IF frame[Find(u, v)] = 0 THEN chats
                     ELSE [chats EXCEPT ![u] = RemoveAt(@, Place(u, v))]
    ELSE UNCHANGED <<closed, streams, chats>>

\* END: the chat with the number is closed, its window too.  A dialog says so
\* first if the window is up, which takes the event thread.  Before the first
\* message the number is Nobody, and that may be any chat without a number.
ReadClose(e) ==
    LET u == Owner(e)
        a == Find(u, dest[e])
    IN
    /\ e \in Used /\ thread[e] = "reading" /\ e \notin closed
    /\ streams[e] # <<>> /\ Head(streams[e]).kind = "END"
    /\ IsListed(u, dest[e]) /\ frame[a] # 0 /\ frames[frame[a]].shown => EventFree(u)
    /\ Closes(u, dest[e], streams)
    /\ frames' = IF IsListed(u, dest[e]) /\ frame[a] # 0
                 THEN [frames EXCEPT ![frame[a]].shown = FALSE] ELSE frames
    /\ thread' = [thread EXCEPT ![e] = "ended"]
    /\ UNCHANGED <<userVars, conns, dest, frame, countMsg, firstToken, sending, boards, draws, texts>>

\* The socket is closed, at this end or, all being read, at the other.
SocketEnds(e) ==
    /\ e \in Used /\ thread[e] = "reading"
    /\ e \in closed \/ (Mate(e) \in closed /\ streams[e] = <<>>)
    /\ thread' = [thread EXCEPT ![e] = "ended"]
    /\ streams' = [streams EXCEPT ![e] = <<>>]
    /\ UNCHANGED <<userVars, frames, conns, chats, dest, frame, countMsg, firstToken,
                   closed, sending, boards, draws, texts>>

-------------------------------------------------------------------------------
(******************************* The windows *******************************)

\* "Send Message": encrypt on the board of the window's role, then send.
PressSend(f) ==
    LET w == frames[f] IN
    /\ f \in DOMAIN frames
    /\ w.shown /\ w.enabled
    /\ EventFree(w.user)
    /\ texts < MaxTexts
    /\ texts' = texts + 1
    /\ sending' = [sending EXCEPT ![w.user] = Sends(CipherTo(boards[w.type], w.user, w.dest), f)]
    /\ UNCHANGED <<userVars, frames, conns, chats, dest, frame, threadVars, streams,
                   closed, boards, draws>>

\* "Close Chat": END to the first chat with the number, which is closed.
PressClose(f) ==
    LET w == frames[f] IN
    /\ f \in DOMAIN frames
    /\ w.shown
    /\ EventFree(w.user)
    /\ frames' = [frames EXCEPT ![f].shown = FALSE]
    /\ Closes(w.user, w.dest, IF IsListed(w.user, w.dest)
                              THEN AfterWriting(Find(w.user, w.dest), EndOfChat) ELSE streams)
    /\ calm' = (calm /\ w.enabled)
    /\ UNCHANGED <<contacts, opened, calls, conns, dest, frame, threadVars, sending,
                   boards, draws, texts>>


NetNext ==
    \/ \E u \in Users : OpenContacts(u) \/ \E v \in Users : StartCall(u, v)
    \/ \E t \in Writers : Reach(t) \/ Join(t) \/ WriteFound(t)
    \/ \E c \in 1 .. MaxConns : TakeCall(c)
    \/ \E e \in Ends :
          \/ ReadFirst(e) \/ Derive(e) \/ ReadAnswer(e) \/ ReadText(e)
          \/ ReadClose(e) \/ SocketEnds(e)
    \/ \E f \in 1 .. Len(frames) : PressSend(f) \/ PressClose(f)

NetSpec == NetInit /\ [][NetNext]_netVars

-------------------------------------------------------------------------------
(******************************* Properties ********************************)

Lone(u, v) == calls[u][v] + calls[v][u] <= 1
Quiet(v)   == \A u \in Users : Lone(u, v)

\* A listener thread meets a token or a ciphertext where its count expects one
\* unless the same two users have called each other, or one the other twice: the
\* check for active chats is made long before the call, and messages go to the
\* first chat with the number, but third users do no harm to that.
MessagesFitTheirCount ==
    \A e \in Used :
        Lone(Owner(e), Owner(Mate(e))) /\ streams[e] # <<>> =>
            LET m == Head(streams[e]) IN
            /\ m.kind = "token" => countMsg[e] = IF e[2] = STARTER THEN 1 ELSE 0
            /\ m.kind = "cipher" => countMsg[e] >= IF e[2] = STARTER THEN 2 ELSE 1

\* Whoever calls whom, also when two chats have the same number: what is under
\* way to a user was written to that user by the one whose name is on the
\* window it will be shown in.
NothingGoesAstray ==
    \A e \in Used :
        /\ \A i \in DOMAIN streams[e] : streams[e][i].kind # "END" =>
              streams[e][i].from = Owner(Mate(e)) /\ streams[e][i].to = Owner(e)
        /\ frame[e] # 0 => /\ frames[frame[e]].user = Owner(e)
                           /\ frames[frame[e]].dest = Owner(Mate(e))

\* A call resets both boards under every other chat.  They hold one key again
\* when its handshake is through, if no two handshakes overlapped, none was
\* given up, and nobody called along a chat there was.
BoardsStayPaired ==
    /\ calm /\ ~ Shaking
    /\ \A u, v \in Users : Lone(u, v)
    => boards[STARTER].my_k = boards[NO_STARTER].my_k

\* A call is never forgotten, if whoever is called has no two calls with the
\* same other user: as long as its window waits, something is under way that
\* will reach it.  (Two calls between two users can leave a window waiting for
\* ever, a third user's too: an END that is the first message read along a
\* chat closes any other chat that has no number yet.)
UnderWay(f) ==
    \/ sending[frames[f].user].frame = f
    \/ \E e \in Used :
          /\ e[2] = STARTER /\ frame[e] = f
          /\ thread[e] = "reading" /\ e \notin closed
          /\ \/ streams[e] # <<>>
             \/ streams[Mate(e)] # <<>> /\ thread[Mate(e)] \in {"none", "reading"}
             \/ thread[Mate(e)] = "answering"
CallsAreAnswered ==
    \A f \in DOMAIN frames :
        LET w == frames[f] IN
        w.type = STARTER /\ w.shown /\ ~ w.enabled /\ Quiet(w.dest) => UnderWay(f)
===============================================================================
