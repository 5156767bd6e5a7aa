------------------------------ MODULE SecureLink ------------------------------
(***************************************************************************)
(* One chat, end to end: the two PCs, their boards and the TLS connection  *)
(* between them, from the call to the end of the chat.                     *)
(*                                                                         *)
(* The Caller's window runs the handshake and sends the first token; the   *)
(* Callee's MessageListenerThread (NO_STARTER) answers with its own token  *)
(* and derives the key; the Caller's thread (STARTER) derives the key from *)
(* the answer.  From then on each Send is an encrypt on one board and, in  *)
(* order, a decrypt on the other.  A command to a board is one step: the   *)
(* serial port is held from the command to the answer.                     *)
(***************************************************************************)
EXTENDS Board, Sequences

CONSTANTS Caller, Callee,   \* the two users; each draws one secret in a chat
          MaxTyped,         \* MaxTyped[p]: texts p types at most
          MaxInFlight,      \* messages one direction of the connection holds
          Words             \* does a text hold "HASHING" or "wrong"?

Peers == {Caller, Callee}
Other(p) == IF p = Caller THEN Callee ELSE Caller

ASSUME LinkAssumption ==
    /\ Caller # Callee
    /\ Peers \subseteq Secrets
    /\ MaxTyped \in [Peers -> Nat]
    /\ MaxInFlight \in Nat \ {0}
    /\ Words \subseteq BOOLEAN

VARIABLES board,     \* board[p]: the Arduino attached to p's PC
          phase,     \* phase[p]: where p's side of the chat is
          window,    \* window[p]: p's chat window
          first,     \* the token the Callee received (first_token)
          net,       \* net[p]: what the connection holds for p, oldest first
          connected, \* the TLS connection is up
          typed,     \* typed[p]: texts p has typed and encrypted
          verdict,   \* verdict[p]: what p's board made of the last message
          shown      \* shown[p]: the last text in p's chat box

vars == <<board, phase, window, first, net, connected, typed, verdict, shown>>

\* "awaitToken": the next message is the peer's token (countMsg); "deriving":
\* the Callee has answered and has not called setTokenShared yet; "broken":
\* the listener thread has ended on an exception, the window is still there.
Phases   == {"idle", "awaitToken", "deriving", "open", "broken", "closed"}
\* "waiting": up, Send disabled; "failed": showing the dialog after a failed send.
Windows  == {"none", "waiting", "usable", "failed"}
Verdicts == {"none", "confirmed", "HASHING", "wrong"}

Message    == [kind : {"token", "cipher", "END"}, key : Keys, number : Int16,
               text : Nat, word : BOOLEAN]
Token(k)   == [kind |-> "token", key |-> k, number |-> 0, text |-> 0, word |-> FALSE]
Cipher(b, t, w) ==
    [kind |-> "cipher", key |-> b.my_k, number |-> b.out_seq_no, text |-> t, word |-> w]
EndMessage == [kind |-> "END", key |-> {}, number |-> 0, text |-> 0, word |-> FALSE]

TypeOK ==
    /\ board \in [Peers -> Boards]
    /\ phase \in [Peers -> Phases]
    /\ window \in [Peers -> Windows]
    /\ first \in Keys
    /\ net \in [Peers -> Seq(Message)]
    /\ connected \in BOOLEAN
    /\ typed \in [Peers -> Nat]
    /\ verdict \in [Peers -> Verdicts]
    /\ shown \in [Peers -> Nat]

Init ==
    /\ board = [p \in Peers |-> PoweredUp]
    /\ phase = [p \in Peers |-> "idle"]
    /\ window = [p \in Peers |-> "none"]
    /\ first = {}
    /\ net = [p \in Peers |-> <<>>]
    /\ connected = FALSE
    /\ typed = [p \in Peers |-> 0]
    /\ verdict = [p \in Peers |-> "none"]
    /\ shown = [p \in Peers |-> 0]

\* What the connection holds after p's end has written m: nothing more when
\* the other end has closed its socket or the connection is lost.
Written(p, m) ==
    IF connected /\ phase[Other(p)] # "closed"
    THEN [net EXCEPT ![Other(p)] = Append(@, m)]
    ELSE net

-------------------------------------------------------------------------------
(***************************** The handshake *******************************)

\* ChatFrame.handshake on the Caller's event thread, and sendHandshakeMessage,
\* which finds no chat, connects and writes the token.
Call ==
    /\ phase[Caller] = "idle"
    /\ board' = [board EXCEPT ![Caller] = SendTokenShared(@, STARTER, Caller)]
    /\ net' = [net EXCEPT ![Callee] = Append(@, Token(board'[Caller].my_k))]
    /\ connected' = TRUE
    /\ phase' = [phase EXCEPT ![Caller] = "awaitToken"]
    /\ window' = [window EXCEPT ![Caller] = "waiting"]
    /\ UNCHANGED <<first, typed, verdict, shown>>

\* The same with nobody listening: the exception is only printed, no chat
\* exists, and the window that stays has its Send button disabled for good.
CallUnanswered ==
    /\ phase[Caller] = "idle"
    /\ board' = [board EXCEPT ![Caller] = SendTokenShared(@, STARTER, Caller)]
    /\ phase' = [phase EXCEPT ![Caller] = "closed"]
    /\ UNCHANGED <<window, first, net, connected, typed, verdict, shown>>

\* ListenerThread takes the connection, without asking anybody.
Accept ==
    /\ phase[Callee] = "idle"
    /\ connected
    /\ phase' = [phase EXCEPT ![Callee] = "awaitToken"]
    /\ UNCHANGED <<board, window, first, net, connected, typed, verdict, shown>>

\* countMsg = 1 on the Callee: ask the board for a token, send it back.
\* (AnswerTokenSilent, ReceivesLatestOnly and ListenerDiesAtOnce: how the step
\* could have gone wrong; only the runs that test the properties use them.)
AnswerTokenSilent ==
    /\ phase[Callee] = "awaitToken"
    /\ net[Callee] # <<>>
    /\ Head(net[Callee]).kind # "END"
    /\ board' = [board EXCEPT ![Callee] = SendTokenShared(@, NO_STARTER, Callee)]
    /\ first' = Head(net[Callee]).key
    /\ net' = [net EXCEPT ![Callee] = Tail(@)]
    /\ phase' = [phase EXCEPT ![Callee] = "deriving"]
    /\ UNCHANGED <<window, connected, typed, verdict, shown>>
AnswerToken ==
    /\ phase[Callee] = "awaitToken"
    /\ net[Callee] # <<>>
    /\ Head(net[Callee]).kind # "END"
    /\ board' = [board EXCEPT ![Callee] = SendTokenShared(@, NO_STARTER, Callee)]
    /\ first' = Head(net[Callee]).key
    /\ net' = [Written(Callee, Token(board'[Callee].my_k)) EXCEPT ![Callee] = Tail(@)]
    /\ phase' = [phase EXCEPT ![Callee] = "deriving"]
    /\ UNCHANGED <<window, connected, typed, verdict, shown>>

\* ... and only then setTokenShared(first_token), whose answer is ignored.
DeriveKey ==
    /\ phase[Callee] = "deriving"
    /\ board' = [board EXCEPT ![Callee] = ReceivedTokenShared(@, first)]
    /\ phase' = [phase EXCEPT ![Callee] = "open"]
    /\ UNCHANGED <<window, first, net, connected, typed, verdict, shown>>

\* countMsg = 2 on the Caller: derive the key and enable the Send button.
TakeAnswer ==
    /\ phase[Caller] = "awaitToken"
    /\ net[Caller] # <<>>
    /\ Head(net[Caller]).kind # "END"
    /\ board' = [board EXCEPT ![Caller] = ReceivedTokenShared(@, Head(net[Caller]).key)]
    /\ net' = [net EXCEPT ![Caller] = Tail(@)]
    /\ phase' = [phase EXCEPT ![Caller] = "open"]
    /\ window' = [window EXCEPT ![Caller] = "usable"]
    /\ UNCHANGED <<first, connected, typed, verdict, shown>>

-------------------------------------------------------------------------------
(******************************* Messages **********************************)

\* The Send button: encrypt on the board, then write.  A write to a peer that
\* has gone may still succeed (the bytes stay in a buffer) ...
Send(p, w) ==
    /\ window[p] = "usable"
    /\ typed[p] < MaxTyped[p]
    /\ Len(net[Other(p)]) < MaxInFlight
    /\ board' = [board EXCEPT ![p] = EncryptMessage(@)]
    /\ typed' = [typed EXCEPT ![p] = @ + 1]
    /\ net' = Written(p, Cipher(board'[p], typed'[p], w))
    /\ UNCHANGED <<phase, window, first, connected, verdict, shown>>

\* ... or fail: the number is used up and a dialog is up; dismissing it closes
\* the chat (Hangup).
SendFails(p) ==
    /\ window[p] = "usable"
    /\ typed[p] < MaxTyped[p]
    /\ ~ connected \/ phase[Other(p)] = "closed"
    /\ board' = [board EXCEPT ![p] = EncryptMessage(@)]
    /\ typed' = [typed EXCEPT ![p] = @ + 1]
    /\ window' = [window EXCEPT ![p] = "failed"]
    /\ UNCHANGED <<phase, first, net, connected, verdict, shown>>

\* The listener thread of p has a ciphertext for the board.
ReceivesLatestOnly(p) ==
    /\ phase[p] = "open"
    /\ net[p] # <<>>
    /\ Head(net[p]).kind # "END"
    /\ net' = [net EXCEPT ![p] = <<>>]
    /\ window' = [window EXCEPT ![p] = IF @ = "none" THEN "usable" ELSE @]
    /\ UNCHANGED <<phase, first, connected, typed>>
Receives(p) ==
    /\ phase[p] = "open"
    /\ net[p] # <<>>
    /\ Head(net[p]).kind # "END"
    /\ net' = [net EXCEPT ![p] = Tail(@)]
    \* countMsg = 2 shows the Callee's window
    /\ window' = [window EXCEPT ![p] = IF @ = "none" THEN "usable" ELSE @]
    /\ UNCHANGED <<phase, first, connected, typed>>

\* The number the board reads: the one encrypted, unless the keys differ.
NumbersRead(b, m) == IF m.key = b.my_k THEN {m.number} ELSE Int16

\* The two message keys are compared through memory that compute_msg_key
\* leaves uninitialised: either outcome is possible for any message.  When
\* they come out equal the board answers "HASHING NOT MATCHING".
ReadHashing(p) ==
    /\ Receives(p)
    /\ board' = [board EXCEPT ![p] = DecryptHashing(@)]
    /\ verdict' = [verdict EXCEPT ![p] = "HASHING"]
    /\ UNCHANGED shown

\* Otherwise the number decides.  A text with one of the board's own error
\* words in it is kept from the window, like the board's own answer would be.
ReadNumbered(p) ==
    /\ Receives(p)
    /\ \E n \in NumbersRead(board[p], Head(net[p])) :
          /\ board' = [board EXCEPT ![p] = DecryptNumbered(@, n)]
          /\ \/ /\ NumberAccepted(board[p], n)
                /\ verdict' = [verdict EXCEPT ![p] = "confirmed"]
                /\ shown' = IF Head(net[p]).word THEN shown
                            ELSE [shown EXCEPT ![p] = Head(net[p]).text]
             \/ /\ ~ NumberAccepted(board[p], n)
                /\ verdict' = [verdict EXCEPT ![p] = "wrong"]
                /\ UNCHANGED shown

-------------------------------------------------------------------------------
(*************************** The end of a chat *****************************)

\* The window is closed, by "Close Chat" or after a failed send: closeChat(dest, true), stopUpdates.
Hangup(p) ==
    /\ phase[p] # "closed"
    /\ window[p] # "none"
    /\ net' = [Written(p, EndMessage) EXCEPT ![p] = <<>>]
    /\ phase' = [phase EXCEPT ![p] = "closed"]
    /\ window' = [window EXCEPT ![p] = "none"]
    /\ UNCHANGED <<board, first, connected, typed, verdict, shown>>

\* END_COMMUNICATION: closeChat(dest, false), stopUpdates, the thread ends.
ReadEnd(p) ==
    /\ phase[p] \in {"awaitToken", "open"}
    /\ net[p] # <<>>
    /\ Head(net[p]).kind = "END"
    /\ phase' = [phase EXCEPT ![p] = "closed"]
    /\ window' = [window EXCEPT ![p] = "none"]
    /\ net' = [net EXCEPT ![p] = <<>>]
    /\ UNCHANGED <<board, first, connected, typed, verdict, shown>>

\* The connection is lost; of what was under way a first part still arrives.
Prefix(s, n) == [i \in 1 .. n |-> s[i]]
LinkLost ==
    /\ connected
    /\ connected' = FALSE
    /\ \E arrived \in [Peers -> 0 .. MaxInFlight + 2] :
          /\ \A p \in Peers : arrived[p] <= Len(net[p])
          /\ net' = [p \in Peers |-> Prefix(net[p], arrived[p])]
    /\ UNCHANGED <<board, phase, window, first, typed, verdict, shown>>

\* The listener thread finds the stream at its end and leaves on an exception.
ListenerDiesAtOnce(p) ==
    /\ phase[p] \in {"awaitToken", "open"}
    /\ ~ connected
    /\ phase' = [phase EXCEPT ![p] = "broken"]
    /\ UNCHANGED <<board, window, first, net, connected, typed, verdict, shown>>
ListenerDies(p) ==
    /\ phase[p] \in {"awaitToken", "open"}
    /\ ~ connected
    /\ net[p] = <<>>
    /\ phase' = [phase EXCEPT ![p] = "broken"]
    /\ UNCHANGED <<board, window, first, net, connected, typed, verdict, shown>>

-------------------------------------------------------------------------------
Listen(p) == ReadHashing(p) \/ ReadNumbered(p) \/ ReadEnd(p) \/ ListenerDies(p)

Next ==
    \/ Call \/ CallUnanswered \/ Accept \/ AnswerToken \/ DeriveKey \/ TakeAnswer
    \/ \E p \in Peers :
          \/ \E w \in Words : Send(p, w)
          \/ SendFails(p) \/ Hangup(p) \/ Listen(p)
    \/ LinkLost

Spec == Init /\ [][Next]_vars

\* The threads keep running and a board answers every command; users and the
\* network owe nothing.
Fairness ==
    /\ WF_vars(Accept) /\ WF_vars(AnswerToken) /\ WF_vars(DeriveKey) /\ WF_vars(TakeAnswer)
    /\ \A p \in Peers : WF_vars(Listen(p))
FairSpec == Spec /\ Fairness

-------------------------------------------------------------------------------
(******************************* Properties ********************************)

\* Whatever a listener thread reads next is what its phase is ready for: no
\* ciphertext before the key is derived, no token after it, and never a
\* ciphertext under another key than the one its own board holds (the two
\* derivations of MessageListenerThread against the Send button).
NextIsReadable ==
    \A p \in Peers :
        net[p] # <<>> =>
            /\ phase[p] = "awaitToken" => Head(net[p]).kind # "cipher"
            /\ phase[p] = "open" => /\ Head(net[p]).kind # "token"
                                    /\ Head(net[p]).kind = "cipher" =>
                                           Head(net[p]).key = board[p].my_k

\* A board whose last answer was not "HASHING NOT MATCHING" accepts the next
\* message: one unconfirmed message costs at most the one after it, however
\* many were under way (in_seq_no is taken over even from a refused message).
InStep ==
    \A p \in Peers :
        /\ phase[p] = "open"
        /\ verdict[p] # "HASHING"
        /\ net[p] # <<>>
        /\ Head(net[p]).kind = "cipher"
        => NumberAccepted(board[p], Head(net[p]).number)

\* A message is never good for the board that encrypted it: the two
\* directions use numbers of different parity, also after the wrap-around.
NotForItsSender ==
    \A p \in Peers : \A i \in DOMAIN net[Other(p)] :
        net[Other(p)][i].kind = "cipher" =>
            ~ NumberAccepted(board[p], net[Other(p)][i].number)

\* As long as 2*out_seq_no+x has not left 16 bits (14 texts of the Caller, 13
\* of the Callee) the numbers of a direction grow, so no two texts share one.
Fresh(p) == IF p = Caller THEN 14 ELSE 13
NumbersGrow ==
    \A p \in Peers : \A i \in DOMAIN net[Other(p)] :
        LET m == net[Other(p)][i] IN
        m.kind = "cipher" /\ m.text < typed[p] /\ typed[p] <= Fresh(p) =>
            m.number < board[p].out_seq_no

\* When everything sent in a standing chat has been read and the board
\* confirmed the last text, that text is in the window.
ConfirmedIsShown ==
    \A p \in Peers :
        /\ phase[p] = "open"
        /\ connected
        /\ net[p] = <<>>
        /\ verdict[p] = "confirmed"
        => shown[p] = typed[Other(p)]

\* The board answers "HASHING NOT MATCHING" to a message that is not intact;
\* here every message is.
NoIntactTextRefused == \A p \in Peers : verdict[p] # "HASHING"

\* The chat keeps the promise of MessageDelivery: texts are judged once and in
\* order, and lost for its three reasons only.
TextOf(m)  == [text |-> m.text, word |-> m.word]
TextsIn(s) == {TextOf(s[i]) : i \in {j \in DOMAIN s : s[j].kind = "cipher"}}
TypedFor == [p \in Peers |-> typed[Other(p)]]
Pending  == [p \in Peers |-> TextsIn(net[p])]
Intact   == [p \in Peers |-> verdict[p] # "HASHING"]

Delivery == INSTANCE MessageDelivery WITH
    typed <- TypedFor, pending <- Pending, shown <- shown, inStep <- Intact

DeliveryHolds == Delivery!Spec

\* A call that reached the other PC is answered, or the Caller learns it never
\* will be: its window does not wait for a token for ever.
HandshakeSettles == phase[Caller] = "awaitToken" ~> phase[Caller] # "awaitToken"

\* A text under way is judged by the other board or the chat is over.
TextsJudged ==
    \A p \in Peers : \A t \in 1 .. MaxTyped[Other(p)] :
        (\E i \in DOMAIN net[p] : net[p][i].text = t)
            ~> ~ (\E i \in DOMAIN net[p] : net[p][i].text = t)
===============================================================================
