--------------------------- MODULE MessageDelivery ---------------------------
(***************************************************************************)
(* What a chat promises about the texts typed into it, without boards,     *)
(* keys or sequence numbers.  The texts of one direction are numbered in   *)
(* the order they are typed and each is looked at once, oldest first.  A   *)
(* text that arrives may fail to be shown for three reasons only: the      *)
(* board could not confirm it (Garble), the board has to get back in step  *)
(* right after a text it could not confirm (Resync), or the text holds one *)
(* of the board's own error words (Swallow).                               *)
(***************************************************************************)
EXTENDS Naturals

CONSTANT Peers

VARIABLES typed,    \* typed[p]: how many texts have been typed for p
          pending,  \* pending[p]: the texts on their way to p, with their word flag
          shown,    \* shown[p]: the last text p's user was shown
          inStep    \* inStep[p]: p's board confirmed what it saw last

vars == <<typed, pending, shown, inStep>>

Init ==
    /\ typed   = [p \in Peers |-> 0]
    /\ pending = [p \in Peers |-> {}]
    /\ shown   = [p \in Peers |-> 0]
    /\ inStep  = [p \in Peers |-> TRUE]

Oldest(p, m) == m \in pending[p] /\ \A u \in pending[p] : m.text <= u.text

\* A text is typed for p; it does not set out when the chat is already over.
Post(p, w) ==
    /\ typed' = [typed EXCEPT ![p] = @ + 1]
    /\ \/ pending' = [pending EXCEPT ![p] = @ \cup {[text |-> typed[p] + 1, word |-> w]}]
       \/ UNCHANGED pending
    /\ UNCHANGED <<shown, inStep>>

Take(p, m) ==
    /\ Oldest(p, m)
    /\ pending' = [pending EXCEPT ![p] = @ \ {m}]
    /\ UNCHANGED typed

Show(p, m) ==
    /\ Take(p, m)
    /\ ~ m.word
    /\ m.text > shown[p]
    /\ shown'  = [shown EXCEPT ![p] = m.text]
    /\ inStep' = [inStep EXCEPT ![p] = TRUE]

Swallow(p, m) ==
    /\ Take(p, m)
    /\ m.word
    /\ inStep' = [inStep EXCEPT ![p] = TRUE]
    /\ UNCHANGED shown

Garble(p, m) ==
    /\ Take(p, m)
    /\ inStep' = [inStep EXCEPT ![p] = FALSE]
    /\ UNCHANGED shown

Resync(p, m) ==
    /\ ~ inStep[p]
    /\ Take(p, m)
    /\ inStep' = [inStep EXCEPT ![p] = TRUE]
    /\ UNCHANGED shown

\* The chat ends: of the texts on their way only the first ones arrive.
CutOff ==
    /\ pending' \in [Peers -> SUBSET UNION {pending[p] : p \in Peers}]
    /\ \A p \in Peers :
          /\ pending'[p] \subseteq pending[p]
          /\ \A m \in pending'[p], u \in pending[p] : u.text <= m.text => u \in pending'[p]
    /\ UNCHANGED <<typed, shown, inStep>>

Next ==
    \/ \E p \in Peers, w \in BOOLEAN : Post(p, w)
    \/ \E p \in Peers : \E m \in pending[p] :
          Show(p, m) \/ Swallow(p, m) \/ Garble(p, m) \/ Resync(p, m)
    \/ CutOff

Spec == Init /\ [][Next]_vars
===============================================================================
