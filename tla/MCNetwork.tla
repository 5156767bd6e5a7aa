----------------------------- MODULE MCNetwork -----------------------------
(***************************************************************************)
(* What TLC checks of chats, in one run: either one chat of SecureLink,    *)
(* from the call to its end, or three users of ChatNetwork.                *)
(***************************************************************************)
EXTENDS MCSecureLink, ChatNetwork

CONSTANTS anna, bruno, carla

VARIABLE run

\* Two users who call each other, and a third who calls one of them.
Callers == {<<anna, bruno>>, <<bruno, anna>>, <<carla, anna>>}

Link(A)    == run = "link" /\ A /\ UNCHANGED <<run, netVars>>
Network(A) == run = "network" /\ A /\ UNCHANGED <<run, vars>>

EitherInit == run \in {"link", "network"} /\ Init /\ NetInit

EitherNext ==
    \/ Link(Call) \/ Link(CallUnanswered) \/ Link(Accept) \/ Link(AnswerToken)
    \/ Link(DeriveKey) \/ Link(TakeAnswer) \/ Link(LinkLost)
    \/ \E p \in Peers :
          \/ \E w \in Words : Link(Send(p, w))
          \/ Link(SendFails(p)) \/ Link(Hangup(p))
          \/ Link(ReadHashing(p)) \/ Link(ReadNumbered(p))
          \/ Link(ReadEnd(p)) \/ Link(ListenerDies(p))
    \/ \E u \in Users :
          \/ Network(OpenContacts(u))
          \/ \E v \in Users : Network(StartCall(u, v))
    \/ \E t \in Writers : Network(Reach(t)) \/ Network(Join(t)) \/ Network(WriteFound(t))
    \/ \E c \in 1 .. MaxConns : Network(TakeCall(c))
    \/ \E e \in Ends :
          \/ Network(ReadFirst(e)) \/ Network(Derive(e)) \/ Network(ReadAnswer(e))
          \/ Network(ReadText(e)) \/ Network(ReadClose(e)) \/ Network(SocketEnds(e))
    \/ \E f \in 1 .. Len(frames) : Network(PressSend(f)) \/ Network(PressClose(f))

EitherSpec ==
    /\ EitherInit /\ [][EitherNext]_<<run, vars, netVars>>
    /\ Fairness
===============================================================================
