----------------------------- MODULE MCBoardLife -----------------------------
(***************************************************************************)
(* What TLC checks of boards that are used for long, in one run: either    *)
(* the random numbers of one board over several power cuts (RandomPool),   *)
(* or a chat that outlives the range of its numbers (SecureLink).          *)
(***************************************************************************)
EXTENDS RandomPool, SecureLink, TLC

VARIABLE run

\* One direction is used beyond the wrap-around of the 16-bit numbers.
LongChat == (Caller :> 17) @@ (Callee :> 1)

Pool(A) == run = "pool" /\ A /\ UNCHANGED <<run, vars>>
Chat(A) == run = "chat" /\ A /\ UNCHANGED <<run, poolVars>>

LifeInit == run \in {"pool", "chat"} /\ PoolInit /\ Init

LifeNext ==
    \/ Pool(begin) \/ Pool(Save) \/ Pool(WriteSome) \/ Pool(WriteSeed) \/ Pool(Mark)
    \/ Pool(destroy) \/ Pool(PowerCut)
    \/ \E len \in Lengths :
          Pool(rand(len)) \/ \E credit \in Credits : Pool(stir(len, credit))
    \/ \E fired, due \in BOOLEAN : Pool(loop(fired, due))
    \/ Chat(Call) \/ Chat(CallUnanswered) \/ Chat(Accept) \/ Chat(AnswerToken)
    \/ Chat(DeriveKey) \/ Chat(TakeAnswer) \/ Chat(LinkLost)
    \/ \E p \in Peers :
          \/ \E w \in Words : Chat(Send(p, w))
          \/ Chat(SendFails(p)) \/ Chat(Hangup(p))
          \/ Chat(ReadHashing(p)) \/ Chat(ReadNumbered(p))
          \/ Chat(ReadEnd(p)) \/ Chat(ListenerDies(p))

LifeSpec == LifeInit /\ [][LifeNext]_<<run, vars, poolVars>>
===============================================================================
