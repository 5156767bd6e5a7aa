---------------------------- MODULE KeystoreProofs ----------------------------
(***************************************************************************)
(* Proofs about Keystore, for any number of chats, texts and incidents.    *)
(***************************************************************************)
EXTENDS Keystore, SequenceTheorems, TLAPS

HasPort(t) == job[t].at \in {"writing", "reading"}

\* Which commands a thread runs, with which keystore, how far into its lines.
JobInv(t) ==
    Busy(t) =>
        /\ job[t].op \in Commands
        /\ job[t].sem \in 1 .. Len(permits)
        /\ job[t].key \in Keystores
        /\ t = Swing => job[t].key[2] = "window" /\ job[t].op \in {1, 3}
        /\ t # Swing => job[t].key = <<t, "listener">> /\ job[t].op \in {1, 2, 4}
        /\ job[t].op = 4 => texts[t] < MaxTexts
        /\ job[t].at = "writing" => job[t].left \in 1 .. Lines(job[t].op)
        /\ job[t].at \in {"waiting", "opening"} => job[t].left = Lines(job[t].op)

\* A port is open for the keystore of the one thread that has it.
PortInv ==
    /\ \A t \in Threads : HasPort(t) => owner[Port(job[t].key)] = job[t].key
    /\ \A p \in Ports : owner[p] \in Keystores =>
          \E t \in Threads : HasPort(t) /\ job[t].key = owner[p] /\ Port(job[t].key) = p
    /\ \A p \in Ports : owner[p] = Guest => "guest" \in upset

\* The board is as far as the thread that has its port: it takes each line,
\* and has printed what the thread can read.
InTime(j, b, a) ==
    /\ j.at = "writing" =>
          /\ a = <<>>
          /\ b = IF j.left = Lines(j.op) THEN Resting
                 ELSE [op |-> j.op, left |-> j.left, said |-> 0, whole |-> TRUE]
    /\ j.at = "reading" =>
          /\ \/ b = Resting /\ Len(a) = Answers(j.op)
             \/ b = [op |-> j.op, left |-> 0, said |-> Len(a), whole |-> TRUE]
          /\ \A i \in DOMAIN a : a[i] = [op |-> j.op, whole |-> TRUE]
BoardInv ==
    /\ \A p \in Ports : /\ board[p].op = 0 => board[p] = Resting
                        /\ board[p].said < Answers(board[p].op)
    /\ \A t \in Threads : HasPort(t) /\ job[t].sure =>
          InTime(job[t], board[Port(job[t].key)], answers[Port(job[t].key)])
    /\ "exited" \notin upset => \A t \in Threads : HasPort(t) => job[t].sure

\* What the threads of a chat are busy with at each stage of it.
StageInv ==
    /\ \A c \in Chats : stage[c] # "new" => permits # <<>>
    /\ \A c \in Chats : Busy(c) =>
          /\ job[c].op = 1 => stage[c] = "answering"
          /\ job[c].op = 2 => stage[c] = "deriving"
          /\ job[c].op = 4 => stage[c] = "open"
    /\ Busy(Swing) =>
          /\ job[Swing].op = 1 => stage[job[Swing].key[1]] = "calling"
          /\ job[Swing].op = 3 => stage[job[Swing].key[1]] \in {"open", "failed"}

IInv ==
    /\ TypeOK
    /\ \A t \in Threads : JobInv(t)
    /\ PortInv
    /\ BoardInv
    /\ BoardsComeToRest
    /\ StageInv
    /\ CalmIsExclusive
    /\ LoneChatIsCalm

-------------------------------------------------------------------------------
(****************************** Small facts ********************************)

LEMMA PortOfKey == ASSUME NEW k \in Keystores PROVE Port(k) \in Ports
BY DEF Port, Ports, Keystores

\* A keystore is neither of the two marks.
LEMMA KeysAreKeys == Free \notin Keystores /\ Guest \notin Keystores /\ Free # Guest
<1>1. ASSUME NEW k \in Keystores PROVE Len(k) = 2
  BY DEF Keystores
<1>2. Len(Free) = 1 /\ Len(Guest) = 1
  BY DEF Free, Guest
<1>3. Free[1] = "free" /\ Guest[1] = "guest"
  BY DEF Free, Guest
<1> QED BY <1>1, <1>2, <1>3

\* The keystores of the windows belong to the event thread, those of the
\* listeners each to its own thread.
LEMMA OneThreadPerKey ==
    ASSUME NEW t \in Threads, NEW u \in Threads, JobInv(t), JobInv(u),
           Busy(t), Busy(u), job[t].key = job[u].key
    PROVE  t = u
<1>1. CASE t = Swing /\ u # Swing
  <2>1. job[t].key[2] = "window" /\ job[u].key = <<u, "listener">>
    BY <1>1 DEF JobInv
  <2> QED BY <2>1
<1>2. CASE t # Swing /\ u = Swing
  <2>1. job[u].key[2] = "window" /\ job[t].key = <<t, "listener">>
    BY <1>2 DEF JobInv
  <2> QED BY <2>1
<1>3. CASE t # Swing /\ u # Swing
  <2>1. job[t].key = <<t, "listener">> /\ job[u].key = <<u, "listener">>
    BY <1>3 DEF JobInv
  <2>2. <<t, "listener">>[1] = t /\ <<u, "listener">>[1] = u
    OBVIOUS
  <2> QED BY <2>1, <2>2
<1> QED BY <1>1, <1>2, <1>3

\* A semaphore changes and the others stay.
LEMMA PermitSet ==
    ASSUME permits \in Seq(Nat), NEW i \in 1 .. Len(permits), NEW n \in Nat
    PROVE  /\ [permits EXCEPT ![i] = n] \in Seq(Nat)
           /\ Len([permits EXCEPT ![i] = n]) = Len(permits)
           /\ [permits EXCEPT ![i] = n][i] = n
BY ExceptSeq

LEMMA AnswersStay ==
    /\ <<>> \in AnswerLines
    /\ \A a \in AnswerLines, l \in [op : Commands, whole : BOOLEAN] : Append(a, l) \in AnswerLines
<1> DEFINE L == [op : Commands, whole : BOOLEAN]
<1> HIDE DEF L
<1>1. <<>> \in Seq(L) /\ \A a \in Seq(L), l \in L : Append(a, l) \in Seq(L)
  BY EmptySeq, AppendProperties
<1> QED BY <1>1 DEF AnswerLines, L

LEMMA LastPermit ==
    ASSUME TypeOK, NEW t \in Threads, JobInv(t), Busy(t)
    PROVE  Len(permits) \in 1 .. Len(permits) /\ permits[Len(permits)] \in Nat
BY DEF TypeOK, JobInv

\* The step of a semaphore's permits, of each kind there is.
LEMMA PermitsStep ==
    ASSUME TypeOK, \A t \in Threads : JobInv(t), Next
    PROVE  permits' \in Seq(Nat) /\ (Len(permits') >= Len(permits) \/ Exit)
<1>1. CASE \E t \in Threads : Acquire(t)
  <2>1. PICK t \in Threads : Acquire(t)
    BY <1>1
  <2>2. job[t].sem \in 1 .. Len(permits)
    BY <2>1 DEF JobInv, Acquire, At, Busy
  <2>3. permits \in Seq(Nat) /\ permits[job[t].sem] - 1 \in Nat
    BY <2>1, <2>2 DEF Acquire, TypeOK
  <2>4. permits' = [permits EXCEPT ![job[t].sem] = permits[job[t].sem] - 1]
    BY <2>1 DEF Acquire
  <2>5. Len(permits') = Len(permits) /\ permits' \in Seq(Nat)
    BY <2>2, <2>3, <2>4, PermitSet
  <2> QED BY <2>5, <2>3
<1>2. CASE \E t \in Threads : PortInUse(t) \/ Read(t)
  <2>1. PICK t \in Threads : PortInUse(t) \/ Read(t)
    BY <1>2
  <2>2. Busy(t)
    BY <2>1 DEF PortInUse, Read, At, Busy
  <2>3. Len(permits) \in 1 .. Len(permits) /\ permits[Len(permits)] + 1 \in Nat
    BY <2>2, LastPermit
  <2>4. permits' = [permits EXCEPT ![Len(permits)] = permits[Len(permits)] + 1]
    BY <2>1 DEF PortInUse, Read
  <2>5. permits \in Seq(Nat)
    BY DEF TypeOK
  <2>6. Len(permits') = Len(permits) /\ permits' \in Seq(Nat)
    BY <2>3, <2>4, <2>5, PermitSet
  <2> QED BY <2>6, <2>5
<1>3. CASE Construct
  BY <1>3 DEF Construct, TypeOK
<1>4. CASE UNCHANGED permits
  BY <1>4 DEF TypeOK
<1>5. CASE Exit
  BY <1>5 DEF Exit
<1> QED BY <1>1, <1>2, <1>3, <1>4, <1>5 DEF Next, Command, CallChat, Connect,
          ConnectRefused, AcceptChat, FirstToken, Derive, TextArrives, PressSend,
          OpenPort, Opens, NoPort, Write, BoardAnswers, GuestOpens, GuestCloses,
          Unshared, CommandOnly

-------------------------------------------------------------------------------
(************************** The initial states *****************************)

LEMMA InitInv == Init => IInv
<1> SUFFICES ASSUME Init PROVE IInv
  OBVIOUS
<1>1. TypeOK
  BY KeystoreAssumption, AnswersStay DEF Init, TypeOK, Idle, Resting, Places, Stages, Jobs, BoardStates
<1>2. \A t \in Threads : ~ Busy(t)
  BY DEF Init, Busy, Idle
<1>3. \A t \in Threads : JobInv(t)
  BY <1>2 DEF JobInv
<1>4. \A t \in Threads : ~ HasPort(t) /\ ~ At(t, "spinning") /\ ~ At(t, "waiting") /\ ~ Past(t)
  BY DEF Init, HasPort, Idle, At, Past
<1>5. PortInv
  BY <1>4, KeysAreKeys DEF Init, PortInv
<1>6. BoardInv
  BY <1>4 DEF Init, BoardInv, Resting, Answers
<1>7. BoardsComeToRest
  BY DEF Init, BoardsComeToRest
<1>8. StageInv
  BY <1>2 DEF Init, StageInv, Threads
<1>9. CalmIsExclusive
  BY <1>4 DEF Init, CalmIsExclusive
<1>10. LoneChatIsCalm
  BY DEF Init, LoneChatIsCalm
<1> QED BY <1>1, <1>3, <1>5, <1>6, <1>7, <1>8, <1>9, <1>10 DEF IInv

-------------------------------------------------------------------------------
(******************************** Types ************************************)

\* A thread's job stays one: when it begins, when it moves on or counts a
\* line, and when there are more semaphores.
LEMMA JobsStay ==
    ASSUME NEW n \in Nat, NEW j \in Jobs(n)
    PROVE  /\ \A m \in Nat : n <= m => j \in Jobs(m)
           /\ \A place \in Places : [j EXCEPT !.at = place] \in Jobs(n)
           /\ \A s \in BOOLEAN : [j EXCEPT !.at = "writing", !.sure = s] \in Jobs(n)
           /\ j.left > 0 => \A place \in Places :
                 [j EXCEPT !.left = j.left - 1, !.at = place] \in Jobs(n)
           /\ Idle \in Jobs(n)
<1>1. \A m \in Nat : n <= m => j \in Jobs(m)
  <2> SUFFICES ASSUME NEW m \in Nat, n <= m PROVE j \in Jobs(m)
    OBVIOUS
  <2>1. 0 .. n \subseteq 0 .. m
    OBVIOUS
  <2> QED BY <2>1 DEF Jobs
<1>2. \A place \in Places : [j EXCEPT !.at = place] \in Jobs(n)
  BY DEF Jobs
<1>3. \A s \in BOOLEAN : [j EXCEPT !.at = "writing", !.sure = s] \in Jobs(n)
  BY DEF Jobs, Places
<1>4. j.left > 0 => \A place \in Places :
                 [j EXCEPT !.left = j.left - 1, !.at = place] \in Jobs(n)
  <2>1. j.left \in 0 .. 3 /\ (j.left > 0 => j.left - 1 \in 0 .. 3)
    BY DEF Jobs
  <2> QED BY <2>1 DEF Jobs
<1>5. Idle \in Jobs(n)
  BY DEF Jobs, Idle, Places
<1> QED BY <1>1, <1>2, <1>3, <1>4, <1>5

LEMMA JobsAfter ==
    ASSUME TypeOK, NEW m \in Nat, Len(permits) <= m, NEW t \in Threads, NEW j \in Jobs(m)
    PROVE  [job EXCEPT ![t] = j] \in [Threads -> Jobs(m)] /\ job \in [Threads -> Jobs(m)]
<1>1. Len(permits) \in Nat /\ job \in [Threads -> Jobs(Len(permits))]
  BY DEF TypeOK
<1>2. \A u \in Threads : job[u] \in Jobs(m)
  BY <1>1, JobsStay
<1> QED BY <1>1, <1>2

LEMMA NewJob ==
    ASSUME TypeOK, permits' \in Seq(Nat), Len(permits') >= Len(permits),
           NEW t \in Threads, NEW op \in Commands, NEW k \in Keystores,
           Begins(t, op, k, Len(permits'))
    PROVE  job' \in [Threads -> Jobs(Len(permits'))]
<1> DEFINE j == [at |-> "waiting", op |-> op, key |-> k, sem |-> Len(permits'),
                 left |-> Lines(op), sure |-> TRUE]
<1>1. Len(permits') \in Nat /\ Len(permits) <= Len(permits') /\ Lines(op) \in 0 .. 3
  BY DEF TypeOK, Lines
<1>2. j \in Jobs(Len(permits'))
  BY <1>1 DEF Jobs, Places, Commands
<1>3. job' = [job EXCEPT ![t] = j]
  BY DEF Begins
<1> HIDE DEF j
<1> QED BY <1>1, <1>2, <1>3, JobsAfter

LEMMA TypeNext ==
    ASSUME IInv, Next
    PROVE  TypeOK'
<1>a. /\ TypeOK /\ \A t \in Threads : JobInv(t)
      /\ \A q \in Ports : board[q].said < Answers(board[q].op)
  BY DEF IInv, BoardInv
<1> USE <1>a
<1>0. /\ permits' \in Seq(Nat) /\ permits \in Seq(Nat)
      /\ Len(permits) \in Nat /\ Len(permits') \in Nat
      /\ MaxTexts \in Nat /\ MaxSends \in Nat /\ MaxIncidents \in Nat
      /\ Swing \in Threads /\ Chats \subseteq Threads
  <2>1. permits' \in Seq(Nat)
    BY PermitsStep
  <2> QED BY <2>1, KeystoreAssumption DEF Threads, TypeOK
<1>1. ASSUME Construct PROVE Len(permits) <= Len(permits')
  BY <1>1 DEF Construct, TypeOK
<1>2. ASSUME UNCHANGED job, Len(permits) <= Len(permits')
      PROVE  job' \in [Threads -> Jobs(Len(permits'))]
  BY <1>0, <1>2, JobsStay DEF TypeOK
<1>3. ASSUME NEW t \in Threads, NEW place \in Places, Goes(t, place), Len(permits') = Len(permits)
      PROVE  job' \in [Threads -> Jobs(Len(permits'))]
  <2>1. job[t] \in Jobs(Len(permits))
    BY DEF TypeOK
  <2>2. [job[t] EXCEPT !.at = place] \in Jobs(Len(permits))
    BY <1>0, <2>1, JobsStay
  <2> QED BY <1>0, <1>3, <2>2, JobsAfter DEF Goes
<1>4. ASSUME NEW t \in Threads, job' = [job EXCEPT ![t] = Idle], Len(permits') = Len(permits)
      PROVE  job' \in [Threads -> Jobs(Len(permits'))]
  <2>1. job[t] \in Jobs(Len(permits))
    BY DEF TypeOK
  <2>2. Idle \in Jobs(Len(permits))
    BY <1>0, <2>1, JobsStay
  <2> QED BY <1>0, <1>4, <2>2, JobsAfter
<1>5. ASSUME NEW c \in Chats, CallChat(c) PROVE TypeOK'
  <2>1. <<c, "window">> \in Keystores /\ 1 \in Commands /\ Len(permits) <= Len(permits')
    BY <1>5, <1>1 DEF Keystores, Commands, CallChat
  <2>2. job' \in [Threads -> Jobs(Len(permits'))]
    BY <1>0, <1>5, <2>1, NewJob DEF CallChat
  <2> QED BY <1>0, <1>5, <2>2 DEF TypeOK, CallChat, Construct, Upset, Stages, Unshared
<1>6. ASSUME NEW c \in Chats, Connect(c) \/ ConnectRefused(c) \/ AcceptChat(c) PROVE TypeOK'
  <2>1. job' \in [Threads -> Jobs(Len(permits'))]
    BY <1>0, <1>1, <1>2, <1>6 DEF Connect, ConnectRefused, AcceptChat
  <2> QED BY <1>0, <1>6, <2>1
          DEF TypeOK, Connect, ConnectRefused, AcceptChat, Construct, Upset, Stages, Unshared
<1>7. ASSUME NEW c \in Chats, FirstToken(c) PROVE TypeOK'
  <2>1. <<c, "listener">> \in Keystores /\ 1 \in Commands /\ Len(permits) <= Len(permits')
    BY <1>7, <1>1 DEF Keystores, Commands, FirstToken
  <2>2. job' \in [Threads -> Jobs(Len(permits'))]
    BY <1>0, <1>7, <2>1, NewJob DEF FirstToken
  <2> QED BY <1>0, <1>7, <2>2 DEF TypeOK, FirstToken, Construct, Upset, Stages, Unshared
<1>8. ASSUME NEW c \in Chats, Derive(c) \/ TextArrives(c) \/ PressSend(c) PROVE TypeOK'
  <2>1. <<c, "listener">> \in Keystores /\ <<c, "window">> \in Keystores
    BY DEF Keystores
  <2>2. 2 \in Commands /\ 3 \in Commands /\ 4 \in Commands
    BY DEF Commands
  <2>3. permits' = permits /\ Len(permits) <= Len(permits')
    BY <1>0, <1>8 DEF Derive, TextArrives, PressSend
  <2>4. job' \in [Threads -> Jobs(Len(permits'))]
    BY <1>0, <1>8, <2>1, <2>2, <2>3, NewJob DEF Derive, TextArrives, PressSend
  <2>5. stage' \in [Chats -> Stages]
    BY <1>8 DEF TypeOK, Derive, TextArrives, PressSend, Stages
  <2>6. sends' \in 0 .. MaxSends
    BY <1>0, <1>8 DEF TypeOK, Derive, TextArrives, PressSend
  <2> QED BY <1>0, <1>8, <2>4, <2>5, <2>6
          DEF TypeOK, Derive, TextArrives, PressSend, Unshared
<1>9. ASSUME NEW t \in Threads, Acquire(t) PROVE TypeOK'
  <2>1. job[t].sem \in 1 .. Len(permits)
    BY <1>9 DEF JobInv, Acquire, At, Busy
  <2>2. permits[job[t].sem] - 1 \in Nat
    BY <1>0, <1>9, <2>1 DEF Acquire
  <2>3. permits' = [permits EXCEPT ![job[t].sem] = permits[job[t].sem] - 1]
    BY <1>9 DEF Acquire
  <2>4. Len(permits') = Len(permits)
    BY <1>0, <2>1, <2>2, <2>3, PermitSet
  <2>5. job' \in [Threads -> Jobs(Len(permits'))]
    BY <1>3, <1>9, <2>4 DEF Acquire, Places
  <2> QED BY <1>0, <1>9, <2>5 DEF TypeOK, Acquire, CommandOnly
<1>10. ASSUME NEW t \in Threads, OpenPort(t) PROVE TypeOK'
  <2>1. job[t].key \in Keystores /\ Port(job[t].key) \in Ports
    BY <1>10, PortOfKey DEF OpenPort, Opens, At, Busy, JobInv
  <2>2. job[t] \in Jobs(Len(permits)) /\ (board[Port(job[t].key)].op = 0) \in BOOLEAN
    BY DEF TypeOK
  <2>3. [job[t] EXCEPT !.at = "writing", !.sure = (board[Port(job[t].key)].op = 0)]
           \in Jobs(Len(permits))
    BY <1>0, <2>2, JobsStay
  <2>4. /\ job' = [job EXCEPT ![t] =
                [job[t] EXCEPT !.at = "writing", !.sure = (board[Port(job[t].key)].op = 0)]]
        /\ permits' = permits
    BY <1>10 DEF OpenPort, Opens, TypeOK
  <2>5. job' \in [Threads -> Jobs(Len(permits'))]
    BY <1>0, <2>3, <2>4, JobsAfter
  <2>6. /\ owner' \in [Ports -> Keystores \cup {Free, Guest}]
        /\ opened' \subseteq Keystores
    BY <1>10, <2>1 DEF TypeOK, OpenPort, Opens
  <2>7. answers' \in [Ports -> AnswerLines]
    BY <1>10, <2>1, AnswersStay DEF TypeOK, OpenPort, Opens
  <2> QED BY <1>0, <1>10, <2>5, <2>6, <2>7 DEF TypeOK, OpenPort, Opens, CommandOnly
<1>11. ASSUME NEW t \in Threads, PortInUse(t) \/ NoPort(t) PROVE TypeOK'
  <2>1. job[t].key \in Keystores /\ job[t].key[1] \in Chats
    BY <1>11 DEF PortInUse, NoPort, At, Busy, JobInv, Keystores
  <2>2. Len(permits) \in 1 .. Len(permits) /\ permits[Len(permits)] + 1 \in Nat
    BY <1>11, LastPermit DEF PortInUse, NoPort, At, Busy
  <2>3. Len(permits') = Len(permits)
    BY <1>0, <1>11, <2>2, PermitSet DEF PortInUse, NoPort
  <2>4. job' \in [Threads -> Jobs(Len(permits'))]
    BY <1>3, <1>4, <1>11, <2>3 DEF PortInUse, NoPort, GivesUp, Places
  <2>5. stage' \in [Chats -> Stages]
    BY <1>11, <2>1 DEF TypeOK, PortInUse, NoPort, GivesUp, Stages
  <2> QED BY <1>0, <1>11, <2>4, <2>5 DEF TypeOK, PortInUse, NoPort, Upset
<1>12. ASSUME NEW t \in Threads, Write(t) PROVE TypeOK'
  <2> DEFINE q == Port(job[t].key)
             place == IF job[t].left = 1 THEN "reading" ELSE "writing"
  <2>1. q \in Ports /\ job[t].left \in 1 .. 3 /\ job[t].op \in Commands
    BY <1>12, PortOfKey DEF Write, At, Busy, JobInv, Lines
  <2>2. board[q] \in BoardStates /\ job[t].sure \in BOOLEAN /\ job[t] \in Jobs(Len(permits))
    BY <2>1 DEF TypeOK, Jobs
  <2>3. Takes(board[q], Line(job[t]), job[t].sure) \in BoardStates
    <3>1. CASE board[q].op # 0
      <4>1. board[q].left - 1 \in 0 .. 2 /\ (board[q].whole /\ job[t].sure) \in BOOLEAN
        BY <1>12, <2>2, <3>1 DEF Write, Working, BoardStates
      <4> QED BY <2>2, <3>1, <4>1 DEF Takes, BoardStates
    <3>2. CASE board[q].op = 0
      BY <2>2, <3>2 DEF Takes, Begun, Commands, Arguments, BoardStates
    <3> QED BY <3>1, <3>2
  <2>4. board' \in [Ports -> BoardStates]
    BY <1>12, <2>1, <2>3 DEF Write, TypeOK
  <2>5. [job[t] EXCEPT !.left = job[t].left - 1, !.at = place] \in Jobs(Len(permits))
    <3>1. place \in Places /\ job[t].left > 0
      BY <2>1 DEF Places
    <3> HIDE DEF place
    <3> QED BY <1>0, <2>2, <3>1, JobsStay
  <2>6. /\ job' = [job EXCEPT ![t] = [job[t] EXCEPT !.left = job[t].left - 1, !.at = place]]
        /\ permits' = permits
    BY <1>12 DEF Write, TypeOK
  <2>7. job' \in [Threads -> Jobs(Len(permits'))]
    BY <1>0, <2>5, <2>6, JobsAfter
  <2> QED BY <1>0, <1>12, <2>4, <2>7 DEF TypeOK, Write, CommandOnly
<1>13. ASSUME NEW t \in Threads, Read(t) PROVE TypeOK'
  <2>1. /\ job[t].key \in Keystores /\ job[t].key[1] \in Chats /\ job[t].op \in Commands
        /\ job[t].op = 4 => t # Swing /\ texts[t] < MaxTexts
        /\ t # Swing => job[t].key = <<t, "listener">>
    BY <1>13 DEF Read, At, Busy, JobInv, Keystores
  <2>2. Len(permits) \in 1 .. Len(permits) /\ permits[Len(permits)] + 1 \in Nat
    BY <1>13, LastPermit DEF Read, At, Busy
  <2>3. Len(permits') = Len(permits)
    BY <1>0, <1>13, <2>2, PermitSet DEF Read
  <2>4. job' \in [Threads -> Jobs(Len(permits'))]
    BY <1>4, <1>13, <2>3 DEF Read, Closes
  <2>5. stage' \in [Chats -> Stages]
    <3>1. CASE job[t].op = 1
      <4>1. \/ stage' = [stage EXCEPT ![job[t].key[1]] = "connecting"]
            \/ stage' = [stage EXCEPT ![job[t].key[1]] = "deriving"]
        BY <1>13, <3>1 DEF Read, Closes, Finished
      <4> QED BY <2>1, <4>1 DEF TypeOK, Stages
    <3>2. CASE job[t].op = 2
      BY <1>13, <3>2 DEF TypeOK, Stages, Read, Closes, Finished
    <3>3. CASE job[t].op = 3
      BY <1>13, <3>3 DEF TypeOK, Read, Closes, Finished
    <3>4. CASE job[t].op = 4
      BY <1>13, <3>4 DEF TypeOK, Read, Closes, Finished
    <3> QED BY <2>1, <3>1, <3>2, <3>3, <3>4 DEF Commands
  <2>6. texts' \in [Chats -> 0 .. MaxTexts]
    <3>1. CASE job[t].op = 4
      <4>1. texts' = [texts EXCEPT ![t] = texts[t] + 1] /\ t \in Chats
        BY <1>13, <2>1, <3>1 DEF Read, Closes, Finished, Threads
      <4>2. texts[t] + 1 \in 0 .. MaxTexts
        BY <1>0, <2>1, <3>1, <4>1 DEF TypeOK
      <4> QED BY <4>1, <4>2 DEF TypeOK
    <3>2. CASE job[t].op # 4
      <4>1. CASE job[t].op = 1
        BY <1>13, <4>1 DEF TypeOK, Read, Closes, Finished
      <4>2. CASE job[t].op = 2
        BY <1>13, <4>2 DEF TypeOK, Read, Closes, Finished
      <4>3. CASE job[t].op = 3
        BY <1>13, <4>3 DEF TypeOK, Read, Closes, Finished
      <4> QED BY <2>1, <3>2, <4>1, <4>2, <4>3 DEF Commands
    <3> QED BY <3>1, <3>2
  <2>7. Port(job[t].key) \in Ports
    BY <2>1, PortOfKey
  <2>8. /\ owner' \in [Ports -> Keystores \cup {Free, Guest}]
        /\ answers' \in [Ports -> AnswerLines]
    BY <1>13, <2>7, AnswersStay DEF TypeOK, Read, Closes
  <2> QED BY <1>0, <1>13, <2>4, <2>5, <2>6, <2>8 DEF TypeOK, Read, Closes
<1>14. ASSUME NEW q \in Ports, BoardAnswers(q) PROVE TypeOK'
  <2>1. /\ board[q] \in BoardStates /\ board[q].op \in Commands
        /\ board[q].said + 1 # Answers(board[q].op) => board[q].said + 1 \in {0, 1}
    BY <1>14 DEF TypeOK, BoardInv, BoardAnswers, Working, Commands, Answers, BoardStates
  <2>2. Resting \in BoardStates /\ \A n \in {0, 1} : [board[q] EXCEPT !.said = n] \in BoardStates
    BY <2>1 DEF BoardStates, Resting
  <2>3. board' \in [Ports -> BoardStates]
    BY <1>14, <2>1, <2>2 DEF TypeOK, BoardAnswers
  <2>4. [op |-> board[q].op, whole |-> board[q].whole] \in [op : Commands, whole : BOOLEAN]
    BY <2>1 DEF BoardStates
  <2>5. answers' \in [Ports -> AnswerLines]
    <3> DEFINE line == [op |-> board[q].op, whole |-> board[q].whole]
               after == IF owner[q] = Free THEN <<>> ELSE Append(answers[q], line)
    <3>1. after \in AnswerLines
      BY <2>4, AnswersStay DEF TypeOK
    <3>2. answers' = [answers EXCEPT ![q] = after]
      BY <1>14 DEF BoardAnswers
    <3> HIDE DEF after
    <3> QED BY <3>1, <3>2 DEF TypeOK
  <2>6. job' \in [Threads -> Jobs(Len(permits'))]
    BY <1>14 DEF TypeOK, BoardAnswers
  <2> QED BY <1>0, <1>14, <2>3, <2>5, <2>6 DEF TypeOK, BoardAnswers
<1>15. ASSUME NEW q \in Ports, GuestOpens(q) \/ GuestCloses(q) PROVE TypeOK'
  <2>1. owner' \in [Ports -> Keystores \cup {Free, Guest}]
    BY <1>15 DEF TypeOK, GuestOpens, GuestCloses
  <2>3. incidents' \in 0 .. MaxIncidents
    BY <1>0, <1>15 DEF TypeOK, GuestOpens, GuestCloses
  <2>2. upset' \subseteq {"replaced", "guest", "absent", "exited"}
    BY <1>15 DEF TypeOK, GuestOpens, GuestCloses, Upset
  <2> QED BY <1>0, <1>15, <2>1, <2>2, <2>3 DEF TypeOK, GuestOpens, GuestCloses
<1>16. ASSUME Exit PROVE TypeOK'
  <2>1. /\ job' \in [Threads -> Jobs(Len(permits'))]
        /\ owner' \in [Ports -> Keystores \cup {Free, Guest}]
        /\ answers' \in [Ports -> AnswerLines]
    BY <1>0, <1>16, AnswersStay DEF TypeOK, Exit, Idle, Places, Jobs
  <2>2. /\ stage' \in [Chats -> Stages]
        /\ texts' \in [Chats -> 0 .. MaxTexts]
    BY <1>0, <1>16 DEF Exit, Stages
  <2>3. incidents' \in 0 .. MaxIncidents
    BY <1>0, <1>16 DEF TypeOK, Exit
  <2>4. upset' \subseteq {"replaced", "guest", "absent", "exited"} /\ opened' \subseteq Keystores
    BY <1>16 DEF TypeOK, Exit, Upset
  <2> QED BY <1>0, <1>16, <2>1, <2>2, <2>3, <2>4 DEF TypeOK, Exit
<1> QED BY <1>5, <1>6, <1>7, <1>8, <1>9, <1>10, <1>11, <1>12, <1>13, <1>14, <1>15, <1>16
        DEF Next, Command

-------------------------------------------------------------------------------
(******************************** Jobs *************************************)

\* A thread that does nothing keeps what is known of its job.
LEMMA JobFrame ==
    ASSUME NEW u \in Threads, JobInv(u), job'[u] = job[u],
           u \in Chats => texts'[u] = texts[u],
           Len(permits) \in Nat, Len(permits') \in Nat, Len(permits') >= Len(permits)
    PROVE  JobInv(u)'
<1>1. SUFFICES ASSUME Busy(u)' PROVE JobInv(u)'
  BY DEF JobInv
<1>2. Busy(u)
  BY <1>1 DEF Busy
<1>3. u # Swing => u \in Chats
  BY DEF Threads
<1>4. job[u].sem \in 1 .. Len(permits')
  BY <1>2 DEF JobInv
<1>5. job[u].op = 4 => texts'[u] < MaxTexts
  BY <1>2, <1>3 DEF JobInv
<1> QED BY <1>2, <1>4, <1>5 DEF JobInv

LEMMA JobNext ==
    ASSUME IInv, Next
    PROVE  \A u \in Threads : JobInv(u)'
<1>a. TypeOK /\ \A t \in Threads : JobInv(t)
  BY DEF IInv
<1> USE <1>a
<1>0. /\ permits' \in Seq(Nat) /\ permits \in Seq(Nat)
      /\ Len(permits) \in Nat /\ Len(permits') \in Nat
      /\ Swing \in Threads /\ Chats \subseteq Threads /\ Swing \notin Chats
      /\ Exit \/ Len(permits') >= Len(permits)
  <2>1. permits' \in Seq(Nat) /\ (Exit \/ Len(permits') >= Len(permits))
    BY PermitsStep
  <2> QED BY <2>1, KeystoreAssumption DEF Threads, TypeOK
<1>1. CASE Exit
  BY <1>1 DEF Exit, JobInv, Busy, Idle
<1>2. SUFFICES ASSUME Len(permits') >= Len(permits) PROVE \A u \in Threads : JobInv(u)'
  BY <1>0, <1>1
\* One thread does something, the others do not.
<1>3. ASSUME NEW t \in Threads, NEW j,
             job' = [job EXCEPT ![t] = j],
             \A c \in Chats : c # t => texts'[c] = texts[c],
             JobInv(t)'
      PROVE  \A u \in Threads : JobInv(u)'
  <2>1. ASSUME NEW u \in Threads, u # t PROVE JobInv(u)'
    <3>1. job'[u] = job[u]
      BY <1>3, <2>1 DEF TypeOK
    <3>2. u \in Chats => texts'[u] = texts[u]
      BY <1>3, <2>1
    <3> QED BY <1>0, <1>2, <3>1, <3>2, JobFrame
  <2> QED BY <1>3, <2>1
<1>4. ASSUME UNCHANGED <<job, texts>>
      PROVE  \A u \in Threads : JobInv(u)'
  BY <1>0, <1>2, <1>4, JobFrame
<1>5. ASSUME NEW t \in Threads, NEW op \in Commands, NEW k \in Keystores,
             Begins(t, op, k, Len(permits')), Len(permits') > 0, UNCHANGED texts,
             t = Swing => k[2] = "window" /\ op \in {1, 3},
             t # Swing => k = <<t, "listener">> /\ op \in {1, 2, 4},
             op = 4 => texts[t] < MaxTexts
      PROVE  \A u \in Threads : JobInv(u)'
  <2> DEFINE j == [at |-> "waiting", op |-> op, key |-> k, sem |-> Len(permits'),
                   left |-> Lines(op), sure |-> TRUE]
  <2>1. job' = [job EXCEPT ![t] = j] /\ job'[t] = j
    BY <1>5 DEF Begins, TypeOK
  <2>2. JobInv(t)'
    BY <1>0, <1>5, <2>1 DEF JobInv
  <2> HIDE DEF j
  <2> QED BY <1>3, <1>5, <2>1, <2>2
<1>6. ASSUME NEW c \in Chats, CallChat(c) PROVE \A u \in Threads : JobInv(u)'
  <2>1. <<c, "window">> \in Keystores /\ <<c, "window">>[2] = "window" /\ 1 \in Commands
    BY DEF Keystores, Commands
  <2>2. Len(permits') > 0
    BY <1>0, <1>6 DEF CallChat, Construct
  <2> QED BY <1>0, <1>5, <1>6, <2>1, <2>2 DEF CallChat
<1>7. ASSUME NEW c \in Chats, Connect(c) \/ ConnectRefused(c) \/ AcceptChat(c)
      PROVE  \A u \in Threads : JobInv(u)'
  BY <1>4, <1>7 DEF Connect, ConnectRefused, AcceptChat
<1>8. ASSUME NEW c \in Chats, FirstToken(c) PROVE \A u \in Threads : JobInv(u)'
  <2>1. <<c, "listener">> \in Keystores /\ 1 \in Commands
    BY DEF Keystores, Commands
  <2>2. Len(permits') > 0
    BY <1>0, <1>8 DEF FirstToken, Construct
  <2>3. c \in Threads /\ c # Swing /\ UNCHANGED texts /\ Begins(c, 1, <<c, "listener">>, Len(permits'))
    BY <1>0, <1>8 DEF FirstToken
  <2> QED BY <1>5, <2>1, <2>2, <2>3
<1>9. ASSUME NEW c \in Chats, Derive(c) \/ TextArrives(c) \/ PressSend(c)
      PROVE  \A u \in Threads : JobInv(u)'
  <2>1. /\ <<c, "listener">> \in Keystores /\ <<c, "window">> \in Keystores
        /\ <<c, "window">>[2] = "window"
        /\ 2 \in Commands /\ 3 \in Commands /\ 4 \in Commands
    BY DEF Keystores, Commands
  <2>2. Len(permits') > 0 /\ Len(permits') = Len(permits) /\ UNCHANGED texts
    <3>1. stage[c] # "new" /\ permits' = permits /\ UNCHANGED texts
      BY <1>9 DEF Derive, TextArrives, PressSend
    <3>2. permits # <<>>
      BY <3>1 DEF IInv, StageInv
    <3> QED BY <1>0, <3>1, <3>2
  <2>3. CASE Derive(c)
    BY <1>0, <1>5, <2>1, <2>2, <2>3 DEF Derive
  <2>4. CASE TextArrives(c)
    BY <1>0, <1>5, <2>1, <2>2, <2>4 DEF TextArrives
  <2>5. CASE PressSend(c)
    BY <1>0, <1>5, <2>1, <2>2, <2>5 DEF PressSend
  <2> QED BY <1>9, <2>3, <2>4, <2>5
<1>10. ASSUME NEW t \in Threads, NEW place \in Places, Goes(t, place), Busy(t), UNCHANGED texts,
              place \notin {"writing", "waiting"},
              place = "opening" => job[t].at = "waiting"
       PROVE  \A u \in Threads : JobInv(u)'
  <2> DEFINE j == [job[t] EXCEPT !.at = place]
  <2>1. job[t] \in Jobs(Len(permits))
    BY DEF TypeOK
  <2>2. job' = [job EXCEPT ![t] = j] /\ job'[t] = j
    BY <1>10 DEF Goes, TypeOK
  <2>3. /\ j.at = place /\ j.op = job[t].op /\ j.key = job[t].key /\ j.sem = job[t].sem
        /\ j.left = job[t].left
    BY <2>1 DEF Jobs
  <2>4. JobInv(t)'
    <3>1. job[t].sem \in 1 .. Len(permits')
      BY <1>0, <1>2, <1>10 DEF JobInv
    <3>2. place # "writing" /\ place # "waiting" /\ (t # Swing => texts'[t] = texts[t])
      BY <1>10
    <3> HIDE DEF j
    <3> QED BY <1>10, <2>2, <2>3, <3>1, <3>2 DEF JobInv
  <2> HIDE DEF j
  <2> QED BY <1>3, <1>10, <2>2, <2>4
<1>11. ASSUME NEW t \in Threads, Acquire(t) PROVE \A u \in Threads : JobInv(u)'
  BY <1>10, <1>11 DEF Acquire, At, Busy, CommandOnly, Places
<1>12. ASSUME NEW t \in Threads, job' = [job EXCEPT ![t] = Idle],
              \A c \in Chats : c # t => texts'[c] = texts[c]
       PROVE  \A u \in Threads : JobInv(u)'
  <2>1. job'[t] = Idle
    BY <1>12 DEF TypeOK
  <2>2. JobInv(t)'
    BY <2>1 DEF JobInv, Busy, Idle
  <2> QED BY <1>3, <1>12, <2>2
<1>13. ASSUME NEW t \in Threads, PortInUse(t) \/ NoPort(t) PROVE \A u \in Threads : JobInv(u)'
  <2>1. UNCHANGED texts /\ Busy(t) /\ GivesUp(t)
    BY <1>13 DEF PortInUse, NoPort, At, Busy
  <2> QED BY <1>10, <1>12, <2>1 DEF GivesUp, Places
<1>14. ASSUME NEW t \in Threads, OpenPort(t) PROVE \A u \in Threads : JobInv(u)'
  <2> DEFINE j == [job[t] EXCEPT !.at = "writing", !.sure = (board[Port(job[t].key)].op = 0)]
  <2>1. job[t] \in Jobs(Len(permits)) /\ Busy(t) /\ job[t].at = "opening"
    BY <1>14 DEF TypeOK, OpenPort, Opens, At, Busy
  <2>2. job' = [job EXCEPT ![t] = j] /\ job'[t] = j /\ UNCHANGED texts
    BY <1>14 DEF OpenPort, Opens, TypeOK, CommandOnly
  <2>3. /\ j.at = "writing" /\ j.op = job[t].op /\ j.key = job[t].key /\ j.sem = job[t].sem
        /\ j.left = job[t].left
    BY <2>1 DEF Jobs
  <2>4. JobInv(t)'
    <3>1. job[t].sem \in 1 .. Len(permits')
      BY <1>0, <1>2, <2>1 DEF JobInv
    <3>2. job[t].left \in 1 .. Lines(job[t].op)
      BY <2>1 DEF JobInv, Lines
    <3> HIDE DEF j
    <3> QED BY <2>1, <2>2, <2>3, <3>1, <3>2 DEF JobInv
  <2> HIDE DEF j
  <2> QED BY <1>3, <2>2, <2>4
<1>15. ASSUME NEW t \in Threads, Write(t) PROVE \A u \in Threads : JobInv(u)'
  <2> DEFINE place == IF job[t].left = 1 THEN "reading" ELSE "writing"
             j == [job[t] EXCEPT !.left = job[t].left - 1, !.at = place]
  <2>1. job[t] \in Jobs(Len(permits)) /\ Busy(t) /\ job[t].at = "writing"
    BY <1>15 DEF TypeOK, Write, At, Busy
  <2>2. job' = [job EXCEPT ![t] = j] /\ job'[t] = j /\ UNCHANGED texts
    BY <1>15 DEF Write, TypeOK, CommandOnly
  <2>3. /\ j.at = place /\ j.op = job[t].op /\ j.key = job[t].key /\ j.sem = job[t].sem
        /\ j.left = job[t].left - 1
    BY <2>1 DEF Jobs
  <2>4. JobInv(t)'
    <3>1. job[t].sem \in 1 .. Len(permits')
      BY <1>0, <1>2, <2>1 DEF JobInv
    <3>2. place = "writing" => job[t].left - 1 \in 1 .. Lines(job[t].op)
      BY <2>1 DEF JobInv, Lines
    <3>3. place \in {"reading", "writing"}
      OBVIOUS
    <3> HIDE DEF j, place
    <3> QED BY <2>1, <2>2, <2>3, <3>1, <3>2, <3>3 DEF JobInv
  <2> HIDE DEF j
  <2> QED BY <1>3, <2>2, <2>4
<1>16. ASSUME NEW t \in Threads, Read(t) PROVE \A u \in Threads : JobInv(u)'
  <2>1. Busy(t) /\ job[t].op \in Commands /\ job' = [job EXCEPT ![t] = Idle] /\ Finished(job[t])
    BY <1>16 DEF Read, Closes, At, Busy, JobInv
  <2>2. \A c \in Chats : c # t => texts'[c] = texts[c]
    <3>1. CASE job[t].op = 4
      <4>1. t # Swing /\ job[t].key = <<t, "listener">>
        BY <2>1, <3>1 DEF JobInv
      <4>2. texts' = [texts EXCEPT ![t] = texts[t] + 1]
        BY <2>1, <3>1, <4>1 DEF Finished
      <4> QED BY <4>2 DEF TypeOK
    <3>2. CASE job[t].op = 1
      BY <2>1, <3>2 DEF Finished
    <3>3. CASE job[t].op = 2
      BY <2>1, <3>3 DEF Finished
    <3>4. CASE job[t].op = 3
      BY <2>1, <3>4 DEF Finished
    <3> QED BY <2>1, <3>1, <3>2, <3>3, <3>4 DEF Commands
  <2> QED BY <1>12, <2>1, <2>2
<1>17. ASSUME NEW q \in Ports, BoardAnswers(q) \/ GuestOpens(q) \/ GuestCloses(q)
       PROVE  \A u \in Threads : JobInv(u)'
  BY <1>4, <1>17 DEF BoardAnswers, GuestOpens, GuestCloses
<1> QED BY <1>1, <1>6, <1>7, <1>8, <1>9, <1>11, <1>13, <1>14, <1>15, <1>16, <1>17
        DEF Next, Command

-------------------------------------------------------------------------------
(************************* The ports and boards ****************************)

\* The steps of threads that do not have a port leave alone those that do.
Away ==
    /\ \A u \in Threads : /\ HasPort(u)' <=> HasPort(u)
                          /\ HasPort(u) => job'[u] = job[u]
    /\ UNCHANGED <<owner, board, answers>>
    /\ upset \subseteq upset'
    /\ "exited" \in upset' => "exited" \in upset

LEMMA OneJob ==
    ASSUME TypeOK, NEW t \in Threads, NEW j, job' = [job EXCEPT ![t] = j]
    PROVE  job'[t] = j /\ \A u \in Threads : u # t => job'[u] = job[u]
BY DEF TypeOK

LEMMA AwaySteps ==
    ASSUME TypeOK,
           \/ \E c \in Chats : \/ CallChat(c) \/ Connect(c) \/ ConnectRefused(c) \/ AcceptChat(c)
                              \/ FirstToken(c) \/ Derive(c) \/ TextArrives(c) \/ PressSend(c)
           \/ \E t \in Threads : Acquire(t) \/ PortInUse(t) \/ NoPort(t)
    PROVE  Away
<1>1. ASSUME NEW t \in Threads, NEW j, job' = [job EXCEPT ![t] = j],
             ~ HasPort(t), j.at \notin {"writing", "reading"}
      PROVE  \A u \in Threads : /\ HasPort(u)' <=> HasPort(u)
                                /\ HasPort(u) => job'[u] = job[u]
  BY <1>1, OneJob DEF HasPort
<1>2. ASSUME NEW t \in Threads, NEW op, NEW k, NEW i, Begins(t, op, k, i)
      PROVE  \A u \in Threads : /\ HasPort(u)' <=> HasPort(u)
                                /\ HasPort(u) => job'[u] = job[u]
  BY <1>1, <1>2 DEF Begins, Busy, HasPort
<1>3. ASSUME NEW t \in Threads, NEW place, Goes(t, place), ~ HasPort(t),
             place \notin {"writing", "reading"}
      PROVE  \A u \in Threads : /\ HasPort(u)' <=> HasPort(u)
                                /\ HasPort(u) => job'[u] = job[u]
  <2>1. job[t] \in Jobs(Len(permits))
    BY DEF TypeOK
  <2>2. [job[t] EXCEPT !.at = place].at = place
    BY <2>1 DEF Jobs
  <2> QED BY <1>1, <1>3, <2>2 DEF Goes
<1>4. ASSUME UNCHANGED job
      PROVE  \A u \in Threads : /\ HasPort(u)' <=> HasPort(u)
                                /\ HasPort(u) => job'[u] = job[u]
  BY <1>4 DEF HasPort
<1>5. ASSUME Construct \/ UNCHANGED upset
      PROVE  upset \subseteq upset' /\ ("exited" \in upset' => "exited" \in upset)
  BY <1>5 DEF Construct, Upset
<1>6. ASSUME NEW c \in Chats, CallChat(c) \/ FirstToken(c) PROVE Away
  BY <1>2, <1>5, <1>6, KeystoreAssumption DEF Away, CallChat, FirstToken, Unshared, Threads
<1>7. ASSUME NEW c \in Chats, Derive(c) \/ TextArrives(c) \/ PressSend(c) PROVE Away
  BY <1>2, <1>5, <1>7, KeystoreAssumption DEF Away, Derive, TextArrives, PressSend, Unshared, Threads
<1>8. ASSUME NEW c \in Chats, Connect(c) \/ ConnectRefused(c) \/ AcceptChat(c) PROVE Away
  BY <1>4, <1>5, <1>8 DEF Away, Connect, ConnectRefused, AcceptChat, Unshared
<1>9. ASSUME NEW t \in Threads, Acquire(t) PROVE Away
  <2>1. ~ HasPort(t) /\ Goes(t, "opening")
    BY <1>9 DEF Acquire, At, HasPort
  <2> QED BY <1>3, <1>9, <2>1 DEF Away, Acquire
<1>10. ASSUME NEW t \in Threads, PortInUse(t) \/ NoPort(t) PROVE Away
  <2>1. ~ HasPort(t) /\ GivesUp(t)
    BY <1>10 DEF PortInUse, NoPort, At, HasPort
  <2>2. \A u \in Threads : /\ HasPort(u)' <=> HasPort(u)
                           /\ HasPort(u) => job'[u] = job[u]
    <3>1. CASE Goes(t, "spinning")
      BY <1>3, <2>1, <3>1
    <3>2. CASE job' = [job EXCEPT ![t] = Idle]
      BY <1>1, <2>1, <3>2 DEF Idle
    <3> QED BY <2>1, <3>1, <3>2 DEF GivesUp
  <2> QED BY <1>10, <2>2 DEF Away, PortInUse, NoPort, Upset
<1> QED BY <1>6, <1>7, <1>8, <1>9, <1>10

\* Two threads that have the same port are one.
LEMMA OneThreadPerPort ==
    ASSUME PortInv, \A v \in Threads : JobInv(v),
           NEW t \in Threads, NEW u \in Threads, HasPort(t), HasPort(u),
           Port(job[t].key) = Port(job[u].key)
    PROVE  t = u
<1>1. job[t].key = job[u].key
  BY DEF PortInv
<1>2. Busy(t) /\ Busy(u)
  BY DEF HasPort, Busy
<1> QED BY <1>1, <1>2, OneThreadPerKey

\* The thread that has a port lets nobody else open it.
LEMMA PortTaken ==
    ASSUME PortInv, \A v \in Threads : JobInv(v), NEW t \in Threads, HasPort(t)
    PROVE  /\ owner[Port(job[t].key)] \notin {Free, Guest}
           /\ owner[Port(job[t].key)] = job[t].key
           /\ job[t].key \in Keystores /\ Port(job[t].key) \in Ports
<1>1. Busy(t)
  BY DEF HasPort, Busy
<1>2. job[t].key \in Keystores
  BY <1>1 DEF JobInv
<1> QED BY <1>2, KeysAreKeys, PortOfKey DEF PortInv

\* What OpenPort does to the thread.
LEMMA Opened ==
    ASSUME IInv, NEW t \in Threads, OpenPort(t)
    PROVE  /\ job[t].key \in Keystores /\ Port(job[t].key) \in Ports
           /\ job[t].left = Lines(job[t].op)
           /\ ~ HasPort(t) /\ HasPort(t)' /\ job'[t].at = "writing"
           /\ job'[t].key = job[t].key /\ job'[t].op = job[t].op
           /\ job'[t].left = job[t].left
           /\ job'[t].sure = (board[Port(job[t].key)].op = 0)
           /\ \A u \in Threads : u # t => job'[u] = job[u]
           /\ owner[Port(job[t].key)] = Free
           /\ owner' = [owner EXCEPT ![Port(job[t].key)] = job[t].key]
           /\ answers' = [answers EXCEPT ![Port(job[t].key)] = <<>>]
           /\ UNCHANGED <<board, upset>>
<1> DEFINE j == [job[t] EXCEPT !.at = "writing", !.sure = (board[Port(job[t].key)].op = 0)]
<1>1. job[t].at = "opening" /\ Busy(t) /\ JobInv(t) /\ TypeOK
  BY DEF OpenPort, Opens, At, Busy, IInv
<1>2. job[t] \in Jobs(Len(permits))
  BY <1>1 DEF TypeOK
<1>3. job' = [job EXCEPT ![t] = j]
  BY <1>1 DEF OpenPort, Opens, TypeOK
<1>4. /\ j.at = "writing" /\ j.key = job[t].key /\ j.op = job[t].op /\ j.left = job[t].left
      /\ j.sure = (board[Port(job[t].key)].op = 0)
  BY <1>2 DEF Jobs
<1> HIDE DEF j
<1>5. job'[t] = j /\ \A u \in Threads : u # t => job'[u] = job[u]
  BY <1>1, <1>3, OneJob
<1>6. job[t].key \in Keystores /\ Port(job[t].key) \in Ports /\ job[t].left = Lines(job[t].op)
  BY <1>1, PortOfKey DEF JobInv
<1> QED BY <1>1, <1>4, <1>5, <1>6 DEF OpenPort, Opens, HasPort

\* What Write does to the thread.
LEMMA Written ==
    ASSUME IInv, NEW t \in Threads, Write(t)
    PROVE  /\ HasPort(t) /\ HasPort(t)' /\ job[t].at = "writing"
           /\ job'[t].key = job[t].key /\ job'[t].op = job[t].op /\ job'[t].sure = job[t].sure
           /\ job'[t].left = job[t].left - 1
           /\ job'[t].at = IF job[t].left = 1 THEN "reading" ELSE "writing"
           /\ \A u \in Threads : u # t => job'[u] = job[u]
           /\ ~ Working(board[Port(job[t].key)])
           /\ board' = [board EXCEPT ![Port(job[t].key)] =
                           Takes(board[Port(job[t].key)], Line(job[t]), job[t].sure)]
           /\ UNCHANGED <<owner, answers, upset>>
<1> DEFINE place == IF job[t].left = 1 THEN "reading" ELSE "writing"
           j == [job[t] EXCEPT !.left = job[t].left - 1, !.at = place]
<1>1. job[t].at = "writing" /\ TypeOK
  BY DEF Write, At, IInv
<1>2. job[t] \in Jobs(Len(permits))
  BY <1>1 DEF TypeOK
<1>3. job' = [job EXCEPT ![t] = j]
  BY <1>1 DEF Write, TypeOK
<1>4. /\ j.at = place /\ j.key = job[t].key /\ j.op = job[t].op /\ j.left = job[t].left - 1
      /\ j.sure = job[t].sure
  BY <1>2 DEF Jobs
<1> HIDE DEF j
<1>5. job'[t] = j /\ \A u \in Threads : u # t => job'[u] = job[u]
  BY <1>1, <1>3, OneJob
<1>6. HasPort(t) /\ HasPort(t)'
  BY <1>1, <1>4, <1>5 DEF HasPort
<1>7. /\ board' = [board EXCEPT ![Port(job[t].key)] =
                     Takes(board[Port(job[t].key)], Line(job[t]), job[t].sure)]
      /\ ~ Working(board[Port(job[t].key)])
      /\ UNCHANGED <<owner, answers, upset>>
  BY <1>1 DEF Write, TypeOK
<1> QED BY <1>1, <1>4, <1>5, <1>6, <1>7

\* What Read does to the thread.
LEMMA Closed ==
    ASSUME IInv, NEW t \in Threads, Read(t)
    PROVE  /\ HasPort(t) /\ job[t].at = "reading" /\ job'[t] = Idle /\ ~ HasPort(t)'
           /\ \A u \in Threads : u # t => job'[u] = job[u]
           /\ Len(answers[Port(job[t].key)]) >= Answers(job[t].op)
           /\ owner' = [owner EXCEPT ![Port(job[t].key)] = Free]
           /\ answers' = [answers EXCEPT ![Port(job[t].key)] = <<>>]
           /\ UNCHANGED <<board, upset>>
<1>1. job[t].at = "reading" /\ TypeOK /\ job' = [job EXCEPT ![t] = Idle]
  BY DEF Read, Closes, At, IInv
<1>2. job'[t] = Idle /\ \A u \in Threads : u # t => job'[u] = job[u]
  BY <1>1, OneJob
<1> QED BY <1>1, <1>2 DEF Read, Closes, HasPort, Idle

LEMMA PortNext ==
    ASSUME IInv, Next
    PROVE  PortInv'
<1>a. TypeOK /\ PortInv /\ \A t \in Threads : JobInv(t)
  BY DEF IInv
<1>1. ASSUME UNCHANGED owner, upset \subseteq upset',
             \A u \in Threads : /\ HasPort(u)' <=> HasPort(u)
                                /\ HasPort(u) => job'[u].key = job[u].key
      PROVE  PortInv'
  <2>0. \A u \in Threads : HasPort(u)' => HasPort(u) /\ job'[u].key = job[u].key
    BY <1>1
  <2>1. \A u \in Threads : HasPort(u)' => owner'[Port(job'[u].key)] = job'[u].key
    <3>1. ASSUME NEW u \in Threads, HasPort(u)' PROVE owner'[Port(job'[u].key)] = job'[u].key
      <4>1. HasPort(u) /\ job'[u].key = job[u].key
        BY <2>0, <3>1
      <4>2. owner[Port(job[u].key)] = job[u].key
        BY <1>a, <4>1 DEF PortInv
      <4> QED BY <1>1, <4>1, <4>2
    <3> QED BY <3>1
  <2>2. ASSUME NEW p \in Ports, owner'[p] \in Keystores
        PROVE  \E u \in Threads : HasPort(u)' /\ job'[u].key = owner'[p] /\ Port(job'[u].key) = p
    <3>1. PICK u \in Threads : HasPort(u) /\ job[u].key = owner[p] /\ Port(job[u].key) = p
      BY <1>a, <1>1, <2>2 DEF PortInv
    <3>2. HasPort(u)' /\ job'[u].key = job[u].key
      BY <1>1, <3>1
    <3> QED BY <1>1, <3>1, <3>2
  <2>3. \A p \in Ports : owner'[p] = Guest => "guest" \in upset'
    BY <1>a, <1>1 DEF PortInv
  <2> QED BY <2>1, <2>2, <2>3 DEF PortInv
<1>2. ASSUME Away PROVE PortInv'
  BY <1>1, <1>2 DEF Away
<1>3. ASSUME NEW t \in Threads, OpenPort(t) PROVE PortInv'
  <2> DEFINE q == Port(job[t].key)
  <2>1. /\ q \in Ports /\ job[t].key \in Keystores /\ owner[q] = Free
        /\ HasPort(t)' /\ ~ HasPort(t) /\ job'[t].key = job[t].key
        /\ \A u \in Threads : u # t => job'[u] = job[u]
        /\ owner' = [owner EXCEPT ![q] = job[t].key] /\ UNCHANGED upset
    BY <1>3, Opened
  <2>2. \A p \in Ports : owner'[p] = IF p = q THEN job[t].key ELSE owner[p]
    BY <1>a, <2>1 DEF TypeOK
  <2>3. ASSUME NEW u \in Threads, HasPort(u)' PROVE owner'[Port(job'[u].key)] = job'[u].key
    <3>1. CASE u = t
      BY <2>1, <2>2, <3>1
    <3>2. CASE u # t
      <4>1. HasPort(u) /\ job'[u] = job[u]
        BY <2>1, <2>3, <3>2 DEF HasPort
      <4>2. Port(job[u].key) \in Ports /\ owner[Port(job[u].key)] # Free
              /\ owner[Port(job[u].key)] = job[u].key
        BY <1>a, <4>1, PortTaken
      <4> QED BY <2>1, <2>2, <4>1, <4>2
    <3> QED BY <3>1, <3>2
  <2>4. ASSUME NEW p \in Ports, owner'[p] \in Keystores
        PROVE  \E u \in Threads : HasPort(u)' /\ job'[u].key = owner'[p] /\ Port(job'[u].key) = p
    <3>1. CASE p = q
      BY <2>1, <2>2, <3>1
    <3>2. CASE p # q
      <4>1. PICK u \in Threads : HasPort(u) /\ job[u].key = owner[p] /\ Port(job[u].key) = p
        BY <1>a, <2>2, <2>4, <3>2 DEF PortInv
      <4>2. u # t /\ job'[u] = job[u] /\ HasPort(u)'
        BY <2>1, <4>1 DEF HasPort
      <4> QED BY <2>2, <3>2, <4>1, <4>2
    <3> QED BY <3>1, <3>2
  <2>5. \A p \in Ports : owner'[p] = Guest => "guest" \in upset'
    BY <1>a, <2>1, <2>2, KeysAreKeys DEF PortInv
  <2> HIDE DEF q
  <2> QED BY <2>3, <2>4, <2>5 DEF PortInv
<1>4. ASSUME NEW t \in Threads, Write(t) PROVE PortInv'
  <2>1. /\ HasPort(t) /\ HasPort(t)' /\ job'[t].key = job[t].key
        /\ \A u \in Threads : u # t => job'[u] = job[u]
        /\ UNCHANGED <<owner, upset>>
    BY <1>4, Written
  <2>2. \A u \in Threads : u # t => (HasPort(u)' <=> HasPort(u))
    BY <2>1 DEF HasPort
  <2> QED BY <1>1, <2>1, <2>2
<1>5. ASSUME NEW t \in Threads, Read(t) PROVE PortInv'
  <2> DEFINE q == Port(job[t].key)
  <2>1. /\ HasPort(t) /\ ~ HasPort(t)' /\ \A u \in Threads : u # t => job'[u] = job[u]
        /\ owner' = [owner EXCEPT ![q] = Free] /\ UNCHANGED upset
    BY <1>5, Closed
  <2>2. \A p \in Ports : owner'[p] = IF p = q THEN Free ELSE owner[p]
    BY <1>a, <2>1 DEF TypeOK
  <2>3. ASSUME NEW u \in Threads, HasPort(u)' PROVE owner'[Port(job'[u].key)] = job'[u].key
    <3>1. u # t /\ HasPort(u) /\ job'[u] = job[u]
      BY <2>1, <2>3 DEF HasPort
    <3>2. Port(job[u].key) # q
      BY <1>a, <2>1, <3>1, OneThreadPerPort
    <3>3. Port(job[u].key) \in Ports /\ owner[Port(job[u].key)] = job[u].key
      BY <1>a, <3>1, PortTaken
    <3> HIDE DEF q
    <3> QED BY <2>2, <3>1, <3>2, <3>3
  <2>4. ASSUME NEW p \in Ports, owner'[p] \in Keystores
        PROVE  \E u \in Threads : HasPort(u)' /\ job'[u].key = owner'[p] /\ Port(job'[u].key) = p
    <3>1. p # q /\ owner'[p] = owner[p]
      BY <2>2, <2>4, KeysAreKeys
    <3>2. PICK u \in Threads : HasPort(u) /\ job[u].key = owner[p] /\ Port(job[u].key) = p
      BY <1>a, <2>4, <3>1 DEF PortInv
    <3>3. u # t /\ job'[u] = job[u] /\ HasPort(u)'
      BY <2>1, <3>1, <3>2 DEF HasPort
    <3> QED BY <3>1, <3>2, <3>3
  <2>5. \A p \in Ports : owner'[p] = Guest => "guest" \in upset'
    BY <1>a, <2>1, <2>2, KeysAreKeys DEF PortInv
  <2> HIDE DEF q
  <2> QED BY <2>3, <2>4, <2>5 DEF PortInv
<1>6. ASSUME NEW p \in Ports, BoardAnswers(p) PROVE PortInv'
  BY <1>1, <1>6 DEF BoardAnswers, HasPort
<1>7. ASSUME NEW q \in Ports, GuestOpens(q) \/ GuestCloses(q) PROVE PortInv'
  <2>1. /\ \A p \in Ports : p # q => owner'[p] = owner[p]
        /\ owner'[q] \in {Free, Guest} /\ owner[q] \in {Free, Guest}
        /\ UNCHANGED job /\ upset \subseteq upset'
        /\ owner'[q] = Guest => "guest" \in upset'
    BY <1>a, <1>7, KeysAreKeys DEF TypeOK, GuestOpens, GuestCloses, Upset
  <2>2. ASSUME NEW u \in Threads, HasPort(u)' PROVE owner'[Port(job'[u].key)] = job'[u].key
    <3>1. HasPort(u) /\ job'[u] = job[u]
      BY <2>1, <2>2 DEF HasPort
    <3>2. Port(job[u].key) \in Ports /\ owner[Port(job[u].key)] = job[u].key
            /\ owner[Port(job[u].key)] \notin {Free, Guest}
      BY <1>a, <3>1, PortTaken
    <3> QED BY <2>1, <3>1, <3>2
  <2>3. ASSUME NEW p \in Ports, owner'[p] \in Keystores
        PROVE  \E u \in Threads : HasPort(u)' /\ job'[u].key = owner'[p] /\ Port(job'[u].key) = p
    <3>1. owner'[p] = owner[p]
      BY <2>1, <2>3, KeysAreKeys
    <3>2. PICK u \in Threads : HasPort(u) /\ job[u].key = owner[p] /\ Port(job[u].key) = p
      BY <1>a, <2>3, <3>1 DEF PortInv
    <3> QED BY <2>1, <3>1, <3>2 DEF HasPort
  <2>4. \A p \in Ports : owner'[p] = Guest => "guest" \in upset'
    BY <1>a, <2>1 DEF PortInv
  <2> QED BY <2>2, <2>3, <2>4 DEF PortInv
<1>8. ASSUME Exit PROVE PortInv'
  <2>1. \A u \in Threads : ~ HasPort(u)'
    BY <1>8 DEF Exit, HasPort, Idle
  <2>2. /\ \A p \in Ports : owner'[p] \in {Free, Guest} /\ (owner'[p] = Guest => owner[p] = Guest)
        /\ upset \subseteq upset'
    BY <1>8, KeysAreKeys DEF Exit, Upset
  <2> QED BY <1>a, <2>1, <2>2, KeysAreKeys DEF PortInv
<1> QED
  <2>1. ASSUME NEW t \in Threads, Acquire(t) \/ PortInUse(t) \/ NoPort(t) PROVE PortInv'
    BY <1>a, <1>2, <2>1, AwaySteps
  <2>2. ASSUME NEW c \in Chats, \/ CallChat(c) \/ Connect(c) \/ ConnectRefused(c) \/ AcceptChat(c)
                                \/ FirstToken(c) \/ Derive(c) \/ TextArrives(c) \/ PressSend(c)
        PROVE  PortInv'
    BY <1>a, <1>2, <2>2, AwaySteps
  <2> QED BY <1>3, <1>4, <1>5, <1>6, <1>7, <1>8, <2>1, <2>2 DEF Next, Command

\* A board takes a line of the command it is asked for.
LEMMA LineTaken ==
    ASSUME NEW j \in Jobs(Len(permits)), NEW b \in BoardStates, NEW a \in AnswerLines,
           j.at = "writing", j.sure, j.op \in Commands, j.left \in 1 .. Lines(j.op),
           InTime(j, b, a)
    PROVE  Takes(b, Line(j), TRUE) = [op |-> j.op, left |-> j.left - 1, said |-> 0, whole |-> TRUE]
<1>1. CASE j.left = Lines(j.op)
  <2>1. b = Resting /\ Line(j) = j.op /\ b.op = 0
    BY <1>1 DEF InTime, Line, Resting
  <2>2. Takes(b, Line(j), TRUE) = Begun(j.op)
    BY <2>1 DEF Takes
  <2>3. Arguments(j.op) = j.left - 1
    BY <1>1 DEF Arguments, Lines
  <2> QED BY <2>2, <2>3 DEF Begun
<1>2. CASE j.left # Lines(j.op)
  <2>1. b = [op |-> j.op, left |-> j.left, said |-> 0, whole |-> TRUE] /\ b.op # 0
    BY <1>2 DEF InTime, Commands
  <2>2. Takes(b, Line(j), TRUE) = [b EXCEPT !.left = b.left - 1, !.whole = b.whole /\ TRUE]
    BY <2>1 DEF Takes
  <2> QED BY <2>1, <2>2
<1> QED BY <1>1, <1>2

LEMMA BoardNext ==
    ASSUME IInv, Next
    PROVE  BoardInv'
<1>a. /\ TypeOK /\ PortInv /\ BoardInv /\ BoardsComeToRest /\ \A t \in Threads : JobInv(t)
  BY DEF IInv
<1> DEFINE RestOf(p) == /\ board[p].op = 0 => board[p] = Resting
                        /\ board[p].said < Answers(board[p].op)
           TimeOf(u) == HasPort(u) /\ job[u].sure =>
                           InTime(job[u], board[Port(job[u].key)], answers[Port(job[u].key)])
           SureOf(u) == "exited" \notin upset => (HasPort(u) => job[u].sure)
<1>b. /\ BoardInv <=> /\ \A p \in Ports : RestOf(p)
                      /\ \A u \in Threads : TimeOf(u) /\ SureOf(u)
      /\ BoardInv' <=> /\ \A p \in Ports : RestOf(p)'
                       /\ \A u \in Threads : TimeOf(u)' /\ SureOf(u)'
  BY DEF BoardInv
<1>2. ASSUME Away PROVE BoardInv'
  <2>1. \A p \in Ports : RestOf(p)'
    BY <1>a, <1>b, <1>2 DEF Away
  <2>2. ASSUME NEW u \in Threads PROVE TimeOf(u)' /\ SureOf(u)'
    <3>1. TimeOf(u) /\ SureOf(u)
      BY <1>a, <1>b
    <3> QED BY <1>2, <3>1 DEF Away, HasPort
  <2> QED BY <1>b, <2>1, <2>2
<1>3. ASSUME NEW t \in Threads, OpenPort(t) PROVE BoardInv'
  <2> DEFINE q == Port(job[t].key)
  <2>1. /\ q \in Ports /\ job[t].key \in Keystores /\ owner[q] = Free
        /\ HasPort(t)' /\ job'[t].key = job[t].key /\ job'[t].op = job[t].op
        /\ job'[t].left = job[t].left /\ job[t].left = Lines(job[t].op)
        /\ job'[t].at = "writing" /\ job'[t].sure = (board[q].op = 0)
        /\ \A u \in Threads : u # t => job'[u] = job[u]
        /\ answers' = [answers EXCEPT ![q] = <<>>] /\ UNCHANGED <<board, upset>>
    BY <1>3, Opened
  <2>2. \A p \in Ports : answers'[p] = IF p = q THEN <<>> ELSE answers[p]
    BY <1>a, <2>1 DEF TypeOK
  <2>3. \A p \in Ports : RestOf(p)'
    BY <1>a, <1>b, <2>1
  <2>4. TimeOf(t)' /\ SureOf(t)'
    <3>1. board[q].op = 0 => board[q] = Resting
      BY <1>a, <1>b, <2>1
    <3>2. "exited" \notin upset => board[q] = Resting
      BY <1>a, <2>1 DEF BoardsComeToRest
    <3>3. Resting.op = 0
      BY DEF Resting
    <3> QED BY <2>1, <2>2, <3>1, <3>2, <3>3 DEF InTime
  <2>5. ASSUME NEW u \in Threads, u # t PROVE TimeOf(u)' /\ SureOf(u)'
    <3>1. TimeOf(u) /\ SureOf(u) /\ job'[u] = job[u] /\ (HasPort(u)' <=> HasPort(u))
      BY <1>a, <1>b, <2>1, <2>5 DEF HasPort
    <3>2. HasPort(u) => Port(job[u].key) \in Ports /\ Port(job[u].key) # q
      BY <1>a, <2>1, PortTaken
    <3> HIDE DEF q
    <3> QED BY <2>1, <2>2, <3>1, <3>2
  <2> HIDE DEF TimeOf, SureOf
  <2> QED BY <1>b, <2>3, <2>4, <2>5
<1>4. ASSUME NEW t \in Threads, Write(t) PROVE BoardInv'
  <2> DEFINE q == Port(job[t].key)
             b == Takes(board[q], Line(job[t]), job[t].sure)
  <2>1. /\ HasPort(t) /\ HasPort(t)' /\ job[t].at = "writing" /\ job'[t].key = job[t].key
        /\ job'[t].op = job[t].op /\ job'[t].sure = job[t].sure /\ ~ Working(board[q])
        /\ job'[t].left = job[t].left - 1
        /\ job'[t].at = IF job[t].left = 1 THEN "reading" ELSE "writing"
        /\ \A u \in Threads : u # t => job'[u] = job[u]
        /\ board' = [board EXCEPT ![q] = b] /\ UNCHANGED <<answers, upset>>
    BY <1>4, Written
  <2>2. /\ q \in Ports /\ Busy(t) /\ job[t].op \in Commands
        /\ job[t].left \in 1 .. Lines(job[t].op)
        /\ job[t] \in Jobs(Len(permits)) /\ board[q] \in BoardStates /\ answers[q] \in AnswerLines
    BY <1>a, <2>1, PortTaken DEF Busy, JobInv, TypeOK, HasPort
  <2>3. \A p \in Ports : board'[p] = IF p = q THEN b ELSE board[p]
    BY <1>a, <2>1, <2>2 DEF TypeOK
  <2>4. ASSUME NEW p \in Ports PROVE RestOf(p)'
    <3>1. RestOf(p) /\ RestOf(q)
      BY <1>a, <1>b, <2>2
    <3>2. CASE p = q
      <4>1. (b.op = 0 => b = Resting) /\ b.said < Answers(b.op)
        <5>1. CASE board[q].op # 0
          <6>1. b = [board[q] EXCEPT !.left = board[q].left - 1,
                                     !.whole = board[q].whole /\ job[t].sure]
            BY <5>1 DEF Takes
          <6>2. b.op = board[q].op /\ b.said = board[q].said
            BY <2>2, <6>1 DEF BoardStates
          <6> HIDE DEF b
          <6> QED BY <3>1, <5>1, <6>2
        <5>2. CASE board[q].op = 0 /\ Line(job[t]) \in Commands
          BY <5>2 DEF Takes, Begun, Answers, Commands
        <5>3. CASE board[q].op = 0 /\ Line(job[t]) \notin Commands
          BY <3>1, <5>3 DEF Takes
        <5> QED BY <5>1, <5>2, <5>3
      <4> HIDE DEF b
      <4> QED BY <2>3, <3>2, <4>1
    <3>3. CASE p # q
      BY <2>3, <3>1, <3>3
    <3> QED BY <3>2, <3>3
  <2>5. TimeOf(t)' /\ SureOf(t)'
    <3>1. TimeOf(t) /\ SureOf(t)
      BY <1>a, <1>b
    <3>2. SureOf(t)'
      BY <2>1, <3>1
    <3>3. ASSUME job[t].sure
          PROVE  InTime(job'[t], board'[Port(job'[t].key)], answers'[Port(job'[t].key)])
      <4>1. InTime(job[t], board[q], answers[q])
        BY <2>1, <3>1, <3>3
      <4>2. b = [op |-> job[t].op, left |-> job[t].left - 1, said |-> 0, whole |-> TRUE]
        <5>1. job[t].sure = TRUE
          BY <2>2, <3>3 DEF Jobs
        <5> QED BY <2>1, <2>2, <3>3, <4>1, <5>1, LineTaken
      <4>3. board'[q] = b /\ answers'[q] = <<>> /\ Port(job'[t].key) = q
        BY <2>1, <2>2, <2>3, <4>1 DEF InTime
      <4>4. job[t].left - 1 # Lines(job[t].op) /\ job[t].left - 1 \in Int
        BY <2>2 DEF Lines
      <4> HIDE DEF q, b
      <4>5. CASE job[t].left = 1
        <5>1. job'[t].at = "reading" /\ job'[t].op = job[t].op
          BY <2>1, <4>5
        <5>2. board'[q] = [op |-> job[t].op, left |-> 0, said |-> Len(answers'[q]), whole |-> TRUE]
          BY <4>2, <4>3, <4>5
        <5>3. \A i \in DOMAIN answers'[q] : answers'[q][i] = [op |-> job[t].op, whole |-> TRUE]
          BY <4>3
        <5> QED BY <4>3, <5>1, <5>2, <5>3 DEF InTime
      <4>6. CASE job[t].left # 1
        BY <2>1, <4>2, <4>3, <4>4, <4>6 DEF InTime
      <4> QED BY <4>5, <4>6
    <3> QED BY <2>1, <3>2, <3>3
  <2>6. ASSUME NEW u \in Threads, u # t PROVE TimeOf(u)' /\ SureOf(u)'
    <3>1. TimeOf(u) /\ SureOf(u) /\ job'[u] = job[u] /\ (HasPort(u)' <=> HasPort(u))
      BY <1>a, <1>b, <2>1, <2>6 DEF HasPort
    <3>2. HasPort(u) => Port(job[u].key) \in Ports /\ Port(job[u].key) # q
      BY <1>a, <2>1, <2>6, PortTaken, OneThreadPerPort
    <3> HIDE DEF q, b
    <3> QED BY <2>1, <2>3, <3>1, <3>2
  <2> HIDE DEF TimeOf, SureOf, RestOf
  <2> QED BY <1>b, <2>4, <2>5, <2>6
<1>5. ASSUME NEW t \in Threads, Read(t) PROVE BoardInv'
  <2> DEFINE q == Port(job[t].key)
  <2>1. /\ HasPort(t) /\ ~ HasPort(t)' /\ \A u \in Threads : u # t => job'[u] = job[u]
        /\ answers' = [answers EXCEPT ![q] = <<>>] /\ UNCHANGED <<board, upset>>
    BY <1>5, Closed
  <2>2. \A p \in Ports : p # q => answers'[p] = answers[p]
    BY <1>a, <2>1 DEF TypeOK
  <2>3. \A p \in Ports : RestOf(p)'
    BY <1>a, <1>b, <2>1
  <2>4. ASSUME NEW u \in Threads PROVE TimeOf(u)' /\ SureOf(u)'
    <3>1. CASE u = t
      BY <2>1, <3>1
    <3>2. CASE u # t
      <4>1. TimeOf(u) /\ SureOf(u) /\ job'[u] = job[u] /\ (HasPort(u)' <=> HasPort(u))
        BY <1>a, <1>b, <2>1, <3>2 DEF HasPort
      <4>2. HasPort(u) => Port(job[u].key) \in Ports /\ Port(job[u].key) # q
        BY <1>a, <2>1, <3>2, PortTaken, OneThreadPerPort
      <4> HIDE DEF q
      <4> QED BY <2>1, <2>2, <4>1, <4>2
    <3> QED BY <3>1, <3>2
  <2> HIDE DEF TimeOf, SureOf, RestOf
  <2> QED BY <1>b, <2>3, <2>4
<1>6. ASSUME NEW q \in Ports, BoardAnswers(q) PROVE BoardInv'
  <2> DEFINE b == board[q]
             line == [op |-> b.op, whole |-> b.whole]
             next == IF b.said + 1 = Answers(b.op) THEN Resting ELSE [b EXCEPT !.said = b.said + 1]
  <2>1. /\ Working(b) /\ b \in BoardStates /\ UNCHANGED <<job, owner, upset>> /\ RestOf(q)
        /\ board' = [board EXCEPT ![q] = next]
        /\ owner[q] # Free => answers' = [answers EXCEPT ![q] = Append(answers[q], line)]
        /\ owner[q] = Free => answers' = [answers EXCEPT ![q] = <<>>]
    BY <1>a, <1>b, <1>6 DEF BoardAnswers, TypeOK
  <2>2. \A p \in Ports : /\ board'[p] = IF p = q THEN next ELSE board[p]
                         /\ p # q => answers'[p] = answers[p]
    BY <1>a, <2>1 DEF TypeOK
  <2>3. (next.op = 0 => next = Resting) /\ next.said < Answers(next.op)
    <3>1. CASE b.said + 1 = Answers(b.op)
      BY <3>1 DEF Resting, Answers
    <3>2. CASE b.said + 1 # Answers(b.op)
      <4>1. next = [b EXCEPT !.said = b.said + 1] /\ next.op = b.op /\ next.said = b.said + 1
        BY <2>1, <3>2 DEF BoardStates
      <4>2. b.op # 0 /\ b.said \in {0, 1} /\ b.said < Answers(b.op) /\ Answers(b.op) \in {1, 2}
        BY <2>1 DEF Working, BoardStates, Answers
      <4> HIDE DEF next
      <4> QED BY <3>2, <4>1, <4>2
    <3> QED BY <3>1, <3>2
  <2>4. \A p \in Ports : RestOf(p)'
    <3> HIDE DEF next
    <3> QED BY <1>a, <1>b, <2>2, <2>3
  <2>5. ASSUME NEW u \in Threads PROVE TimeOf(u)' /\ SureOf(u)'
    <3>1. TimeOf(u) /\ SureOf(u) /\ job'[u] = job[u] /\ (HasPort(u)' <=> HasPort(u))
      BY <1>a, <1>b, <2>1 DEF HasPort
    <3>2. SureOf(u)'
      BY <2>1, <3>1
    <3>3. CASE Port(job[u].key) # q
      <4>1. HasPort(u) => Port(job[u].key) \in Ports
        BY <1>a, PortTaken
      <4> HIDE DEF next
      <4> QED BY <2>2, <3>1, <3>2, <3>3, <4>1
    <3>4. ASSUME Port(job[u].key) = q, HasPort(u), job[u].sure
          PROVE  InTime(job[u], board'[q], answers'[q])
      <4>1. InTime(job[u], b, answers[q]) /\ owner[q] # Free /\ Busy(u)
        BY <1>a, <3>1, <3>4, PortTaken DEF HasPort, Busy
      <4>2. job[u].op \in Commands /\ job[u].left \in 0 .. 3 /\ job[u].at \in {"reading", "writing"}
            /\ (job[u].at = "writing" => job[u].left \in 1 .. 3)
        BY <1>a, <3>4, <4>1 DEF JobInv, HasPort, TypeOK, Jobs, Lines
      <4>3. job[u].at = "reading"
        BY <2>1, <4>1, <4>2 DEF InTime, Working, Resting
      <4>4. b = [op |-> job[u].op, left |-> 0, said |-> Len(answers[q]), whole |-> TRUE]
        BY <2>1, <4>1, <4>3 DEF InTime, Working, Resting
      <4>5. line = [op |-> job[u].op, whole |-> TRUE] /\ b.said = Len(answers[q]) /\ b.op = job[u].op
        BY <4>4
      <4>6. answers[q] \in AnswerLines /\ answers[q] \in Seq([op : Commands, whole : BOOLEAN])
        BY <1>a DEF TypeOK, AnswerLines
      <4> DEFINE a2 == Append(answers[q], line)
      <4>7. answers'[q] = a2
        BY <1>a, <2>1, <4>1 DEF TypeOK
      <4>8. /\ Len(a2) = Len(answers[q]) + 1
            /\ DOMAIN a2 = 1 .. Len(answers[q]) + 1
            /\ \A i \in 1 .. Len(answers[q]) : a2[i] = answers[q][i]
            /\ a2[Len(answers[q]) + 1] = line
            /\ Len(answers[q]) \in Nat /\ DOMAIN answers[q] = 1 .. Len(answers[q])
        <5> HIDE DEF line
        <5>1. line \in [op : Commands, whole : BOOLEAN]
          BY <4>2, <4>5
        <5> QED BY <4>6, <5>1
      <4>9. \A i \in DOMAIN a2 : a2[i] = [op |-> job[u].op, whole |-> TRUE]
        <5> HIDE DEF a2, line
        <5>1. \A i \in DOMAIN answers[q] : answers[q][i] = [op |-> job[u].op, whole |-> TRUE]
          BY <4>1, <4>3 DEF InTime
        <5>2. SUFFICES ASSUME NEW i \in DOMAIN a2
                       PROVE  a2[i] = [op |-> job[u].op, whole |-> TRUE]
          OBVIOUS
        <5>3. CASE i = Len(answers[q]) + 1
          BY <4>5, <4>8, <5>3
        <5>4. CASE i # Len(answers[q]) + 1
          <6>1. i \in 1 .. Len(answers[q])
            BY <4>8, <5>4
          <6> QED BY <4>8, <5>1, <6>1
        <5> QED BY <5>3, <5>4
      <4>10. \/ next = Resting /\ Len(a2) = Answers(job[u].op)
             \/ next = [op |-> job[u].op, left |-> 0, said |-> Len(a2), whole |-> TRUE]
        <5> HIDE DEF a2
        <5>1. CASE b.said + 1 = Answers(b.op)
          BY <4>5, <4>8, <5>1
        <5>2. CASE b.said + 1 # Answers(b.op)
          <6>1. next = [b EXCEPT !.said = b.said + 1]
            BY <5>2
          <6>2. next = [op |-> job[u].op, left |-> 0, said |-> b.said + 1, whole |-> TRUE]
            <7>1. /\ b.op = job[u].op /\ b.left = 0 /\ b.whole = TRUE
              BY <4>4
            <7>2. b.said + 1 \in {0, 1}
              BY <2>1, <5>2 DEF BoardStates, Answers
            <7> HIDE DEF b, next
            <7>3. /\ next \in BoardStates
                  /\ next.op = b.op /\ next.left = b.left /\ next.whole = b.whole
                  /\ next.said = b.said + 1
              BY <2>1, <6>1, <7>2 DEF BoardStates
            <7>4. next = [op |-> next.op, left |-> next.left, said |-> next.said, whole |-> next.whole]
              BY <7>3 DEF BoardStates
            <7> QED BY <7>1, <7>3, <7>4
          <6>3. b.said + 1 = Len(a2)
            BY <4>5, <4>8
          <6> HIDE DEF b, next
          <6> QED BY <6>2, <6>3
        <5> QED BY <5>1, <5>2
      <4>11. board'[q] = next
        BY <2>2
      <4> HIDE DEF next, a2, line, b
      <4> QED BY <4>3, <4>7, <4>9, <4>10, <4>11 DEF InTime
    <3> QED BY <2>1, <3>1, <3>2, <3>3, <3>4
  <2> HIDE DEF TimeOf, SureOf, RestOf
  <2> QED BY <1>b, <2>4, <2>5
<1>7. ASSUME NEW q \in Ports, GuestOpens(q) \/ GuestCloses(q) PROVE BoardInv'
  <2>1. /\ UNCHANGED <<job, board, answers>>
        /\ "exited" \in upset' <=> "exited" \in upset
    BY <1>7 DEF GuestOpens, GuestCloses, Upset
  <2> QED BY <1>a, <2>1 DEF BoardInv, HasPort
<1>8. ASSUME Exit PROVE BoardInv'
  <2>1. \A u \in Threads : ~ HasPort(u)'
    BY <1>8 DEF Exit, HasPort, Idle
  <2>2. UNCHANGED board
    BY <1>8 DEF Exit
  <2> QED BY <1>a, <2>1, <2>2 DEF BoardInv
<1> QED
  <2>1. ASSUME NEW t \in Threads, Acquire(t) \/ PortInUse(t) \/ NoPort(t) PROVE BoardInv'
    BY <1>a, <1>2, <2>1, AwaySteps
  <2>2. ASSUME NEW c \in Chats, \/ CallChat(c) \/ Connect(c) \/ ConnectRefused(c) \/ AcceptChat(c)
                                \/ FirstToken(c) \/ Derive(c) \/ TextArrives(c) \/ PressSend(c)
        PROVE  BoardInv'
    BY <1>a, <1>2, <2>2, AwaySteps
  <2> QED BY <1>3, <1>4, <1>5, <1>6, <1>7, <1>8, <2>1, <2>2 DEF Next, Command

LEMMA RestNext ==
    ASSUME IInv, Next
    PROVE  BoardsComeToRest'
<1>a. /\ TypeOK /\ PortInv /\ BoardInv /\ BoardsComeToRest /\ \A t \in Threads : JobInv(t)
  BY DEF IInv
<1>1. ASSUME Away PROVE BoardsComeToRest'
  BY <1>a, <1>1 DEF Away, BoardsComeToRest
<1>2. ASSUME NEW t \in Threads, OpenPort(t) PROVE BoardsComeToRest'
  <2>1. /\ Port(job[t].key) \in Ports /\ job[t].key \in Keystores
        /\ owner' = [owner EXCEPT ![Port(job[t].key)] = job[t].key] /\ UNCHANGED <<board, upset>>
    BY <1>2, Opened
  <2>2. job[t].key \notin {Free, Guest}
    BY <2>1, KeysAreKeys
  <2> QED BY <1>a, <2>1, <2>2 DEF TypeOK, BoardsComeToRest
<1>3. ASSUME NEW t \in Threads, Write(t) PROVE BoardsComeToRest'
  <2> DEFINE b == Takes(board[Port(job[t].key)], Line(job[t]), job[t].sure)
  <2>1. /\ HasPort(t) /\ board' = [board EXCEPT ![Port(job[t].key)] = b] /\ UNCHANGED <<owner, upset>>
    BY <1>3, Written
  <2>2. owner[Port(job[t].key)] \notin {Free, Guest}
    BY <1>a, <2>1, PortTaken
  <2> HIDE DEF b
  <2> QED BY <1>a, <2>1, <2>2 DEF TypeOK, BoardsComeToRest
<1>4. ASSUME NEW t \in Threads, Read(t), "exited" \notin upset' PROVE BoardsComeToRest'
  <2> DEFINE q == Port(job[t].key)
  <2>1. /\ HasPort(t) /\ job[t].at = "reading" /\ Len(answers[q]) >= Answers(job[t].op)
        /\ owner' = [owner EXCEPT ![q] = Free] /\ UNCHANGED <<board, upset>>
    BY <1>4, Closed
  <2>2. job[t].sure /\ InTime(job[t], board[q], answers[q]) /\ q \in Ports
    BY <1>a, <1>4, <2>1, PortTaken DEF BoardInv
  <2>3. board[q] = Resting
    <3>1. board[q].said < Answers(board[q].op) /\ board[q] \in BoardStates
      BY <1>a, <2>2 DEF BoardInv, TypeOK
    <3>2. Len(answers[q]) \in Nat /\ Answers(job[t].op) \in Nat
      BY <1>a, <2>2 DEF TypeOK, AnswerLines, Answers
    <3>3. CASE board[q] = [op |-> job[t].op, left |-> 0, said |-> Len(answers[q]), whole |-> TRUE]
      BY <2>1, <3>1, <3>2, <3>3
    <3> QED BY <2>1, <2>2, <3>3 DEF InTime
  <2> HIDE DEF q
  <2> QED BY <1>a, <2>1, <2>3 DEF TypeOK, BoardsComeToRest
<1>5. ASSUME NEW q \in Ports, BoardAnswers(q) PROVE BoardsComeToRest'
  <2>1. /\ Working(board[q]) /\ \A p \in Ports : p # q => board'[p] = board[p]
        /\ UNCHANGED <<owner, upset>>
    BY <1>a, <1>5 DEF BoardAnswers, TypeOK
  <2>2. ~ Working(Resting)
    BY DEF Working, Resting
  <2> QED BY <1>a, <2>1, <2>2 DEF BoardsComeToRest
<1>6. ASSUME NEW q \in Ports, GuestOpens(q) \/ GuestCloses(q) PROVE BoardsComeToRest'
  <2>1. /\ UNCHANGED board /\ owner[q] \in {Free, Guest}
        /\ \A p \in Ports : p # q => owner'[p] = owner[p]
        /\ "exited" \in upset => "exited" \in upset'
    BY <1>a, <1>6 DEF TypeOK, GuestOpens, GuestCloses, Upset
  <2> QED BY <1>a, <2>1 DEF BoardsComeToRest
<1>7. ASSUME Exit PROVE BoardsComeToRest'
  BY <1>7 DEF Exit, Upset, BoardsComeToRest
<1> QED
  <2>1. ASSUME NEW t \in Threads, Acquire(t) \/ PortInUse(t) \/ NoPort(t) PROVE BoardsComeToRest'
    BY <1>a, <1>1, <2>1, AwaySteps
  <2>2. ASSUME NEW c \in Chats, \/ CallChat(c) \/ Connect(c) \/ ConnectRefused(c) \/ AcceptChat(c)
                                \/ FirstToken(c) \/ Derive(c) \/ TextArrives(c) \/ PressSend(c)
        PROVE  BoardsComeToRest'
    BY <1>a, <1>1, <2>2, AwaySteps
  <2>3. ASSUME NEW t \in Threads, Read(t) PROVE BoardsComeToRest'
    BY <1>4, <2>3 DEF BoardsComeToRest
  <2> QED BY <1>2, <1>3, <1>5, <1>6, <1>7, <2>1, <2>2, <2>3 DEF Next, Command

-------------------------------------------------------------------------------
(*********************** Stages and the semaphore **************************)

\* The steps inside a command change neither what a thread does nor with what.
Inside ==
    /\ \A u \in Threads : /\ Busy(u)' <=> Busy(u)
                          /\ Busy(u) => job'[u].op = job[u].op /\ job'[u].key = job[u].key
    /\ UNCHANGED stage

LEMMA InsideSteps ==
    ASSUME IInv, NEW t \in Threads, Acquire(t) \/ OpenPort(t) \/ Write(t)
    PROVE  Inside
<1>a. TypeOK
  BY DEF IInv
<1>1. job[t] \in Jobs(Len(permits)) /\ Busy(t)
  BY <1>a DEF TypeOK, Acquire, OpenPort, Opens, Write, At, Busy
<1>2. CASE Acquire(t)
  <2>1. job' = [job EXCEPT ![t].at = "opening"] /\ UNCHANGED stage
    BY <1>2 DEF Acquire, Goes, CommandOnly
  <2>2. job'[t] = [job[t] EXCEPT !.at = "opening"] /\ \A u \in Threads : u # t => job'[u] = job[u]
    BY <1>a, <2>1 DEF TypeOK
  <2>3. job'[t].at = "opening" /\ job'[t].op = job[t].op /\ job'[t].key = job[t].key
    BY <1>1, <2>2 DEF Jobs
  <2> QED BY <1>1, <2>1, <2>2, <2>3 DEF Inside, Busy
<1>3. CASE OpenPort(t)
  BY <1>1, <1>3, Opened DEF Inside, Busy, OpenPort, Opens, CommandOnly
<1>4. CASE Write(t)
  <2>1. UNCHANGED stage
    BY <1>4 DEF Write, CommandOnly
  <2> QED BY <1>1, <1>4, <2>1, Written DEF Inside, Busy
<1> QED BY <1>2, <1>3, <1>4

\* The beginning of a command.
LEMMA Beginning ==
    ASSUME TypeOK, NEW t \in Threads, NEW op \in Commands, NEW k, NEW i, Begins(t, op, k, i)
    PROVE  /\ ~ Busy(t) /\ job'[t].at = "waiting" /\ job'[t].op = op /\ job'[t].key = k
           /\ job'[t].sem = i
           /\ \A u \in Threads : u # t => job'[u] = job[u]
<1> DEFINE j == [at |-> "waiting", op |-> op, key |-> k, sem |-> i,
                 left |-> Lines(op), sure |-> TRUE]
<1>1. job' = [job EXCEPT ![t] = j] /\ ~ Busy(t)
  BY DEF Begins
<1>2. j.at = "waiting" /\ j.op = op /\ j.key = k /\ j.sem = i
  OBVIOUS
<1> HIDE DEF j
<1> QED BY <1>1, <1>2, OneJob

LEMMA StageNext ==
    ASSUME IInv, Next
    PROVE  StageInv'
<1>a. /\ TypeOK /\ StageInv /\ \A t \in Threads : JobInv(t)
  BY DEF IInv
<1>0. /\ permits' \in Seq(Nat) /\ permits \in Seq(Nat)
      /\ Swing \in Threads /\ Chats \subseteq Threads /\ Swing \notin Chats
      /\ Exit \/ Len(permits') >= Len(permits)
      /\ 1 \in Commands /\ 2 \in Commands /\ 3 \in Commands /\ 4 \in Commands
      /\ stage \in [Chats -> Stages]
  <2>1. permits' \in Seq(Nat) /\ (Exit \/ Len(permits') >= Len(permits))
    BY <1>a, PermitsStep
  <2> QED BY <1>a, <2>1, KeystoreAssumption DEF Threads, TypeOK, Commands
<1> DEFINE First == \A c \in Chats : stage[c] # "new" => permits # <<>>
           Listens(c) == Busy(c) =>
              /\ job[c].op = 1 => stage[c] = "answering"
              /\ job[c].op = 2 => stage[c] = "deriving"
              /\ job[c].op = 4 => stage[c] = "open"
           Swings == Busy(Swing) =>
              /\ job[Swing].op = 1 => stage[job[Swing].key[1]] = "calling"
              /\ job[Swing].op = 3 => stage[job[Swing].key[1]] \in {"open", "failed"}
<1>b. /\ StageInv <=> First /\ Swings /\ \A c \in Chats : Listens(c)
      /\ StageInv' <=> First' /\ Swings' /\ \A c \in Chats : Listens(c)'
  BY DEF StageInv
<1>c. First /\ Swings /\ \A c \in Chats : Listens(c)
  BY <1>a, <1>b
<1>d. Busy(Swing) => job[Swing].op \in {1, 3} /\ job[Swing].key[1] \in Chats
  BY <1>0, <1>a DEF JobInv, Keystores
<1>e. \A c \in Chats : Busy(c) => job[c].op \in {1, 2, 4} /\ job[c].key[1] = c
  <2>1. \A c \in Chats : <<c, "listener">>[1] = c
    OBVIOUS
  <2>2. \A c \in Chats : Busy(c) => job[c].op \in {1, 2, 4} /\ job[c].key = <<c, "listener">>
    BY <1>0, <1>a DEF JobInv
  <2> QED BY <2>1, <2>2
<1>1. ASSUME Exit PROVE StageInv'
  BY <1>1 DEF Exit, StageInv, Busy, Idle, Threads
\* A chat whose stage changes had one, or a semaphore is being made.
<1>2. ASSUME Construct \/ \A c \in Chats : stage'[c] # "new" => stage[c] # "new", ~ Exit
      PROVE  First'
  <2>1. CASE Construct
    BY <1>0, <2>1 DEF Construct
  <2>2. CASE \A c \in Chats : stage'[c] # "new" => stage[c] # "new"
    BY <1>0, <1>2, <1>c, <2>2
  <2> QED BY <1>2, <2>1, <2>2
<1>3. ASSUME Inside, ~ Exit PROVE StageInv'
  <2>1. First'
    BY <1>2, <1>3 DEF Inside
  <2>2. Swings'
    BY <1>0, <1>3, <1>c DEF Inside
  <2>3. \A c \in Chats : Listens(c)'
    BY <1>0, <1>3, <1>c DEF Inside
  <2> QED BY <1>b, <2>1, <2>2, <2>3
<1>4. ASSUME NEW c \in Chats, CallChat(c), ~ Exit PROVE StageInv'
  <2>1. /\ stage[c] = "new" /\ stage' = [stage EXCEPT ![c] = "calling"] /\ Construct
        /\ Begins(Swing, 1, <<c, "window">>, Len(permits'))
    BY <1>4 DEF CallChat
  <2>2. /\ job'[Swing].op = 1 /\ job'[Swing].key = <<c, "window">>
        /\ \A u \in Threads : u # Swing => job'[u] = job[u]
    BY <1>0, <1>a, <2>1, Beginning
  <2>3. Swings'
    <3>1. <<c, "window">>[1] = c
      OBVIOUS
    <3>2. stage'[c] = "calling"
      BY <1>0, <2>1
    <3> QED BY <2>2, <3>1, <3>2
  <2>4. ASSUME NEW d \in Chats, Busy(d)' PROVE Listens(d)'
    <3>1. job'[d] = job[d] /\ Busy(d) /\ Listens(d)
      BY <1>0, <1>c, <2>2, <2>4 DEF Busy
    <3>2. stage[d] # "new"
      BY <1>e, <3>1
    <3>3. stage'[d] = stage[d]
      BY <1>0, <2>1, <3>2
    <3> QED BY <3>1, <3>3
  <2>5. First'
    BY <1>2, <1>4, <2>1
  <2> QED BY <1>b, <2>3, <2>4, <2>5
<1>5. ASSUME NEW c \in Chats, Connect(c) \/ ConnectRefused(c) \/ AcceptChat(c), ~ Exit
      PROVE  StageInv'
  <2>1. /\ stage[c] \in {"connecting", "new"} /\ UNCHANGED job
        /\ stage' \in {[stage EXCEPT ![c] = "called"], [stage EXCEPT ![c] = "failed"],
                       [stage EXCEPT ![c] = "accepted"]}
        /\ Construct \/ stage[c] = "connecting"
    BY <1>5 DEF Connect, ConnectRefused, AcceptChat
  <2>2. \A d \in Chats : d # c => stage'[d] = stage[d]
    BY <1>0, <2>1
  <2>3. Swings'
    BY <1>c, <1>d, <2>1, <2>2 DEF Busy
  <2>4. \A d \in Chats : Listens(d)'
    BY <1>c, <1>e, <2>1, <2>2 DEF Busy
  <2>5. First'
    BY <1>2, <1>5, <2>1, <2>2
  <2> QED BY <1>b, <2>3, <2>4, <2>5
<1>6. ASSUME NEW c \in Chats, NEW op \in {1, 2, 4}, Begins(c, op, <<c, "listener">>, Len(permits')),
             op = 1 => stage[c] = "accepted" /\ stage' = [stage EXCEPT ![c] = "answering"],
             op = 2 => stage[c] \in {"called", "deriving"} /\ stage' = [stage EXCEPT ![c] = "deriving"],
             op = 4 => stage[c] = "open" /\ UNCHANGED stage,
             ~ Exit
      PROVE  StageInv'
  <2>1. /\ job'[c].op = op /\ \A u \in Threads : u # c => job'[u] = job[u]
    BY <1>0, <1>a, <1>6, Beginning
  <2>2. \A d \in Chats : d # c => stage'[d] = stage[d]
    BY <1>0, <1>6
  <2>3. Swings'
    BY <1>0, <1>6, <1>c, <1>d, <2>1, <2>2 DEF Busy
  <2>4. ASSUME NEW d \in Chats PROVE Listens(d)'
    <3>1. CASE d # c
      <4>1. job'[d] = job[d] /\ stage'[d] = stage[d] /\ Listens(d)
        BY <1>0, <1>c, <2>1, <2>2, <3>1
      <4> QED BY <4>1 DEF Busy
    <3>2. CASE d = c
      <4>1. /\ op = 1 => stage'[c] = "answering"
            /\ op = 2 => stage'[c] = "deriving"
            /\ op = 4 => stage'[c] = "open"
        BY <1>0, <1>6
      <4> QED BY <2>1, <3>2, <4>1
    <3> QED BY <3>1, <3>2
  <2>5. First'
    BY <1>2, <1>6, <2>2
  <2> QED BY <1>b, <2>3, <2>4, <2>5
<1>7. ASSUME NEW c \in Chats, FirstToken(c) \/ Derive(c) \/ TextArrives(c), ~ Exit PROVE StageInv'
  BY <1>6, <1>7 DEF FirstToken, Derive, TextArrives
<1>8. ASSUME NEW c \in Chats, PressSend(c), ~ Exit PROVE StageInv'
  <2>1. /\ stage[c] = "open" /\ UNCHANGED <<stage, permits>>
        /\ Begins(Swing, 3, <<c, "window">>, Len(permits))
    BY <1>8 DEF PressSend
  <2>2. /\ job'[Swing].op = 3 /\ job'[Swing].key = <<c, "window">>
        /\ \A u \in Threads : u # Swing => job'[u] = job[u]
    BY <1>0, <1>a, <2>1, Beginning
  <2>3. Swings'
    BY <2>1, <2>2
  <2>4. \A d \in Chats : Listens(d)'
    BY <1>0, <1>c, <2>1, <2>2 DEF Busy
  <2>5. First'
    BY <1>2, <1>8, <2>1
  <2> QED BY <1>b, <2>3, <2>4, <2>5
\* A command ends, well or badly.
<1>9. ASSUME NEW t \in Threads, Busy(t), job' = [job EXCEPT ![t] = Idle], ~ Exit,
             NEW s \in Stages \ {"new"},
             \/ UNCHANGED stage
             \/ /\ stage' = [stage EXCEPT ![job[t].key[1]] = s]
                /\ t = Swing => job[t].op = 1
                /\ s = "failed" \/ job[t].op \in {1, 2}
      PROVE  StageInv'
  <2>1. /\ job'[t] = Idle /\ \A u \in Threads : u # t => job'[u] = job[u]
    BY <1>a, <1>9, OneJob
  <2>2. ~ Busy(t)'
    BY <2>1 DEF Busy, Idle
  <2>3. \A d \in Chats : d # job[t].key[1] => stage'[d] = stage[d]
    BY <1>0, <1>9
  <2>4. Swings'
    <3>1. SUFFICES ASSUME Busy(Swing)' PROVE Swings'
      OBVIOUS
    <3>2. t # Swing /\ Busy(Swing) /\ job'[Swing] = job[Swing] /\ t \in Chats
      BY <1>0, <2>1, <2>2, <3>1 DEF Busy, Threads
    <3>3. CASE job[Swing].key[1] # t
      BY <1>c, <1>d, <1>e, <1>9, <2>3, <3>2, <3>3
    <3>4. CASE job[Swing].key[1] = t
      BY <1>0, <1>c, <1>d, <1>e, <1>9, <3>2, <3>4
    <3> QED BY <3>3, <3>4
  <2>5. ASSUME NEW d \in Chats PROVE Listens(d)'
    <3>1. SUFFICES ASSUME Busy(d)' PROVE Listens(d)'
      OBVIOUS
    <3>2. t # d /\ Busy(d) /\ job'[d] = job[d]
      BY <1>0, <2>1, <2>2, <3>1 DEF Busy
    <3>3. CASE t = Swing
      <4>1. stage[d] \in {"answering", "deriving", "open"}
        BY <1>c, <1>e, <3>2
      <4>2. UNCHANGED stage \/ job[t].key[1] # d
        BY <1>c, <1>9, <3>3, <4>1
      <4> QED BY <1>c, <2>3, <3>2, <4>2
    <3>4. CASE t # Swing
      <4>1. t \in Chats
        BY <3>4 DEF Threads
      <4> QED BY <1>c, <1>e, <1>9, <2>3, <3>2, <4>1
    <3> QED BY <3>3, <3>4
  <2>6. First'
    <3>1. \A d \in Chats : stage'[d] # "new" => stage[d] # "new"
      <4>1. CASE t = Swing
        BY <1>0, <1>9, <1>c, <1>d, <2>3, <4>1
      <4>2. CASE t # Swing
        <5>1. t \in Chats
          BY <4>2 DEF Threads
        <5> QED BY <1>0, <1>9, <1>c, <1>e, <2>3, <5>1
      <4> QED BY <4>1, <4>2
    <3> QED BY <1>2, <1>9, <3>1
  <2> QED BY <1>b, <2>4, <2>5, <2>6
<1>10. ASSUME NEW t \in Threads, PortInUse(t) \/ NoPort(t), ~ Exit PROVE StageInv'
  <2>1. Busy(t) /\ GivesUp(t)
    BY <1>10 DEF PortInUse, NoPort, At, Busy
  <2>2. CASE Goes(t, "spinning") /\ UNCHANGED stage
    <3>1. job'[t] = [job[t] EXCEPT !.at = "spinning"] /\ \A u \in Threads : u # t => job'[u] = job[u]
      BY <1>a, <2>2 DEF TypeOK, Goes
    <3>2. job[t] \in Jobs(Len(permits))
      BY <1>a DEF TypeOK
    <3>3. job'[t].at = "spinning" /\ job'[t].op = job[t].op /\ job'[t].key = job[t].key
      BY <3>1, <3>2 DEF Jobs
    <3>4. Inside
      BY <2>1, <2>2, <3>1, <3>3 DEF Inside, Busy
    <3> QED BY <1>3, <1>10, <3>4
  <2>3. CASE /\ job' = [job EXCEPT ![t] = Idle]
             /\ stage' = IF job[t].op = 3 THEN stage ELSE [stage EXCEPT ![job[t].key[1]] = "failed"]
    <3>1. "failed" \in Stages \ {"new"} /\ (t = Swing => job[t].op \in {1, 3})
      BY <1>d, <2>1 DEF Stages
    <3> QED BY <1>9, <1>10, <2>1, <2>3, <3>1
  <2> QED BY <2>1, <2>2, <2>3 DEF GivesUp
<1>11. ASSUME NEW t \in Threads, Read(t), ~ Exit PROVE StageInv'
  <2>1. /\ Busy(t) /\ job' = [job EXCEPT ![t] = Idle] /\ Finished(job[t]) /\ job[t].op \in Commands
    BY <1>a, <1>11 DEF Read, Closes, At, Busy, JobInv
  <2>2. {"connecting", "deriving", "open"} \subseteq Stages \ {"new"}
    BY DEF Stages
  <2>3. CASE job[t].op = 1
    <3>1. \/ stage' = [stage EXCEPT ![job[t].key[1]] = "connecting"]
          \/ stage' = [stage EXCEPT ![job[t].key[1]] = "deriving"]
      BY <2>1, <2>3 DEF Finished
    <3> QED BY <1>9, <1>11, <2>1, <2>2, <2>3, <3>1
  <2>4. CASE job[t].op = 2
    <3>1. stage' = [stage EXCEPT ![job[t].key[1]] = "open"] /\ t # Swing
      BY <1>d, <2>1, <2>4 DEF Finished
    <3> QED BY <1>9, <1>11, <2>1, <2>2, <2>4, <3>1
  <2>5. CASE job[t].op \in {3, 4}
    <3>1. UNCHANGED stage
      <4>1. CASE job[t].op = 3
        BY <2>1, <4>1 DEF Finished
      <4>2. CASE job[t].op = 4
        BY <2>1, <4>2 DEF Finished
      <4> QED BY <2>5, <4>1, <4>2
    <3> QED BY <1>9, <1>11, <2>1, <2>2, <3>1
  <2> QED BY <2>1, <2>3, <2>4, <2>5 DEF Commands
<1>12. ASSUME NEW q \in Ports, BoardAnswers(q) \/ GuestOpens(q) \/ GuestCloses(q), ~ Exit
       PROVE  StageInv'
  <2>1. UNCHANGED <<job, stage>>
    BY <1>12 DEF BoardAnswers, GuestOpens, GuestCloses
  <2> QED BY <1>3, <1>12, <2>1 DEF Inside, Busy
<1> QED
  <2>1. ASSUME NEW t \in Threads, Acquire(t) \/ OpenPort(t) \/ Write(t), ~ Exit PROVE StageInv'
    BY <1>3, <2>1, InsideSteps
  <2> HIDE DEF First, Swings, Listens
  <2> QED BY <1>1, <1>4, <1>5, <1>7, <1>8, <1>10, <1>11, <1>12, <2>1 DEF Next, Command

\* Steps in which no command passes the semaphore or leaves it.
LEMMA CalmFrame ==
    ASSUME TypeOK, CalmIsExclusive, UNCHANGED <<permits, upset>>,
           \A u \in Threads :
              \/ job'[u] = job[u]
              \/ Past(u) /\ Past(u)'
              \/ ~ Past(u) /\ job'[u].at = "waiting" /\ job'[u].sem = Len(permits)
    PROVE  CalmIsExclusive'
<1>1. SUFFICES ASSUME upset = {} PROVE CalmIsExclusive'
  BY DEF CalmIsExclusive
<1>2. /\ \A t \in Threads : ~ At(t, "spinning")
      /\ \A t \in Threads : At(t, "waiting") => job[t].sem = Len(permits)
      /\ \A t, u \in Threads : Past(t) /\ Past(u) => t = u
      /\ permits # <<>> => permits[Len(permits)] = IF \E t \in Threads : Past(t) THEN 0 ELSE 1
  BY <1>1 DEF CalmIsExclusive
<1>3. \A u \in Threads : Past(u)' <=> Past(u)
  BY DEF Past
<1>4. \A t \in Threads : ~ At(t, "spinning")'
  BY <1>2 DEF At, Past
<1>5. \A t \in Threads : At(t, "waiting")' => job'[t].sem = Len(permits')
  BY <1>2 DEF At, Past
<1>6. \A t, u \in Threads : Past(t)' /\ Past(u)' => t = u
  BY <1>2, <1>3
<1>7. (\E t \in Threads : Past(t)') <=> \E t \in Threads : Past(t)
  BY <1>3
<1> HIDE DEF Past
<1>8. permits' # <<>> => permits'[Len(permits')] = IF \E t \in Threads : Past(t)' THEN 0 ELSE 1
  BY <1>2, <1>7
<1> QED BY <1>4, <1>5, <1>6, <1>8 DEF CalmIsExclusive

\* After a construction with no command in progress there is one permit.
LEMMA CalmConstruct ==
    ASSUME TypeOK, Construct, upset' = {},
           \A u \in Threads : \/ job'[u] = job[u]
                              \/ job'[u].at = "waiting" /\ job'[u].sem = Len(permits')
    PROVE  CalmIsExclusive'
<1>1. \A u \in Threads : ~ Busy(u)
  BY DEF Construct, Upset
<1>2. permits' # <<>> /\ permits'[Len(permits')] = 1
  BY DEF Construct, TypeOK
<1>3. \A u \in Threads : ~ Past(u)' /\ ~ At(u, "spinning")'
  BY <1>1 DEF Busy, Past, At
<1>4. \A u \in Threads : At(u, "waiting")' => job'[u].sem = Len(permits')
  BY <1>1 DEF Busy, At
<1> QED BY <1>2, <1>3, <1>4 DEF CalmIsExclusive

LEMMA UpsetGrows ==
    ASSUME Next
    PROVE  upset \subseteq upset'
<1>1. ASSUME Construct PROVE upset \subseteq upset'
  BY <1>1 DEF Construct, Upset
<1> QED BY <1>1 DEF Next, Command, CallChat, Connect, ConnectRefused, AcceptChat, FirstToken,
           Derive, TextArrives, PressSend, Acquire, OpenPort, Opens, PortInUse, NoPort, Write,
           Read, Closes, BoardAnswers, GuestOpens, GuestCloses, Exit, Upset

LEMMA CalmNext ==
    ASSUME IInv, Next
    PROVE  CalmIsExclusive'
<1>a. /\ TypeOK /\ PortInv /\ CalmIsExclusive /\ \A t \in Threads : JobInv(t)
  BY DEF IInv
<1>b. SUFFICES ASSUME upset' = {} PROVE CalmIsExclusive'
  BY DEF CalmIsExclusive
<1>0. /\ permits \in Seq(Nat) /\ Swing \in Threads /\ Chats \subseteq Threads /\ Swing \notin Chats
      /\ 1 \in Commands /\ 2 \in Commands /\ 3 \in Commands /\ 4 \in Commands
      /\ upset = {}
  BY <1>a, <1>b, UpsetGrows, KeystoreAssumption DEF Threads, TypeOK, Commands
<1>1. /\ \A t \in Threads : ~ At(t, "spinning")
      /\ \A t \in Threads : At(t, "waiting") => job[t].sem = Len(permits)
      /\ \A t, u \in Threads : Past(t) /\ Past(u) => t = u
      /\ permits # <<>> => permits[Len(permits)] = IF \E t \in Threads : Past(t) THEN 0 ELSE 1
  BY <1>a, <1>0 DEF CalmIsExclusive
<1>2. ASSUME NEW c \in Chats, CallChat(c) PROVE CalmIsExclusive'
  <2>1. Construct /\ Begins(Swing, 1, <<c, "window">>, Len(permits'))
    BY <1>2 DEF CallChat
  <2> QED BY <1>a, <1>b, <1>0, <2>1, Beginning, CalmConstruct
<1>3. ASSUME NEW c \in Chats, Connect(c) \/ AcceptChat(c) PROVE CalmIsExclusive'
  BY <1>a, <1>b, <1>3, CalmConstruct DEF Connect, AcceptChat
<1>4. ASSUME NEW c \in Chats, ConnectRefused(c) PROVE CalmIsExclusive'
  BY <1>a, <1>4, CalmFrame DEF ConnectRefused
<1>5. ASSUME NEW c \in Chats, FirstToken(c) PROVE CalmIsExclusive'
  <2>1. Construct /\ Begins(c, 1, <<c, "listener">>, Len(permits'))
    BY <1>5 DEF FirstToken
  <2> QED BY <1>a, <1>b, <1>0, <2>1, Beginning, CalmConstruct
<1>6. ASSUME NEW t \in Threads, NEW op \in Commands, NEW k, Begins(t, op, k, Len(permits)),
             UNCHANGED <<permits, upset>>
      PROVE  CalmIsExclusive'
  <2>1. ~ Past(t)
    BY <1>6 DEF Begins, Busy, Past
  <2> QED BY <1>a, <1>6, <2>1, Beginning, CalmFrame
<1>7. ASSUME NEW c \in Chats, Derive(c) \/ TextArrives(c) \/ PressSend(c) PROVE CalmIsExclusive'
  BY <1>0, <1>6, <1>7 DEF Derive, TextArrives, PressSend
<1>8. ASSUME NEW t \in Threads, Acquire(t) PROVE CalmIsExclusive'
  <2>1. /\ At(t, "waiting") /\ job[t].sem \in 1 .. Len(permits) /\ job[t].sem = Len(permits)
        /\ permits[Len(permits)] > 0 /\ permits # <<>>
    BY <1>a, <1>0, <1>1, <1>8 DEF Acquire, At, Busy, JobInv
  <2>2. permits[Len(permits)] = 1 /\ \A u \in Threads : ~ Past(u)
    BY <1>1, <2>1
  <2>3. /\ permits' = [permits EXCEPT ![job[t].sem] = permits[job[t].sem] - 1]
        /\ permits[job[t].sem] - 1 \in Nat
    BY <1>8, <2>1, <2>2 DEF Acquire
  <2>4. Len(permits') = Len(permits) /\ permits'[Len(permits')] = 0
    <3>1. Len(permits') = Len(permits) /\ permits'[job[t].sem] = permits[job[t].sem] - 1
      BY <1>0, <2>1, <2>3, PermitSet
    <3> QED BY <2>1, <2>2, <3>1
  <2>5. job' = [job EXCEPT ![t].at = "opening"]
    BY <1>8 DEF Acquire, Goes
  <2>6. job'[t] = [job[t] EXCEPT !.at = "opening"] /\ \A u \in Threads : u # t => job'[u] = job[u]
    BY <1>a, <2>5 DEF TypeOK
  <2>7. job'[t].at = "opening"
    BY <1>a, <2>6 DEF TypeOK, Jobs
  <2>8. \A u \in Threads : (Past(u)' <=> u = t) /\ ~ At(u, "spinning")'
    BY <1>1, <2>2, <2>6, <2>7 DEF Past, At
  <2>9. \A u \in Threads : At(u, "waiting")' => job'[u].sem = Len(permits')
    BY <1>1, <2>4, <2>6, <2>7 DEF At
  <2> QED BY <2>4, <2>8, <2>9 DEF CalmIsExclusive
<1>9. ASSUME NEW t \in Threads, OpenPort(t) PROVE CalmIsExclusive'
  <2>1. Past(t) /\ Past(t)' /\ UNCHANGED <<permits, upset>>
    BY <1>9, Opened DEF Past, OpenPort, Opens, At
  <2> QED BY <1>a, <1>9, <2>1, Opened, CalmFrame
<1>10. ASSUME NEW t \in Threads, Write(t) PROVE CalmIsExclusive'
  <2>1. Past(t) /\ Past(t)' /\ UNCHANGED <<permits, upset>>
    BY <1>10, Written DEF Past, Write, At
  <2> QED BY <1>a, <1>10, <2>1, Written, CalmFrame
<1>11. ASSUME NEW t \in Threads, PortInUse(t) \/ NoPort(t) PROVE FALSE
  <2>1. CASE NoPort(t)
    BY <1>b, <2>1 DEF NoPort, Upset
  <2>2. CASE PortInUse(t)
    <3> DEFINE q == Port(job[t].key)
    <3>1. At(t, "opening") /\ q \in attached /\ owner[q] # Free
      BY <2>2 DEF PortInUse
    <3>2. q \in Ports /\ owner[q] \in Keystores \cup {Free, Guest}
      BY <1>a, <3>1 DEF TypeOK
    <3>3. owner[q] # Guest
      BY <1>a, <1>0, <3>2 DEF PortInv
    <3>4. PICK u \in Threads : HasPort(u) /\ job[u].key = owner[q] /\ Port(job[u].key) = q
      BY <1>a, <3>1, <3>2, <3>3 DEF PortInv
    <3> HIDE DEF q
    <3>5. Past(t) /\ Past(u) /\ t # u
      BY <3>1, <3>4 DEF At, HasPort, Past
    <3> QED BY <1>1, <3>5
  <2> QED BY <1>11, <2>1, <2>2
<1>12. ASSUME NEW t \in Threads, Read(t) PROVE CalmIsExclusive'
  <2>1. Past(t) /\ Busy(t) /\ job'[t] = Idle /\ \A u \in Threads : u # t => job'[u] = job[u]
    BY <1>12, Closed DEF Past, Busy
  <2>2. Len(permits) \in 1 .. Len(permits) /\ permits # <<>>
    BY <1>a, <1>0, <2>1, LastPermit
  <2>3. permits[Len(permits)] = 0
    BY <1>1, <2>1, <2>2
  <2>4. permits' = [permits EXCEPT ![Len(permits)] = 1]
    <3>1. permits' = [permits EXCEPT ![Len(permits)] = permits[Len(permits)] + 1]
      BY <1>12 DEF Read
    <3> QED BY <2>3, <3>1
  <2>5. Len(permits') = Len(permits) /\ permits'[Len(permits')] = 1
    BY <1>0, <2>2, <2>4, PermitSet
  <2>6. \A u \in Threads : ~ Past(u)' /\ ~ At(u, "spinning")'
    BY <1>1, <2>1 DEF Past, At, Idle
  <2>7. \A u \in Threads : At(u, "waiting")' => job'[u].sem = Len(permits')
    BY <1>1, <2>1, <2>5 DEF At, Idle
  <2> QED BY <2>5, <2>6, <2>7 DEF CalmIsExclusive
<1>13. ASSUME NEW q \in Ports, BoardAnswers(q) \/ GuestOpens(q) \/ GuestCloses(q)
       PROVE  CalmIsExclusive'
  <2>1. UNCHANGED <<job, permits, upset>>
    BY <1>b, <1>13 DEF BoardAnswers, GuestOpens, GuestCloses, Upset
  <2> QED BY <1>a, <2>1, CalmFrame
<1>14. ASSUME Exit PROVE FALSE
  BY <1>b, <1>14 DEF Exit, Upset
<1> QED BY <1>2, <1>3, <1>4, <1>5, <1>7, <1>8, <1>9, <1>10, <1>11, <1>12, <1>13, <1>14
        DEF Next, Command

LEMMA LoneNext ==
    ASSUME IInv, Next
    PROVE  LoneChatIsCalm'
<1>a. /\ TypeOK /\ StageInv /\ LoneChatIsCalm /\ \A t \in Threads : JobInv(t)
  BY DEF IInv
<1>0. /\ Swing \in Threads /\ Chats \subseteq Threads /\ Swing \notin Chats
      /\ incidents \in Nat /\ stage \in [Chats -> Stages]
  BY <1>a, KeystoreAssumption DEF Threads, TypeOK
<1>b. SUFFICES ASSUME \A c, d \in Chats : stage'[c] # "new" /\ stage'[d] # "new" => c = d,
                      incidents' = 0, attached' = Ports
               PROVE  upset' = {}
  BY DEF LoneChatIsCalm
\* A thread that is busy is so for a chat that is under way.
<1>1. ASSUME NEW u \in Threads, Busy(u)
      PROVE  \E d \in Chats : stage[d] \in {"answering", "deriving", "open", "calling", "failed"}
  <2>1. CASE u = Swing
    <3>1. job[u].op \in {1, 3} /\ job[u].key[1] \in Chats
      BY <1>a, <1>1, <2>1 DEF JobInv, Keystores
    <3> QED BY <1>a, <1>1, <2>1, <3>1 DEF StageInv
  <2>2. CASE u # Swing
    <3>1. job[u].op \in {1, 2, 4} /\ u \in Chats
      BY <1>a, <1>1, <2>2 DEF JobInv, Threads
    <3> QED BY <1>a, <1>1, <3>1 DEF StageInv
  <2> QED BY <2>1, <2>2
\* So nobody is busy when the only chat constructs a keystore.
<1>2. ASSUME NEW c \in Chats, stage[c] \in {"new", "connecting", "accepted"}, stage'[c] # "new",
             \A d \in Chats : d # c => stage'[d] = stage[d],
             Construct, upset = {}
      PROVE  upset' = {}
  <2>1. \A u \in Threads : ~ Busy(u)
    <3>1. SUFFICES ASSUME NEW u \in Threads, Busy(u) PROVE FALSE
      OBVIOUS
    <3>2. PICK d \in Chats : stage[d] \in {"answering", "deriving", "open", "calling", "failed"}
      BY <1>1, <3>1
    <3>3. d # c /\ stage'[d] # "new"
      BY <1>2, <3>2
    <3> QED BY <1>b, <1>2, <3>3
  <2> QED BY <1>2, <2>1 DEF Construct, Upset
\* The step starts from a lone chat, and from calm.
<1>3. ASSUME NEW c \in Chats, stage[c] # "new", stage'[c] = "new" PROVE FALSE
  <2>1. \A u \in Threads, s \in {"failed", "connecting", "deriving", "open"} :
           [stage EXCEPT ![job[u].key[1]] = s][c] # "new"
    BY <1>0, <1>3
  <2>2. ASSUME NEW u \in Threads, GivesUp(u) PROVE stage'[c] # "new"
    BY <1>3, <2>1, <2>2 DEF GivesUp
  <2>3. ASSUME NEW u \in Threads, Read(u) PROVE stage'[c] # "new"
    <3>1. job[u].op \in Commands /\ Finished(job[u])
      BY <1>a, <2>3 DEF Read, Closes, JobInv, At, Busy
    <3>2. CASE job[u].op = 1
      <4>1. \/ stage' = [stage EXCEPT ![job[u].key[1]] = "connecting"]
            \/ stage' = [stage EXCEPT ![job[u].key[1]] = "deriving"]
        BY <3>1, <3>2 DEF Finished
      <4> QED BY <1>0, <1>3, <4>1
    <3>3. CASE job[u].op = 2
      <4>1. stage' = [stage EXCEPT ![job[u].key[1]] = "open"]
        BY <3>1, <3>3 DEF Finished
      <4> QED BY <1>0, <1>3, <4>1
    <3>4. CASE job[u].op = 3
      BY <1>3, <3>1, <3>4 DEF Finished
    <3>5. CASE job[u].op = 4
      BY <1>3, <3>1, <3>5 DEF Finished
    <3> QED BY <3>1, <3>2, <3>3, <3>4, <3>5 DEF Commands
  <2>4. ~ Exit
    BY <1>0, <1>b DEF Exit
  <2>5. ASSUME NEW d \in Chats, \/ CallChat(d) \/ Connect(d) \/ ConnectRefused(d) \/ AcceptChat(d)
                                \/ FirstToken(d) \/ Derive(d) \/ TextArrives(d) \/ PressSend(d)
        PROVE  stage'[c] # "new"
    BY <1>0, <1>3, <2>5 DEF CallChat, Connect, ConnectRefused, AcceptChat, FirstToken, Derive,
       TextArrives, PressSend
  <2>6. ASSUME NEW u \in Threads, Acquire(u) \/ OpenPort(u) \/ Write(u) PROVE stage'[c] # "new"
    BY <1>3, <2>6, InsideSteps DEF Inside
  <2>7. ASSUME NEW u \in Threads, PortInUse(u) \/ NoPort(u) PROVE stage'[c] # "new"
    BY <2>2, <2>7 DEF PortInUse, NoPort
  <2>8. ASSUME NEW q \in Ports, BoardAnswers(q) \/ GuestOpens(q) \/ GuestCloses(q)
        PROVE  stage'[c] # "new"
    BY <1>3, <2>8 DEF BoardAnswers, GuestOpens, GuestCloses
  <2> QED BY <1>3, <2>3, <2>4, <2>5, <2>6, <2>7, <2>8 DEF Next, Command
<1>4. attached = Ports /\ incidents = 0 /\ ~ Exit /\ \A q \in Ports : ~ GuestOpens(q)
  <2>1. ~ Exit /\ \A q \in Ports : ~ GuestOpens(q)
    BY <1>0, <1>b DEF Exit, GuestOpens
  <2>2. UNCHANGED <<attached, incidents>>
    BY <2>1 DEF Next, Command, CallChat, Connect, ConnectRefused, AcceptChat, FirstToken,
       Derive, TextArrives, PressSend, Unshared, Acquire, OpenPort, Opens, PortInUse, NoPort, Write,
       Read, Closes, BoardAnswers, GuestCloses, CommandOnly
  <2> QED BY <1>b, <2>1, <2>2
<1>5. upset = {}
  BY <1>a, <1>b, <1>3, <1>4 DEF LoneChatIsCalm
<1>6. ASSUME NEW c \in Chats, CallChat(c) \/ Connect(c) \/ AcceptChat(c) \/ FirstToken(c)
      PROVE  upset' = {}
  <2>1. /\ stage[c] \in {"new", "connecting", "accepted"} /\ stage'[c] # "new" /\ Construct
        /\ \A d \in Chats : d # c => stage'[d] = stage[d]
    BY <1>0, <1>6 DEF CallChat, Connect, AcceptChat, FirstToken
  <2> QED BY <1>2, <1>5, <2>1
<1>7. ASSUME NEW t \in Threads, NoPort(t) PROVE FALSE
  <2>1. Busy(t)
    BY <1>7 DEF NoPort, At, Busy
  <2>2. Port(job[t].key) \in Ports
    BY <1>a, <2>1, PortOfKey DEF JobInv
  <2> QED BY <1>4, <1>7, <2>2 DEF NoPort
<1>8. CASE UNCHANGED upset
  BY <1>5, <1>8
<1> QED BY <1>4, <1>6, <1>7, <1>8 DEF Next, Command, ConnectRefused, Derive, TextArrives, PressSend,
       Acquire, OpenPort, Opens, PortInUse, Write, Read, Closes, BoardAnswers, GuestCloses

-------------------------------------------------------------------------------
(****************************** Theorems ***********************************)

LEMMA Inductive == Spec => []IInv
<1>1. Init => IInv
  BY InitInv
<1>2. IInv /\ [Next]_vars => IInv'
  <2> SUFFICES ASSUME IInv, [Next]_vars PROVE IInv'
    OBVIOUS
  <2>1. CASE Next
    <3>1. TypeOK' /\ (\A t \in Threads : JobInv(t)')
      BY <2>1, TypeNext, JobNext
    <3>2. PortInv' /\ BoardInv' /\ BoardsComeToRest'
      BY <2>1, PortNext, BoardNext, RestNext
    <3>3. StageInv' /\ CalmIsExclusive' /\ LoneChatIsCalm'
      BY <2>1, StageNext, CalmNext, LoneNext
    <3> QED BY <3>1, <3>2, <3>3 DEF IInv
  <2>2. CASE UNCHANGED vars
    <3> USE <2>2 DEF vars
    <3>1. TypeOK'
      BY DEF IInv, TypeOK
    <3>2. \A t \in Threads : JobInv(t)'
      BY DEF IInv, JobInv, Busy
    <3>3. PortInv' /\ BoardInv'
      <4>1. \A t \in Threads : HasPort(t)' <=> HasPort(t)
        BY DEF HasPort
      <4>2. PortInv'
        BY DEF IInv, PortInv, HasPort
      <4>3. BoardInv'
        BY DEF IInv, BoardInv, HasPort, InTime
      <4> QED BY <4>2, <4>3
    <3>4. BoardsComeToRest' /\ LoneChatIsCalm'
      BY DEF IInv, BoardsComeToRest, LoneChatIsCalm
    <3>5. StageInv'
      BY DEF IInv, StageInv, Busy
    <3>6. CalmIsExclusive'
      BY DEF IInv, CalmIsExclusive, At, Past
    <3> QED BY <3>1, <3>2, <3>3, <3>4, <3>5, <3>6 DEF IInv
  <2> QED BY <2>1, <2>2
<1> QED BY <1>1, <1>2, PTL DEF Spec

\* Every variable keeps its type, however many chats, texts and incidents.
THEOREM TypeCorrect == Spec => []TypeOK
<1>1. IInv => TypeOK
  BY DEF IInv
<1> QED BY <1>1, Inductive, PTL

\* A thread reads only the answer to its own command, whether or not the
\* static semaphore of AESHardwareKeystore has been replaced under way.
THEOREM AnswersOwned == Spec => []AnswersAreOwn
<1>1. IInv => AnswersAreOwn
  <2> SUFFICES ASSUME IInv, NEW t \in Threads, At(t, "reading"), job[t].sure,
                      NEW i \in DOMAIN answers[Port(job[t].key)]
               PROVE  /\ answers[Port(job[t].key)][i].whole
                      /\ answers[Port(job[t].key)][i].op = job[t].op
    BY DEF AnswersAreOwn
  <2>1. InTime(job[t], board[Port(job[t].key)], answers[Port(job[t].key)])
    BY DEF IInv, BoardInv, HasPort, At
  <2>2. answers[Port(job[t].key)][i] = [op |-> job[t].op, whole |-> TRUE]
    BY <2>1 DEF InTime, At
  <2> QED BY <2>2
<1> QED BY <1>1, Inductive, PTL

\* Unless a client has been ended in the middle of a command, a board whose
\* port is closed waits for the number of a command.
THEOREM BoardsRest == Spec => []BoardsComeToRest
<1>1. IInv => BoardsComeToRest
  BY DEF IInv
<1> QED BY <1>1, Inductive, PTL

\* With one chat the constructions of the handshake never come between the
\* commands, so the semaphore is never replaced under one.
THEOREM LoneIsCalm == Spec => []LoneChatIsCalm
<1>1. IInv => LoneChatIsCalm
  BY DEF IInv
<1> QED BY <1>1, Inductive, PTL

\* As long as nothing has come between, the semaphore lets one command past
\* at a time and is released as often as it is acquired.
THEOREM CalmExcludes == Spec => []CalmIsExclusive
<1>1. IInv => CalmIsExclusive
  BY DEF IInv
<1> QED BY <1>1, Inductive, PTL
===============================================================================
