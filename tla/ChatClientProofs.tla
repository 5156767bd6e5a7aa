---------------------------- MODULE ChatClientProofs ----------------------------
(***************************************************************************)
(* Theorems about ChatClient, for any number of chats, texts and places in *)
(* the pipe.                                                               *)
(***************************************************************************)
EXTENDS ChatClient, SequenceTheorems, TLAPS

LEMMA Names ==
    /\ Swing \notin Chats /\ Listener \notin Chats /\ Swing # Listener
    /\ Swing \in Threads /\ Listener \in Threads /\ Nobody \notin Threads
    /\ \A c \in Chats : c \in Threads
    /\ \A c \in Chats : c \in Outgoing <=> c \notin Incoming
    /\ Outgoing \subseteq Chats /\ Incoming \subseteq Chats
    /\ PipeSize \in Nat /\ PipeSize >= 1
BY ClientAssumption DEF Chats, Threads

-------------------------------------------------------------------------------
(*************************** The invariant *********************************)

SwingLabels == {"idle", "call", "add", "start", "token", "send", "write", "failed",
                "close", "giveUp", "interrupt", "dialog", "stop", "remove"}
ChatLabels  == {"none", "read", "answer", "start", "show", "release", "close",
                "interrupt", "dialog", "stop", "remove", "ended"}

\* Who does what; the event thread is always busy with some chat.
LabelInv ==
    /\ pc[Swing] \in SwingLabels
    /\ \A c \in Chats : pc[c] \in ChatLabels
    /\ pc[Listener] \in {"accept", "add"}
    /\ pc[Swing] # "idle" => target \in Chats

\* Each text for the updater thread is in the pipe before its permit is given.
PipeFits(c) ==
    ~ pipeClosed[c] =>
        permits[c] + (IF updater[c] = "reading" THEN 1 ELSE 0)
                   + (IF pc[c] = "release" THEN 1 ELSE 0) <= pipe[c]
PipeInv == \A c \in Chats : PipeFits(c)

\* The peer's token is the first thing it sends, and a peer who was called
\* sends nothing before it has ours.
NoToken(c, i) == \A j \in i .. Len(wire[c]) : wire[c][j] # "token"
WireFits(c) ==
    /\ NoToken(c, 2)
    /\ said[c] = 0 => wire[c] = <<>>
    /\ c \in Incoming /\ frame[c] # "none" => said[c] # 0 /\ NoToken(c, 1)
    /\ c \in Outgoing /\ spoken[c] = 0 => wire[c] = <<>>
WireInv == \A c \in Chats : WireFits(c)

\* Nothing more arrives on c's connection and no text can be written.
Dead(c) == socket[c] # "open" \/ conn[c] # "up"

\* What the list, the window and the thread of a chat have to do with each
\* other.
MustBeListed(c) ==
    /\ pc[c] # "none"
    /\ frame[c] = "shown" \/ (frame[c] # "disposed" /\ pc[c] # "ended")
FrameFits(c) ==
    /\ pc[c] \in {"stop", "remove"} => frame[c] # "shown"
    /\ pc[c] \in {"interrupt", "dialog"} => frame[c] \in {"shown", "disposed"}
    /\ pc[c] \in {"answer", "start"} => c \in Incoming /\ frame[c] = "built"
    /\ c \in Incoming /\ pc[c] = "none" => frame[c] = "none"
    /\ frame[c] = "none" => spoken[c] = 0 /\ (c \in Outgoing => pc[c] = "none")
ListFits(c) ==
    /\ MustBeListed(c) => c \in chats
    /\ ready[c] => pc[c] # "none"
    /\ pc[c] # "none" => socket[c] # "none"
    /\ pc[c] \notin {"none", "ended"} /\ c \notin chats => Dead(c)
FrameInv == \A c \in Chats : FrameFits(c)
ListInv == \A c \in Chats : ListFits(c)

\* How far the event thread is with the chat it is busy with.
SwingInv ==
    /\ pc[Swing] \in {"call", "add"} =>
          target \in Outgoing /\ pc[target] = "none" /\ frame[target] = "built" /\ spoken[target] = 0
    /\ pc[Swing] = "add" => socket[target] # "none"
    /\ pc[Swing] \in {"start", "token"} =>
          /\ target \in Outgoing /\ target \in chats
          /\ pc[target] \in {"read", "ended"} /\ frame[target] = "built" /\ spoken[target] = 0
    /\ pc[Swing] = "send" => frame[target] = "shown" /\ pc[target] # "none"
    /\ pc[Swing] \in {"write", "failed", "giveUp", "interrupt", "dialog"} =>
          frame[target] \in {"shown", "disposed"}
    /\ pc[Swing] \in {"close", "stop", "remove"} => frame[target] = "disposed"
    /\ pc[Swing] \in {"stop", "remove"} =>
          pc[target] \in {"none", "ended"} \/ target \notin chats \/ Dead(target)

IInv == TypeOK /\ LabelInv /\ PipeInv /\ WireInv /\ FrameInv /\ ListInv /\ SwingInv

-------------------------------------------------------------------------------
(**************************** The types are kept ***************************)

\* What the operators that several actions share do to the variables.
LEMMA ReadType ==
    ASSUME TypeOK, NEW c \in Chats, NEW m, Reads(c, m)
    PROVE  /\ wire' \in [Chats -> Seq(Messages)]
           /\ wire' = [wire EXCEPT ![c] = Tail(wire[c])]
           /\ wire[c] # <<>> /\ Len(wire[c]) >= 1 /\ wire[c][1] = m
           /\ Len(Tail(wire[c])) = Len(wire[c]) - 1
           /\ \A i \in 1 .. Len(Tail(wire[c])) : Tail(wire[c])[i] = wire[c][i + 1]
<1>1. wire[c] \in Seq(Messages) /\ wire[c] # <<>> BY DEF TypeOK, Reads
<1>2. Tail(wire[c]) \in Seq(Messages) /\ Len(wire[c]) >= 1 /\ Head(wire[c]) = wire[c][1]
  BY <1>1
<1> QED BY <1>1, <1>2 DEF TypeOK, Reads

LEMMA WriteType ==
    ASSUME TypeOK, NEW c \in Chats, WriteTaken(c) \/ WriteFails(c)
    PROVE  /\ spoken' \in [Chats -> Nat]
           /\ conn' \in [Chats -> {"none", "up", "lost", "broken"}]
<1>1. CASE WriteTaken(c)
  <2>1. spoken[c] + 1 \in Nat BY DEF TypeOK
  <2>2. spoken' = [spoken EXCEPT ![c] = spoken[c] + 1] /\ conn' = conn BY <1>1 DEF WriteTaken
  <2> QED BY <2>1, <2>2 DEF TypeOK
<1>2. CASE WriteFails(c)
  <2>1. spoken' = spoken
        /\ conn' = [conn EXCEPT ![c] = IF conn[c] = "lost" THEN "broken" ELSE conn[c]]
    BY <1>2 DEF WriteFails
  <2> QED BY <2>1 DEF TypeOK
<1> QED BY <1>1, <1>2

LEMMA SaidType ==
    ASSUME TypeOK, NEW c \in Chats, NEW m \in Messages, PeerWrites(c, m)
    PROVE  /\ said' \in [Chats -> Nat] /\ wire' \in [Chats -> Seq(Messages)]
           /\ said[c] \in Nat /\ said' = [said EXCEPT ![c] = said[c] + 1]
           /\ wire[c] \in Seq(Messages)
           /\ wire' = [wire EXCEPT ![c] = Append(wire[c], m)]
<1>1. said[c] \in Nat /\ said[c] + 1 \in Nat /\ wire[c] \in Seq(Messages)
      /\ Append(wire[c], m) \in Seq(Messages)
  BY DEF TypeOK
<1> QED BY <1>1 DEF TypeOK, PeerWrites

LEMMA DialogType ==
    ASSUME TypeOK, dialogs # <<>>
    PROVE  SubSeq(dialogs, 1, Len(dialogs) - 1) \in Seq(Threads)
<1>1. dialogs \in Seq(Threads) /\ Len(dialogs) \in Nat BY DEF TypeOK
<1>2. \A i \in 1 .. Len(dialogs) - 1 : dialogs[i] \in Threads BY <1>1
<1> QED BY <1>1, <1>2, SubSeqProperties

LEMMA SubSeqType ==
    ASSUME NEW S, NEW q \in Seq(S), NEW k \in 0 .. Len(q)
    PROVE  /\ SubSeq(q, 1, k) \in Seq(S) /\ Len(SubSeq(q, 1, k)) = k
           /\ \A i \in 1 .. k : SubSeq(q, 1, k)[i] = q[i]
<1>1. \A i \in 1 .. k : q[i] \in S OBVIOUS
<1> QED BY <1>1, SubSeqProperties

\* Where closeChat leads when it shows no dialog.
LEMMA Leaving ==
    ASSUME LabelInv, NEW t \in Chats \cup {Swing}, pc[t] \in {"close", "giveUp"}, LeaveClose(t)
    PROVE  \/ /\ t = Swing /\ pc[t] = "giveUp"
              /\ pc' = [pc EXCEPT ![Swing] = "idle"]
              /\ frame' = [frame EXCEPT ![target] = "disposed"]
           \/ /\ pc[t] = "close"
              /\ pc' = [pc EXCEPT ![t] = "stop"]
              /\ frame' = frame
BY Names DEF LabelInv, ChatLabels, LeaveClose, Goto

\* A step that leaves what the peer sent alone.
LEMMA WireKept ==
    ASSUME TypeOK, NEW d \in Chats, WireFits(d), wire' = wire, said' = said,
           frame'[d] # "none" => frame[d] # "none" \/ d \in Outgoing,
           spoken'[d] = spoken[d] \/ spoken'[d] = spoken[d] + 1
    PROVE  WireFits(d)'
<1>1. spoken[d] \in Nat /\ (spoken'[d] = 0 => spoken[d] = 0) BY DEF TypeOK
<1>2. d \in Incoming => d \notin Outgoing BY Names
<1> QED BY <1>1, <1>2 DEF WireFits, NoToken

LEMMA WriteCounts ==
    ASSUME TypeOK, NEW c \in Chats, WriteTaken(c) \/ WriteFails(c), NEW d \in Chats
    PROVE  spoken'[d] = spoken[d] \/ spoken'[d] = spoken[d] + 1
BY DEF TypeOK, WriteTaken, WriteFails

\* Every action keeps the types (LabelInv: the event thread's target is a chat).
LEMMA TypeNext == TypeOK /\ LabelInv /\ [Next]_vars => TypeOK'
<1> SUFFICES ASSUME TypeOK, LabelInv, [Next]_vars PROVE TypeOK'
  OBVIOUS
<1> USE Names DEF lockVars, netVars, guiVars, pipeVars, Labels, Searches
<1>1. ASSUME NEW t \in Chats \cup {Swing}, EnterFind(t) PROVE TypeOK'
  BY <1>1 DEF EnterFind, TypeOK, LabelInv
<1>2. ASSUME NEW t \in Chats \cup {Swing}, EnterList(t) PROVE TypeOK'
  BY <1>2 DEF EnterList, TypeOK, LabelInv
<1>3. ASSUME OpenContacts PROVE TypeOK'
  BY <1>3 DEF OpenContacts, TypeOK, LabelInv
<1>4. ASSUME NEW c \in Outgoing, StartCall(c) PROVE TypeOK'
  BY <1>4 DEF StartCall, Goto, TypeOK, LabelInv
<1>5. ASSUME Connect PROVE TypeOK'
  BY <1>5 DEF Connect, Finds, Goto, TypeOK, LabelInv
<1>6. ASSUME ConnectRefused PROVE TypeOK'
  BY <1>6 DEF ConnectRefused, Finds, Goto, TypeOK, LabelInv
<1>7. ASSUME AddCalled PROVE TypeOK'
  BY <1>7 DEF AddCalled, TypeOK, LabelInv
<1>8. ASSUME NEW t \in Chats \cup {Swing}, StartUpdates(t) PROVE TypeOK'
  BY <1>8 DEF StartUpdates, Finds, Goto, Subject, TypeOK, LabelInv
<1>9. ASSUME SendToken PROVE TypeOK'
  <2>1. target \in Chats BY <1>9 DEF SendToken, Finds, LabelInv
  <2>2. WriteTaken(target) \/ WriteFails(target) BY <1>9 DEF SendToken
  <2>3. /\ spoken' \in [Chats -> Nat]
        /\ conn' \in [Chats -> {"none", "up", "lost", "broken"}]
    BY <2>1, <2>2, WriteType
  <2> QED BY <1>9, <2>1, <2>3 DEF SendToken, Finds, Goto, TypeOK
<1>10. ASSUME NEW c \in Incoming, Accept(c) PROVE TypeOK'
  BY <1>10 DEF Accept, Goto, TypeOK, LabelInv
<1>11. ASSUME NEW c \in Incoming, AddAccepted(c) PROVE TypeOK'
  BY <1>11 DEF AddAccepted, TypeOK, LabelInv
<1>12. ASSUME NEW c \in Chats, ReadToken(c) PROVE TypeOK'
  <2>1. wire' \in [Chats -> Seq(Messages)] BY <1>12, ReadType DEF ReadToken
  <2> QED BY <1>12, <2>1 DEF ReadToken, Reads, Goto, TypeOK
<1>13. ASSUME NEW c \in Chats, Answer(c) PROVE TypeOK'
  <2>1. /\ spoken' \in [Chats -> Nat]
        /\ conn' \in [Chats -> {"none", "up", "lost", "broken"}]
    BY <1>13, WriteType DEF Answer
  <2> QED BY <1>13, <2>1 DEF Answer, Finds, Goto, TypeOK
<1>14. ASSUME NEW c \in Chats, ReadText(c) PROVE TypeOK'
  <2>1. PICK m \in Texts : Reads(c, m) /\ hand' = [hand EXCEPT ![c] = m = "text"]
    BY <1>14 DEF ReadText
  <2>2. wire' \in [Chats -> Seq(Messages)] BY <2>1, ReadType
  <2>3. hand' \in [Chats -> BOOLEAN] BY <2>1 DEF TypeOK
  <2> QED BY <1>14, <2>1, <2>2, <2>3 DEF ReadText, Reads, Goto, TypeOK
<1>15. ASSUME NEW c \in Chats, Suppress(c) PROVE TypeOK'
  BY <1>15 DEF Suppress, Goto, TypeOK, LabelInv
<1>16. ASSUME NEW c \in Chats, WriteText(c) PROVE TypeOK'
  <2>1. pipe[c] \in 0 .. PipeSize /\ pipe[c] < PipeSize BY <1>16 DEF WriteText, TypeOK
  <2>2. pipe[c] + 1 \in 0 .. PipeSize BY <2>1
  <2>3. pipe' = [pipe EXCEPT ![c] = pipe[c] + 1] BY <1>16 DEF WriteText
  <2>4. pipe' \in [Chats -> 0 .. PipeSize] BY <2>2, <2>3 DEF TypeOK
  <2> QED BY <1>16, <2>4 DEF WriteText, Goto, TypeOK
<1>17. ASSUME NEW c \in Chats, WriteTextFails(c) PROVE TypeOK'
  BY <1>17 DEF WriteTextFails, Goto, TypeOK, LabelInv
<1>18. ASSUME NEW c \in Chats, Release(c) PROVE TypeOK'
  BY <1>18 DEF Release, Goto, TypeOK, LabelInv
<1>19. ASSUME NEW c \in Chats, ReadEnd(c) PROVE TypeOK'
  <2>1. wire' \in [Chats -> Seq(Messages)] BY <1>19, ReadType DEF ReadEnd
  <2> QED BY <1>19, <2>1 DEF ReadEnd, Reads, Goto, TypeOK
<1>20. ASSUME NEW c \in Chats, ReadFails(c) PROVE TypeOK'
  BY <1>20 DEF ReadFails, Goto, TypeOK, LabelInv
<1>21. ASSUME NEW c \in Chats, Interrupted(c) PROVE TypeOK'
  BY <1>21 DEF Interrupted, TypeOK, LabelInv
<1>22. ASSUME NEW c \in Chats, Acquire(c) PROVE TypeOK'
  <2>1. permits[c] \in Nat /\ permits[c] > 0 BY <1>22 DEF Acquire, TypeOK
  <2>2. permits[c] - 1 \in Nat BY <2>1
  <2>3. permits' = [permits EXCEPT ![c] = permits[c] - 1] BY <1>22 DEF Acquire
  <2>4. permits' \in [Chats -> Nat] BY <2>2, <2>3 DEF TypeOK
  <2> QED BY <1>22, <2>4 DEF Acquire, TypeOK
<1>23. ASSUME NEW c \in Chats, TakeText(c) PROVE TypeOK'
  <2>1. pipe[c] \in 0 .. PipeSize /\ pipe[c] > 0 BY <1>23 DEF TakeText, TypeOK
  <2>2. pipe[c] - 1 \in 0 .. PipeSize BY <2>1
  <2>3. pipe' = [pipe EXCEPT ![c] = pipe[c] - 1] BY <1>23 DEF TakeText
  <2>4. pipe' \in [Chats -> 0 .. PipeSize] BY <2>2, <2>3 DEF TypeOK
  <2> QED BY <1>23, <2>4 DEF TakeText, TypeOK
<1>24. ASSUME NEW c \in Chats, TakeTextFails(c) PROVE TypeOK'
  BY <1>24 DEF TakeTextFails, TypeOK, LabelInv
<1>25. ASSUME NEW c \in Chats, PressSend(c) PROVE TypeOK'
  BY <1>25 DEF PressSend, Goto, TypeOK, LabelInv
<1>26. ASSUME SendFind PROVE TypeOK'
  BY <1>26 DEF SendFind, Finds, Goto, TypeOK, LabelInv
<1>27. ASSUME SendWrite PROVE TypeOK'
  <2>1. target \in Chats BY <1>27 DEF SendWrite, LabelInv
  <2>2. /\ spoken' \in [Chats -> Nat]
        /\ conn' \in [Chats -> {"none", "up", "lost", "broken"}]
    BY <1>27, <2>1, WriteType DEF SendWrite
  <2> QED BY <1>27, <2>2 DEF SendWrite, Goto, TypeOK
<1>28. ASSUME SendFails PROVE TypeOK'
  <2>1. target \in Chats BY <1>28 DEF SendFails, LabelInv
  <2>2. /\ spoken' \in [Chats -> Nat]
        /\ conn' \in [Chats -> {"none", "up", "lost", "broken"}]
    BY <1>28, <2>1, WriteType DEF SendFails
  <2>3. dialogs' \in Seq(Threads) BY <1>28 DEF SendFails, TypeOK
  <2> QED BY <1>28, <2>2, <2>3 DEF SendFails, Goto, TypeOK
<1>29. ASSUME NEW c \in Chats, PressClose(c) PROVE TypeOK'
  BY <1>29 DEF PressClose, Goto, TypeOK, LabelInv
<1>30. ASSUME DismissFailed PROVE TypeOK'
  <2>1. dialogs' \in Seq(Threads) BY <1>30, DialogType DEF DismissFailed
  <2> QED BY <1>30, <2>1 DEF DismissFailed, Goto, TypeOK
<1>31. ASSUME NEW t \in Chats \cup {Swing}, DismissInterrupted(t) PROVE TypeOK'
  <2>1. dialogs' \in Seq(Threads) BY <1>31, DialogType DEF DismissInterrupted
  <2> QED BY <1>31, <2>1 DEF DismissInterrupted, Goto, Subject, TypeOK
<1>32. ASSUME NEW t \in Chats \cup {Swing}, CloseUnfound(t) PROVE TypeOK'
  BY <1>32 DEF CloseUnfound, FindsInside, Subject, LeaveClose, Goto, TypeOK, LabelInv
<1>33. ASSUME NEW t \in Chats \cup {Swing}, CloseFails(t) PROVE TypeOK'
  <2>1. target \in Chats BY <1>33 DEF CloseFails, TypeOK
  <2>2. /\ spoken' \in [Chats -> Nat]
        /\ conn' \in [Chats -> {"none", "up", "lost", "broken"}]
    BY <1>33, <2>1, WriteType DEF CloseFails
  <2>3. pc' \in [Threads -> Labels] /\ frame' \in [Chats -> {"none", "built", "shown", "disposed"}]
    BY <1>33, <2>1 DEF CloseFails, LeaveClose, Goto, TypeOK
  <2> QED BY <1>33, <2>2, <2>3 DEF CloseFails, FindsInside, LeaveClose, TypeOK
<1>34. ASSUME NEW t \in Chats \cup {Swing}, CloseHidden(t) PROVE TypeOK'
  <2>1. pc' \in [Threads -> Labels] /\ frame' \in [Chats -> {"none", "built", "shown", "disposed"}]
    BY <1>34 DEF CloseHidden, LeaveClose, Goto, TypeOK
  <2>2. /\ socket' \in [Chats -> {"none", "open", "closed"}] /\ pipe' \in [Chats -> 0 .. PipeSize]
        /\ pipeClosed' \in [Chats -> BOOLEAN]
    BY <1>34 DEF CloseHidden, ClosesAll, TypeOK
  <2> QED BY <1>34, <2>1, <2>2 DEF CloseHidden, ClosesAll, FindsInside, LeaveClose, TypeOK
<1>35. ASSUME NEW t \in Chats \cup {Swing}, CloseShown(t) PROVE TypeOK'
  <2>1. pc' \in [Threads -> Labels] /\ frame' \in [Chats -> {"none", "built", "shown", "disposed"}]
    BY <1>35 DEF CloseShown, Goto, TypeOK
  <2>2. /\ socket' \in [Chats -> {"none", "open", "closed"}] /\ pipe' \in [Chats -> 0 .. PipeSize]
        /\ pipeClosed' \in [Chats -> BOOLEAN]
    BY <1>35 DEF CloseShown, ClosesAll, TypeOK
  <2> QED BY <1>35, <2>1, <2>2 DEF CloseShown, ClosesAll, FindsInside, TypeOK
<1>36. ASSUME NEW t \in Chats \cup {Swing}, ShowDialog(t) PROVE TypeOK'
  <2>1. t \in Threads BY DEF Threads
  <2>2. dialogs' \in Seq(Threads) BY <1>36, <2>1 DEF ShowDialog, TypeOK
  <2> QED BY <1>36, <2>2 DEF ShowDialog, Goto, TypeOK
<1>37. ASSUME NEW t \in Chats \cup {Swing}, StopUpdates(t) PROVE TypeOK'
  BY <1>37 DEF StopUpdates, Finds, Subject, Goto, Done, TypeOK, LabelInv
<1>38. ASSUME NEW t \in Chats \cup {Swing}, Remove(t) PROVE TypeOK'
  BY <1>38 DEF Remove, FindsInside, Subject, Goto, Done, TypeOK, LabelInv
<1>39. ASSUME NEW c \in Chats, PeerToken(c) PROVE TypeOK'
  <2>1. PeerWrites(c, "token") BY <1>39 DEF PeerToken
  <2>2. "token" \in Messages BY DEF Messages
  <2>3. said' \in [Chats -> Nat] /\ wire' \in [Chats -> Seq(Messages)] BY <2>1, <2>2, SaidType
  <2> QED BY <1>39, <2>1, <2>3 DEF PeerToken, PeerWrites, TypeOK
<1>40. ASSUME NEW c \in Chats, PeerText(c) PROVE TypeOK'
  <2>1. PICK m \in Kinds : PeerWrites(c, m) BY <1>40 DEF PeerText
  <2>2. m \in Messages BY ClientAssumption DEF Messages
  <2>3. said' \in [Chats -> Nat] /\ wire' \in [Chats -> Seq(Messages)] BY <2>1, <2>2, SaidType
  <2> QED BY <1>40, <2>1, <2>3 DEF PeerText, PeerWrites, TypeOK
<1>41. ASSUME NEW c \in Chats, PeerEnd(c) PROVE TypeOK'
  <2>1. PeerWrites(c, "END") BY <1>41 DEF PeerEnd
  <2>2. "END" \in Messages BY DEF Messages
  <2>3. said' \in [Chats -> Nat] /\ wire' \in [Chats -> Seq(Messages)] BY <2>1, <2>2, SaidType
  <2> QED BY <1>41, <2>1, <2>3 DEF PeerEnd, PeerWrites, TypeOK
<1>42. ASSUME NEW c \in Chats, LinkLost(c) PROVE TypeOK'
  <2>1. PICK k \in 0 .. Len(wire[c]) : wire' = [wire EXCEPT ![c] = SubSeq(wire[c], 1, k)]
    BY <1>42 DEF LinkLost
  <2>2. wire[c] \in Seq(Messages) BY DEF TypeOK
  <2>3. SubSeq(wire[c], 1, k) \in Seq(Messages) BY <2>2, SubSeqType
  <2>4. wire' \in [Chats -> Seq(Messages)] BY <2>1, <2>3 DEF TypeOK
  <2> QED BY <1>42, <2>4 DEF LinkLost, TypeOK
<1>43. CASE UNCHANGED vars
  BY <1>43 DEF vars, TypeOK
<1> QED
  BY <1>1, <1>2, <1>3, <1>4, <1>5, <1>6, <1>7, <1>8, <1>9, <1>10, <1>11, <1>12, <1>13, <1>14,
     <1>15, <1>16, <1>17, <1>18, <1>19, <1>20, <1>21, <1>22, <1>23, <1>24, <1>25, <1>26,
     <1>27, <1>28, <1>29, <1>30, <1>31, <1>32, <1>33, <1>34, <1>35, <1>36, <1>37, <1>38,
     <1>39, <1>40, <1>41, <1>42,
     <1>43 DEF Next, User, Dismiss, SwingStep, ListenerStep, UpdaterStep, Peer, Closing

\* A thread only ever does what its code has.
LEMMA LabelNext == TypeOK /\ LabelInv /\ [Next]_vars => LabelInv'
<1> SUFFICES ASSUME TypeOK, LabelInv, [Next]_vars PROVE LabelInv'
  OBVIOUS
<1> USE Names DEF lockVars, netVars, guiVars, pipeVars, TypeOK, LabelInv, SwingLabels,
   ChatLabels, Searches
<1>1. ASSUME NEW t \in Chats \cup {Swing}, EnterFind(t) PROVE LabelInv'
  BY <1>1 DEF EnterFind
<1>2. ASSUME NEW t \in Chats \cup {Swing}, EnterList(t) PROVE LabelInv'
  BY <1>2 DEF EnterList
<1>3. ASSUME OpenContacts PROVE LabelInv'
  BY <1>3 DEF OpenContacts
<1>4. ASSUME NEW c \in Outgoing, StartCall(c) PROVE LabelInv'
  BY <1>4 DEF StartCall, Goto
<1>5. ASSUME Connect PROVE LabelInv'
  BY <1>5 DEF Connect, Finds, Goto
<1>6. ASSUME ConnectRefused PROVE LabelInv'
  BY <1>6 DEF ConnectRefused, Finds, Goto
<1>7. ASSUME AddCalled PROVE LabelInv'
  BY <1>7 DEF AddCalled
<1>8. ASSUME NEW t \in Chats \cup {Swing}, StartUpdates(t) PROVE LabelInv'
  <2>1. CASE t = Swing BY <1>8, <2>1 DEF StartUpdates, Finds, Goto, Subject
  <2>2. CASE t \in Chats
    <3>1. pc' = [pc EXCEPT ![t] = "show"] /\ target' = target
      BY <1>8, <2>2 DEF StartUpdates, Goto
    <3> QED BY <2>2, <3>1
  <2> QED BY <2>1, <2>2
<1>9. ASSUME SendToken PROVE LabelInv'
  BY <1>9 DEF SendToken, Finds, Goto, WriteTaken, WriteFails
<1>10. ASSUME NEW c \in Incoming, Accept(c) PROVE LabelInv'
  BY <1>10 DEF Accept, Goto
<1>11. ASSUME NEW c \in Incoming, AddAccepted(c) PROVE LabelInv'
  BY <1>11 DEF AddAccepted
<1>12. ASSUME NEW c \in Chats, ReadToken(c) PROVE LabelInv'
  BY <1>12 DEF ReadToken, Reads, Goto
<1>13. ASSUME NEW c \in Chats, Answer(c) PROVE LabelInv'
  BY <1>13 DEF Answer, Finds, Goto, WriteTaken, WriteFails
<1>14. ASSUME NEW c \in Chats, ReadText(c) PROVE LabelInv'
  BY <1>14 DEF ReadText, Reads, Goto, Texts
<1>15. ASSUME NEW c \in Chats, Suppress(c) PROVE LabelInv'
  BY <1>15 DEF Suppress, Goto
<1>16. ASSUME NEW c \in Chats, WriteText(c) PROVE LabelInv'
  BY <1>16 DEF WriteText, Goto
<1>17. ASSUME NEW c \in Chats, WriteTextFails(c) PROVE LabelInv'
  BY <1>17 DEF WriteTextFails, Goto
<1>18. ASSUME NEW c \in Chats, Release(c) PROVE LabelInv'
  BY <1>18 DEF Release, Goto
<1>19. ASSUME NEW c \in Chats, ReadEnd(c) PROVE LabelInv'
  BY <1>19 DEF ReadEnd, Reads, Goto
<1>20. ASSUME NEW c \in Chats, ReadFails(c) PROVE LabelInv'
  BY <1>20 DEF ReadFails, Goto
<1>21. ASSUME NEW c \in Chats, Interrupted(c) PROVE LabelInv'
  BY <1>21 DEF Interrupted
<1>22. ASSUME NEW c \in Chats, Acquire(c) PROVE LabelInv'
  BY <1>22 DEF Acquire
<1>23. ASSUME NEW c \in Chats, TakeText(c) PROVE LabelInv'
  BY <1>23 DEF TakeText
<1>24. ASSUME NEW c \in Chats, TakeTextFails(c) PROVE LabelInv'
  BY <1>24 DEF TakeTextFails
<1>25. ASSUME NEW c \in Chats, PressSend(c) PROVE LabelInv'
  BY <1>25 DEF PressSend, Goto
<1>26. ASSUME SendFind PROVE LabelInv'
  BY <1>26 DEF SendFind, Finds, Goto
<1>27. ASSUME SendWrite PROVE LabelInv'
  BY <1>27 DEF SendWrite, WriteTaken, Goto
<1>28. ASSUME SendFails PROVE LabelInv'
  BY <1>28 DEF SendFails, WriteFails, Goto
<1>29. ASSUME NEW c \in Chats, PressClose(c) PROVE LabelInv'
  BY <1>29 DEF PressClose, Goto
<1>30. ASSUME DismissFailed PROVE LabelInv'
  BY <1>30 DEF DismissFailed, Goto
<1>31. ASSUME NEW t \in Chats \cup {Swing}, DismissInterrupted(t) PROVE LabelInv'
  BY <1>31 DEF DismissInterrupted, Goto, Subject
<1>32. ASSUME NEW t \in Chats \cup {Swing}, CloseUnfound(t) PROVE LabelInv'
  BY <1>32 DEF CloseUnfound, FindsInside, Subject, LeaveClose, Goto
<1>33. ASSUME NEW t \in Chats \cup {Swing}, CloseFails(t) PROVE LabelInv'
  <2>1. t = Swing /\ target' = target BY <1>33 DEF CloseFails
  <2>2. pc' = [pc EXCEPT ![Swing] = "idle"] \/ pc' = [pc EXCEPT ![Swing] = "stop"]
    BY <1>33, <2>1 DEF CloseFails, LeaveClose, Goto
  <2> QED BY <2>2, <1>33, <2>1 DEF CloseFails
<1>34. ASSUME NEW t \in Chats \cup {Swing}, CloseHidden(t) PROVE LabelInv'
  BY <1>34 DEF CloseHidden, ClosesAll, FindsInside, Subject, LeaveClose, Goto
<1>35. ASSUME NEW t \in Chats \cup {Swing}, CloseShown(t) PROVE LabelInv'
  BY <1>35 DEF CloseShown, ClosesAll, FindsInside, Subject, Goto
<1>36. ASSUME NEW t \in Chats \cup {Swing}, ShowDialog(t) PROVE LabelInv'
  BY <1>36 DEF ShowDialog, Goto
<1>37. ASSUME NEW t \in Chats \cup {Swing}, StopUpdates(t) PROVE LabelInv'
  <2>1. target' = target /\ pc[t] = "stop" BY <1>37 DEF StopUpdates, Finds
  <2>2. pc' = [pc EXCEPT ![t] = "remove"] \/ pc' = [pc EXCEPT ![t] = Done(t)]
    BY <1>37 DEF StopUpdates, Goto
  <2>3. CASE t = Swing BY <2>1, <2>2, <2>3 DEF Done
  <2>4. CASE t \in Chats
    <3>1. Done(t) = "ended" BY <2>4 DEF Done
    <3> QED BY <2>1, <2>2, <2>4, <3>1
  <2> QED BY <2>3, <2>4
<1>38. ASSUME NEW t \in Chats \cup {Swing}, Remove(t) PROVE LabelInv'
  BY <1>38 DEF Remove, FindsInside, Subject, Goto, Done
<1>39. ASSUME NEW c \in Chats, PeerToken(c) PROVE LabelInv'
  BY <1>39 DEF PeerToken, PeerWrites
<1>40. ASSUME NEW c \in Chats, PeerText(c) PROVE LabelInv'
  BY <1>40 DEF PeerText, PeerWrites
<1>41. ASSUME NEW c \in Chats, PeerEnd(c) PROVE LabelInv'
  BY <1>41 DEF PeerEnd, PeerWrites
<1>42. ASSUME NEW c \in Chats, LinkLost(c) PROVE LabelInv'
  BY <1>42 DEF LinkLost
<1>43. CASE UNCHANGED vars
  BY <1>43 DEF vars
<1> QED
  BY <1>1, <1>2, <1>3, <1>4, <1>5, <1>6, <1>7, <1>8, <1>9, <1>10, <1>11, <1>12, <1>13, <1>14,
     <1>15, <1>16, <1>17, <1>18, <1>19, <1>20, <1>21, <1>22, <1>23, <1>24, <1>25, <1>26,
     <1>27, <1>28, <1>29, <1>30, <1>31, <1>32, <1>33, <1>34, <1>35, <1>36, <1>37, <1>38,
     <1>39, <1>40, <1>41, <1>42,
     <1>43 DEF Next, User, Dismiss, SwingStep, ListenerStep, UpdaterStep, Peer, Closing

-------------------------------------------------------------------------------
(********************* The invariant is kept, by parts *********************)

\* WriteText fills the pipe before Release gives the permit; Acquire takes the
\* permit before TakeText empties it.
LEMMA PipeNext ==
    TypeOK /\ LabelInv /\ PipeInv /\ [Next]_vars => PipeInv'
<1> SUFFICES ASSUME TypeOK /\ LabelInv /\ PipeInv, [Next]_vars, NEW d \in Chats
             PROVE  PipeFits(d)'
  BY DEF PipeInv
<1> USE Names DEF lockVars, netVars, guiVars, pipeVars, TypeOK, LabelInv, PipeInv, PipeFits
<1>1. ASSUME NEW t \in Chats \cup {Swing}, EnterFind(t) PROVE PipeFits(d)'
  BY <1>1 DEF EnterFind
<1>2. ASSUME NEW t \in Chats \cup {Swing}, EnterList(t) PROVE PipeFits(d)'
  BY <1>2 DEF EnterList
<1>3. ASSUME OpenContacts PROVE PipeFits(d)'
  BY <1>3 DEF OpenContacts
<1>4. ASSUME NEW c \in Outgoing, StartCall(c) PROVE PipeFits(d)'
  BY <1>4 DEF StartCall, Goto
<1>5. ASSUME Connect PROVE PipeFits(d)'
  BY <1>5 DEF Connect, Finds, Goto
<1>6. ASSUME ConnectRefused PROVE PipeFits(d)'
  BY <1>6 DEF ConnectRefused, Finds, Goto
<1>7. ASSUME AddCalled PROVE PipeFits(d)'
  <2>1. permits' = permits /\ pipe' = pipe /\ pipeClosed' = pipeClosed /\ updater' = updater
    BY <1>7 DEF AddCalled
  <2>2. pc'[d] = "release" => pc[d] = "release" BY <1>7 DEF AddCalled
  <2>3. PipeFits(d) OBVIOUS
  <2> QED BY <2>1, <2>2, <2>3
<1>8. ASSUME NEW t \in Chats \cup {Swing}, StartUpdates(t) PROVE PipeFits(d)'
  <2>1. /\ permits' = permits /\ pipe' = pipe /\ pipeClosed' = pipeClosed
        /\ updater'[d] = "reading" => updater[d] = "reading"
    BY <1>8 DEF StartUpdates
  <2>2. pc'[d] = "release" => pc[d] = "release" BY <1>8 DEF StartUpdates, Goto
  <2>3. PipeFits(d) OBVIOUS
  <2> QED BY <2>1, <2>2, <2>3
<1>9. ASSUME SendToken PROVE PipeFits(d)'
  BY <1>9 DEF SendToken, Finds, Goto, WriteTaken, WriteFails
<1>10. ASSUME NEW c \in Incoming, Accept(c) PROVE PipeFits(d)'
  BY <1>10 DEF Accept, Goto
<1>11. ASSUME NEW c \in Incoming, AddAccepted(c) PROVE PipeFits(d)'
  BY <1>11 DEF AddAccepted
<1>12. ASSUME NEW c \in Chats, ReadToken(c) PROVE PipeFits(d)'
  BY <1>12 DEF ReadToken, Reads, Goto
<1>13. ASSUME NEW c \in Chats, Answer(c) PROVE PipeFits(d)'
  BY <1>13 DEF Answer, Finds, Goto, WriteTaken, WriteFails
<1>14. ASSUME NEW c \in Chats, ReadText(c) PROVE PipeFits(d)'
  BY <1>14 DEF ReadText, Reads, Goto, Texts
<1>15. ASSUME NEW c \in Chats, Suppress(c) PROVE PipeFits(d)'
  BY <1>15 DEF Suppress, Goto
<1>16. ASSUME NEW c \in Chats, WriteText(c) PROVE PipeFits(d)'
  BY <1>16 DEF WriteText, Goto
<1>17. ASSUME NEW c \in Chats, WriteTextFails(c) PROVE PipeFits(d)'
  BY <1>17 DEF WriteTextFails, Goto
<1>18. ASSUME NEW c \in Chats, Release(c) PROVE PipeFits(d)'
  BY <1>18 DEF Release, Goto
<1>19. ASSUME NEW c \in Chats, ReadEnd(c) PROVE PipeFits(d)'
  BY <1>19 DEF ReadEnd, Reads, Goto
<1>20. ASSUME NEW c \in Chats, ReadFails(c) PROVE PipeFits(d)'
  BY <1>20 DEF ReadFails, Goto
<1>21. ASSUME NEW c \in Chats, Interrupted(c) PROVE PipeFits(d)'
  BY <1>21 DEF Interrupted
<1>22. ASSUME NEW c \in Chats, Acquire(c) PROVE PipeFits(d)'
  BY <1>22 DEF Acquire
<1>23. ASSUME NEW c \in Chats, TakeText(c) PROVE PipeFits(d)'
  BY <1>23 DEF TakeText
<1>24. ASSUME NEW c \in Chats, TakeTextFails(c) PROVE PipeFits(d)'
  BY <1>24 DEF TakeTextFails
<1>25. ASSUME NEW c \in Chats, PressSend(c) PROVE PipeFits(d)'
  BY <1>25 DEF PressSend, Goto
<1>26. ASSUME SendFind PROVE PipeFits(d)'
  BY <1>26 DEF SendFind, Finds, Goto
<1>27. ASSUME SendWrite PROVE PipeFits(d)'
  BY <1>27 DEF SendWrite, WriteTaken, Goto
<1>28. ASSUME SendFails PROVE PipeFits(d)'
  BY <1>28 DEF SendFails, WriteFails, Goto
<1>29. ASSUME NEW c \in Chats, PressClose(c) PROVE PipeFits(d)'
  BY <1>29 DEF PressClose, Goto
<1>30. ASSUME DismissFailed PROVE PipeFits(d)'
  BY <1>30 DEF DismissFailed, Goto
<1>31. ASSUME NEW t \in Chats \cup {Swing}, DismissInterrupted(t) PROVE PipeFits(d)'
  BY <1>31 DEF DismissInterrupted, Goto, Subject
<1>32. ASSUME NEW t \in Chats \cup {Swing}, CloseUnfound(t) PROVE PipeFits(d)'
  BY <1>32 DEF CloseUnfound, FindsInside, Subject, LeaveClose, Goto
<1>33. ASSUME NEW t \in Chats \cup {Swing}, CloseFails(t) PROVE PipeFits(d)'
  BY <1>33 DEF CloseFails, FindsInside, WriteFails, LeaveClose, Goto
<1>34. ASSUME NEW t \in Chats \cup {Swing}, CloseHidden(t) PROVE PipeFits(d)'
  BY <1>34 DEF CloseHidden, ClosesAll, FindsInside, Subject, LeaveClose, Goto
<1>35. ASSUME NEW t \in Chats \cup {Swing}, CloseShown(t) PROVE PipeFits(d)'
  BY <1>35 DEF CloseShown, ClosesAll, FindsInside, Subject, Goto
<1>36. ASSUME NEW t \in Chats \cup {Swing}, ShowDialog(t) PROVE PipeFits(d)'
  BY <1>36 DEF ShowDialog, Goto
<1>37. ASSUME NEW t \in Chats \cup {Swing}, StopUpdates(t) PROVE PipeFits(d)'
  <2>1. permits' = permits /\ pipe' = pipe /\ pipeClosed' = pipeClosed /\ updater' = updater
    BY <1>37 DEF StopUpdates
  <2>2. pc'[d] = "release" => pc[d] = "release" BY <1>37 DEF StopUpdates, Goto, Done
  <2>3. PipeFits(d) OBVIOUS
  <2> QED BY <2>1, <2>2, <2>3
<1>38. ASSUME NEW t \in Chats \cup {Swing}, Remove(t) PROVE PipeFits(d)'
  BY <1>38 DEF Remove, FindsInside, Subject, Goto, Done
<1>39. ASSUME NEW c \in Chats, PeerToken(c) PROVE PipeFits(d)'
  BY <1>39 DEF PeerToken, PeerWrites
<1>40. ASSUME NEW c \in Chats, PeerText(c) PROVE PipeFits(d)'
  BY <1>40 DEF PeerText, PeerWrites
<1>41. ASSUME NEW c \in Chats, PeerEnd(c) PROVE PipeFits(d)'
  BY <1>41 DEF PeerEnd, PeerWrites
<1>42. ASSUME NEW c \in Chats, LinkLost(c) PROVE PipeFits(d)'
  BY <1>42 DEF LinkLost
<1>43. CASE UNCHANGED vars
  BY <1>43 DEF vars
<1> QED
  BY <1>1, <1>2, <1>3, <1>4, <1>5, <1>6, <1>7, <1>8, <1>9, <1>10, <1>11, <1>12, <1>13, <1>14,
     <1>15, <1>16, <1>17, <1>18, <1>19, <1>20, <1>21, <1>22, <1>23, <1>24, <1>25, <1>26,
     <1>27, <1>28, <1>29, <1>30, <1>31, <1>32, <1>33, <1>34, <1>35, <1>36, <1>37, <1>38,
     <1>39, <1>40, <1>41, <1>42,
     <1>43 DEF Next, User, Dismiss, SwingStep, ListenerStep, UpdaterStep, Peer, Closing

\* A window that is gone, or was never shown, stays so while its chat ends.
LEMMA FrameNext ==
    TypeOK /\ LabelInv /\ WireInv /\ FrameInv /\ ListInv /\ SwingInv /\ [Next]_vars => FrameInv'
<1> SUFFICES ASSUME TypeOK /\ LabelInv /\ WireInv /\ FrameInv /\ ListInv /\ SwingInv,
                    [Next]_vars, NEW d \in Chats
             PROVE  FrameFits(d)'
  BY DEF FrameInv
<1> USE Names DEF lockVars, netVars, guiVars, pipeVars, TypeOK, LabelInv, FrameInv, ListInv,
   FrameFits, ListFits, MustBeListed, SwingInv
<1>1. ASSUME NEW t \in Chats \cup {Swing}, EnterFind(t) PROVE FrameFits(d)'
  BY <1>1 DEF EnterFind
<1>2. ASSUME NEW t \in Chats \cup {Swing}, EnterList(t) PROVE FrameFits(d)'
  BY <1>2 DEF EnterList
<1>3. ASSUME OpenContacts PROVE FrameFits(d)'
  BY <1>3 DEF OpenContacts
<1>4. ASSUME NEW c \in Outgoing, StartCall(c) PROVE FrameFits(d)'
  BY <1>4 DEF StartCall, Goto
<1>5. ASSUME Connect PROVE FrameFits(d)'
  BY <1>5 DEF Connect, Finds, Goto
<1>6. ASSUME ConnectRefused PROVE FrameFits(d)'
  BY <1>6 DEF ConnectRefused, Finds, Goto
<1>7. ASSUME AddCalled PROVE FrameFits(d)'
  BY <1>7 DEF AddCalled
<1>8. ASSUME NEW t \in Chats \cup {Swing}, StartUpdates(t) PROVE FrameFits(d)'
  BY <1>8 DEF StartUpdates, Finds, Goto, Subject
<1>9. ASSUME SendToken PROVE FrameFits(d)'
  BY <1>9 DEF SendToken, Finds, Goto, WriteTaken, WriteFails
<1>10. ASSUME NEW c \in Incoming, Accept(c) PROVE FrameFits(d)'
  BY <1>10 DEF Accept, Goto
<1>11. ASSUME NEW c \in Incoming, AddAccepted(c) PROVE FrameFits(d)'
  BY <1>11 DEF AddAccepted
<1>12. ASSUME NEW c \in Chats, ReadToken(c) PROVE FrameFits(d)'
  BY <1>12 DEF ReadToken, Reads, Goto
<1>13. ASSUME NEW c \in Chats, Answer(c) PROVE FrameFits(d)'
  BY <1>13 DEF Answer, Finds, Goto, WriteTaken, WriteFails
<1>14. ASSUME NEW c \in Chats, ReadText(c) PROVE FrameFits(d)'
  BY <1>14 DEF ReadText, Reads, Goto, Texts
<1>15. ASSUME NEW c \in Chats, Suppress(c) PROVE FrameFits(d)'
  BY <1>15 DEF Suppress, Goto
<1>16. ASSUME NEW c \in Chats, WriteText(c) PROVE FrameFits(d)'
  BY <1>16 DEF WriteText, Goto
<1>17. ASSUME NEW c \in Chats, WriteTextFails(c) PROVE FrameFits(d)'
  BY <1>17 DEF WriteTextFails, Goto
<1>18. ASSUME NEW c \in Chats, Release(c) PROVE FrameFits(d)'
  BY <1>18 DEF Release, Goto
<1>19. ASSUME NEW c \in Chats, ReadEnd(c) PROVE FrameFits(d)'
  BY <1>19 DEF ReadEnd, Reads, Goto
<1>20. ASSUME NEW c \in Chats, ReadFails(c) PROVE FrameFits(d)'
  BY <1>20 DEF ReadFails, Goto
<1>21. ASSUME NEW c \in Chats, Interrupted(c) PROVE FrameFits(d)'
  BY <1>21 DEF Interrupted
<1>22. ASSUME NEW c \in Chats, Acquire(c) PROVE FrameFits(d)'
  BY <1>22 DEF Acquire
<1>23. ASSUME NEW c \in Chats, TakeText(c) PROVE FrameFits(d)'
  BY <1>23 DEF TakeText
<1>24. ASSUME NEW c \in Chats, TakeTextFails(c) PROVE FrameFits(d)'
  BY <1>24 DEF TakeTextFails
<1>25. ASSUME NEW c \in Chats, PressSend(c) PROVE FrameFits(d)'
  BY <1>25 DEF PressSend, Goto
<1>26. ASSUME SendFind PROVE FrameFits(d)'
  BY <1>26 DEF SendFind, Finds, Goto
<1>27. ASSUME SendWrite PROVE FrameFits(d)'
  BY <1>27 DEF SendWrite, WriteTaken, Goto
<1>28. ASSUME SendFails PROVE FrameFits(d)'
  BY <1>28 DEF SendFails, WriteFails, Goto
<1>29. ASSUME NEW c \in Chats, PressClose(c) PROVE FrameFits(d)'
  BY <1>29 DEF PressClose, Goto
<1>30. ASSUME DismissFailed PROVE FrameFits(d)'
  BY <1>30 DEF DismissFailed, Goto
<1>31. ASSUME NEW t \in Chats \cup {Swing}, DismissInterrupted(t) PROVE FrameFits(d)'
  BY <1>31 DEF DismissInterrupted, Goto, Subject
<1>32. ASSUME NEW t \in Chats \cup {Swing}, CloseUnfound(t) PROVE FrameFits(d)'
  <2>1. pc[t] \in {"close", "giveUp"} /\ LeaveClose(t) BY <1>32 DEF CloseUnfound
  <2>2. CASE t = Swing /\ pc[t] = "giveUp" /\ pc' = [pc EXCEPT ![Swing] = "idle"]
             /\ frame' = [frame EXCEPT ![target] = "disposed"]
    BY <1>32, <2>2 DEF CloseUnfound, FindsInside, Subject
  <2>3. CASE pc[t] = "close" /\ pc' = [pc EXCEPT ![t] = "stop"] /\ frame' = frame
    <3>1. CASE t = Swing BY <1>32, <2>3, <3>1 DEF CloseUnfound, FindsInside, Subject
    <3>2. CASE t \in Chats BY <1>32, <2>3, <3>2 DEF CloseUnfound, FindsInside, Subject
    <3> QED BY <3>1, <3>2
  <2> QED BY <2>1, <2>2, <2>3, Leaving
<1>33. ASSUME NEW t \in Chats \cup {Swing}, CloseFails(t) PROVE FrameFits(d)'
  BY <1>33 DEF CloseFails, FindsInside, WriteFails, LeaveClose, Goto
<1>34. ASSUME NEW t \in Chats \cup {Swing}, CloseHidden(t) PROVE FrameFits(d)'
  <2>1. pc[t] \in {"close", "giveUp"} /\ LeaveClose(t) BY <1>34 DEF CloseHidden, ClosesAll
  <2>2. CASE t = Swing /\ pc[t] = "giveUp" /\ pc' = [pc EXCEPT ![Swing] = "idle"]
             /\ frame' = [frame EXCEPT ![target] = "disposed"]
    BY <1>34, <2>2 DEF CloseHidden, FindsInside, Subject, ClosesAll
  <2>3. CASE pc[t] = "close" /\ pc' = [pc EXCEPT ![t] = "stop"] /\ frame' = frame
    <3>1. CASE t = Swing BY <1>34, <2>3, <3>1 DEF CloseHidden, FindsInside, Subject, ClosesAll
    <3>2. CASE t \in Chats BY <1>34, <2>3, <3>2 DEF CloseHidden, FindsInside, Subject, ClosesAll
    <3> QED BY <3>1, <3>2
  <2> QED BY <2>1, <2>2, <2>3, Leaving
<1>35. ASSUME NEW t \in Chats \cup {Swing}, CloseShown(t) PROVE FrameFits(d)'
  BY <1>35 DEF CloseShown, ClosesAll, FindsInside, Subject, Goto
<1>36. ASSUME NEW t \in Chats \cup {Swing}, ShowDialog(t) PROVE FrameFits(d)'
  BY <1>36 DEF ShowDialog, Goto
<1>37. ASSUME NEW t \in Chats \cup {Swing}, StopUpdates(t) PROVE FrameFits(d)'
  BY <1>37 DEF StopUpdates, Finds, Subject, Goto, Done
<1>38. ASSUME NEW t \in Chats \cup {Swing}, Remove(t) PROVE FrameFits(d)'
  BY <1>38 DEF Remove, FindsInside, Subject, Goto, Done
<1>39. ASSUME NEW c \in Chats, PeerToken(c) PROVE FrameFits(d)'
  BY <1>39 DEF PeerToken, PeerWrites
<1>40. ASSUME NEW c \in Chats, PeerText(c) PROVE FrameFits(d)'
  BY <1>40 DEF PeerText, PeerWrites
<1>41. ASSUME NEW c \in Chats, PeerEnd(c) PROVE FrameFits(d)'
  BY <1>41 DEF PeerEnd, PeerWrites
<1>42. ASSUME NEW c \in Chats, LinkLost(c) PROVE FrameFits(d)'
  BY <1>42 DEF LinkLost
<1>43. CASE UNCHANGED vars
  BY <1>43 DEF vars
<1> QED
  BY <1>1, <1>2, <1>3, <1>4, <1>5, <1>6, <1>7, <1>8, <1>9, <1>10, <1>11, <1>12, <1>13, <1>14,
     <1>15, <1>16, <1>17, <1>18, <1>19, <1>20, <1>21, <1>22, <1>23, <1>24, <1>25, <1>26,
     <1>27, <1>28, <1>29, <1>30, <1>31, <1>32, <1>33, <1>34, <1>35, <1>36, <1>37, <1>38,
     <1>39, <1>40, <1>41, <1>42,
     <1>43 DEF Next, User, Dismiss, SwingStep, ListenerStep, UpdaterStep, Peer, Closing

\* A chat leaves the list only by Remove, whose thread ends with it or has
\* killed the connection.
LEMMA ListNext ==
    TypeOK /\ LabelInv /\ WireInv /\ FrameInv /\ ListInv /\ SwingInv /\ [Next]_vars => ListInv'
<1> SUFFICES ASSUME TypeOK /\ LabelInv /\ WireInv /\ FrameInv /\ ListInv /\ SwingInv,
                    [Next]_vars, NEW d \in Chats
             PROVE  ListFits(d)'
  BY DEF ListInv
<1> USE Names DEF lockVars, netVars, guiVars, pipeVars, TypeOK, LabelInv, FrameInv, ListInv,
   FrameFits, ListFits, MustBeListed, SwingInv, Dead
<1>1. ASSUME NEW t \in Chats \cup {Swing}, EnterFind(t) PROVE ListFits(d)'
  BY <1>1 DEF EnterFind
<1>2. ASSUME NEW t \in Chats \cup {Swing}, EnterList(t) PROVE ListFits(d)'
  BY <1>2 DEF EnterList
<1>3. ASSUME OpenContacts PROVE ListFits(d)'
  BY <1>3 DEF OpenContacts
<1>4. ASSUME NEW c \in Outgoing, StartCall(c) PROVE ListFits(d)'
  BY <1>4 DEF StartCall, Goto
<1>5. ASSUME Connect PROVE ListFits(d)'
  BY <1>5 DEF Connect, Finds, Goto
<1>6. ASSUME ConnectRefused PROVE ListFits(d)'
  BY <1>6 DEF ConnectRefused, Finds, Goto
<1>7. ASSUME AddCalled PROVE ListFits(d)'
  BY <1>7 DEF AddCalled
<1>8. ASSUME NEW t \in Chats \cup {Swing}, StartUpdates(t) PROVE ListFits(d)'
  BY <1>8 DEF StartUpdates, Finds, Goto, Subject
<1>9. ASSUME SendToken PROVE ListFits(d)'
  BY <1>9 DEF SendToken, Finds, Goto, WriteTaken, WriteFails
<1>10. ASSUME NEW c \in Incoming, Accept(c) PROVE ListFits(d)'
  BY <1>10 DEF Accept, Goto
<1>11. ASSUME NEW c \in Incoming, AddAccepted(c) PROVE ListFits(d)'
  BY <1>11 DEF AddAccepted
<1>12. ASSUME NEW c \in Chats, ReadToken(c) PROVE ListFits(d)'
  <2>1. WireFits(c) /\ TypeOK BY DEF WireInv
  <2>2. Reads(c, "token") BY <1>12 DEF ReadToken
  <2>3. wire[c] # <<>> /\ Len(wire[c]) \in Nat /\ Len(wire[c]) >= 1 /\ wire[c][1] = "token"
    BY <2>1, <2>2, ReadType, LenProperties
  <2>4. c \in Incoming => frame[c] = "none"
    BY <2>1, <2>3 DEF WireFits, NoToken
  <2>5. /\ pc[c] = "read"
        /\ \/ c \in Outgoing /\ pc' = pc /\ frame' = frame /\ ready' = [ready EXCEPT ![c] = TRUE]
           \/ /\ c \in Incoming /\ frame' = [frame EXCEPT ![c] = "built"]
              /\ pc' = [pc EXCEPT ![c] = "answer"] /\ ready' = ready
    BY <1>12 DEF ReadToken, Reads, Goto
  <2>6. UNCHANGED <<chats, target, socket, conn, spoken>> BY <1>12 DEF ReadToken, Reads
  <2>7. CASE d # c
    <3>1. pc'[d] = pc[d] /\ frame'[d] = frame[d] /\ ready'[d] = ready[d] BY <2>5, <2>7
    <3> QED BY <2>6, <3>1
  <2>8. CASE d = c /\ c \in Outgoing BY <2>5, <2>6, <2>8
  <2>9. CASE d = c /\ c \in Incoming
    <3>1. c \in chats /\ socket[c] # "none" BY <2>4, <2>5, <2>9
    <3>2. pc'[c] = "answer" BY <2>5, <2>9
    <3> QED BY <2>6, <2>9, <3>1, <3>2
  <2> QED BY <2>7, <2>8, <2>9
<1>13. ASSUME NEW c \in Chats, Answer(c) PROVE ListFits(d)'
  BY <1>13 DEF Answer, Finds, Goto, WriteTaken, WriteFails
<1>14. ASSUME NEW c \in Chats, ReadText(c) PROVE ListFits(d)'
  BY <1>14 DEF ReadText, Reads, Goto, Texts
<1>15. ASSUME NEW c \in Chats, Suppress(c) PROVE ListFits(d)'
  BY <1>15 DEF Suppress, Goto
<1>16. ASSUME NEW c \in Chats, WriteText(c) PROVE ListFits(d)'
  BY <1>16 DEF WriteText, Goto
<1>17. ASSUME NEW c \in Chats, WriteTextFails(c) PROVE ListFits(d)'
  BY <1>17 DEF WriteTextFails, Goto
<1>18. ASSUME NEW c \in Chats, Release(c) PROVE ListFits(d)'
  BY <1>18 DEF Release, Goto
<1>19. ASSUME NEW c \in Chats, ReadEnd(c) PROVE ListFits(d)'
  BY <1>19 DEF ReadEnd, Reads, Goto
<1>20. ASSUME NEW c \in Chats, ReadFails(c) PROVE ListFits(d)'
  BY <1>20 DEF ReadFails, Goto
<1>21. ASSUME NEW c \in Chats, Interrupted(c) PROVE ListFits(d)'
  BY <1>21 DEF Interrupted
<1>22. ASSUME NEW c \in Chats, Acquire(c) PROVE ListFits(d)'
  BY <1>22 DEF Acquire
<1>23. ASSUME NEW c \in Chats, TakeText(c) PROVE ListFits(d)'
  BY <1>23 DEF TakeText
<1>24. ASSUME NEW c \in Chats, TakeTextFails(c) PROVE ListFits(d)'
  BY <1>24 DEF TakeTextFails
<1>25. ASSUME NEW c \in Chats, PressSend(c) PROVE ListFits(d)'
  BY <1>25 DEF PressSend, Goto
<1>26. ASSUME SendFind PROVE ListFits(d)'
  BY <1>26 DEF SendFind, Finds, Goto
<1>27. ASSUME SendWrite PROVE ListFits(d)'
  BY <1>27 DEF SendWrite, WriteTaken, Goto
<1>28. ASSUME SendFails PROVE ListFits(d)'
  BY <1>28 DEF SendFails, WriteFails, Goto
<1>29. ASSUME NEW c \in Chats, PressClose(c) PROVE ListFits(d)'
  BY <1>29 DEF PressClose, Goto
<1>30. ASSUME DismissFailed PROVE ListFits(d)'
  BY <1>30 DEF DismissFailed, Goto
<1>31. ASSUME NEW t \in Chats \cup {Swing}, DismissInterrupted(t) PROVE ListFits(d)'
  BY <1>31 DEF DismissInterrupted, Goto, Subject
<1>32. ASSUME NEW t \in Chats \cup {Swing}, CloseUnfound(t) PROVE ListFits(d)'
  BY <1>32 DEF CloseUnfound, FindsInside, Subject, LeaveClose, Goto
<1>33. ASSUME NEW t \in Chats \cup {Swing}, CloseFails(t) PROVE ListFits(d)'
  BY <1>33 DEF CloseFails, FindsInside, WriteFails, LeaveClose, Goto
<1>34. ASSUME NEW t \in Chats \cup {Swing}, CloseHidden(t) PROVE ListFits(d)'
  BY <1>34 DEF CloseHidden, ClosesAll, FindsInside, Subject, LeaveClose, Goto
<1>35. ASSUME NEW t \in Chats \cup {Swing}, CloseShown(t) PROVE ListFits(d)'
  BY <1>35 DEF CloseShown, ClosesAll, FindsInside, Subject, Goto
<1>36. ASSUME NEW t \in Chats \cup {Swing}, ShowDialog(t) PROVE ListFits(d)'
  BY <1>36 DEF ShowDialog, Goto
<1>37. ASSUME NEW t \in Chats \cup {Swing}, StopUpdates(t) PROVE ListFits(d)'
  BY <1>37 DEF StopUpdates, Finds, Subject, Goto, Done
<1>38. ASSUME NEW t \in Chats \cup {Swing}, Remove(t) PROVE ListFits(d)'
  BY <1>38 DEF Remove, FindsInside, Subject, Goto, Done
<1>39. ASSUME NEW c \in Chats, PeerToken(c) PROVE ListFits(d)'
  BY <1>39 DEF PeerToken, PeerWrites
<1>40. ASSUME NEW c \in Chats, PeerText(c) PROVE ListFits(d)'
  BY <1>40 DEF PeerText, PeerWrites
<1>41. ASSUME NEW c \in Chats, PeerEnd(c) PROVE ListFits(d)'
  BY <1>41 DEF PeerEnd, PeerWrites
<1>42. ASSUME NEW c \in Chats, LinkLost(c) PROVE ListFits(d)'
  BY <1>42 DEF LinkLost
<1>43. CASE UNCHANGED vars
  BY <1>43 DEF vars
<1> QED
  BY <1>1, <1>2, <1>3, <1>4, <1>5, <1>6, <1>7, <1>8, <1>9, <1>10, <1>11, <1>12, <1>13, <1>14,
     <1>15, <1>16, <1>17, <1>18, <1>19, <1>20, <1>21, <1>22, <1>23, <1>24, <1>25, <1>26,
     <1>27, <1>28, <1>29, <1>30, <1>31, <1>32, <1>33, <1>34, <1>35, <1>36, <1>37, <1>38,
     <1>39, <1>40, <1>41, <1>42,
     <1>43 DEF Next, User, Dismiss, SwingStep, ListenerStep, UpdaterStep, Peer, Closing

\* What the event thread found out about its chat still holds when it uses it.
LEMMA SwingNext ==
    TypeOK /\ LabelInv /\ WireInv /\ FrameInv /\ ListInv /\ SwingInv /\ [Next]_vars => SwingInv'
<1> SUFFICES ASSUME TypeOK /\ LabelInv /\ WireInv /\ FrameInv /\ ListInv /\ SwingInv, [Next]_vars
             PROVE  SwingInv'
  OBVIOUS
<1> USE Names DEF lockVars, netVars, guiVars, pipeVars, TypeOK, LabelInv, FrameInv, ListInv,
   FrameFits, ListFits, MustBeListed, SwingInv, Dead
<1>1. ASSUME NEW t \in Chats \cup {Swing}, EnterFind(t) PROVE SwingInv'
  BY <1>1 DEF EnterFind
<1>2. ASSUME NEW t \in Chats \cup {Swing}, EnterList(t) PROVE SwingInv'
  BY <1>2 DEF EnterList
<1>3. ASSUME OpenContacts PROVE SwingInv'
  BY <1>3 DEF OpenContacts
<1>4. ASSUME NEW c \in Outgoing, StartCall(c) PROVE SwingInv'
  BY <1>4 DEF StartCall, Goto
<1>5. ASSUME Connect PROVE SwingInv'
  BY <1>5 DEF Connect, Finds, Goto
<1>6. ASSUME ConnectRefused PROVE SwingInv'
  BY <1>6 DEF ConnectRefused, Finds, Goto
<1>7. ASSUME AddCalled PROVE SwingInv'
  BY <1>7 DEF AddCalled
<1>8. ASSUME NEW t \in Chats \cup {Swing}, StartUpdates(t) PROVE SwingInv'
  BY <1>8 DEF StartUpdates, Finds, Goto, Subject
<1>9. ASSUME SendToken PROVE SwingInv'
  BY <1>9 DEF SendToken, Finds, Goto, WriteTaken, WriteFails
<1>10. ASSUME NEW c \in Incoming, Accept(c) PROVE SwingInv'
  BY <1>10 DEF Accept, Goto
<1>11. ASSUME NEW c \in Incoming, AddAccepted(c) PROVE SwingInv'
  BY <1>11 DEF AddAccepted
<1>12. ASSUME NEW c \in Chats, ReadToken(c) PROVE SwingInv'
  <2>1. WireFits(c) /\ TypeOK BY DEF WireInv
  <2>2. Reads(c, "token") BY <1>12 DEF ReadToken
  <2>3. wire[c] # <<>> /\ Len(wire[c]) \in Nat /\ Len(wire[c]) >= 1 /\ wire[c][1] = "token"
    BY <2>1, <2>2, ReadType, LenProperties
  <2>4. c \in Incoming => frame[c] = "none"
    BY <2>1, <2>3 DEF WireFits, NoToken
  <2>5. ~ (pc[Swing] \in {"start", "token"} /\ target = c) BY <2>3 DEF WireInv, WireFits
  <2>6. /\ pc[c] = "read"
        /\ \/ pc' = pc /\ frame' = frame
           \/ /\ c \in Incoming /\ frame' = [frame EXCEPT ![c] = "built"]
              /\ pc' = [pc EXCEPT ![c] = "answer"]
    BY <1>12 DEF ReadToken, Reads, Goto
  <2>7. UNCHANGED <<chats, target, socket, conn, spoken>> BY <1>12 DEF ReadToken, Reads
  <2> QED BY <2>4, <2>5, <2>6, <2>7
<1>13. ASSUME NEW c \in Chats, Answer(c) PROVE SwingInv'
  BY <1>13 DEF Answer, Finds, Goto, WriteTaken, WriteFails
<1>14. ASSUME NEW c \in Chats, ReadText(c) PROVE SwingInv'
  <2>1. pc[c] = "read" /\ wire[c] # <<>> BY <1>14 DEF ReadText, Reads
  <2>2. ~ (pc[Swing] \in {"start", "token"} /\ target = c) BY <2>1 DEF WireInv, WireFits
  <2>3. PICK l \in ChatLabels : l # "none" /\ l # "ended" /\ pc' = [pc EXCEPT ![c] = l]
    BY <1>14 DEF ReadText, Goto, ChatLabels
  <2>4. UNCHANGED <<chats, target, socket, conn, spoken, frame>> BY <1>14 DEF ReadText, Reads
  <2> QED BY <2>1, <2>2, <2>3, <2>4
<1>15. ASSUME NEW c \in Chats, Suppress(c) PROVE SwingInv'
  BY <1>15 DEF Suppress, Goto
<1>16. ASSUME NEW c \in Chats, WriteText(c) PROVE SwingInv'
  BY <1>16 DEF WriteText, Goto
<1>17. ASSUME NEW c \in Chats, WriteTextFails(c) PROVE SwingInv'
  BY <1>17 DEF WriteTextFails, Goto
<1>18. ASSUME NEW c \in Chats, Release(c) PROVE SwingInv'
  BY <1>18 DEF Release, Goto
<1>19. ASSUME NEW c \in Chats, ReadEnd(c) PROVE SwingInv'
  <2>1. pc[c] = "read" /\ wire[c] # <<>> BY <1>19 DEF ReadEnd, Reads
  <2>2. ~ (pc[Swing] \in {"start", "token"} /\ target = c) BY <2>1 DEF WireInv, WireFits
  <2>3. PICK l \in ChatLabels : l # "none" /\ l # "ended" /\ pc' = [pc EXCEPT ![c] = l]
    BY <1>19 DEF ReadEnd, Goto, ChatLabels
  <2>4. UNCHANGED <<chats, target, socket, conn, spoken, frame>> BY <1>19 DEF ReadEnd, Reads
  <2> QED BY <2>1, <2>2, <2>3, <2>4
<1>20. ASSUME NEW c \in Chats, ReadFails(c) PROVE SwingInv'
  BY <1>20 DEF ReadFails, Goto
<1>21. ASSUME NEW c \in Chats, Interrupted(c) PROVE SwingInv'
  BY <1>21 DEF Interrupted
<1>22. ASSUME NEW c \in Chats, Acquire(c) PROVE SwingInv'
  BY <1>22 DEF Acquire
<1>23. ASSUME NEW c \in Chats, TakeText(c) PROVE SwingInv'
  BY <1>23 DEF TakeText
<1>24. ASSUME NEW c \in Chats, TakeTextFails(c) PROVE SwingInv'
  BY <1>24 DEF TakeTextFails
<1>25. ASSUME NEW c \in Chats, PressSend(c) PROVE SwingInv'
  BY <1>25 DEF PressSend, Goto
<1>26. ASSUME SendFind PROVE SwingInv'
  BY <1>26 DEF SendFind, Finds, Goto
<1>27. ASSUME SendWrite PROVE SwingInv'
  BY <1>27 DEF SendWrite, WriteTaken, Goto
<1>28. ASSUME SendFails PROVE SwingInv'
  BY <1>28 DEF SendFails, WriteFails, Goto
<1>29. ASSUME NEW c \in Chats, PressClose(c) PROVE SwingInv'
  BY <1>29 DEF PressClose, Goto
<1>30. ASSUME DismissFailed PROVE SwingInv'
  BY <1>30 DEF DismissFailed, Goto
<1>31. ASSUME NEW t \in Chats \cup {Swing}, DismissInterrupted(t) PROVE SwingInv'
  <2>1. CASE t = Swing BY <1>31, <2>1 DEF DismissInterrupted, Goto, Subject, Dispatching
  <2>2. CASE t \in Chats BY <1>31, <2>2 DEF DismissInterrupted, Goto, Subject, Dispatching
  <2> QED BY <2>1, <2>2
<1>32. ASSUME NEW t \in Chats \cup {Swing}, CloseUnfound(t) PROVE SwingInv'
  <2>1. pc[t] \in {"close", "giveUp"} /\ LeaveClose(t) BY <1>32 DEF CloseUnfound
  <2>2. CASE t = Swing /\ pc[t] = "giveUp" /\ pc' = [pc EXCEPT ![Swing] = "idle"]
             /\ frame' = [frame EXCEPT ![target] = "disposed"]
    BY <1>32, <2>2 DEF CloseUnfound, FindsInside, Subject
  <2>3. CASE pc[t] = "close" /\ pc' = [pc EXCEPT ![t] = "stop"] /\ frame' = frame
    <3>1. CASE t = Swing BY <1>32, <2>3, <3>1 DEF CloseUnfound, FindsInside, Subject
    <3>2. CASE t \in Chats BY <1>32, <2>3, <3>2 DEF CloseUnfound, FindsInside, Subject
    <3> QED BY <3>1, <3>2
  <2> QED BY <2>1, <2>2, <2>3, Leaving
<1>33. ASSUME NEW t \in Chats \cup {Swing}, CloseFails(t) PROVE SwingInv'
  BY <1>33 DEF CloseFails, FindsInside, WriteFails, LeaveClose, Goto
<1>34. ASSUME NEW t \in Chats \cup {Swing}, CloseHidden(t) PROVE SwingInv'
  <2>1. pc[t] \in {"close", "giveUp"} /\ LeaveClose(t) BY <1>34 DEF CloseHidden, ClosesAll
  <2>2. CASE t = Swing /\ pc[t] = "giveUp" /\ pc' = [pc EXCEPT ![Swing] = "idle"]
             /\ frame' = [frame EXCEPT ![target] = "disposed"]
    BY <1>34, <2>2 DEF CloseHidden, FindsInside, Subject, ClosesAll
  <2>3. CASE pc[t] = "close" /\ pc' = [pc EXCEPT ![t] = "stop"] /\ frame' = frame
    <3>1. CASE t = Swing BY <1>34, <2>3, <3>1 DEF CloseHidden, FindsInside, Subject, ClosesAll
    <3>2. CASE t \in Chats BY <1>34, <2>3, <3>2 DEF CloseHidden, FindsInside, Subject, ClosesAll
    <3> QED BY <3>1, <3>2
  <2> QED BY <2>1, <2>2, <2>3, Leaving
<1>35. ASSUME NEW t \in Chats \cup {Swing}, CloseShown(t) PROVE SwingInv'
  BY <1>35 DEF CloseShown, ClosesAll, FindsInside, Subject, Goto
<1>36. ASSUME NEW t \in Chats \cup {Swing}, ShowDialog(t) PROVE SwingInv'
  BY <1>36 DEF ShowDialog, Goto
<1>37. ASSUME NEW t \in Chats \cup {Swing}, StopUpdates(t) PROVE SwingInv'
  BY <1>37 DEF StopUpdates, Finds, Subject, Goto, Done
<1>38. ASSUME NEW t \in Chats \cup {Swing}, Remove(t) PROVE SwingInv'
  BY <1>38 DEF Remove, FindsInside, Subject, Goto, Done
<1>39. ASSUME NEW c \in Chats, PeerToken(c) PROVE SwingInv'
  BY <1>39 DEF PeerToken, PeerWrites
<1>40. ASSUME NEW c \in Chats, PeerText(c) PROVE SwingInv'
  BY <1>40 DEF PeerText, PeerWrites
<1>41. ASSUME NEW c \in Chats, PeerEnd(c) PROVE SwingInv'
  BY <1>41 DEF PeerEnd, PeerWrites
<1>42. ASSUME NEW c \in Chats, LinkLost(c) PROVE SwingInv'
  BY <1>42 DEF LinkLost
<1>43. CASE UNCHANGED vars
  BY <1>43 DEF vars
<1> QED
  BY <1>1, <1>2, <1>3, <1>4, <1>5, <1>6, <1>7, <1>8, <1>9, <1>10, <1>11, <1>12, <1>13, <1>14,
     <1>15, <1>16, <1>17, <1>18, <1>19, <1>20, <1>21, <1>22, <1>23, <1>24, <1>25, <1>26,
     <1>27, <1>28, <1>29, <1>30, <1>31, <1>32, <1>33, <1>34, <1>35, <1>36, <1>37, <1>38,
     <1>39, <1>40, <1>41, <1>42,
     <1>43 DEF Next, User, Dismiss, SwingStep, ListenerStep, UpdaterStep, Peer, Closing

\* The token stays the first message of a connection.
LEMMA WireNext ==
    TypeOK /\ LabelInv /\ WireInv /\ FrameInv /\ ListInv /\ SwingInv /\ [Next]_vars => WireInv'
<1> SUFFICES ASSUME TypeOK /\ LabelInv /\ WireInv /\ FrameInv /\ ListInv /\ SwingInv,
                    [Next]_vars, NEW d \in Chats
             PROVE  WireFits(d)'
  BY DEF WireInv
<1> USE Names DEF lockVars, netVars, guiVars, pipeVars, LabelInv
<1>1. ASSUME NEW t \in Chats \cup {Swing}, EnterFind(t) PROVE WireFits(d)'
  <2>1. wire' = wire /\ said' = said BY <1>1 DEF EnterFind
  <2>2. spoken' = spoken BY <1>1 DEF EnterFind
  <2>4. frame'[d] # "none" => frame[d] # "none" \/ d \in Outgoing
    BY <1>1 DEF EnterFind, TypeOK, SwingInv, FrameInv, ListInv, FrameFits, ListFits
  <2> QED BY <2>1, <2>2, <2>4, WireKept DEF WireInv
<1>2. ASSUME NEW t \in Chats \cup {Swing}, EnterList(t) PROVE WireFits(d)'
  <2>1. wire' = wire /\ said' = said BY <1>2 DEF EnterList
  <2>2. spoken' = spoken BY <1>2 DEF EnterList
  <2>4. frame'[d] # "none" => frame[d] # "none" \/ d \in Outgoing
    BY <1>2 DEF EnterList, TypeOK, SwingInv, FrameInv, ListInv, FrameFits, ListFits
  <2> QED BY <2>1, <2>2, <2>4, WireKept DEF WireInv
<1>3. ASSUME OpenContacts PROVE WireFits(d)'
  <2>1. wire' = wire /\ said' = said BY <1>3 DEF OpenContacts
  <2>2. spoken' = spoken BY <1>3 DEF OpenContacts
  <2>4. frame'[d] # "none" => frame[d] # "none" \/ d \in Outgoing
    BY <1>3 DEF OpenContacts, TypeOK, SwingInv, FrameInv, ListInv, FrameFits, ListFits
  <2> QED BY <2>1, <2>2, <2>4, WireKept DEF WireInv
<1>4. ASSUME NEW c \in Outgoing, StartCall(c) PROVE WireFits(d)'
  <2>1. wire' = wire /\ said' = said BY <1>4 DEF StartCall
  <2>2. spoken' = spoken BY <1>4 DEF StartCall
  <2>4. frame'[d] # "none" => frame[d] # "none" \/ d \in Outgoing
    BY <1>4 DEF StartCall, TypeOK, SwingInv, FrameInv, ListInv, FrameFits, ListFits
  <2> QED BY <2>1, <2>2, <2>4, WireKept DEF WireInv
<1>5. ASSUME Connect PROVE WireFits(d)'
  <2>1. wire' = wire /\ said' = said BY <1>5 DEF Connect, Finds
  <2>2. spoken' = spoken BY <1>5 DEF Connect, Finds
  <2>4. frame'[d] # "none" => frame[d] # "none" \/ d \in Outgoing
    BY <1>5 DEF Connect, Finds, TypeOK, SwingInv, FrameInv, ListInv, FrameFits, ListFits
  <2> QED BY <2>1, <2>2, <2>4, WireKept DEF WireInv
<1>6. ASSUME ConnectRefused PROVE WireFits(d)'
  <2>1. wire' = wire /\ said' = said BY <1>6 DEF ConnectRefused, Finds
  <2>2. spoken' = spoken BY <1>6 DEF ConnectRefused, Finds
  <2>4. frame'[d] # "none" => frame[d] # "none" \/ d \in Outgoing
    BY <1>6 DEF ConnectRefused, Finds, TypeOK, SwingInv, FrameInv, ListInv, FrameFits, ListFits
  <2> QED BY <2>1, <2>2, <2>4, WireKept DEF WireInv
<1>7. ASSUME AddCalled PROVE WireFits(d)'
  <2>1. wire' = wire /\ said' = said BY <1>7 DEF AddCalled
  <2>2. spoken' = spoken BY <1>7 DEF AddCalled
  <2>4. frame'[d] # "none" => frame[d] # "none" \/ d \in Outgoing
    BY <1>7 DEF AddCalled, TypeOK, SwingInv, FrameInv, ListInv, FrameFits, ListFits
  <2> QED BY <2>1, <2>2, <2>4, WireKept DEF WireInv
<1>8. ASSUME NEW t \in Chats \cup {Swing}, StartUpdates(t) PROVE WireFits(d)'
  <2>1. wire' = wire /\ said' = said BY <1>8 DEF StartUpdates, Finds, Subject
  <2>2. spoken' = spoken BY <1>8 DEF StartUpdates, Finds, Subject
  <2>4. frame'[d] # "none" => frame[d] # "none" \/ d \in Outgoing
    BY <1>8 DEF StartUpdates, Finds, Subject, TypeOK, SwingInv, FrameInv, ListInv, FrameFits,
       ListFits
  <2> QED BY <2>1, <2>2, <2>4, WireKept DEF WireInv
<1>9. ASSUME SendToken PROVE WireFits(d)'
  <2>1. wire' = wire /\ said' = said BY <1>9 DEF SendToken, Finds
  <2>2. target \in Chats BY <1>9 DEF SendToken, Finds
  <2>3. spoken'[d] = spoken[d] \/ spoken'[d] = spoken[d] + 1
    BY <1>9, <2>2, WriteCounts DEF SendToken
  <2>4. frame'[d] # "none" => frame[d] # "none" \/ d \in Outgoing
    BY <1>9, <2>2 DEF SendToken, Finds, TypeOK, SwingInv, FrameInv, ListInv, FrameFits, ListFits
  <2> QED BY <2>1, <2>2, <2>3, <2>4, WireKept DEF WireInv
<1>10. ASSUME NEW c \in Incoming, Accept(c) PROVE WireFits(d)'
  <2>1. wire' = wire /\ said' = said BY <1>10 DEF Accept
  <2>2. spoken' = spoken BY <1>10 DEF Accept
  <2>4. frame'[d] # "none" => frame[d] # "none" \/ d \in Outgoing
    BY <1>10 DEF Accept, TypeOK, SwingInv, FrameInv, ListInv, FrameFits, ListFits
  <2> QED BY <2>1, <2>2, <2>4, WireKept DEF WireInv
<1>11. ASSUME NEW c \in Incoming, AddAccepted(c) PROVE WireFits(d)'
  <2>1. wire' = wire /\ said' = said BY <1>11 DEF AddAccepted
  <2>2. spoken' = spoken BY <1>11 DEF AddAccepted
  <2>4. frame'[d] # "none" => frame[d] # "none" \/ d \in Outgoing
    BY <1>11 DEF AddAccepted, TypeOK, SwingInv, FrameInv, ListInv, FrameFits, ListFits
  <2> QED BY <2>1, <2>2, <2>4, WireKept DEF WireInv
<1>12. ASSUME NEW c \in Chats, ReadToken(c) PROVE WireFits(d)'
  <2>0. WireFits(c) /\ WireFits(d) /\ TypeOK BY DEF WireInv
  <2>1. PICK m \in Messages : Reads(c, m)
    BY <1>12 DEF ReadToken, Messages
  <2>2. /\ wire' = [wire EXCEPT ![c] = Tail(wire[c])]
        /\ wire[c] # <<>> /\ Len(wire[c]) \in Nat /\ Len(wire[c]) >= 1
        /\ Len(Tail(wire[c])) = Len(wire[c]) - 1
        /\ \A i \in 1 .. Len(Tail(wire[c])) : Tail(wire[c])[i] = wire[c][i + 1]
    BY <2>0, <2>1, ReadType, LenProperties DEF TypeOK
  <2>3. /\ said' = said /\ spoken' = spoken /\ wire \in [Chats -> Seq(Messages)]
        /\ frame \in [Chats -> {"none", "built", "shown", "disposed"}]
    BY <2>0, <2>1 DEF Reads, TypeOK
  <2>4. frame' = frame \/ frame' = [frame EXCEPT ![c] = "built"]
    BY <1>12 DEF ReadToken
  <2>5. CASE d # c
    <3>1. wire'[d] = wire[d] /\ frame'[d] = frame[d] BY <2>2, <2>3, <2>4, <2>5
    <3> QED BY <2>0, <2>3, <3>1 DEF WireFits, NoToken
  <2>6. CASE d = c
    <3>1. wire'[c] = Tail(wire[c]) BY <2>2, <2>3
    <3>2. \A i \in 1 .. Len(Tail(wire[c])) : i + 1 \in 2 .. Len(wire[c]) BY <2>2
    <3>3. NoToken(c, 1)' BY <2>0, <2>2, <3>1, <3>2 DEF WireFits, NoToken
    <3>4. NoToken(c, 2)' BY <3>3 DEF NoToken
    <3>5. said[c] # 0 /\ (c \in Outgoing => spoken[c] # 0) BY <2>0, <2>2 DEF WireFits
    <3> QED BY <2>3, <2>6, <3>3, <3>4, <3>5 DEF WireFits
  <2> QED BY <2>5, <2>6
<1>13. ASSUME NEW c \in Chats, Answer(c) PROVE WireFits(d)'
  <2>1. wire' = wire /\ said' = said BY <1>13 DEF Answer, Finds
  <2>2. spoken'[d] = spoken[d] \/ spoken'[d] = spoken[d] + 1
    BY <1>13, WriteCounts DEF Answer
  <2>4. frame'[d] # "none" => frame[d] # "none" \/ d \in Outgoing
    BY <1>13 DEF Answer, Finds, TypeOK, SwingInv, FrameInv, ListInv, FrameFits, ListFits
  <2> QED BY <2>1, <2>2, <2>4, WireKept DEF WireInv
<1>14. ASSUME NEW c \in Chats, ReadText(c) PROVE WireFits(d)'
  <2>0. WireFits(c) /\ WireFits(d) /\ TypeOK BY DEF WireInv
  <2>1. PICK m \in Messages : Reads(c, m)
    BY <1>14 DEF ReadText, Messages
  <2>2. /\ wire' = [wire EXCEPT ![c] = Tail(wire[c])]
        /\ wire[c] # <<>> /\ Len(wire[c]) \in Nat /\ Len(wire[c]) >= 1
        /\ Len(Tail(wire[c])) = Len(wire[c]) - 1
        /\ \A i \in 1 .. Len(Tail(wire[c])) : Tail(wire[c])[i] = wire[c][i + 1]
    BY <2>0, <2>1, ReadType, LenProperties DEF TypeOK
  <2>3. /\ said' = said /\ spoken' = spoken /\ wire \in [Chats -> Seq(Messages)]
        /\ frame \in [Chats -> {"none", "built", "shown", "disposed"}]
    BY <2>0, <2>1 DEF Reads, TypeOK
  <2>4. frame' = frame \/ frame' = [frame EXCEPT ![c] = "built"]
    BY <1>14 DEF ReadText
  <2>5. CASE d # c
    <3>1. wire'[d] = wire[d] /\ frame'[d] = frame[d] BY <2>2, <2>3, <2>4, <2>5
    <3> QED BY <2>0, <2>3, <3>1 DEF WireFits, NoToken
  <2>6. CASE d = c
    <3>1. wire'[c] = Tail(wire[c]) BY <2>2, <2>3
    <3>2. \A i \in 1 .. Len(Tail(wire[c])) : i + 1 \in 2 .. Len(wire[c]) BY <2>2
    <3>3. NoToken(c, 1)' BY <2>0, <2>2, <3>1, <3>2 DEF WireFits, NoToken
    <3>4. NoToken(c, 2)' BY <3>3 DEF NoToken
    <3>5. said[c] # 0 /\ (c \in Outgoing => spoken[c] # 0) BY <2>0, <2>2 DEF WireFits
    <3> QED BY <2>3, <2>6, <3>3, <3>4, <3>5 DEF WireFits
  <2> QED BY <2>5, <2>6
<1>15. ASSUME NEW c \in Chats, Suppress(c) PROVE WireFits(d)'
  <2>1. wire' = wire /\ said' = said BY <1>15 DEF Suppress
  <2>2. spoken' = spoken BY <1>15 DEF Suppress
  <2>4. frame'[d] # "none" => frame[d] # "none" \/ d \in Outgoing
    BY <1>15 DEF Suppress, TypeOK, SwingInv, FrameInv, ListInv, FrameFits, ListFits
  <2> QED BY <2>1, <2>2, <2>4, WireKept DEF WireInv
<1>16. ASSUME NEW c \in Chats, WriteText(c) PROVE WireFits(d)'
  <2>1. wire' = wire /\ said' = said BY <1>16 DEF WriteText
  <2>2. spoken' = spoken BY <1>16 DEF WriteText
  <2>4. frame'[d] # "none" => frame[d] # "none" \/ d \in Outgoing
    BY <1>16 DEF WriteText, TypeOK, SwingInv, FrameInv, ListInv, FrameFits, ListFits
  <2> QED BY <2>1, <2>2, <2>4, WireKept DEF WireInv
<1>17. ASSUME NEW c \in Chats, WriteTextFails(c) PROVE WireFits(d)'
  <2>1. wire' = wire /\ said' = said BY <1>17 DEF WriteTextFails
  <2>2. spoken' = spoken BY <1>17 DEF WriteTextFails
  <2>4. frame'[d] # "none" => frame[d] # "none" \/ d \in Outgoing
    BY <1>17 DEF WriteTextFails, TypeOK, SwingInv, FrameInv, ListInv, FrameFits, ListFits
  <2> QED BY <2>1, <2>2, <2>4, WireKept DEF WireInv
<1>18. ASSUME NEW c \in Chats, Release(c) PROVE WireFits(d)'
  <2>1. wire' = wire /\ said' = said BY <1>18 DEF Release
  <2>2. spoken' = spoken BY <1>18 DEF Release
  <2>4. frame'[d] # "none" => frame[d] # "none" \/ d \in Outgoing
    BY <1>18 DEF Release, TypeOK, SwingInv, FrameInv, ListInv, FrameFits, ListFits
  <2> QED BY <2>1, <2>2, <2>4, WireKept DEF WireInv
<1>19. ASSUME NEW c \in Chats, ReadEnd(c) PROVE WireFits(d)'
  <2>0. WireFits(c) /\ WireFits(d) /\ TypeOK BY DEF WireInv
  <2>1. PICK m \in Messages : Reads(c, m)
    BY <1>19 DEF ReadEnd, Messages
  <2>2. /\ wire' = [wire EXCEPT ![c] = Tail(wire[c])]
        /\ wire[c] # <<>> /\ Len(wire[c]) \in Nat /\ Len(wire[c]) >= 1
        /\ Len(Tail(wire[c])) = Len(wire[c]) - 1
        /\ \A i \in 1 .. Len(Tail(wire[c])) : Tail(wire[c])[i] = wire[c][i + 1]
    BY <2>0, <2>1, ReadType, LenProperties DEF TypeOK
  <2>3. /\ said' = said /\ spoken' = spoken /\ wire \in [Chats -> Seq(Messages)]
        /\ frame \in [Chats -> {"none", "built", "shown", "disposed"}]
    BY <2>0, <2>1 DEF Reads, TypeOK
  <2>4. frame' = frame \/ frame' = [frame EXCEPT ![c] = "built"]
    BY <1>19 DEF ReadEnd
  <2>5. CASE d # c
    <3>1. wire'[d] = wire[d] /\ frame'[d] = frame[d] BY <2>2, <2>3, <2>4, <2>5
    <3> QED BY <2>0, <2>3, <3>1 DEF WireFits, NoToken
  <2>6. CASE d = c
    <3>1. wire'[c] = Tail(wire[c]) BY <2>2, <2>3
    <3>2. \A i \in 1 .. Len(Tail(wire[c])) : i + 1 \in 2 .. Len(wire[c]) BY <2>2
    <3>3. NoToken(c, 1)' BY <2>0, <2>2, <3>1, <3>2 DEF WireFits, NoToken
    <3>4. NoToken(c, 2)' BY <3>3 DEF NoToken
    <3>5. said[c] # 0 /\ (c \in Outgoing => spoken[c] # 0) BY <2>0, <2>2 DEF WireFits
    <3> QED BY <2>3, <2>6, <3>3, <3>4, <3>5 DEF WireFits
  <2> QED BY <2>5, <2>6
<1>20. ASSUME NEW c \in Chats, ReadFails(c) PROVE WireFits(d)'
  <2>1. wire' = wire /\ said' = said BY <1>20 DEF ReadFails
  <2>2. spoken' = spoken BY <1>20 DEF ReadFails
  <2>4. frame'[d] # "none" => frame[d] # "none" \/ d \in Outgoing
    BY <1>20 DEF ReadFails, TypeOK, SwingInv, FrameInv, ListInv, FrameFits, ListFits
  <2> QED BY <2>1, <2>2, <2>4, WireKept DEF WireInv
<1>21. ASSUME NEW c \in Chats, Interrupted(c) PROVE WireFits(d)'
  <2>1. wire' = wire /\ said' = said BY <1>21 DEF Interrupted
  <2>2. spoken' = spoken BY <1>21 DEF Interrupted
  <2>4. frame'[d] # "none" => frame[d] # "none" \/ d \in Outgoing
    BY <1>21 DEF Interrupted, TypeOK, SwingInv, FrameInv, ListInv, FrameFits, ListFits
  <2> QED BY <2>1, <2>2, <2>4, WireKept DEF WireInv
<1>22. ASSUME NEW c \in Chats, Acquire(c) PROVE WireFits(d)'
  <2>1. wire' = wire /\ said' = said BY <1>22 DEF Acquire
  <2>2. spoken' = spoken BY <1>22 DEF Acquire
  <2>4. frame'[d] # "none" => frame[d] # "none" \/ d \in Outgoing
    BY <1>22 DEF Acquire, TypeOK, SwingInv, FrameInv, ListInv, FrameFits, ListFits
  <2> QED BY <2>1, <2>2, <2>4, WireKept DEF WireInv
<1>23. ASSUME NEW c \in Chats, TakeText(c) PROVE WireFits(d)'
  <2>1. wire' = wire /\ said' = said BY <1>23 DEF TakeText
  <2>2. spoken' = spoken BY <1>23 DEF TakeText
  <2>4. frame'[d] # "none" => frame[d] # "none" \/ d \in Outgoing
    BY <1>23 DEF TakeText, TypeOK, SwingInv, FrameInv, ListInv, FrameFits, ListFits
  <2> QED BY <2>1, <2>2, <2>4, WireKept DEF WireInv
<1>24. ASSUME NEW c \in Chats, TakeTextFails(c) PROVE WireFits(d)'
  <2>1. wire' = wire /\ said' = said BY <1>24 DEF TakeTextFails
  <2>2. spoken' = spoken BY <1>24 DEF TakeTextFails
  <2>4. frame'[d] # "none" => frame[d] # "none" \/ d \in Outgoing
    BY <1>24 DEF TakeTextFails, TypeOK, SwingInv, FrameInv, ListInv, FrameFits, ListFits
  <2> QED BY <2>1, <2>2, <2>4, WireKept DEF WireInv
<1>25. ASSUME NEW c \in Chats, PressSend(c) PROVE WireFits(d)'
  <2>1. wire' = wire /\ said' = said BY <1>25 DEF PressSend
  <2>2. spoken' = spoken BY <1>25 DEF PressSend
  <2>4. frame'[d] # "none" => frame[d] # "none" \/ d \in Outgoing
    BY <1>25 DEF PressSend, TypeOK, SwingInv, FrameInv, ListInv, FrameFits, ListFits
  <2> QED BY <2>1, <2>2, <2>4, WireKept DEF WireInv
<1>26. ASSUME SendFind PROVE WireFits(d)'
  <2>1. wire' = wire /\ said' = said BY <1>26 DEF SendFind, Finds
  <2>2. spoken' = spoken BY <1>26 DEF SendFind, Finds
  <2>4. frame'[d] # "none" => frame[d] # "none" \/ d \in Outgoing
    BY <1>26 DEF SendFind, Finds, TypeOK, SwingInv, FrameInv, ListInv, FrameFits, ListFits
  <2> QED BY <2>1, <2>2, <2>4, WireKept DEF WireInv
<1>27. ASSUME SendWrite PROVE WireFits(d)'
  <2>1. wire' = wire /\ said' = said BY <1>27 DEF SendWrite
  <2>2. target \in Chats BY <1>27 DEF SendWrite, Finds
  <2>3. spoken'[d] = spoken[d] \/ spoken'[d] = spoken[d] + 1
    BY <1>27, <2>2, WriteCounts DEF SendWrite
  <2>4. frame'[d] # "none" => frame[d] # "none" \/ d \in Outgoing
    BY <1>27, <2>2 DEF SendWrite, TypeOK, SwingInv, FrameInv, ListInv, FrameFits, ListFits
  <2> QED BY <2>1, <2>2, <2>3, <2>4, WireKept DEF WireInv
<1>28. ASSUME SendFails PROVE WireFits(d)'
  <2>1. wire' = wire /\ said' = said BY <1>28 DEF SendFails
  <2>2. target \in Chats BY <1>28 DEF SendFails, Finds
  <2>3. spoken'[d] = spoken[d] \/ spoken'[d] = spoken[d] + 1
    BY <1>28, <2>2, WriteCounts DEF SendFails
  <2>4. frame'[d] # "none" => frame[d] # "none" \/ d \in Outgoing
    BY <1>28, <2>2 DEF SendFails, TypeOK, SwingInv, FrameInv, ListInv, FrameFits, ListFits
  <2> QED BY <2>1, <2>2, <2>3, <2>4, WireKept DEF WireInv
<1>29. ASSUME NEW c \in Chats, PressClose(c) PROVE WireFits(d)'
  <2>1. wire' = wire /\ said' = said BY <1>29 DEF PressClose
  <2>2. spoken' = spoken BY <1>29 DEF PressClose
  <2>4. frame'[d] # "none" => frame[d] # "none" \/ d \in Outgoing
    BY <1>29 DEF PressClose, TypeOK, SwingInv, FrameInv, ListInv, FrameFits, ListFits
  <2> QED BY <2>1, <2>2, <2>4, WireKept DEF WireInv
<1>30. ASSUME DismissFailed PROVE WireFits(d)'
  <2>1. wire' = wire /\ said' = said BY <1>30 DEF DismissFailed
  <2>2. spoken' = spoken BY <1>30 DEF DismissFailed
  <2>4. frame'[d] # "none" => frame[d] # "none" \/ d \in Outgoing
    BY <1>30 DEF DismissFailed, TypeOK, SwingInv, FrameInv, ListInv, FrameFits, ListFits
  <2> QED BY <2>1, <2>2, <2>4, WireKept DEF WireInv
<1>31. ASSUME NEW t \in Chats \cup {Swing}, DismissInterrupted(t) PROVE WireFits(d)'
  <2>1. wire' = wire /\ said' = said BY <1>31 DEF DismissInterrupted, Subject
  <2>2. spoken' = spoken BY <1>31 DEF DismissInterrupted, Subject
  <2>4. frame'[d] # "none" => frame[d] # "none" \/ d \in Outgoing
    BY <1>31 DEF DismissInterrupted, Subject, TypeOK, SwingInv, FrameInv, ListInv, FrameFits,
       ListFits
  <2> QED BY <2>1, <2>2, <2>4, WireKept DEF WireInv
<1>32. ASSUME NEW t \in Chats \cup {Swing}, CloseUnfound(t) PROVE WireFits(d)'
  <2>1. wire' = wire /\ said' = said BY <1>32 DEF CloseUnfound, FindsInside, Subject, LeaveClose
  <2>2. spoken' = spoken BY <1>32 DEF CloseUnfound, FindsInside, Subject, LeaveClose
  <2>4. frame'[d] # "none" => frame[d] # "none" \/ d \in Outgoing
    <3>1. pc[t] \in {"close", "giveUp"} /\ LeaveClose(t) BY <1>32 DEF CloseUnfound, FindsInside,
       Subject
    <3>2. \/ frame' = frame \/ (pc[Swing] = "giveUp" /\ frame' = [frame EXCEPT ![target] = "disposed"])
      BY <3>1, Leaving
    <3> QED BY <3>2 DEF SwingInv, TypeOK
  <2> QED BY <2>1, <2>2, <2>4, WireKept DEF WireInv
<1>33. ASSUME NEW t \in Chats \cup {Swing}, CloseFails(t) PROVE WireFits(d)'
  <2>1. wire' = wire /\ said' = said BY <1>33 DEF CloseFails, FindsInside, LeaveClose
  <2>2. target \in Chats BY <1>33 DEF CloseFails, Finds
  <2>3. spoken'[d] = spoken[d] \/ spoken'[d] = spoken[d] + 1
    BY <1>33, <2>2, WriteCounts DEF CloseFails
  <2>4. frame'[d] # "none" => frame[d] # "none" \/ d \in Outgoing
    <3>1. pc[t] \in {"close", "giveUp"} /\ LeaveClose(t) BY <1>33 DEF CloseFails, FindsInside
    <3>2. \/ frame' = frame \/ (pc[Swing] = "giveUp" /\ frame' = [frame EXCEPT ![target] = "disposed"])
      BY <3>1, Leaving
    <3> QED BY <3>2 DEF SwingInv, TypeOK
  <2> QED BY <2>1, <2>2, <2>3, <2>4, WireKept DEF WireInv
<1>34. ASSUME NEW t \in Chats \cup {Swing}, CloseHidden(t) PROVE WireFits(d)'
  <2>1. wire' = wire /\ said' = said BY <1>34 DEF CloseHidden, ClosesAll, FindsInside, Subject,
     LeaveClose
  <2>2. spoken' = spoken BY <1>34 DEF CloseHidden, ClosesAll, FindsInside, Subject, LeaveClose
  <2>4. frame'[d] # "none" => frame[d] # "none" \/ d \in Outgoing
    <3>1. pc[t] \in {"close", "giveUp"} /\ LeaveClose(t) BY <1>34 DEF CloseHidden, ClosesAll,
       FindsInside, Subject
    <3>2. \/ frame' = frame \/ (pc[Swing] = "giveUp" /\ frame' = [frame EXCEPT ![target] = "disposed"])
      BY <3>1, Leaving
    <3> QED BY <3>2 DEF SwingInv, TypeOK
  <2> QED BY <2>1, <2>2, <2>4, WireKept DEF WireInv
<1>35. ASSUME NEW t \in Chats \cup {Swing}, CloseShown(t) PROVE WireFits(d)'
  <2>1. wire' = wire /\ said' = said BY <1>35 DEF CloseShown, ClosesAll, FindsInside, Subject
  <2>2. spoken' = spoken BY <1>35 DEF CloseShown, ClosesAll, FindsInside, Subject
  <2>4. frame'[d] # "none" => frame[d] # "none" \/ d \in Outgoing
    BY <1>35 DEF CloseShown, ClosesAll, FindsInside, Subject, TypeOK, SwingInv, FrameInv,
       ListInv, FrameFits, ListFits
  <2> QED BY <2>1, <2>2, <2>4, WireKept DEF WireInv
<1>36. ASSUME NEW t \in Chats \cup {Swing}, ShowDialog(t) PROVE WireFits(d)'
  <2>1. wire' = wire /\ said' = said BY <1>36 DEF ShowDialog
  <2>2. spoken' = spoken BY <1>36 DEF ShowDialog
  <2>4. frame'[d] # "none" => frame[d] # "none" \/ d \in Outgoing
    BY <1>36 DEF ShowDialog, TypeOK, SwingInv, FrameInv, ListInv, FrameFits, ListFits
  <2> QED BY <2>1, <2>2, <2>4, WireKept DEF WireInv
<1>37. ASSUME NEW t \in Chats \cup {Swing}, StopUpdates(t) PROVE WireFits(d)'
  <2>1. wire' = wire /\ said' = said BY <1>37 DEF StopUpdates, Finds, Subject
  <2>2. spoken' = spoken BY <1>37 DEF StopUpdates, Finds, Subject
  <2>4. frame'[d] # "none" => frame[d] # "none" \/ d \in Outgoing
    BY <1>37 DEF StopUpdates, Finds, Subject, TypeOK, SwingInv, FrameInv, ListInv, FrameFits,
       ListFits
  <2> QED BY <2>1, <2>2, <2>4, WireKept DEF WireInv
<1>38. ASSUME NEW t \in Chats \cup {Swing}, Remove(t) PROVE WireFits(d)'
  <2>1. wire' = wire /\ said' = said BY <1>38 DEF Remove, FindsInside, Subject
  <2>2. spoken' = spoken BY <1>38 DEF Remove, FindsInside, Subject
  <2>4. frame'[d] # "none" => frame[d] # "none" \/ d \in Outgoing
    BY <1>38 DEF Remove, FindsInside, Subject, TypeOK, SwingInv, FrameInv, ListInv, FrameFits,
       ListFits
  <2> QED BY <2>1, <2>2, <2>4, WireKept DEF WireInv
<1>39. ASSUME NEW c \in Chats, PeerToken(c) PROVE WireFits(d)'
  <2>0. WireFits(c) /\ WireFits(d) /\ TypeOK BY DEF WireInv
  <2>1. PICK m \in Messages : PeerWrites(c, m) /\ (m = "token" => said[c] = 0)
    BY <1>39, ClientAssumption DEF PeerToken, Messages, Texts, PeerHasWindow
  <2>2. /\ said' = [said EXCEPT ![c] = said[c] + 1] /\ said[c] \in Nat
        /\ wire[c] \in Seq(Messages) /\ wire' = [wire EXCEPT ![c] = Append(wire[c], m)]
        /\ said \in [Chats -> Nat] /\ wire \in [Chats -> Seq(Messages)]
    BY <2>0, <2>1, SaidType DEF TypeOK
  <2>3. frame' = frame /\ spoken' = spoken BY <2>1 DEF PeerWrites
  <2>4. CASE d # c
    <3>1. wire'[d] = wire[d] /\ said'[d] = said[d] BY <2>2, <2>4
    <3> QED BY <2>0, <2>3, <3>1 DEF WireFits, NoToken
  <2>5. CASE d = c
    <3>1. wire'[c] = Append(wire[c], m) /\ said'[c] # 0 BY <2>2
    <3>2. /\ Len(wire'[c]) = Len(wire[c]) + 1 /\ Len(wire[c]) \in Nat
          /\ \A i \in 1 .. Len(wire[c]) : wire'[c][i] = wire[c][i]
          /\ wire'[c][Len(wire[c]) + 1] = m
      BY <2>2, <3>1, AppendProperties, LenProperties
    <3>3. m = "token" => Len(wire[c]) = 0 BY <2>0, <2>1 DEF WireFits
    <3>4. NoToken(c, 2)' BY <2>0, <3>2, <3>3 DEF WireFits, NoToken
    <3>5. said[c] # 0 => m # "token" BY <2>1
    <3>6. c \in Incoming /\ frame[c] # "none" => NoToken(c, 1)'
      BY <2>0, <3>2, <3>5 DEF WireFits, NoToken
    <3>7. c \in Outgoing => spoken[c] # 0
      BY <1>39, <2>0 DEF PeerToken, PeerHasWindow, TypeOK
    <3> QED BY <2>3, <2>5, <3>1, <3>4, <3>6, <3>7 DEF WireFits
  <2> QED BY <2>4, <2>5
<1>40. ASSUME NEW c \in Chats, PeerText(c) PROVE WireFits(d)'
  <2>0. WireFits(c) /\ WireFits(d) /\ TypeOK BY DEF WireInv
  <2>1. PICK m \in Messages : PeerWrites(c, m) /\ (m = "token" => said[c] = 0)
    BY <1>40, ClientAssumption DEF PeerText, Messages, Texts, PeerHasWindow
  <2>2. /\ said' = [said EXCEPT ![c] = said[c] + 1] /\ said[c] \in Nat
        /\ wire[c] \in Seq(Messages) /\ wire' = [wire EXCEPT ![c] = Append(wire[c], m)]
        /\ said \in [Chats -> Nat] /\ wire \in [Chats -> Seq(Messages)]
    BY <2>0, <2>1, SaidType DEF TypeOK
  <2>3. frame' = frame /\ spoken' = spoken BY <2>1 DEF PeerWrites
  <2>4. CASE d # c
    <3>1. wire'[d] = wire[d] /\ said'[d] = said[d] BY <2>2, <2>4
    <3> QED BY <2>0, <2>3, <3>1 DEF WireFits, NoToken
  <2>5. CASE d = c
    <3>1. wire'[c] = Append(wire[c], m) /\ said'[c] # 0 BY <2>2
    <3>2. /\ Len(wire'[c]) = Len(wire[c]) + 1 /\ Len(wire[c]) \in Nat
          /\ \A i \in 1 .. Len(wire[c]) : wire'[c][i] = wire[c][i]
          /\ wire'[c][Len(wire[c]) + 1] = m
      BY <2>2, <3>1, AppendProperties, LenProperties
    <3>3. m = "token" => Len(wire[c]) = 0 BY <2>0, <2>1 DEF WireFits
    <3>4. NoToken(c, 2)' BY <2>0, <3>2, <3>3 DEF WireFits, NoToken
    <3>5. said[c] # 0 => m # "token" BY <2>1
    <3>6. c \in Incoming /\ frame[c] # "none" => NoToken(c, 1)'
      BY <2>0, <3>2, <3>5 DEF WireFits, NoToken
    <3>7. c \in Outgoing => spoken[c] # 0
      BY <1>40, <2>0 DEF PeerText, PeerHasWindow, TypeOK
    <3> QED BY <2>3, <2>5, <3>1, <3>4, <3>6, <3>7 DEF WireFits
  <2> QED BY <2>4, <2>5
<1>41. ASSUME NEW c \in Chats, PeerEnd(c) PROVE WireFits(d)'
  <2>0. WireFits(c) /\ WireFits(d) /\ TypeOK BY DEF WireInv
  <2>1. PICK m \in Messages : PeerWrites(c, m) /\ (m = "token" => said[c] = 0)
    BY <1>41, ClientAssumption DEF PeerEnd, Messages, Texts, PeerHasWindow
  <2>2. /\ said' = [said EXCEPT ![c] = said[c] + 1] /\ said[c] \in Nat
        /\ wire[c] \in Seq(Messages) /\ wire' = [wire EXCEPT ![c] = Append(wire[c], m)]
        /\ said \in [Chats -> Nat] /\ wire \in [Chats -> Seq(Messages)]
    BY <2>0, <2>1, SaidType DEF TypeOK
  <2>3. frame' = frame /\ spoken' = spoken BY <2>1 DEF PeerWrites
  <2>4. CASE d # c
    <3>1. wire'[d] = wire[d] /\ said'[d] = said[d] BY <2>2, <2>4
    <3> QED BY <2>0, <2>3, <3>1 DEF WireFits, NoToken
  <2>5. CASE d = c
    <3>1. wire'[c] = Append(wire[c], m) /\ said'[c] # 0 BY <2>2
    <3>2. /\ Len(wire'[c]) = Len(wire[c]) + 1 /\ Len(wire[c]) \in Nat
          /\ \A i \in 1 .. Len(wire[c]) : wire'[c][i] = wire[c][i]
          /\ wire'[c][Len(wire[c]) + 1] = m
      BY <2>2, <3>1, AppendProperties, LenProperties
    <3>3. m = "token" => Len(wire[c]) = 0 BY <2>0, <2>1 DEF WireFits
    <3>4. NoToken(c, 2)' BY <2>0, <3>2, <3>3 DEF WireFits, NoToken
    <3>5. said[c] # 0 => m # "token" BY <2>1
    <3>6. c \in Incoming /\ frame[c] # "none" => NoToken(c, 1)'
      BY <2>0, <3>2, <3>5 DEF WireFits, NoToken
    <3>7. c \in Outgoing => spoken[c] # 0
      BY <1>41, <2>0 DEF PeerEnd, PeerHasWindow, TypeOK
    <3> QED BY <2>3, <2>5, <3>1, <3>4, <3>6, <3>7 DEF WireFits
  <2> QED BY <2>4, <2>5
<1>42. ASSUME NEW c \in Chats, LinkLost(c) PROVE WireFits(d)'
  <2>0. WireFits(c) /\ WireFits(d) /\ TypeOK BY DEF WireInv
  <2>1. wire[c] \in Seq(Messages) /\ wire \in [Chats -> Seq(Messages)] BY <2>0 DEF TypeOK
  <2>2. PICK k \in 0 .. Len(wire[c]) : wire' = [wire EXCEPT ![c] = SubSeq(wire[c], 1, k)]
    BY <1>42 DEF LinkLost
  <2>3. said' = said /\ frame' = frame /\ spoken' = spoken BY <1>42 DEF LinkLost
  <2>4. CASE d # c
    <3>1. wire'[d] = wire[d] BY <2>1, <2>2, <2>4
    <3> QED BY <2>0, <2>3, <3>1 DEF WireFits, NoToken
  <2>5. CASE d = c
    <3>1. wire'[c] = SubSeq(wire[c], 1, k) BY <2>1, <2>2
    <3>2. /\ Len(wire'[c]) = k /\ k \in Nat /\ k <= Len(wire[c])
          /\ \A i \in 1 .. k : wire'[c][i] = wire[c][i]
      BY <2>1, <3>1, SubSeqType, LenProperties
    <3>3. wire[c] = <<>> => k = 0 BY <3>2, <2>1
    <3>4. k = 0 => wire'[c] = <<>> BY <2>1, <3>1, SubSeqType, EmptySeq
    <3>5. NoToken(c, 2)' BY <2>0, <2>1, <3>2, LenProperties DEF WireFits, NoToken
    <3>6. NoToken(c, 1) => NoToken(c, 1)' BY <2>1, <3>2, LenProperties DEF NoToken
    <3> QED BY <2>0, <2>3, <2>5, <3>3, <3>4, <3>5, <3>6 DEF WireFits
  <2> QED BY <2>4, <2>5
<1>43. CASE UNCHANGED vars
  <2>1. wire' = wire /\ said' = said /\ spoken' = spoken /\ frame' = frame BY <1>43 DEF vars
  <2> QED BY <2>1, WireKept DEF WireInv
<1> QED
  BY <1>1, <1>2, <1>3, <1>4, <1>5, <1>6, <1>7, <1>8, <1>9, <1>10, <1>11, <1>12, <1>13, <1>14,
     <1>15, <1>16, <1>17, <1>18, <1>19, <1>20, <1>21, <1>22, <1>23, <1>24, <1>25, <1>26,
     <1>27, <1>28, <1>29, <1>30, <1>31, <1>32, <1>33, <1>34, <1>35, <1>36, <1>37, <1>38,
     <1>39, <1>40, <1>41, <1>42,
     <1>43 DEF Next, User, Dismiss, SwingStep, ListenerStep, UpdaterStep, Peer, Closing

-------------------------------------------------------------------------------
(******************************* The theorems ******************************)

LEMMA InitHolds == Init => IInv
<1> SUFFICES ASSUME Init PROVE IInv
  OBVIOUS
<1> USE Names DEF Init
<1>1. TypeOK
  <2>1. wire \in [Chats -> Seq(Messages)] /\ dialogs \in Seq(Threads) OBVIOUS
  <2>2. pc \in [Threads -> Labels] BY DEF Labels, Searches
  <2>3. 0 \in 0 .. PipeSize OBVIOUS
  <2>4. /\ pipe \in [Chats -> 0 .. PipeSize] /\ said \in [Chats -> Nat] /\ spoken \in [Chats -> Nat]
        /\ permits \in [Chats -> Nat]
    BY <2>3
  <2>5. /\ socket \in [Chats -> {"none", "open", "closed"}]
        /\ conn \in [Chats -> {"none", "up", "lost", "broken"}]
        /\ ready \in [Chats -> BOOLEAN] /\ hand \in [Chats -> BOOLEAN]
        /\ pipeClosed \in [Chats -> BOOLEAN] /\ interrupted \in [Chats -> BOOLEAN]
    OBVIOUS
  <2> QED BY <2>1, <2>2, <2>4, <2>5 DEF TypeOK
<1>2. LabelInv BY DEF LabelInv, SwingLabels, ChatLabels, Threads
<1>3. PipeInv BY DEF PipeInv, PipeFits
<1>4. WireInv BY DEF WireInv, WireFits, NoToken
<1>5. FrameInv BY DEF FrameInv, FrameFits
<1>6. ListInv BY DEF ListInv, ListFits, MustBeListed
<1>7. SwingInv BY DEF SwingInv
<1> QED BY <1>1, <1>2, <1>3, <1>4, <1>5, <1>6, <1>7 DEF IInv

\* Everything the proofs below rest on holds in every state.
LEMMA Invariant == Spec => []IInv
<1>1. IInv /\ [Next]_vars => IInv'
  BY TypeNext, LabelNext, PipeNext, WireNext, FrameNext, ListNext, SwingNext DEF IInv
<1> QED BY InitHolds, <1>1, PTL DEF Spec

\* Every variable keeps its type: the pipe is never filled beyond its size, no
\* permit is taken that was not given, dialogs belong to threads.
THEOREM TypeCorrect == Spec => []TypeOK
<1>1. IInv => TypeOK BY DEF IInv
<1> QED BY <1>1, Invariant, PTL

\* UpdaterThread: once past acquire() there is a text in the pipe for it, or
\* the pipe is closed, for any size of the pipe and any number of texts.
THEOREM PermitsAreBacked == Spec => []PermitsHaveTexts
<1>1. IInv => PermitsHaveTexts
  <2> SUFFICES ASSUME IInv, NEW c \in Chats, ~ pipeClosed[c]
               PROVE  permits[c] + (IF updater[c] = "reading" THEN 1 ELSE 0) <= pipe[c]
    BY DEF PermitsHaveTexts
  <2>1. permits[c] \in Nat /\ pipe[c] \in Nat BY Names DEF IInv, TypeOK
  <2>2. permits[c] + (IF updater[c] = "reading" THEN 1 ELSE 0)
                   + (IF pc[c] = "release" THEN 1 ELSE 0) <= pipe[c]
    BY DEF IInv, PipeInv, PipeFits
  <2> QED BY <2>1, <2>2
<1> QED BY <1>1, Invariant, PTL

\* sendHandshakeMessage and sendChatMessage: whoever is about to write to a
\* chat finds it in the list, so neither ever connects a second time.
THEOREM SendsFind == Spec => []SendsFindTheirChat
<1>1. IInv => SendsFindTheirChat
  <2> SUFFICES ASSUME IInv, NEW t \in Threads, pc[t] \in {"token", "send", "answer"}
               PROVE  Subject(t) \in chats
    BY DEF SendsFindTheirChat
  <2>1. t # Listener BY DEF IInv, LabelInv
  <2>2. CASE t \in Chats
    BY <2>2, Names DEF Subject, IInv, LabelInv, ChatLabels, FrameInv, FrameFits, ListInv,
       ListFits, MustBeListed
  <2>3. CASE t = Swing
    <3>1. target \in Chats /\ Subject(t) = target BY <2>3 DEF Subject, IInv, LabelInv
    <3>2. CASE pc[Swing] = "token" BY <3>1, <3>2 DEF IInv, SwingInv
    <3>3. CASE pc[Swing] = "send"
      BY <3>1, <3>3 DEF IInv, SwingInv, ListInv, ListFits, MustBeListed
    <3>4. pc[Swing] # "answer" BY DEF IInv, LabelInv, SwingLabels
    <3> QED BY <2>3, <3>2, <3>3, <3>4
  <2> QED BY <2>1, <2>2, <2>3 DEF Threads
<1> QED BY <1>1, Invariant, PTL

\* MessagingHelper: a chat whose thread reads from a standing connection is in
\* the list, whoever closed which window at what time.
THEOREM ConnectedAreListed == Spec => []ConnectedIsListed
<1>1. IInv => ConnectedIsListed
  BY DEF IInv, ListInv, ListFits, Dead, ConnectedIsListed
<1> QED BY <1>1, Invariant, PTL
===============================================================================
