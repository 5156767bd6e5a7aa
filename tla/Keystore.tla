------------------------------- MODULE Keystore -------------------------------
(***************************************************************************)
(* AESHardwareKeystore and ArduinoSerial in one client: the threads that   *)
(* send commands to the boards, the static semaphore meant to let one      *)
(* command through at a time, the serial ports, and what a board makes of  *)
(* the lines it is sent.                                                   *)
(*                                                                         *)
(* getInstance never stores the instance: each window (ChatFrame) and each *)
(* MessageListenerThread constructs a keystore of its own, and each        *)
(* construction replaces the semaphore.  A command acquires the semaphore  *)
(* the field holds then and releases the one it holds at the end.  Which   *)
(* port a keystore opens depends on who called: a caller's keystores use   *)
(* PORT_NAMES_1, those of an accepted chat PORT_NAMES_2.                   *)
(*                                                                         *)
(* Commands: 1 requireTokenToShare, 2 setTokenShared, 3 encrypt, 4 decrypt.*)
(***************************************************************************)
EXTENDS Integers, Sequences, FiniteSets

CONSTANTS Calls,      \* the chats the user starts
          Accepts,    \* the chats that come in
          MaxTexts,   \* texts each peer sends at most
          MaxSends,   \* times the user presses Send at most
          MaxIncidents  \* times another client on this machine uses a port, or
                        \* the user ends the program, taken together

Chats   == Calls \cup Accepts
Swing   == "Swing"              \* the event dispatch thread
Threads == Chats \cup {Swing}   \* a chat stands for its listener thread
Ports   == {1, 2}
Commands == 1 .. 4

ASSUME KeystoreAssumption ==
    /\ Calls \cap Accepts = {}
    /\ Swing \notin Chats
    /\ MaxTexts \in Nat /\ MaxSends \in Nat /\ MaxIncidents \in Nat

VARIABLES permits,   \* permits[i]: of the i-th semaphore; the field holds the last
          stage,     \* stage[c]: how far chat c is
          job,       \* job[t]: the command thread t is in
          owner,     \* owner[p]: the keystore that has port p open
          opened,    \* keystores whose streams have been opened once
          board,     \* board[p]: what the board at p waits for
          answers,   \* answers[p]: lines from the board, oldest first
          attached,  \* the ports that have a board
          texts,     \* texts[c]: texts decrypted in chat c
          sends, incidents,   \* how often each happened
          upset      \* what has come between the commands so far

vars == <<permits, stage, job, owner, opened, board, answers, attached,
          texts, sends, incidents, upset>>

Stages == {"new", "accepted", "answering", "calling", "connecting", "called",
           "deriving", "open", "failed"}

\* A keystore: the window's or the listener's of a chat.
Keystores == Chats \X {"window", "listener"}
Port(k)   == IF k[1] \in Calls THEN 1 ELSE 2
Free      == <<"free">>
Guest     == <<"guest">>

\* Lines a client writes for a command, its number included, lines the board
\* takes after the number, and lines it answers with.
LinesOneShort(op) == 2
Lines(op)     == IF op = 4 THEN 3 ELSE 2
Arguments(op) == IF op = 4 THEN 2 ELSE 1
Answers(op)   == IF op = 3 THEN 2 ELSE 1

\* Where a command is: waiting for the semaphore, opening the port, writing
\* its lines, reading its answer, or spinning on available() for ever.
Places == {"idle", "waiting", "opening", "writing", "reading", "spinning"}
Jobs(n) == [at : Places, op : 0 .. 4, key : Keystores \cup {Free},
            sem : 0 .. n, left : 0 .. 3, sure : BOOLEAN]
Idle   == [at |-> "idle", op |-> 0, key |-> Free, sem |-> 0, left |-> 0, sure |-> TRUE]

\* The board: the command it has begun (0: none), the lines it still waits
\* for, those it has printed, and whether all the lines it took came from one
\* command of one client.
BoardStates == [op : 0 .. 4, left : 0 .. 2, said : {0, 1}, whole : BOOLEAN]
AnswerLines == Seq([op : Commands, whole : BOOLEAN])
Resting  == [op |-> 0, left |-> 0, said |-> 0, whole |-> TRUE]
Begun(n) == [op |-> n, left |-> Arguments(n), said |-> 0, whole |-> TRUE]
Working(b) == b.op # 0 /\ b.left = 0

TypeOK ==
    /\ permits \in Seq(Nat)
    /\ stage \in [Chats -> Stages]
    /\ job \in [Threads -> Jobs(Len(permits))]
    /\ owner \in [Ports -> Keystores \cup {Free, Guest}]
    /\ opened \subseteq Keystores
    /\ board \in [Ports -> BoardStates]
    /\ answers \in [Ports -> AnswerLines]
    /\ attached \subseteq Ports
    /\ texts \in [Chats -> 0 .. MaxTexts]
    /\ sends \in 0 .. MaxSends /\ incidents \in 0 .. MaxIncidents
    /\ upset \subseteq {"replaced", "guest", "absent", "exited"}

Init ==
    /\ permits = <<>>
    /\ stage = [c \in Chats |-> "new"]
    /\ job = [t \in Threads |-> Idle]
    /\ owner = [p \in Ports |-> Free]
    /\ opened = {}
    /\ board = [p \in Ports |-> Resting]
    /\ answers = [p \in Ports |-> <<>>]
    /\ attached \in SUBSET Ports
    /\ texts = [c \in Chats |-> 0]
    /\ sends = 0 /\ incidents = 0
    /\ upset = {}

Busy(t)  == job[t].at # "idle"
SwingFree == ~ Busy(Swing) /\ \A c \in Chats : stage[c] # "connecting"
Upset(r) == upset' = upset \cup r

-------------------------------------------------------------------------------
(************************ Constructing and using ***************************)

\* AESHardwareKeystore(): a fresh semaphore takes the place of the last one.
Construct ==
    /\ permits' = Append(permits, 1)
    /\ Upset(IF \E t \in Threads : Busy(t) THEN {"replaced"} ELSE {})

\* Thread t begins a command with keystore k: it will wait for the semaphore
\* the field holds now, i the one just constructed or the last.
Begins(t, op, k, i) ==
    /\ ~ Busy(t)
    /\ job' = [job EXCEPT ![t] = [at |-> "waiting", op |-> op, key |-> k, sem |-> i,
                                  left |-> Lines(op), sure |-> TRUE]]

Unshared == <<owner, opened, board, answers, attached, incidents>>

\* The user calls: the window of a STARTER is constructed and runs the handshake.
CallChat(c) ==
    /\ c \in Calls /\ stage[c] = "new"
    /\ SwingFree
    /\ Construct
    /\ Begins(Swing, 1, <<c, "window">>, Len(permits'))
    /\ stage' = [stage EXCEPT ![c] = "calling"]
    /\ UNCHANGED <<texts, sends, Unshared>>

\* sendHandshakeMessage: connected, the listener thread is constructed ...
Connect(c) ==
    /\ stage[c] = "connecting"
    /\ Construct
    /\ stage' = [stage EXCEPT ![c] = "called"]
    /\ UNCHANGED <<job, texts, sends, Unshared>>

\* ... or nobody answers.
ConnectRefused(c) ==
    /\ stage[c] = "connecting"
    /\ stage' = [stage EXCEPT ![c] = "failed"]
    /\ UNCHANGED <<permits, job, texts, sends, upset, Unshared>>

\* ListenerThread takes a call and constructs a MessageListenerThread.
AcceptChat(c) ==
    /\ c \in Accepts /\ stage[c] = "new"
    /\ Construct
    /\ stage' = [stage EXCEPT ![c] = "accepted"]
    /\ UNCHANGED <<job, texts, sends, Unshared>>

\* The first token: the window is constructed, the board asked for a token.
FirstToken(c) ==
    /\ stage[c] = "accepted"
    /\ Construct
    /\ Begins(c, 1, <<c, "listener">>, Len(permits'))
    /\ stage' = [stage EXCEPT ![c] = "answering"]
    /\ UNCHANGED <<texts, sends, Unshared>>

\* The token has been sent back (an accepted chat) or arrives (one called).
Derive(c) ==
    /\ stage[c] \in {"called", "deriving"}
    /\ Begins(c, 2, <<c, "listener">>, Len(permits))
    /\ stage' = [stage EXCEPT ![c] = "deriving"]
    /\ UNCHANGED <<permits, texts, sends, upset, Unshared>>

\* A text arrives.  (TextConstructs: a keystore is asked for anew.)
TextConstructs(c) ==
    /\ stage[c] = "open"
    /\ texts[c] < MaxTexts
    /\ Construct
    /\ Begins(c, 4, <<c, "listener">>, Len(permits'))
    /\ UNCHANGED <<stage, texts, sends, Unshared>>
TextArrives(c) ==
    /\ stage[c] = "open"
    /\ texts[c] < MaxTexts
    /\ Begins(c, 4, <<c, "listener">>, Len(permits))
    /\ UNCHANGED <<permits, stage, texts, sends, upset, Unshared>>

\* The user presses Send; an accepted chat's window shows after the first text.
PressSend(c) ==
    /\ stage[c] = "open"
    /\ SwingFree
    /\ c \in Calls \/ texts[c] > 0
    /\ sends < MaxSends
    /\ Begins(Swing, 3, <<c, "window">>, Len(permits))
    /\ sends' = sends + 1
    /\ UNCHANGED <<permits, stage, texts, upset, Unshared>>

-------------------------------------------------------------------------------
(****************************** A command **********************************)

At(t, place) == job[t].at = place
Goes(t, place) == job' = [job EXCEPT ![t].at = place]
CommandOnly == <<stage, attached, texts, sends, incidents>>

\* mutex.acquire()  (AcquireAnyway: tryAcquire, its answer ignored.)
AcquireAnyway(t) ==
    /\ At(t, "waiting")
    /\ permits' = [permits EXCEPT ![job[t].sem] = @ - 1]
    /\ Goes(t, "opening")
    /\ UNCHANGED <<owner, opened, board, answers, upset, CommandOnly>>
Acquire(t) ==
    /\ At(t, "waiting")
    /\ permits[job[t].sem] > 0
    /\ permits' = [permits EXCEPT ![job[t].sem] = @ - 1]
    /\ Goes(t, "opening")
    /\ UNCHANGED <<owner, opened, board, answers, upset, CommandOnly>>

\* uno.initialize(): the port is opened, nobody else having it.
Opens(t) ==
    LET p == Port(job[t].key) IN
    /\ At(t, "opening")
    /\ p \in attached
    /\ owner' = [owner EXCEPT ![p] = job[t].key]
    /\ opened' = opened \cup {job[t].key}
    /\ answers' = [answers EXCEPT ![p] = <<>>]
    /\ job' = [job EXCEPT ![t].at = "writing", ![t].sure = (board[p].op = 0)]
    /\ UNCHANGED <<permits, board, upset, CommandOnly>>
OpenPort(t) == owner[Port(job[t].key)] = Free /\ Opens(t)

\* After a command that could not open its port: a keystore used for the
\* first time has no streams and the caller gets a NullPointerException; one
\* used before writes to a closed port, which is printed, and then waits for
\* an answer.  A handshake reports the failure, a listener thread ends.
GivesUp(t) ==
    IF job[t].key \in opened
    THEN Goes(t, "spinning") /\ UNCHANGED stage
    ELSE /\ job' = [job EXCEPT ![t] = Idle]
         /\ stage' = IF job[t].op = 3 THEN stage ELSE [stage EXCEPT ![job[t].key[1]] = "failed"]

\* PortInUseException: closeConnection() releases the semaphore of the field.
PortInUse(t) ==
    LET p == Port(job[t].key) IN
    /\ At(t, "opening")
    /\ p \in attached
    /\ owner[p] # Free
    /\ permits' = [permits EXCEPT ![Len(permits)] = @ + 1]
    /\ GivesUp(t)
    /\ UNCHANGED <<owner, opened, board, answers, attached, texts, sends, incidents, upset>>

\* No board: initialize() returns, and nothing ever releases the semaphore.
NoPort(t) ==
    /\ At(t, "opening")
    /\ Port(job[t].key) \notin attached
    /\ GivesUp(t)
    /\ Upset({"absent"})
    /\ UNCHANGED <<permits, owner, opened, board, answers, attached, texts, sends, incidents>>

\* The line a command writes next: its number first.  The type sent with
\* command 1 reads like a command; what else is sent does not.
Line(j) ==
    IF j.left = Lines(j.op) THEN j.op
    ELSE IF j.op = 1 THEN Port(j.key) ELSE 0

\* loop() and the functions it calls take a line: as the next argument of the
\* command begun, as a command, or not at all.  own: it comes from the client
\* whose lines the others of this command were.
Takes(b, line, own) ==
    IF b.op # 0 THEN [b EXCEPT !.left = @ - 1, !.whole = @ /\ own]
    ELSE IF line \in Commands THEN Begun(line) ELSE b

\* writeData, and the sleep in which the board takes the line.
Write(t) ==
    LET p == Port(job[t].key) IN
    /\ At(t, "writing")
    /\ ~ Working(board[p])
    /\ board' = [board EXCEPT ![p] = Takes(@, Line(job[t]), job[t].sure)]
    /\ job' = [job EXCEPT ![t].left = @ - 1,
                          ![t].at = IF job[t].left = 1 THEN "reading" ELSE "writing"]
    /\ UNCHANGED <<permits, owner, opened, answers, upset, CommandOnly>>

\* The board has all it needs and prints a line of its answer, to whoever has
\* the port.
BoardAnswers(p) ==
    LET b == board[p] IN
    /\ Working(b)
    /\ board' = [board EXCEPT ![p] =
                    IF b.said + 1 = Answers(b.op) THEN Resting ELSE [b EXCEPT !.said = @ + 1]]
    /\ answers' = [answers EXCEPT ![p] =
                      IF owner[p] = Free THEN <<>>
                      ELSE Append(@, [op |-> b.op, whole |-> b.whole])]
    /\ UNCHANGED <<permits, stage, job, owner, opened, attached, texts, sends, incidents, upset>>

\* What the caller of a finished command does next.
Finished(j) ==
    CASE j.op = 1 -> /\ stage' = [stage EXCEPT ![j.key[1]] =
                                     IF @ = "calling" THEN "connecting" ELSE "deriving"]
                     /\ UNCHANGED texts
      [] j.op = 2 -> stage' = [stage EXCEPT ![j.key[1]] = "open"] /\ UNCHANGED texts
      [] j.op = 3 -> UNCHANGED <<stage, texts>>
      [] j.op = 4 -> texts' = [texts EXCEPT ![j.key[1]] = @ + 1] /\ UNCHANGED stage

\* readData for each line of the answer, then closeConnection(), which
\* releases the semaphore of the field.  (ReadFirst, ReadKeeping: reading one
\* line only, and not releasing.)
Closes(t) ==
    LET p == Port(job[t].key) IN
    /\ At(t, "reading")
    /\ owner' = [owner EXCEPT ![p] = Free]
    /\ answers' = [answers EXCEPT ![p] = <<>>]
    /\ job' = [job EXCEPT ![t] = Idle]
    /\ Finished(job[t])
    /\ UNCHANGED <<opened, board, attached, sends, incidents, upset>>
ReadFirst(t) ==
    /\ answers[Port(job[t].key)] # <<>>
    /\ Closes(t)
    /\ permits' = [permits EXCEPT ![Len(permits)] = @ + 1]
ReadKeeping(t) ==
    /\ Len(answers[Port(job[t].key)]) >= Answers(job[t].op)
    /\ Closes(t)
    /\ UNCHANGED permits
Read(t) ==
    /\ At(t, "reading")
    /\ Len(answers[Port(job[t].key)]) >= Answers(job[t].op)
    /\ Closes(t)
    /\ permits' = [permits EXCEPT ![Len(permits)] = @ + 1]

-------------------------------------------------------------------------------
(********************** What comes from elsewhere **************************)

\* Another client on the same machine sends a command of its own.
GuestOpens(p) ==
    /\ incidents < MaxIncidents
    /\ p \in attached /\ owner[p] = Free /\ board[p].op = 0
    /\ owner' = [owner EXCEPT ![p] = Guest]
    /\ incidents' = incidents + 1
    /\ Upset({"guest"})
    /\ UNCHANGED <<permits, stage, job, opened, board, answers, attached, texts, sends>>

GuestCloses(p) ==
    /\ owner[p] = Guest
    /\ owner' = [owner EXCEPT ![p] = Free]
    /\ UNCHANGED <<permits, stage, job, opened, board, answers, attached, texts, sends, incidents, upset>>

\* The landing or the contact window is closed (System.exit), whatever the
\* listener threads are doing; the program is started again once the boards
\* have come to rest or wait for a line.  They are not reset by the port.
Exit ==
    /\ incidents < MaxIncidents
    /\ SwingFree
    /\ \A p \in Ports : ~ Working(board[p])
    /\ incidents' = incidents + 1
    /\ permits' = <<>>
    /\ stage' = [c \in Chats |-> "new"]
    /\ job' = [t \in Threads |-> Idle]
    /\ owner' = [p \in Ports |-> IF owner[p] = Guest THEN Guest ELSE Free]
    /\ opened' = {}
    /\ answers' = [p \in Ports |-> <<>>]
    /\ texts' = [c \in Chats |-> 0]
    /\ Upset({"exited"})
    /\ UNCHANGED <<board, attached, sends>>

Command(t) == Acquire(t) \/ OpenPort(t) \/ PortInUse(t) \/ NoPort(t) \/ Write(t) \/ Read(t)

Next ==
    \/ \E c \in Chats :
          \/ CallChat(c) \/ Connect(c) \/ ConnectRefused(c)
          \/ AcceptChat(c) \/ FirstToken(c) \/ Derive(c) \/ TextArrives(c) \/ PressSend(c)
    \/ \E t \in Threads : Command(t)
    \/ \E p \in Ports : BoardAnswers(p) \/ GuestOpens(p) \/ GuestCloses(p)
    \/ Exit

Spec == Init /\ [][Next]_vars

\* Threads keep running, a board answers, and the other client ends its
\* command; nothing is assumed of users, peers and calls.
FairSpec ==
    /\ Spec
    /\ \A t \in Threads : WF_vars(Command(t))
    /\ \A c \in Chats : WF_vars(Connect(c) \/ ConnectRefused(c))
    /\ \A p \in Ports : WF_vars(BoardAnswers(p)) /\ WF_vars(GuestCloses(p))

-------------------------------------------------------------------------------
(******************************* Properties ********************************)

\* What a command reads is the board's answer to its own lines, also when the
\* semaphore was replaced under way: the port is one client's and one
\* keystore's at a time.  Only a board left in the middle of a command by an
\* ended program answers otherwise.
AnswersAreOwn ==
    \A t \in Threads : At(t, "reading") /\ job[t].sure =>
        LET a == answers[Port(job[t].key)] IN
        \A i \in DOMAIN a : a[i].whole /\ a[i].op = job[t].op

\* A board whose port is closed waits for a command, not for the rest of one,
\* as long as no client was ended in the middle of a command.
BoardsComeToRest ==
    "exited" \notin upset =>
        \A p \in Ports : owner[p] \in {Free, Guest} => board[p] = Resting

\* In a client with one chat the semaphore is never replaced while a command
\* is in progress: the order of the handshake keeps constructions and
\* commands of the event thread and the listener thread apart.
LoneChatIsCalm ==
    /\ \A c, d \in Chats : stage[c] # "new" /\ stage[d] # "new" => c = d
    /\ incidents = 0 /\ attached = Ports
    => upset = {}

\* Until something comes between, the semaphore does its work: all threads
\* use the last one, one command at a time is past it, and none is stuck.
Past(t) == job[t].at \in {"opening", "writing", "reading"}
CalmIsExclusive ==
    upset = {} =>
        /\ \A t \in Threads : ~ At(t, "spinning")
        /\ \A t \in Threads : At(t, "waiting") => job[t].sem = Len(permits)
        /\ \A t, u \in Threads : Past(t) /\ Past(u) => t = u
        /\ permits # <<>> => permits[Len(permits)] = IF \E t \in Threads : Past(t) THEN 0 ELSE 1

\* A command that has the port, its board at rest, ends and closes the port.
PortIsGivenBack ==
    \A t \in Threads : (At(t, "writing") /\ job[t].sure) ~> ~ Busy(t)

\* Every command returns, unless the semaphore was replaced during a command,
\* another client had the port, the board is missing or the program ended.
CommandsReturn == \A t \in Threads : Busy(t) ~> (~ Busy(t) \/ upset # {})
===============================================================================
