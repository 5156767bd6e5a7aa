--------------------------- MODULE SecureLinkProofs ---------------------------
(***************************************************************************)
(* Proofs about SecureLink, for every number of texts, every capacity of   *)
(* the connection and any two users: the handshake and the numbers first,  *)
(* then the texts.  SecureLink implements MessageDelivery, the numbers     *)
(* grow until they leave 16 bits, and what the board confirmed last is     *)
(* what the window shows.                                                  *)
(***************************************************************************)
EXTENDS SecureLink, SequenceTheorems, TLAPS

Before(p) == phase[p] \in {"idle", "awaitToken"}
Past      == ~ Before(Caller) /\ ~ Before(Callee)
Keyed(p)  == board[p].my_k = {Caller, Callee}
InUse(p)  == window[p] \in {"usable", "failed"}
Roles     == board[Callee].x = 1

\* How far the handshake must have come for what is seen now.
HandshakeInv ==
    /\ board[Caller].x = 0
    /\ phase[Caller] # "deriving"
    /\ window[Callee] # "waiting"
    /\ phase[Caller] = "idle" => /\ phase[Callee] = "idle"
                                 /\ window[Caller] = "none"
                                 /\ ~ connected
                                 /\ \A p \in Peers : net[p] = <<>>
    /\ phase[Caller] = "awaitToken" => board[Caller].my_f = {Caller}
    /\ phase[Callee] = "deriving" =>
          Roles /\ board[Callee].my_f = {Callee} /\ first = {Caller}
    /\ Before(Callee) => phase[Caller] # "open" /\ net[Caller] = <<>>
    /\ ~ Past => \A p \in Peers : /\ board[p].in_seq_no = 0
                                  /\ board[p].out_seq_no = 0
                                  /\ typed[p] = 0
                                  /\ shown[p] = 0
                                  /\ verdict[p] = "none"
    /\ \A p \in Peers :
          /\ InUse(p) => Past /\ Roles /\ Keyed(p)
          /\ phase[p] = "open" => Keyed(p) /\ Roles
          /\ phase[p] \in {"closed", "broken"} => net[p] = <<>>
          /\ phase[p] = "closed" => window[p] = "none"
          /\ phase[p] = "broken" => ~ connected

\* What the connection may hold for p, kind by kind.
TokenOK(p, m) ==
    /\ m.key = {Other(p)}
    /\ Before(p)
    /\ p = Caller => Roles /\ ~ Before(Callee)
CipherOK(p, m) ==
    /\ Past /\ Roles /\ Keyed(Other(p))
    /\ m.key = {Caller, Callee}
    /\ m.number % 2 = board[Other(p)].x
    /\ shown[p] < m.text
    /\ m.text <= typed[Other(p)]
ItemOK(p, i) ==
    LET m == net[p][i] IN
    /\ m.kind = "token" => i = 1 /\ TokenOK(p, m)
    /\ m.kind = "cipher" => CipherOK(p, m)
    /\ m.kind = "END" => i = Len(net[p]) /\ phase[Other(p)] = "closed"
NetInv ==
    \A p \in Peers :
        /\ shown[p] <= typed[Other(p)]
        /\ \A i \in 1 .. Len(net[p]) : ItemOK(p, i)

IsCipher(p, i) == net[p][i].kind = "cipher"

\* The numbers under way follow each other from the receiver's counter to the
\* sender's, and the texts are in the order they were typed.
Ordered(p) ==
    \A i, j \in 1 .. Len(net[p]) :
        IsCipher(p, i) /\ IsCipher(p, j) =>
            /\ i < j => net[p][i].text < net[p][j].text
            /\ j = i + 1 => net[p][j].number =
                              NumberAfter(net[p][i].number, board[Other(p)].x)
FirstFits(p) ==
    verdict[p] # "HASHING" /\ net[p] # <<>> /\ IsCipher(p, 1) =>
        net[p][1].number = NumberAfter(board[p].in_seq_no, board[Other(p)].x)
LastIsCounted(p) ==
    connected /\ phase[p] # "closed" /\ phase[Other(p)] # "closed" =>
        /\ net[p] # <<>> /\ IsCipher(p, Len(net[p])) =>
              net[p][Len(net[p])].number = board[Other(p)].out_seq_no
        /\ net[p] = <<>> /\ verdict[p] # "HASHING" =>
              board[p].in_seq_no = board[Other(p)].out_seq_no
ChainInv == \A p \in Peers : Ordered(p) /\ FirstFits(p) /\ LastIsCounted(p)

IInv == TypeOK /\ HandshakeInv /\ NetInv /\ ChainInv

-------------------------------------------------------------------------------
(******************************* The boards ********************************)

\* Two states of a board that differ in the counters only.
SameRole(c, b) == c.x = b.x /\ c.my_f = b.my_f /\ c.my_k = b.my_k

\* Sixteen-bit arithmetic: the wrap-around stays in range and keeps parity.
LEMMA WrapFacts ==
    ASSUME NEW n \in Int
    PROVE  /\ Wrap16(n) \in Int16
           /\ Wrap16(n) \in Int
           /\ Wrap16(n) % 2 = n % 2
<1>1. PICK k \in Int : k = n + 32768
  OBVIOUS
<1>2. k % 65536 \in Int /\ 0 <= k % 65536 /\ k % 65536 <= 65535
  OBVIOUS
<1>3. (k % 65536) % 2 = k % 2
  OBVIOUS
<1>4. PICK w \in Int : w = (k % 65536) - 32768
  BY <1>2
<1>5. Wrap16(n) = w
  BY <1>1, <1>4 DEF Wrap16
\* the bounds by name: the provers are slow on long ranges of literals
<1>6. w \in Int16
  <2>1. PICK lo \in Int, hi \in Int : lo = -32768 /\ hi = 32767
    OBVIOUS
  <2>2. lo <= w /\ w <= hi
    BY <1>2, <1>4, <2>1
  <2>3. w \in lo .. hi
    BY <2>2
  <2>4. Int16 = lo .. hi
    BY <2>1 DEF Int16
  <2> QED BY <2>3, <2>4
<1>7. w % 2 = (k % 65536) % 2
  BY <1>2, <1>4
<1>8. (n + 32768) % 2 = n % 2
  OBVIOUS
<1>9. k % 2 = n % 2
  BY <1>1, <1>8
<1> QED BY <1>3, <1>5, <1>6, <1>7, <1>9

\* The parity of a number tells the direction, even after the wrap-around.
LEMMA NumberParity ==
    ASSUME NEW n \in Int16, NEW x \in {0, 1}
    PROVE  NumberAfter(n, x) \in Int16 /\ NumberAfter(n, x) % 2 = x
<1> DEFINE k == Wrap16(n + 1)
<1>1. n + 1 \in Int
  BY DEF Int16
<1>2. k \in Int
  BY <1>1, WrapFacts
<1> HIDE DEF k
<1>3. 2 * k + x \in Int /\ (2 * k + x) % 2 = x
  BY <1>2
<1>4. Wrap16(2 * k + x) \in Int16 /\ Wrap16(2 * k + x) % 2 = x
  BY <1>3, WrapFacts
<1> QED BY <1>4 DEF NumberAfter, k

\* What decrypt_message expects is what the other end's encrypt_message makes.
LEMMA ExpectedIsNext ==
    ASSUME NEW n \in Int16, NEW x \in {0, 1}
    PROVE  ExpectedAfter(n, x) = NumberAfter(n, 1 - x)
<1>1. n + 1 \in Int
  BY DEF Int16
<1>2. Wrap16(n + 1) \in Int
  BY <1>1, WrapFacts
<1>3. 2 * Wrap16(n + 1) + 0 = 2 * Wrap16(n + 1)
  BY <1>2
<1> QED BY <1>3 DEF ExpectedAfter, NumberAfter

\* A number a board has made is never one it would accept.
LEMMA OwnNumberRefused ==
    ASSUME NEW b \in Boards, NEW n \in Int16, n % 2 = b.x
    PROVE  ~ NumberAccepted(b, n)
<1>1. b.x \in {0, 1} /\ 1 - b.x \in {0, 1} /\ b.in_seq_no \in Int16
  BY DEF Boards
<1>2. ExpectedAfter(b.in_seq_no, b.x) % 2 = 1 - b.x
  BY <1>1, ExpectedIsNext, NumberParity
<1> QED BY <1>1, <1>2 DEF NumberAccepted

\* Every command leaves a board a board, and changes what it says it changes.
LEMMA SendTokenFacts ==
    ASSUME NEW b \in Boards, NEW t \in {STARTER, NO_STARTER}, NEW f \in Secrets
    PROVE  /\ SendTokenShared(b, t, f) \in Boards
           /\ SendTokenShared(b, t, f).x = IF t = STARTER THEN 0 ELSE 1
           /\ SendTokenShared(b, t, f).in_seq_no = 0
           /\ SendTokenShared(b, t, f).out_seq_no = 0
           /\ SendTokenShared(b, t, f).my_f = {f} /\ SendTokenShared(b, t, f).my_k = {f}
<1>1. 0 \in Int16
  BY DEF Int16
<1> QED BY <1>1 DEF SendTokenShared, Boards, Keys

LEMMA ReceivedTokenFacts ==
    ASSUME NEW b \in Boards, NEW k \in Keys
    PROVE  /\ ReceivedTokenShared(b, k) \in Boards
           /\ ReceivedTokenShared(b, k).x = b.x
           /\ ReceivedTokenShared(b, k).in_seq_no = b.in_seq_no
           /\ ReceivedTokenShared(b, k).out_seq_no = b.out_seq_no
           /\ b.my_f # {} => ReceivedTokenShared(b, k).my_k = k \cup b.my_f
<1>1. PICK d \in Keys : d = DerivedKey(b, k)
  BY DEF DerivedKey, Boards, Keys
<1>2. ReceivedTokenShared(b, k) = [b EXCEPT !.my_k = d, !.my_f = {}]
  BY <1>1 DEF ReceivedTokenShared
<1>3. b.my_f # {} => d = k \cup b.my_f
  BY <1>1 DEF DerivedKey
<1> QED BY <1>2, <1>3 DEF Boards, Keys

LEMMA EncryptFacts ==
    ASSUME NEW b \in Boards
    PROVE  /\ EncryptMessage(b) \in Boards
           /\ SameRole(EncryptMessage(b), b)
           /\ EncryptMessage(b).in_seq_no = b.in_seq_no
           /\ EncryptMessage(b).out_seq_no = NumberAfter(b.out_seq_no, b.x)
<1>1. NumberAfter(b.out_seq_no, b.x) \in Int16
  BY NumberParity DEF Boards
<1> QED BY <1>1 DEF EncryptMessage, Boards, SameRole

LEMMA HashingFacts ==
    ASSUME NEW b \in Boards
    PROVE  /\ DecryptHashing(b) \in Boards
           /\ SameRole(DecryptHashing(b), b)
           /\ DecryptHashing(b).out_seq_no = b.out_seq_no
<1>1. b.in_seq_no + 1 \in Int
  <2>1. b.in_seq_no \in Int16
    BY DEF Boards
  <2>2. \A n \in Int16 : n + 1 \in Int
    BY DEF Int16
  <2> QED BY <2>1, <2>2
<1>2. Wrap16(b.in_seq_no + 1) \in Int16
  BY <1>1, WrapFacts
<1> QED BY <1>2 DEF DecryptHashing, Boards, SameRole

LEMMA NumberedFacts ==
    ASSUME NEW b \in Boards, NEW n \in Int16
    PROVE  /\ DecryptNumbered(b, n) \in Boards
           /\ SameRole(DecryptNumbered(b, n), b)
           /\ DecryptNumbered(b, n).in_seq_no = n
           /\ DecryptNumbered(b, n).out_seq_no = b.out_seq_no
BY DEF DecryptNumbered, Boards, SameRole

-------------------------------------------------------------------------------
(****************************** The sequences ******************************)

LEMMA AppendFacts ==
    ASSUME NEW S, NEW s \in Seq(S), NEW m \in S
    PROVE  /\ Append(s, m) \in Seq(S)
           /\ Len(Append(s, m)) = Len(s) + 1
           /\ \A i \in 1 .. Len(s) : Append(s, m)[i] = s[i]
           /\ Append(s, m)[Len(s) + 1] = m
           /\ Append(s, m) # <<>>
BY AppendProperties

LEMMA TailFacts ==
    ASSUME NEW S, NEW s \in Seq(S), s # <<>>
    PROVE  /\ Tail(s) \in Seq(S)
           /\ Len(s) \in Nat /\ Len(s) >= 1
           /\ Len(Tail(s)) = Len(s) - 1
           /\ \A i \in 1 .. Len(s) - 1 : Tail(s)[i] = s[i + 1]
           /\ Head(s) = s[1] /\ Head(s) \in S
           /\ Tail(s) = <<>> <=> Len(s) = 1
<1>1. Len(s) \in Nat \ {0}
  BY EmptySeq
<1>2. Tail(s) \in Seq(S) /\ Len(Tail(s)) = Len(s) - 1 /\ Head(s) \in S
  BY HeadTailProperties
<1>3. \A i \in 1 .. Len(s) - 1 : Tail(s)[i] = s[i + 1]
  BY <1>2, HeadTailProperties
<1>4. Head(s) = s[1]
  BY <1>1
<1>5. Tail(s) = <<>> <=> Len(s) = 1
  <2> DEFINE t == Tail(s)
  <2>1. t \in Seq(S) /\ Len(t) = Len(s) - 1
    BY <1>2
  <2> HIDE DEF t
  <2>2. Len(<<>>) = 0 /\ (t # <<>> => Len(t) \in Nat \ {0})
    BY <2>1, EmptySeq
  <2>3. t = <<>> <=> Len(s) = 1
    BY <1>1, <2>1, <2>2
  <2> QED BY <2>3 DEF t
<1> QED BY <1>1, <1>2, <1>3, <1>4, <1>5

LEMMA PrefixFacts ==
    ASSUME NEW S, NEW s \in Seq(S), NEW n \in 0 .. Len(s)
    PROVE  /\ Prefix(s, n) \in Seq(S)
           /\ Len(Prefix(s, n)) = n
           /\ \A i \in 1 .. n : Prefix(s, n)[i] = s[i]
<1>1. n \in Nat /\ \A i \in 1 .. n : i \in 1 .. Len(s) /\ s[i] \in S
  BY ElementOfSeq, LenProperties
<1>2. Prefix(s, n) \in [1 .. n -> S]
  BY <1>1 DEF Prefix
<1>3. Prefix(s, n) \in Seq(S) /\ Len(Prefix(s, n)) = n
  BY <1>1, <1>2, SeqDef, LenProperties
<1> QED BY <1>3 DEF Prefix

-------------------------------------------------------------------------------
(******************************* The types *********************************)

LEMMA PeerFacts ==
    /\ Caller \in Peers /\ Callee \in Peers /\ Caller # Callee
    /\ Caller \in Secrets /\ Callee \in Secrets
    /\ \A p \in Peers : p = Caller \/ p = Callee
    /\ \A p \in Peers : Other(p) \in Peers /\ Other(p) # p /\ Other(Other(p)) = p
    /\ Other(Caller) = Callee /\ Other(Callee) = Caller
BY LinkAssumption DEF Peers, Other

LEMMA MessageFacts ==
    /\ \A k \in Keys : Token(k) \in Message
    /\ \A b \in Boards, t \in Nat, w \in BOOLEAN : Cipher(b, t, w) \in Message
    /\ EndMessage \in Message
<1>1. 0 \in Int16
  BY DEF Int16
<1>2. ASSUME NEW k \in Keys
      PROVE  Token(k) \in Message
  BY <1>1 DEF Token, Message
<1>3. ASSUME NEW b \in Boards, NEW t \in Nat, NEW w \in BOOLEAN
      PROVE  Cipher(b, t, w) \in Message
  <2>1. b.my_k \in Keys /\ b.out_seq_no \in Int16
    BY DEF Boards
  <2> QED BY <2>1 DEF Cipher, Message
<1>4. EndMessage \in Message
  BY <1>1 DEF EndMessage, Message, Keys
<1> QED BY <1>2, <1>3, <1>4

LEMMA InitType == Init => TypeOK
<1>1. 0 \in Int16
  BY DEF Int16
<1>2. PoweredUp \in Boards
  BY <1>1 DEF PoweredUp, Boards, Keys
<1>3. <<>> \in Seq(Message)
  BY EmptySeq
<1> SUFFICES ASSUME Init PROVE TypeOK
  OBVIOUS
<1>4. board \in [Peers -> Boards] /\ net \in [Peers -> Seq(Message)]
  BY <1>2, <1>3 DEF Init
<1>5. phase \in [Peers -> Phases] /\ window \in [Peers -> Windows]
  BY DEF Init, Phases, Windows
<1>6. first \in Keys /\ connected \in BOOLEAN
  BY DEF Init, Keys
<1>7. /\ typed \in [Peers -> Nat] /\ verdict \in [Peers -> Verdicts]
      /\ shown \in [Peers -> Nat]
  BY DEF Init, Verdicts
<1> QED BY <1>4, <1>5, <1>6, <1>7 DEF TypeOK

LEMMA WrittenType ==
    ASSUME NEW p \in Peers, NEW m \in Message, net \in [Peers -> Seq(Message)]
    PROVE  Written(p, m) \in [Peers -> Seq(Message)]
<1>1. Append(net[Other(p)], m) \in Seq(Message)
  BY PeerFacts, AppendFacts
<1> QED BY <1>1, PeerFacts DEF Written

LEMMA ReceivesType ==
    ASSUME TypeOK, NEW p \in Peers, Receives(p)
    PROVE  /\ phase' \in [Peers -> Phases]
           /\ window' \in [Peers -> Windows]
           /\ net' \in [Peers -> Seq(Message)]
           /\ first' \in Keys
           /\ connected' \in BOOLEAN
           /\ typed' \in [Peers -> Nat]
           /\ Head(net[p]) \in Message
<1>1. net[p] \in Seq(Message) /\ net[p] # <<>>
  BY DEF TypeOK, Receives
<1>2. Tail(net[p]) \in Seq(Message) /\ Head(net[p]) \in Message
  BY <1>1, TailFacts
<1> QED BY <1>2 DEF TypeOK, Receives, Windows

LEMMA NextType == TypeOK /\ [Next]_vars => TypeOK'
<1> SUFFICES ASSUME TypeOK, [Next]_vars
             PROVE  TypeOK'
  OBVIOUS
<1> USE PeerFacts
<1> USE DEF TypeOK
<1>1. CASE Call
  <2>1. board'[Caller] \in Boards /\ board' \in [Peers -> Boards]
    <3>1. SendTokenShared(board[Caller], STARTER, Caller) \in Boards
      BY SendTokenFacts
    <3> QED BY <1>1, <3>1 DEF Call
  <2>2. Token(board'[Caller].my_k) \in Message
    BY <2>1, MessageFacts DEF Boards
  <2>3. Append(net[Callee], Token(board'[Caller].my_k)) \in Seq(Message)
    BY <2>2, AppendFacts
  <2> QED BY <1>1, <2>1, <2>3 DEF Call, Phases, Windows
<1>2. CASE CallUnanswered
  <2>1. board' \in [Peers -> Boards]
    <3>1. SendTokenShared(board[Caller], STARTER, Caller) \in Boards
      BY SendTokenFacts
    <3> QED BY <1>2, <3>1 DEF CallUnanswered
  <2> QED BY <1>2, <2>1 DEF CallUnanswered, Phases
<1>3. CASE Accept
  BY <1>3 DEF Accept, Phases
<1>4. CASE AnswerToken
  <2>1. board'[Callee] \in Boards /\ board' \in [Peers -> Boards]
    BY <1>4, SendTokenFacts DEF AnswerToken
  <2>2. Token(board'[Callee].my_k) \in Message
    BY <2>1, MessageFacts DEF Boards
  <2>3. Written(Callee, Token(board'[Callee].my_k)) \in [Peers -> Seq(Message)]
    BY <2>2, WrittenType
  <2>4. net[Callee] \in Seq(Message) /\ net[Callee] # <<>>
    BY <1>4 DEF AnswerToken
  <2>5. Head(net[Callee]) \in Message /\ Tail(net[Callee]) \in Seq(Message)
    BY <2>4, TailFacts
  <2>6. Written(Callee, Token(board'[Callee].my_k))[Callee] = net[Callee]
    BY DEF Written
  <2> QED BY <1>4, <2>1, <2>3, <2>5, <2>6 DEF AnswerToken, Phases, Message
<1>5. CASE DeriveKey
  <2>1. board' \in [Peers -> Boards]
    BY <1>5, ReceivedTokenFacts DEF DeriveKey
  <2> QED BY <1>5, <2>1 DEF DeriveKey, Phases
<1>6. CASE TakeAnswer
  <2>1. net[Caller] \in Seq(Message) /\ net[Caller] # <<>>
    BY <1>6 DEF TakeAnswer
  <2>2. Head(net[Caller]) \in Message /\ Tail(net[Caller]) \in Seq(Message)
    BY <2>1, TailFacts
  <2>3. Head(net[Caller]).key \in Keys
    BY <2>2 DEF Message
  <2>4. board' \in [Peers -> Boards]
    BY <1>6, <2>3, ReceivedTokenFacts DEF TakeAnswer
  <2> QED BY <1>6, <2>2, <2>4 DEF TakeAnswer, Phases, Windows
<1>7. ASSUME NEW p \in Peers, NEW w \in Words, Send(p, w)
      PROVE  TypeOK'
  <2>1. board'[p] \in Boards /\ board' \in [Peers -> Boards]
    BY <1>7, EncryptFacts DEF Send
  <2>2. typed'[p] \in Nat /\ typed' \in [Peers -> Nat]
    BY <1>7 DEF Send
  <2>3. Cipher(board'[p], typed'[p], w) \in Message
    BY <2>1, <2>2, LinkAssumption, MessageFacts
  <2>4. net' \in [Peers -> Seq(Message)]
    BY <1>7, <2>3, WrittenType DEF Send
  <2> QED BY <1>7, <2>1, <2>2, <2>4 DEF Send
<1>8. ASSUME NEW p \in Peers, SendFails(p)
      PROVE  TypeOK'
  <2>1. board' \in [Peers -> Boards]
    BY <1>8, EncryptFacts DEF SendFails
  <2> QED BY <1>8, <2>1 DEF SendFails, Windows
<1>9. ASSUME NEW p \in Peers, ReadHashing(p)
      PROVE  TypeOK'
  <2>1. board' \in [Peers -> Boards]
    BY <1>9, HashingFacts DEF ReadHashing
  <2> QED BY <1>9, <2>1, ReceivesType DEF ReadHashing, Verdicts
<1>10. ASSUME NEW p \in Peers, ReadNumbered(p)
       PROVE  TypeOK'
  <2>1. Receives(p) /\ Head(net[p]) \in Message
    BY <1>10, ReceivesType DEF ReadNumbered
  <2>2. PICK n \in NumbersRead(board[p], Head(net[p])) :
           /\ board' = [board EXCEPT ![p] = DecryptNumbered(@, n)]
           /\ \/ /\ verdict' = [verdict EXCEPT ![p] = "confirmed"]
                 /\ shown' = IF Head(net[p]).word THEN shown
                             ELSE [shown EXCEPT ![p] = Head(net[p]).text]
              \/ /\ verdict' = [verdict EXCEPT ![p] = "wrong"]
                 /\ UNCHANGED shown
    BY <1>10 DEF ReadNumbered
  <2>3. n \in Int16
    BY <2>1, <2>2 DEF NumbersRead, Message
  <2>4. board' \in [Peers -> Boards]
    BY <2>2, <2>3, NumberedFacts
  <2>5. verdict' \in [Peers -> Verdicts] /\ shown' \in [Peers -> Nat]
    BY <2>1, <2>2 DEF Verdicts, Message
  <2> QED BY <2>1, <2>4, <2>5, ReceivesType
<1>11. ASSUME NEW p \in Peers, Hangup(p)
       PROVE  TypeOK'
  <2>1. Written(p, EndMessage) \in [Peers -> Seq(Message)] /\ <<>> \in Seq(Message)
    BY MessageFacts, WrittenType, EmptySeq
  <2> QED BY <1>11, <2>1 DEF Hangup, Phases, Windows
<1>12. ASSUME NEW p \in Peers, ReadEnd(p)
       PROVE  TypeOK'
  BY <1>12, EmptySeq DEF ReadEnd, Phases, Windows
<1>13. CASE LinkLost
  <2>1. PICK arrived \in [Peers -> 0 .. MaxInFlight + 2] :
           /\ \A p \in Peers : arrived[p] <= Len(net[p])
           /\ net' = [p \in Peers |-> Prefix(net[p], arrived[p])]
    BY <1>13 DEF LinkLost
  <2>2. ASSUME NEW p \in Peers
        PROVE  Prefix(net[p], arrived[p]) \in Seq(Message)
    <3>1. net[p] \in Seq(Message) /\ Len(net[p]) \in Nat
      BY LenProperties
    <3>2. arrived[p] \in 0 .. Len(net[p])
      BY <2>1, <3>1, LinkAssumption
    <3> QED BY <3>1, <3>2, PrefixFacts
  <2> QED BY <1>13, <2>1, <2>2 DEF LinkLost
<1>14. ASSUME NEW p \in Peers, ListenerDies(p)
       PROVE  TypeOK'
  BY <1>14 DEF ListenerDies, Phases
<1>15. CASE UNCHANGED vars
  BY <1>15 DEF vars
<1> QED
  BY <1>1, <1>2, <1>3, <1>4, <1>5, <1>6, <1>7, <1>8, <1>9, <1>10, <1>11, <1>12, <1>13,
     <1>14, <1>15 DEF Next, Listen

\* Every variable of the link keeps its type: sixteen-bit counters wrap around
\* and never leave their range, however many texts are sent.
THEOREM TypeCorrect == Spec => []TypeOK
BY InitType, NextType, PTL DEF Spec

-------------------------------------------------------------------------------
(*************** What each action does, from one peer's side ***************)

LEMMA TokenSentEffect ==
    ASSUME TypeOK, NEW p \in Peers, NEW t \in {STARTER, NO_STARTER},
           board' = [board EXCEPT ![p] = SendTokenShared(@, t, p)]
    PROVE  /\ board'[p].x = IF t = STARTER THEN 0 ELSE 1
           /\ board'[p].in_seq_no = 0 /\ board'[p].out_seq_no = 0
           /\ board'[p].my_f = {p} /\ board'[p].my_k = {p}
           /\ board'[Other(p)] = board[Other(p)]
<1>1. board[p] \in Boards /\ board \in [Peers -> Boards] /\ p \in Secrets
  BY PeerFacts DEF TypeOK
<1>2. board'[p] = SendTokenShared(board[p], t, p) /\ board'[Other(p)] = board[Other(p)]
  BY <1>1, PeerFacts
<1> QED BY <1>1, <1>2, SendTokenFacts

LEMMA KeyEffect ==
    ASSUME TypeOK, NEW p \in Peers, NEW k \in Keys,
           board' = [board EXCEPT ![p] = ReceivedTokenShared(@, k)]
    PROVE  /\ board'[p].x = board[p].x
           /\ board'[p].in_seq_no = board[p].in_seq_no
           /\ board'[p].out_seq_no = board[p].out_seq_no
           /\ board[p].my_f # {} => board'[p].my_k = k \cup board[p].my_f
           /\ board'[Other(p)] = board[Other(p)]
<1>1. board[p] \in Boards /\ board \in [Peers -> Boards]
  BY DEF TypeOK
<1>2. board'[p] = ReceivedTokenShared(board[p], k) /\ board'[Other(p)] = board[Other(p)]
  BY <1>1, PeerFacts
<1> QED BY <1>1, <1>2, ReceivedTokenFacts

LEMMA EncryptEffect ==
    ASSUME TypeOK, NEW p \in Peers,
           board' = [board EXCEPT ![p] = EncryptMessage(@)]
    PROVE  /\ SameRole(board'[p], board[p])
           /\ board'[p].in_seq_no = board[p].in_seq_no
           /\ board'[p].out_seq_no = NumberAfter(board[p].out_seq_no, board[p].x)
           /\ board'[Other(p)] = board[Other(p)]
<1>1. board[p] \in Boards /\ board \in [Peers -> Boards]
  BY DEF TypeOK
<1>2. board'[p] = EncryptMessage(board[p]) /\ board'[Other(p)] = board[Other(p)]
  BY <1>1, PeerFacts
<1> QED BY <1>1, <1>2, EncryptFacts

\* A listener thread takes one message and its board one number.
Takes(p) ==
    /\ Receives(p)
    /\ SameRole(board'[p], board[p])
    /\ board'[p].out_seq_no = board[p].out_seq_no
    /\ board'[Other(p)] = board[Other(p)]
    /\ verdict'[Other(p)] = verdict[Other(p)]
    /\ shown'[Other(p)] = shown[Other(p)]
    /\ shown'[p] \in {shown[p], Head(net[p]).text}

LEMMA HashingEffect ==
    ASSUME TypeOK, NEW p \in Peers, ReadHashing(p)
    PROVE  Takes(p) /\ verdict'[p] = "HASHING" /\ shown' = shown
<1>1. board[p] \in Boards /\ board \in [Peers -> Boards]
  BY DEF TypeOK
<1>2. board'[p] = DecryptHashing(board[p]) /\ board'[Other(p)] = board[Other(p)]
  BY <1>1, PeerFacts DEF ReadHashing
<1>3. verdict'[p] = "HASHING" /\ verdict'[Other(p)] = verdict[Other(p)] /\ shown' = shown
  BY PeerFacts DEF ReadHashing, TypeOK
<1>4. SameRole(board'[p], board[p]) /\ board'[p].out_seq_no = board[p].out_seq_no
  BY <1>1, <1>2, HashingFacts
<1>5. Receives(p)
  BY DEF ReadHashing
<1> QED BY <1>2, <1>3, <1>4, <1>5 DEF Takes

LEMMA NumberedEffect ==
    ASSUME TypeOK, NEW p \in Peers, ReadNumbered(p)
    PROVE  /\ Takes(p)
           /\ board'[p].in_seq_no \in NumbersRead(board[p], Head(net[p]))
           /\ \/ /\ NumberAccepted(board[p], board'[p].in_seq_no)
                 /\ verdict'[p] = "confirmed"
                 /\ shown'[p] = IF Head(net[p]).word THEN shown[p] ELSE Head(net[p]).text
              \/ /\ ~ NumberAccepted(board[p], board'[p].in_seq_no)
                 /\ verdict'[p] = "wrong" /\ shown'[p] = shown[p]
<1>1. board[p] \in Boards /\ board \in [Peers -> Boards]
  BY DEF TypeOK
<1>2. Receives(p) /\ Head(net[p]) \in Message
  BY ReceivesType DEF ReadNumbered
<1>3. PICK n \in NumbersRead(board[p], Head(net[p])) :
         /\ board' = [board EXCEPT ![p] = DecryptNumbered(@, n)]
         /\ \/ /\ NumberAccepted(board[p], n)
               /\ verdict' = [verdict EXCEPT ![p] = "confirmed"]
               /\ shown' = IF Head(net[p]).word THEN shown
                           ELSE [shown EXCEPT ![p] = Head(net[p]).text]
            \/ /\ ~ NumberAccepted(board[p], n)
               /\ verdict' = [verdict EXCEPT ![p] = "wrong"]
               /\ UNCHANGED shown
  BY DEF ReadNumbered
<1>4. n \in Int16
  BY <1>2, <1>3 DEF NumbersRead, Message
<1>5. board'[p] = DecryptNumbered(board[p], n) /\ board'[Other(p)] = board[Other(p)]
  BY <1>1, <1>3, PeerFacts
<1>6. /\ board'[p].in_seq_no = n /\ board'[p].out_seq_no = board[p].out_seq_no
      /\ SameRole(board'[p], board[p])
  BY <1>1, <1>4, <1>5, NumberedFacts
<1>7. verdict'[Other(p)] = verdict[Other(p)] /\ shown'[Other(p)] = shown[Other(p)]
  BY <1>3, PeerFacts DEF TypeOK
<1>a. shown'[p] \in {shown[p], Head(net[p]).text}
  BY <1>3 DEF TypeOK
<1>8. Takes(p)
  BY <1>2, <1>5, <1>6, <1>7, <1>a DEF Takes
<1>9. CASE NumberAccepted(board[p], n)
  <2>1. verdict'[p] = "confirmed"
    BY <1>3, <1>9 DEF TypeOK
  <2>2. shown'[p] = IF Head(net[p]).word THEN shown[p] ELSE Head(net[p]).text
    BY <1>3, <1>9 DEF TypeOK
  <2> QED BY <1>3, <1>6, <1>8, <1>9, <2>1, <2>2
<1>10. CASE ~ NumberAccepted(board[p], n)
  <2>1. verdict'[p] = "wrong" /\ shown'[p] = shown[p]
    BY <1>3, <1>10 DEF TypeOK
  <2> QED BY <1>3, <1>6, <1>8, <1>10, <2>1
<1> QED BY <1>9, <1>10

LEMMA ReceivesEffect ==
    ASSUME TypeOK, NEW p \in Peers, Receives(p)
    PROVE  /\ net[p] \in Seq(Message) /\ net[p] # <<>>
           /\ Len(net[p]) \in Nat /\ Len(net[p]) >= 1
           /\ net'[p] = Tail(net[p]) /\ net'[Other(p)] = net[Other(p)]
           /\ net[p][1] \in Message /\ Head(net[p]) = net[p][1] /\ net[p][1].kind # "END"
           /\ Len(net'[p]) = Len(net[p]) - 1
           /\ \A i \in 1 .. Len(net[p]) - 1 : net'[p][i] = net[p][i + 1]
           /\ net'[p] = <<>> <=> Len(net[p]) = 1
           /\ phase[p] = "open"
           /\ window'[Other(p)] = window[Other(p)]
           /\ window'[p] = IF window[p] = "none" THEN "usable" ELSE window[p]
<1>1. net[p] \in Seq(Message) /\ net[p] # <<>>
  BY DEF TypeOK, Receives
<1>2. net'[p] = Tail(net[p]) /\ net'[Other(p)] = net[Other(p)]
  BY PeerFacts DEF TypeOK, Receives
<1>3. window' = [window EXCEPT ![p] = IF @ = "none" THEN "usable" ELSE @]
  BY DEF Receives
<1>4. /\ window'[p] = IF window[p] = "none" THEN "usable" ELSE window[p]
      /\ window'[Other(p)] = window[Other(p)]
  BY <1>3, PeerFacts DEF TypeOK
<1> QED BY <1>1, <1>2, <1>4, TailFacts DEF Receives

\* What a write does to the connection: one message more at the end, or nothing.
LEMMA WrittenEffect ==
    ASSUME TypeOK, NEW p \in Peers, NEW m \in Message
    PROVE  LET q == Other(p)
               n == Written(p, m)
           IN  /\ n[p] = net[p]
               /\ net[q] \in Seq(Message) /\ Len(net[q]) \in Nat
               /\ ~ (connected /\ phase[q] # "closed") => n[q] = net[q]
               /\ connected /\ phase[q] # "closed" =>
                    /\ Len(n[q]) = Len(net[q]) + 1
                    /\ n[q] # <<>>
                    /\ n[q][Len(net[q]) + 1] = m
                    /\ \A i \in 1 .. Len(net[q]) : n[q][i] = net[q][i]
<1> DEFINE q == Other(p)
<1>1. q \in Peers /\ q # p /\ net \in [Peers -> Seq(Message)] /\ net[q] \in Seq(Message)
  BY PeerFacts DEF TypeOK
<1>2. Len(net[q]) \in Nat
  BY <1>1, LenProperties
<1>3. Written(p, m)[p] = net[p]
  BY <1>1 DEF Written
<1>4. ~ (connected /\ phase[q] # "closed") => Written(p, m)[q] = net[q]
  BY <1>1 DEF Written
<1>5. connected /\ phase[q] # "closed" => Written(p, m)[q] = Append(net[q], m)
  BY <1>1 DEF Written
<1> QED BY <1>1, <1>2, <1>3, <1>4, <1>5, AppendFacts

\* A lost connection keeps a first part of what it held.
LEMMA LostEffect ==
    ASSUME TypeOK, LinkLost, NEW p \in Peers
    PROVE  /\ net[p] \in Seq(Message) /\ net'[p] \in Seq(Message)
           /\ Len(net[p]) \in Nat /\ Len(net'[p]) \in Nat /\ Len(net'[p]) <= Len(net[p])
           /\ \A i \in 1 .. Len(net'[p]) : net'[p][i] = net[p][i]
           /\ net[p] = <<>> => net'[p] = <<>>
           /\ net'[p] # <<>> => Len(net'[p]) >= 1
<1>1. PICK arrived \in [Peers -> 0 .. MaxInFlight + 2] :
         /\ \A q \in Peers : arrived[q] <= Len(net[q])
         /\ net' = [q \in Peers |-> Prefix(net[q], arrived[q])]
  BY DEF LinkLost
<1>2. net[p] \in Seq(Message) /\ Len(net[p]) \in Nat
  BY LenProperties DEF TypeOK
<1>3. arrived[p] \in 0 .. Len(net[p])
  BY <1>1, <1>2, LinkAssumption
<1>4. /\ net'[p] \in Seq(Message) /\ Len(net'[p]) = arrived[p]
      /\ \A i \in 1 .. arrived[p] : net'[p][i] = net[p][i]
  BY <1>1, <1>2, <1>3, PrefixFacts
<1>5. net'[p] # <<>> => Len(net'[p]) \in Nat \ {0}
  BY <1>4, EmptySeq
<1>6. net[p] = <<>> => Len(net[p]) = 0
  BY EmptySeq
<1> QED BY <1>2, <1>3, <1>4, <1>5, <1>6

\* What waits for a peer whose handshake is not over is the other's token.
LEMMA HeadIsToken ==
    ASSUME TypeOK, NetInv, NEW p \in Peers,
           Before(p), net[p] # <<>>, Head(net[p]).kind # "END"
    PROVE  Head(net[p]).kind = "token" /\ TokenOK(p, Head(net[p]))
<1>1. net[p] \in Seq(Message)
  BY DEF TypeOK
<1>2. /\ Head(net[p]) = net[p][1] /\ Head(net[p]) \in Message
      /\ Len(net[p]) \in Nat /\ Len(net[p]) >= 1
  BY <1>1, TailFacts
<1>3. 1 \in 1 .. Len(net[p])
  BY <1>2
<1>4. Head(net[p]).kind # "cipher"
  BY <1>2, <1>3, PeerFacts DEF NetInv, ItemOK, CipherOK, Past
<1>5. Head(net[p]).kind = "token"
  BY <1>2, <1>4 DEF Message
<1> QED BY <1>2, <1>3, <1>5 DEF NetInv, ItemOK

-------------------------------------------------------------------------------
(**************************** The handshake ********************************)

LEMMA InitHandshake == Init => HandshakeInv
BY PeerFacts DEF Init, HandshakeInv, PoweredUp, Before, Past, InUse, Keyed, Roles

LEMMA HandshakeNext == IInv /\ [Next]_vars => HandshakeInv'
<1> SUFFICES ASSUME IInv, [Next]_vars
             PROVE  HandshakeInv'
  OBVIOUS
<1> USE PeerFacts
<1>0. TypeOK /\ HandshakeInv /\ NetInv
  BY DEF IInv
<1> USE DEF Before, Past, InUse, Keyed, Roles, SameRole
<1>1. CASE Call
  <2>1. /\ board'[Callee] = board[Callee]
        /\ board'[Caller].x = 0 /\ board'[Caller].in_seq_no = 0
        /\ board'[Caller].out_seq_no = 0 /\ board'[Caller].my_f = {Caller}
    BY <1>1, <1>0, TokenSentEffect DEF Call
  <2> QED BY <1>1, <1>0, <2>1 DEF Call, HandshakeInv, TypeOK
<1>2. CASE CallUnanswered
  <2>1. /\ board'[Callee] = board[Callee]
        /\ board'[Caller].x = 0 /\ board'[Caller].in_seq_no = 0
        /\ board'[Caller].out_seq_no = 0 /\ board'[Caller].my_f = {Caller}
    BY <1>2, <1>0, TokenSentEffect DEF CallUnanswered
  <2> QED BY <1>2, <1>0, <2>1 DEF CallUnanswered, HandshakeInv, TypeOK
<1>3. CASE Accept
  BY <1>0, <1>3 DEF Accept, HandshakeInv, TypeOK
<1>4. CASE AnswerToken
  <2>1. /\ board'[Caller] = board[Caller]
        /\ board'[Callee].x = 1 /\ board'[Callee].in_seq_no = 0
        /\ board'[Callee].out_seq_no = 0 /\ board'[Callee].my_f = {Callee}
    <3>1. NO_STARTER # STARTER
      BY DEF STARTER, NO_STARTER
    <3>2. board' = [board EXCEPT ![Callee] = SendTokenShared(@, NO_STARTER, Callee)]
      BY <1>4 DEF AnswerToken
    <3> QED BY <1>0, <3>1, <3>2, TokenSentEffect
  <2>2. first' = {Caller}
    <3>1. TokenOK(Callee, Head(net[Callee]))
      BY <1>0, <1>4, HeadIsToken DEF AnswerToken
    <3> QED BY <1>4, <3>1 DEF AnswerToken, TokenOK
  <2>3. /\ phase[Caller] # "idle" /\ phase[Callee] = "awaitToken"
        /\ phase'[Callee] = "deriving" /\ phase'[Caller] = phase[Caller]
        /\ window' = window /\ connected' = connected /\ typed' = typed
        /\ verdict' = verdict /\ shown' = shown
    BY <1>4, <1>0 DEF AnswerToken, HandshakeInv, TypeOK
  <2>4. /\ phase[Caller] = "closed" => net'[Caller] = net[Caller]
        /\ phase[Caller] = "broken" => net'[Caller] = net[Caller]
    BY <1>4, <1>0 DEF AnswerToken, HandshakeInv, TypeOK, Written
  <2> QED BY <1>0, <2>1, <2>2, <2>3, <2>4 DEF HandshakeInv
<1>5. CASE DeriveKey
  <2>0. /\ first \in Keys /\ board[Callee].my_f # {}
        /\ first \cup board[Callee].my_f = {Caller, Callee}
    BY <1>5, <1>0 DEF DeriveKey, TypeOK, HandshakeInv
  <2>1. /\ board'[Caller] = board[Caller]
        /\ board'[Callee].x = board[Callee].x
        /\ board'[Callee].in_seq_no = board[Callee].in_seq_no
        /\ board'[Callee].out_seq_no = board[Callee].out_seq_no
        /\ board'[Callee].my_k = {Caller, Callee}
    BY <1>5, <1>0, <2>0, KeyEffect DEF DeriveKey
  <2> QED BY <1>5, <1>0, <2>1 DEF DeriveKey, HandshakeInv, TypeOK
<1>6. CASE TakeAnswer
  <2>2. Head(net[Caller]).key = {Callee} /\ ~ Before(Callee) /\ Roles
    <3>1. TokenOK(Caller, Head(net[Caller]))
      BY <1>0, <1>6, HeadIsToken DEF TakeAnswer
    <3> QED BY <3>1 DEF TokenOK
  <2>1. /\ board'[Callee] = board[Callee]
        /\ board'[Caller].x = board[Caller].x
        /\ board'[Caller].my_k = {Caller, Callee}
    <3>1. {Callee} \in Keys /\ board[Caller].my_f = {Caller}
      BY <1>0, <1>6 DEF TakeAnswer, HandshakeInv, Keys
    <3>2. board' = [board EXCEPT ![Caller] = ReceivedTokenShared(@, {Callee})]
      BY <1>6, <2>2 DEF TakeAnswer
    <3>3. {Callee} \cup {Caller} = {Caller, Callee}
      OBVIOUS
    <3> QED BY <1>0, <3>1, <3>2, <3>3, KeyEffect
  <2> QED BY <1>6, <1>0, <2>1, <2>2 DEF TakeAnswer, HandshakeInv, TypeOK
<1>7. ASSUME NEW p \in Peers, NEW w \in Words, Send(p, w)
      PROVE  HandshakeInv'
  <2>1. /\ board'[p].x = board[p].x /\ board'[p].my_k = board[p].my_k
        /\ board'[p].my_f = board[p].my_f
        /\ board'[Other(p)] = board[Other(p)]
    BY <1>0, <1>7, EncryptEffect DEF Send
  <2>2. Past /\ Roles /\ Keyed(p)
    BY <1>0, <1>7 DEF Send, HandshakeInv
  <2>3. /\ phase' = phase /\ window' = window /\ first' = first /\ connected' = connected
        /\ phase[Other(p)] = "closed" => net'[Other(p)] = net[Other(p)]
        /\ ~ connected => net'[Other(p)] = net[Other(p)]
        /\ net'[p] = net[p]
    BY <1>7, <1>0 DEF Send, Written, TypeOK
  <2> QED BY <1>0, <2>1, <2>2, <2>3 DEF HandshakeInv
<1>8. ASSUME NEW p \in Peers, SendFails(p)
      PROVE  HandshakeInv'
  <2>1. /\ board'[p].x = board[p].x /\ board'[p].my_k = board[p].my_k
        /\ board'[p].my_f = board[p].my_f
        /\ board'[Other(p)] = board[Other(p)]
    BY <1>0, <1>8, EncryptEffect DEF SendFails
  <2>2. Past /\ Roles /\ Keyed(p)
    BY <1>0, <1>8 DEF SendFails, HandshakeInv
  <2> QED BY <1>0, <1>8, <2>1, <2>2 DEF SendFails, HandshakeInv, TypeOK
<1>9. ASSUME NEW p \in Peers, Takes(p)
      PROVE  HandshakeInv'
  <2>1. /\ phase' = phase /\ first' = first /\ connected' = connected
        /\ typed' = typed
    BY <1>9 DEF Takes, Receives
  <2>2. /\ phase[p] = "open" /\ net[p] # <<>> /\ net'[Other(p)] = net[Other(p)]
        /\ window'[p] = IF window[p] = "none" THEN "usable" ELSE window[p]
        /\ window'[Other(p)] = window[Other(p)]
    BY <1>0, <1>9, ReceivesEffect DEF Takes
  <2>3. /\ board'[p].x = board[p].x /\ board'[p].my_k = board[p].my_k
        /\ board'[p].my_f = board[p].my_f
        /\ board'[Other(p)] = board[Other(p)]
    BY <1>9 DEF Takes
  <2>4. Past
    <3>1. net[p][1] \in Message /\ net[p][1].kind # "END" /\ Len(net[p]) >= 1 /\ Len(net[p]) \in Nat
      BY <1>0, <1>9, ReceivesEffect DEF Takes
    <3>2. net[p][1].kind = "cipher"
      BY <1>0, <2>2, <3>1 DEF NetInv, ItemOK, TokenOK, Message
    <3> QED BY <1>0, <3>1, <3>2 DEF NetInv, ItemOK, CipherOK
  <2>5. Past' /\ (Roles => Roles') /\ \A q \in Peers : Keyed(q) => Keyed(q)'
    BY <2>1, <2>3, <2>4
  <2>6. \A q \in Peers : board'[q].x = board[q].x /\ board'[q].my_f = board[q].my_f
    BY <2>3
  <2>7. ASSUME NEW q \in Peers
        PROVE  /\ InUse(q)' => Roles /\ Keyed(q)
               /\ phase'[q] \in {"closed", "broken"} => net'[q] = <<>>
               /\ phase'[q] = "closed" => window'[q] = "none"
    <3>1. CASE q = p
      BY <1>0, <2>1, <2>2, <3>1 DEF HandshakeInv
    <3>2. CASE q = Other(p)
      BY <1>0, <2>1, <2>2, <3>2 DEF HandshakeInv
    <3> QED BY <3>1, <3>2
  <2>8. window'[Callee] # "waiting"
    BY <1>0, <2>2 DEF HandshakeInv
  <2> QED BY <1>0, <2>1, <2>4, <2>5, <2>6, <2>7, <2>8 DEF HandshakeInv
<1>10. ASSUME NEW p \in Peers, Hangup(p)
       PROVE  HandshakeInv'
  <2>1. /\ board' = board /\ first' = first /\ connected' = connected
        /\ typed' = typed /\ shown' = shown /\ verdict' = verdict
        /\ phase'[p] = "closed" /\ phase'[Other(p)] = phase[Other(p)]
        /\ window'[p] = "none" /\ window'[Other(p)] = window[Other(p)]
        /\ window[p] # "none"
        /\ net'[p] = <<>>
        /\ phase[Other(p)] = "closed" \/ ~ connected => net'[Other(p)] = net[Other(p)]
    BY <1>10, <1>0 DEF Hangup, TypeOK, Written
  <2>2. phase[Caller] # "idle"
    <3>1. window[p] = "waiting" \/ InUse(p)
      BY <1>0, <2>1 DEF TypeOK, Windows
    <3>2. window[p] = "waiting" => p = Caller
      BY <1>0 DEF HandshakeInv
    <3> QED BY <1>0, <3>1, <3>2 DEF HandshakeInv
  <2>3. ASSUME NEW q \in Peers
        PROVE  /\ InUse(q)' => InUse(q)
               /\ Before(q)' => Before(q) /\ q = Other(p)
               /\ phase'[q] = "open" => phase[q] = "open"
               /\ phase'[q] = "deriving" => phase[q] = "deriving"
               /\ phase'[q] = "awaitToken" => phase[q] = "awaitToken"
               /\ phase'[q] = "broken" => phase[q] = "broken"
               /\ phase'[q] \in {"closed", "broken"} => net'[q] = <<>>
               /\ phase'[q] = "closed" => window'[q] = "none"
               /\ window'[q] = "waiting" => window[q] = "waiting"
    <3>1. CASE q = p
      BY <1>0, <2>1, <3>1 DEF HandshakeInv
    <3>2. CASE q = Other(p)
      BY <1>0, <2>1, <3>2 DEF HandshakeInv
    <3> QED BY <3>1, <3>2
  <2>4. p = Caller => phase'[Caller] = "closed"
    BY <2>1
  <2>5. (p = Callee /\ Before(Callee)) => phase'[Callee] = "closed"
    BY <2>1
  <2> QED BY <1>0, <2>1, <2>2, <2>3 DEF HandshakeInv
<1>11. ASSUME NEW p \in Peers, ReadEnd(p)
       PROVE  HandshakeInv'
  BY <1>0, <1>11 DEF ReadEnd, HandshakeInv, TypeOK
<1>12. CASE LinkLost
  <2>1. \A p \in Peers : net[p] = <<>> => net'[p] = <<>>
    BY <1>0, <1>12, LostEffect
  <2>2. /\ board' = board /\ first' = first /\ ~ connected'
        /\ typed' = typed /\ shown' = shown /\ verdict' = verdict
        /\ phase' = phase /\ window' = window
    BY <1>12 DEF LinkLost
  <2> QED BY <1>0, <2>1, <2>2 DEF HandshakeInv, TypeOK
<1>13. ASSUME NEW p \in Peers, ListenerDies(p)
       PROVE  HandshakeInv'
  BY <1>0, <1>13 DEF ListenerDies, HandshakeInv, TypeOK
<1>14. CASE UNCHANGED vars
  BY <1>0, <1>14 DEF vars, HandshakeInv
<1> QED
  <2>1. ASSUME NEW p \in Peers, Listen(p)
        PROVE  HandshakeInv'
    BY <1>0, <1>9, <1>11, <1>13, <2>1, HashingEffect, NumberedEffect DEF Listen
  <2> QED
    BY <1>1, <1>2, <1>3, <1>4, <1>5, <1>6, <1>7, <1>8, <1>10, <1>12, <1>14, <2>1 DEF Next

-------------------------------------------------------------------------------
(*************************** The connection ********************************)

LEMMA NetFacts ==
    ASSUME TypeOK, NEW p \in Peers
    PROVE  /\ net[p] \in Seq(Message) /\ Len(net[p]) \in Nat
           /\ net[p] # <<>> <=> Len(net[p]) >= 1
           /\ \A i \in 1 .. Len(net[p]) :
                 net[p][i] \in Message /\ net[p][i].kind \in {"token", "cipher", "END"}
<1>1. net[p] \in Seq(Message)
  BY DEF TypeOK
<1>2. Len(net[p]) \in Nat
  BY <1>1, LenProperties
<1>3. net[p] # <<>> <=> Len(net[p]) >= 1
  BY <1>1, <1>2, EmptySeq
<1>4. \A i \in 1 .. Len(net[p]) : net[p][i] \in Message
  BY <1>1, ElementOfSeq
<1> QED BY <1>1, <1>2, <1>3, <1>4 DEF Message

\* No ciphertext before the handshake is past, no token after one's own.
LEMMA KindsUnderWay ==
    ASSUME TypeOK, NetInv, NEW p \in Peers, NEW i \in 1 .. Len(net[p])
    PROVE  /\ ~ Past => ~ IsCipher(p, i)
           /\ ~ Before(p) => net[p][i].kind # "token"
           /\ phase[Other(p)] # "closed" => net[p][i].kind # "END"
           /\ i # 1 => net[p][i].kind # "token"
BY DEF NetInv, ItemOK, IsCipher, CipherOK, TokenOK

\* A message stays as good as it was when neither what it needs of the
\* handshake nor the two counts of texts moved against it.
LEMMA ItemStays ==
    ASSUME TypeOK, NEW p \in Peers, NEW i \in 1 .. Len(net[p]), ItemOK(p, i),
           NEW j \in 1 .. Len(net'[p]), net'[p][j] = net[p][i],
           IsCipher(p, i) =>
              /\ Past => Past'
              /\ Roles => Roles'
              /\ Keyed(Other(p)) => Keyed(Other(p))'
              /\ board'[Other(p)].x = board[Other(p)].x
              /\ shown'[p] < net[p][i].text
              /\ typed[Other(p)] <= typed'[Other(p)]
              /\ typed[Other(p)] \in Nat /\ typed'[Other(p)] \in Nat,
           net[p][i].kind = "token" =>
              /\ j = 1
              /\ Before(p)'
              /\ p = Caller => (Roles => Roles') /\ (~ Before(Callee) => ~ Before(Callee)'),
           net[p][i].kind = "END" =>
              /\ j = Len(net'[p])
              /\ phase'[Other(p)] = "closed"
    PROVE  ItemOK(p, j)'
<1>1. net[p][i] \in Message
  BY NetFacts
<1>2. net[p][i].text \in Nat
  BY <1>1 DEF Message
<1> QED BY <1>2 DEF ItemOK, IsCipher, CipherOK, TokenOK

LEMMA InitNet == Init => NetInv
<1> SUFFICES ASSUME Init PROVE NetInv
  OBVIOUS
<1>1. Len(<<>>) = 0
  OBVIOUS
<1> QED BY <1>1, PeerFacts DEF Init, NetInv

LEMMA NetNext == IInv /\ [Next]_vars => NetInv'
<1> SUFFICES ASSUME IInv, [Next]_vars
             PROVE  NetInv'
  OBVIOUS
<1> USE PeerFacts
<1>0. TypeOK /\ HandshakeInv /\ NetInv /\ ChainInv /\ TypeOK' /\ HandshakeInv'
  BY NextType, HandshakeNext DEF IInv
<1>s. /\ \A p \in Peers : /\ shown[p] \in Nat /\ typed[p] \in Nat
                          /\ shown'[p] \in Nat /\ typed'[p] \in Nat
      /\ \A p \in Peers : \A i \in 1 .. Len(net[p]) :
            /\ ItemOK(p, i)
            /\ IsCipher(p, i) => shown[p] < net[p][i].text
      /\ \A p \in Peers : shown[p] <= typed[Other(p)]
  BY <1>0 DEF TypeOK, NetInv, ItemOK, IsCipher, CipherOK
<1>1. CASE Call
  <2>1. /\ net'[Callee] = Append(net[Callee], Token(board'[Caller].my_k))
        /\ net[Callee] = <<>> /\ net'[Caller] = <<>>
        /\ phase'[Callee] = "idle"
        /\ shown' = shown /\ typed' = typed
    BY <1>0, <1>1 DEF Call, HandshakeInv, TypeOK
  <2>2. board'[Caller].my_k = {Caller}
    BY <1>0, <1>1, TokenSentEffect DEF Call
  <2>3. Len(net'[Callee]) = 1 /\ net'[Callee][1] = Token({Caller})
    BY <2>1, <2>2
  <2>4. ItemOK(Callee, 1)'
    BY <2>1, <2>3 DEF ItemOK, TokenOK, Token, Before
  <2>5. Len(net'[Caller]) = 0
    BY <2>1
  <2>6. /\ \A i \in 1 .. Len(net'[Callee]) : ItemOK(Callee, i)'
        /\ \A i \in 1 .. Len(net'[Caller]) : ItemOK(Caller, i)'
    BY <2>3, <2>4, <2>5
  <2> QED BY <1>s, <2>1, <2>6 DEF NetInv
<1>2. CASE CallUnanswered
  <2>1. /\ net' = net /\ shown' = shown /\ typed' = typed
        /\ \A p \in Peers : net[p] = <<>>
    BY <1>0, <1>2 DEF CallUnanswered, HandshakeInv
  <2>2. \A p \in Peers : Len(net'[p]) = 0
    BY <2>1
  <2> QED BY <1>s, <2>1, <2>2 DEF NetInv
<1>3. CASE Accept
  <2>1. /\ net' = net /\ shown' = shown /\ typed' = typed /\ board' = board
        /\ \A p \in Peers : (Before(p) <=> Before(p)')
        /\ phase'[Caller] = phase[Caller] /\ phase[Callee] # "closed"
    BY <1>0, <1>3 DEF Accept, TypeOK, Before
  <2>2. ASSUME NEW p \in Peers, NEW i \in 1 .. Len(net'[p])
        PROVE  ItemOK(p, i)'
    <3>1. i \in 1 .. Len(net[p]) /\ ItemOK(p, i) /\ net'[p][i] = net[p][i]
      BY <1>s, <2>1
    <3>2. net[p][i].kind = "token" => i = 1 /\ Before(p)
      BY <3>1 DEF ItemOK, TokenOK
    <3>3. net[p][i].kind = "END" => i = Len(net'[p]) /\ phase'[Other(p)] = "closed"
      BY <2>1, <3>1 DEF ItemOK
    <3> QED BY <1>0, <1>s, <2>1, <3>1, <3>2, <3>3, ItemStays DEF Past, Roles, Keyed
  <2> QED BY <1>s, <2>1, <2>2 DEF NetInv
<1>4. CASE AnswerToken
  <2> DEFINE m == Token({Callee})
  <2>1. /\ net[Callee] # <<>> /\ net[Caller] = <<>>
        /\ shown' = shown /\ typed' = typed
        /\ phase[Callee] = "awaitToken" /\ phase'[Callee] = "deriving"
        /\ phase'[Caller] = phase[Caller] /\ ~ Past
    BY <1>0, <1>4 DEF AnswerToken, HandshakeInv, TypeOK, Before, Past
  <2>2. board'[Callee].my_k = {Callee}
    <3>1. board' = [board EXCEPT ![Callee] = SendTokenShared(@, NO_STARTER, Callee)]
      BY <1>4 DEF AnswerToken
    <3> QED BY <1>0, <3>1, TokenSentEffect
  <2>3. m \in Message
    BY MessageFacts DEF Keys
  <2>4. /\ net'[Callee] = Tail(net[Callee])
        /\ net'[Caller] = Written(Callee, m)[Caller]
    <3>1. Written(Callee, m)[Callee] = net[Callee] /\ Written(Callee, m) \in [Peers -> Seq(Message)]
      BY <1>0, <2>3, WrittenEffect, WrittenType DEF TypeOK
    <3> QED BY <1>4, <2>2, <3>1 DEF AnswerToken
  <2>5. ASSUME NEW j \in 1 .. Len(net'[Callee])
        PROVE  ItemOK(Callee, j)'
    <3>1. /\ Len(net[Callee]) \in Nat /\ Len(net'[Callee]) = Len(net[Callee]) - 1
          /\ net'[Callee][j] = net[Callee][j + 1]
          /\ j + 1 \in 1 .. Len(net[Callee]) /\ j + 1 # 1
      BY <1>0, <2>1, <2>4, TailFacts DEF TypeOK
    <3>2. net[Callee][j + 1].kind # "token" /\ ~ IsCipher(Callee, j + 1)
      BY <1>0, <2>1, <3>1, KindsUnderWay
    <3>3. ItemOK(Callee, j + 1)
      BY <1>s, <3>1
    <3>4. net[Callee][j + 1].kind = "END" =>
             j = Len(net'[Callee]) /\ phase'[Caller] = "closed"
      BY <2>1, <3>1, <3>3 DEF ItemOK
    <3> QED BY <1>0, <3>1, <3>2, <3>3, <3>4, ItemStays
  <2>6. ASSUME NEW j \in 1 .. Len(net'[Caller])
        PROVE  ItemOK(Caller, j)'
    <3>1. Len(net[Caller]) = 0
      BY <2>1
    <3>2. connected /\ phase[Caller] # "closed"
      BY <1>0, <2>3, <2>4, <3>1, WrittenEffect
    <3>a. /\ Len(net'[Caller]) = Len(net[Caller]) + 1
          /\ net'[Caller][Len(net[Caller]) + 1] = m
      BY <1>0, <2>3, <2>4, <3>2, WrittenEffect
    <3>3. Len(net'[Caller]) = 1 /\ net'[Caller][1] = m /\ j = 1
      BY <3>1, <3>a
    <3>4. phase[Caller] = "awaitToken"
      BY <1>0, <2>1, <3>2 DEF HandshakeInv, TypeOK, Phases, Before
    <3>5. Roles' /\ ~ Before(Callee)' /\ Before(Caller)'
      BY <1>0, <2>1, <3>4 DEF HandshakeInv, Before
    <3> QED BY <3>3, <3>5 DEF ItemOK, TokenOK, Token
  <2> QED BY <1>s, <2>1, <2>5, <2>6 DEF NetInv
<1>5. CASE DeriveKey
  <2>1. /\ net' = net /\ shown' = shown /\ typed' = typed
        /\ phase[Callee] = "deriving" /\ phase'[Callee] = "open"
        /\ phase'[Caller] = phase[Caller]
    BY <1>0, <1>5 DEF DeriveKey, TypeOK
  <2>2. Roles /\ Roles' /\ Keyed(Callee)' /\ (Past => Past')
    BY <1>0, <2>1 DEF HandshakeInv, Before, Past
  <2>3. board'[Caller] = board[Caller] /\ board'[Callee].x = board[Callee].x
    BY <1>0, <1>5, KeyEffect DEF DeriveKey, TypeOK
  <2>4. ASSUME NEW p \in Peers, NEW i \in 1 .. Len(net'[p])
        PROVE  ItemOK(p, i)'
    <3>1. i \in 1 .. Len(net[p]) /\ ItemOK(p, i) /\ net'[p][i] = net[p][i]
      BY <1>s, <2>1
    <3>2. net[p][i].kind = "token" =>
             i = 1 /\ Before(p)' /\ ~ Before(Callee)'
      BY <2>1, <3>1 DEF ItemOK, TokenOK, Before
    <3>3. net[p][i].kind = "END" => i = Len(net'[p]) /\ phase'[Other(p)] = "closed"
      BY <2>1, <3>1 DEF ItemOK
    <3>4. /\ Keyed(Other(p)) => Keyed(Other(p))'
          /\ board'[Other(p)].x = board[Other(p)].x
      BY <2>2, <2>3 DEF Keyed
    <3> QED BY <1>0, <1>s, <2>1, <2>2, <3>1, <3>2, <3>3, <3>4, ItemStays
  <2> QED BY <1>s, <2>1, <2>4 DEF NetInv
<1>6. CASE TakeAnswer
  <2>1. /\ shown' = shown /\ typed' = typed
        /\ net[Caller] # <<>> /\ net'[Caller] = Tail(net[Caller])
        /\ net'[Callee] = net[Callee]
        /\ phase[Caller] = "awaitToken"
        /\ phase'[Callee] = phase[Callee] /\ ~ Past
    BY <1>0, <1>6 DEF TakeAnswer, TypeOK, Before, Past
  <2>2. ~ Before(Callee)
    BY <1>0, <2>1 DEF HandshakeInv
  <2>3. ASSUME NEW j \in 1 .. Len(net'[Caller])
        PROVE  ItemOK(Caller, j)'
    <3>1. /\ Len(net[Caller]) \in Nat /\ Len(net'[Caller]) = Len(net[Caller]) - 1
          /\ net'[Caller][j] = net[Caller][j + 1]
          /\ j + 1 \in 1 .. Len(net[Caller]) /\ j + 1 # 1
      BY <1>0, <2>1, TailFacts DEF TypeOK
    <3>2. net[Caller][j + 1].kind # "token" /\ ~ IsCipher(Caller, j + 1)
      BY <1>0, <2>1, <3>1, KindsUnderWay
    <3>3. ItemOK(Caller, j + 1)
      BY <1>s, <3>1
    <3>4. net[Caller][j + 1].kind = "END" =>
             j = Len(net'[Caller]) /\ phase'[Callee] = "closed"
      BY <2>1, <3>1, <3>3 DEF ItemOK
    <3> QED BY <1>0, <3>1, <3>2, <3>3, <3>4, ItemStays
  <2>4. ASSUME NEW j \in 1 .. Len(net'[Callee])
        PROVE  ItemOK(Callee, j)'
    <3>1. j \in 1 .. Len(net[Callee]) /\ ItemOK(Callee, j) /\ net'[Callee][j] = net[Callee][j]
      BY <1>s, <2>1
    <3>2. net[Callee][j].kind # "token" /\ ~ IsCipher(Callee, j)
      BY <1>0, <2>1, <2>2, <3>1, KindsUnderWay
    <3>3. net[Callee][j].kind # "END"
      BY <1>0, <2>1, <3>1, KindsUnderWay
    <3> QED BY <1>0, <3>1, <3>2, <3>3, ItemStays
  <2> QED BY <1>s, <2>1, <2>3, <2>4 DEF NetInv
<1>7. ASSUME NEW p \in Peers, NEW w \in Words, Send(p, w)
      PROVE  NetInv'
  <2> DEFINE q == Other(p)
             m == Cipher(board'[p], typed'[p], w)
  <2>0. q \in Peers /\ q # p /\ Other(q) = p /\ (\A r \in Peers : r = p \/ r = q)
    OBVIOUS
  <2>1. /\ SameRole(board'[p], board[p])
        /\ board'[p].out_seq_no = NumberAfter(board[p].out_seq_no, board[p].x)
        /\ board'[q] = board[q]
    BY <1>0, <1>7, EncryptEffect DEF Send
  <2>2. /\ Past /\ Roles /\ Keyed(p) /\ phase[p] # "closed"
        /\ Past' /\ Roles' /\ Keyed(p)' /\ (Keyed(q) => Keyed(q)')
    <3>1. Past /\ Roles /\ Keyed(p) /\ phase[p] # "closed"
      BY <1>0, <1>7 DEF Send, HandshakeInv, InUse
    <3>2. phase' = phase
      BY <1>7 DEF Send
    <3> QED BY <2>1, <3>1, <3>2 DEF Past, Before, Roles, Keyed, SameRole
  <2>3. /\ phase' = phase /\ shown' = shown
        /\ typed'[p] = typed[p] + 1 /\ typed'[q] = typed[q]
        /\ net' = Written(p, m)
    BY <1>0, <1>7, <2>0 DEF Send, TypeOK
  <2>4. m \in Message
    <3>1. board'[p] \in Boards /\ typed'[p] \in Nat /\ w \in BOOLEAN
      BY <1>0, LinkAssumption DEF TypeOK
    <3> QED BY <3>1, MessageFacts
  <2>5. /\ m.kind = "cipher" /\ m.key = {Caller, Callee} /\ m.text = typed[p] + 1
        /\ m.number % 2 = board'[p].x
    <3>1. board[p].x \in {0, 1} /\ board[p].out_seq_no \in Int16
      BY <1>0 DEF TypeOK, Boards
    <3> QED BY <2>1, <2>2, <2>3, <3>1, NumberParity DEF Cipher, SameRole, Keyed
  <2>6. ASSUME NEW r \in Peers, NEW i \in 1 .. Len(net[r]), i \in 1 .. Len(net'[r]),
               net'[r][i] = net[r][i]
        PROVE  ItemOK(r, i)'
    <3>1. ItemOK(r, i)
      BY <1>s
    <3>2. net[r][i].kind = "END" => i = Len(net'[r]) /\ phase'[Other(r)] = "closed"
      <4>1. CASE r = q
        BY <2>0, <2>2, <3>1, <4>1 DEF ItemOK
      <4>2. CASE r = p
        BY <1>0, <2>0, <2>3, <2>4, <3>1, <4>2, WrittenEffect DEF ItemOK
      <4> QED BY <2>0, <4>1, <4>2
    <3>3. net[r][i].kind # "token"
      BY <1>0, <2>2, KindsUnderWay DEF Past
    <3>4. /\ board'[Other(r)].x = board[Other(r)].x
          /\ typed[Other(r)] <= typed'[Other(r)]
          /\ Keyed(Other(r)) => Keyed(Other(r))'
          /\ typed[Other(r)] \in Nat /\ typed'[Other(r)] \in Nat
      BY <1>s, <2>0, <2>1, <2>2, <2>3 DEF SameRole
    <3>5. IsCipher(r, i) => shown'[r] < net[r][i].text
      BY <1>s, <2>3
    <3> QED BY <1>0, <2>2, <2>6, <3>1, <3>2, <3>3, <3>4, <3>5, ItemStays
  <2>7. ASSUME NEW i \in 1 .. Len(net'[p])
        PROVE  ItemOK(p, i)'
    BY <1>0, <2>3, <2>4, <2>6, WrittenEffect
  <2>8. ASSUME NEW i \in 1 .. Len(net'[q])
        PROVE  ItemOK(q, i)'
    <3>1. CASE ~ (connected /\ phase[q] # "closed")
      BY <1>0, <2>0, <2>3, <2>4, <2>6, <3>1, WrittenEffect
    <3>2. CASE connected /\ phase[q] # "closed"
      <4>1. /\ Len(net[q]) \in Nat /\ Len(net'[q]) = Len(net[q]) + 1
            /\ net'[q][Len(net[q]) + 1] = m
            /\ \A j \in 1 .. Len(net[q]) : net'[q][j] = net[q][j]
        BY <1>0, <2>3, <2>4, <3>2, WrittenEffect
      <4>2. CASE i = Len(net[q]) + 1
        BY <1>s, <2>0, <2>2, <2>3, <2>5, <4>1, <4>2 DEF ItemOK, CipherOK
      <4>3. CASE i \in 1 .. Len(net[q])
        BY <2>0, <2>6, <4>1, <4>3
      <4> QED BY <4>1, <4>2, <4>3
    <3> QED BY <3>1, <3>2
  <2>9. \A r \in Peers : shown'[r] <= typed'[Other(r)]
    BY <1>s, <2>0, <2>3
  <2> QED BY <2>0, <2>7, <2>8, <2>9 DEF NetInv
<1>8. ASSUME NEW p \in Peers, SendFails(p)
      PROVE  NetInv'
  <2>1. /\ net' = net /\ shown' = shown /\ phase' = phase
        /\ typed'[p] = typed[p] + 1 /\ typed'[Other(p)] = typed[Other(p)]
    BY <1>0, <1>8 DEF SendFails, TypeOK
  <2>2. SameRole(board'[p], board[p]) /\ board'[Other(p)] = board[Other(p)]
    BY <1>0, <1>8, EncryptEffect DEF SendFails
  <2>3. /\ \A r \in Peers : /\ Before(r) => Before(r)'
                            /\ ~ Before(r) => ~ Before(r)'
                            /\ Keyed(r) => Keyed(r)'
                            /\ board'[r].x = board[r].x
                            /\ typed[r] <= typed'[r]
        /\ Past => Past'
        /\ Roles => Roles'
    BY <1>s, <2>1, <2>2 DEF Before, Past, Roles, Keyed, SameRole
  <2>4. ASSUME NEW r \in Peers, NEW i \in 1 .. Len(net'[r])
        PROVE  ItemOK(r, i)'
    <3>1. i \in 1 .. Len(net[r]) /\ ItemOK(r, i) /\ net'[r][i] = net[r][i]
      BY <1>s, <2>1
    <3>2. net[r][i].kind = "token" => i = 1 /\ Before(r)'
      BY <2>3, <3>1 DEF ItemOK, TokenOK
    <3>3. net[r][i].kind = "END" => i = Len(net'[r]) /\ phase'[Other(r)] = "closed"
      BY <2>1, <3>1 DEF ItemOK
    <3> QED BY <1>0, <1>s, <2>1, <2>3, <3>1, <3>2, <3>3, ItemStays
  <2>5. \A r \in Peers : shown'[r] <= typed'[Other(r)]
    BY <1>s, <2>1, <2>3
  <2> QED BY <2>4, <2>5 DEF NetInv
<1>9. ASSUME NEW p \in Peers, Takes(p)
      PROVE  NetInv'
  <2> DEFINE q == Other(p)
  <2>0. q \in Peers /\ q # p /\ Other(q) = p /\ (\A r \in Peers : r = p \/ r = q)
    OBVIOUS
  <2>1. /\ phase' = phase /\ typed' = typed /\ net'[q] = net[q]
        /\ shown'[q] = shown[q] /\ shown'[p] \in {shown[p], net[p][1].text}
        /\ phase[p] = "open" /\ Len(net[p]) \in Nat /\ Len(net[p]) >= 1
        /\ Len(net'[p]) = Len(net[p]) - 1
        /\ \A i \in 1 .. Len(net[p]) - 1 : net'[p][i] = net[p][i + 1]
    BY <1>0, <1>9, ReceivesEffect DEF Takes, Receives
  <2>2. \A r \in Peers : /\ Before(r) => Before(r)'
                         /\ ~ Before(r) => ~ Before(r)'
                         /\ Keyed(r) => Keyed(r)'
                         /\ board'[r].x = board[r].x
    BY <1>9, <2>0, <2>1 DEF Before, Keyed, Takes, SameRole
  <2>3. (Past => Past') /\ (Roles => Roles')
    BY <2>2 DEF Past, Roles
  <2>4. IsCipher(p, 1)
    <3>1. 1 \in 1 .. Len(net[p]) /\ net[p][1].kind # "END"
      BY <1>0, <1>9, <2>1, ReceivesEffect DEF Takes
    <3>2. net[p][1].kind # "token"
      BY <1>0, <2>1, <3>1, KindsUnderWay DEF Before
    <3> QED BY <1>0, <3>1, <3>2, NetFacts DEF IsCipher
  <2>5. ASSUME NEW j \in 1 .. Len(net'[p])
        PROVE  ItemOK(p, j)'
    <3>1. /\ j + 1 \in 1 .. Len(net[p]) /\ ItemOK(p, j + 1) /\ j + 1 # 1 /\ 1 < j + 1
          /\ net'[p][j] = net[p][j + 1] /\ 1 \in 1 .. Len(net[p])
      BY <1>s, <2>1
    <3>2. net[p][j + 1].kind # "token"
      BY <1>0, <2>0, <3>1, KindsUnderWay
    <3>3. net[p][j + 1].kind = "END" => j = Len(net'[p]) /\ phase'[q] = "closed"
      BY <2>1, <3>1 DEF ItemOK
    <3>4. IsCipher(p, j + 1) => shown'[p] < net[p][j + 1].text
      BY <1>0, <1>s, <2>1, <2>4, <3>1 DEF ChainInv, Ordered
    <3>5. typed[q] <= typed'[q] /\ typed[q] \in Nat /\ typed'[q] \in Nat
      BY <1>s, <2>0, <2>1
    <3> QED BY <1>0, <2>0, <2>2, <2>3, <3>1, <3>2, <3>3, <3>4, <3>5, ItemStays
  <2>6. ASSUME NEW j \in 1 .. Len(net'[q])
        PROVE  ItemOK(q, j)'
    <3>1. j \in 1 .. Len(net[q]) /\ ItemOK(q, j) /\ net'[q][j] = net[q][j]
      BY <1>s, <2>0, <2>1
    <3>2. net[q][j].kind = "token" =>
             j = 1 /\ Before(q)' /\ (q = Caller => ~ Before(Callee)')
      BY <2>0, <2>2, <3>1 DEF ItemOK, TokenOK
    <3>3. net[q][j].kind = "END" => j = Len(net'[q]) /\ phase'[Other(q)] = "closed"
      BY <2>1, <3>1 DEF ItemOK
    <3>4. /\ IsCipher(q, j) => shown'[q] < net[q][j].text
          /\ typed[p] <= typed'[p] /\ typed[p] \in Nat /\ typed'[p] \in Nat
      BY <1>s, <2>0, <2>1, <3>1
    <3> QED BY <1>0, <2>0, <2>2, <2>3, <3>1, <3>2, <3>3, <3>4, ItemStays
  <2>7. \A r \in Peers : shown'[r] <= typed'[Other(r)]
    <3>1. 1 \in 1 .. Len(net[p]) /\ ItemOK(p, 1)
      BY <1>s, <2>1
    <3>2. net[p][1].text <= typed[q]
      BY <2>4, <3>1 DEF ItemOK, CipherOK, IsCipher
    <3> QED BY <1>s, <2>0, <2>1, <3>2
  <2> QED BY <2>0, <2>5, <2>6, <2>7 DEF NetInv
<1>10. ASSUME NEW p \in Peers, Hangup(p)
       PROVE  NetInv'
  <2> DEFINE q == Other(p)
  <2>0. q \in Peers /\ q # p /\ Other(q) = p /\ (\A r \in Peers : r = p \/ r = q)
    OBVIOUS
  <2>1. /\ board' = board /\ shown' = shown /\ typed' = typed
        /\ phase[p] # "closed" /\ phase'[p] = "closed" /\ phase'[q] = phase[q]
        /\ net'[p] = <<>> /\ net'[q] = Written(p, EndMessage)[q]
    BY <1>0, <1>10, <2>0, MessageFacts, WrittenType DEF Hangup, TypeOK
  <2>2. (Past => Past') /\ (Before(q) => Before(q)') /\ ~ Before(p)'
    BY <2>1 DEF Past, Before
  <2>3. ASSUME NEW j \in 1 .. Len(net[q]), j \in 1 .. Len(net'[q]), net'[q][j] = net[q][j]
        PROVE  ItemOK(q, j)'
    <3>1. ItemOK(q, j) /\ net[q][j].kind # "END"
      BY <1>0, <1>s, <2>0, <2>1, KindsUnderWay
    <3>2. net[q][j].kind = "token" =>
             /\ j = 1 /\ Before(q)'
             /\ q = Caller => ~ Before(Callee)'
      BY <2>0, <2>2, <3>1 DEF ItemOK, TokenOK
    <3>3. /\ IsCipher(q, j) => shown'[q] < net[q][j].text
          /\ typed[p] <= typed'[p] /\ typed[p] \in Nat /\ typed'[p] \in Nat
      BY <1>s, <2>0, <2>1
    <3>4. (Roles => Roles') /\ (Keyed(p) => Keyed(p)') /\ board'[p].x = board[p].x
      BY <2>1 DEF Roles, Keyed
    <3> QED BY <1>0, <2>0, <2>2, <2>3, <3>1, <3>2, <3>3, <3>4, ItemStays
  <2>4. ASSUME NEW i \in 1 .. Len(net'[q])
        PROVE  ItemOK(q, i)'
    <3>1. CASE ~ (connected /\ phase[q] # "closed")
      BY <1>0, <2>0, <2>1, <2>3, <3>1, MessageFacts, WrittenEffect
    <3>2. CASE connected /\ phase[q] # "closed"
      <4>1. /\ Len(net[q]) \in Nat /\ Len(net'[q]) = Len(net[q]) + 1
            /\ net'[q][Len(net[q]) + 1] = EndMessage
            /\ \A j \in 1 .. Len(net[q]) : net'[q][j] = net[q][j]
        BY <1>0, <2>1, <3>2, MessageFacts, WrittenEffect
      <4>2. CASE i = Len(net[q]) + 1
        BY <2>0, <2>1, <4>1, <4>2 DEF ItemOK, EndMessage
      <4>3. CASE i \in 1 .. Len(net[q])
        BY <2>3, <4>1, <4>3
      <4> QED BY <4>1, <4>2, <4>3
    <3> QED BY <3>1, <3>2
  <2>5. Len(net'[p]) = 0
    BY <2>1
  <2> QED BY <1>s, <2>0, <2>1, <2>4, <2>5 DEF NetInv
<1>11. ASSUME NEW p \in Peers, ReadEnd(p)
       PROVE  NetInv'
  <2> DEFINE q == Other(p)
  <2>0. q \in Peers /\ q # p /\ Other(q) = p /\ (\A r \in Peers : r = p \/ r = q)
    OBVIOUS
  <2>1. /\ board' = board /\ shown' = shown /\ typed' = typed
        /\ phase'[p] = "closed" /\ phase'[q] = phase[q]
        /\ net'[p] = <<>> /\ net'[q] = net[q]
    BY <1>0, <1>11, <2>0 DEF ReadEnd, TypeOK
  <2>2. ASSUME NEW j \in 1 .. Len(net'[q])
        PROVE  ItemOK(q, j)'
    <3>1. j \in 1 .. Len(net[q]) /\ ItemOK(q, j) /\ net'[q][j] = net[q][j]
      BY <1>s, <2>0, <2>1
    <3>2. net[q][j].kind = "token" =>
             /\ j = 1 /\ Before(q)'
             /\ q = Caller => ~ Before(Callee)'
      BY <2>0, <2>1, <3>1 DEF ItemOK, TokenOK, Before
    <3>3. /\ IsCipher(q, j) => shown'[q] < net[q][j].text
          /\ typed[p] <= typed'[p] /\ typed[p] \in Nat /\ typed'[p] \in Nat
      BY <1>s, <2>0, <2>1, <3>1
    <3>4. /\ Past => Past'
          /\ (Roles => Roles') /\ (Keyed(p) => Keyed(p)') /\ board'[p].x = board[p].x
      BY <2>0, <2>1 DEF Past, Before, Roles, Keyed
    <3>5. net[q][j].kind = "END" => j = Len(net'[q]) /\ phase'[p] = "closed"
      BY <2>0, <2>1, <3>1 DEF ItemOK
    <3> QED BY <1>0, <2>0, <3>1, <3>2, <3>3, <3>4, <3>5, ItemStays
  <2>3. Len(net'[p]) = 0
    BY <2>1
  <2> QED BY <1>s, <2>0, <2>1, <2>2, <2>3 DEF NetInv
<1>12. CASE LinkLost
  <2>1. board' = board /\ shown' = shown /\ typed' = typed /\ phase' = phase
    BY <1>12 DEF LinkLost
  <2>2. ASSUME NEW p \in Peers, NEW j \in 1 .. Len(net'[p])
        PROVE  ItemOK(p, j)'
    <3>1. /\ j \in 1 .. Len(net[p]) /\ ItemOK(p, j) /\ net'[p][j] = net[p][j]
          /\ Len(net'[p]) \in Nat /\ Len(net[p]) \in Nat /\ Len(net'[p]) <= Len(net[p])
      BY <1>0, <1>s, <1>12, LostEffect
    <3>2. net[p][j].kind = "token" => j = 1 /\ Before(p)'
      BY <2>1, <3>1 DEF ItemOK, TokenOK, Before
    <3>3. /\ IsCipher(p, j) => shown'[p] < net[p][j].text
          /\ typed[Other(p)] <= typed'[Other(p)]
          /\ typed[Other(p)] \in Nat /\ typed'[Other(p)] \in Nat
      BY <1>s, <2>1, <3>1
    <3>4. /\ Past <=> Past'
          /\ (Roles => Roles') /\ (Keyed(Other(p)) => Keyed(Other(p))')
          /\ board'[Other(p)].x = board[Other(p)].x
          /\ ~ Before(Callee) => ~ Before(Callee)'
      BY <2>1 DEF Past, Before, Roles, Keyed
    <3>5. net[p][j].kind = "END" => j = Len(net'[p]) /\ phase'[Other(p)] = "closed"
      BY <2>1, <3>1 DEF ItemOK
    <3> QED BY <1>0, <3>1, <3>2, <3>3, <3>4, <3>5, ItemStays
  <2> QED BY <1>s, <2>1, <2>2 DEF NetInv
<1>13. ASSUME NEW p \in Peers, ListenerDies(p)
       PROVE  NetInv'
  <2> DEFINE q == Other(p)
  <2>0. q \in Peers /\ q # p /\ Other(q) = p /\ (\A r \in Peers : r = p \/ r = q)
    OBVIOUS
  <2>1. /\ board' = board /\ shown' = shown /\ typed' = typed /\ net' = net
        /\ phase'[p] = "broken" /\ phase'[q] = phase[q]
        /\ net[p] = <<>> /\ phase[p] # "closed"
    BY <1>0, <1>13, <2>0 DEF ListenerDies, TypeOK
  <2>2. ASSUME NEW j \in 1 .. Len(net'[q])
        PROVE  ItemOK(q, j)'
    <3>1. j \in 1 .. Len(net[q]) /\ ItemOK(q, j) /\ net'[q][j] = net[q][j]
      BY <1>s, <2>0, <2>1
    <3>2. net[q][j].kind = "token" =>
             /\ j = 1 /\ Before(q)'
             /\ q = Caller => ~ Before(Callee)'
      BY <2>0, <2>1, <3>1 DEF ItemOK, TokenOK, Before
    <3>3. /\ IsCipher(q, j) => shown'[q] < net[q][j].text
          /\ typed[p] <= typed'[p] /\ typed[p] \in Nat /\ typed'[p] \in Nat
      BY <1>s, <2>0, <2>1, <3>1
    <3>4. /\ Past => Past'
          /\ (Roles => Roles') /\ (Keyed(p) => Keyed(p)') /\ board'[p].x = board[p].x
      BY <2>0, <2>1 DEF Past, Before, Roles, Keyed
    <3>5. net[q][j].kind # "END"
      BY <1>0, <2>0, <2>1, <3>1, KindsUnderWay
    <3> QED BY <1>0, <2>0, <3>1, <3>2, <3>3, <3>4, <3>5, ItemStays
  <2>3. Len(net'[p]) = 0
    BY <2>1
  <2> QED BY <1>s, <2>0, <2>1, <2>2, <2>3 DEF NetInv
<1>14. CASE UNCHANGED vars
  BY <1>0, <1>14 DEF vars, NetInv, ItemOK, TokenOK, CipherOK, Before, Past, Roles, Keyed
<1> QED
  <2>1. ASSUME NEW p \in Peers, Listen(p)
        PROVE  NetInv'
    BY <1>0, <1>9, <1>11, <1>13, <2>1, HashingEffect, NumberedEffect DEF Listen
  <2> QED
    BY <1>1, <1>2, <1>3, <1>4, <1>5, <1>6, <1>7, <1>8, <1>10, <1>12, <1>14, <2>1 DEF Next

-------------------------------------------------------------------------------
(********************** The chain of the numbers ***************************)

LEMMA InitChain == Init => ChainInv
<1> SUFFICES ASSUME Init PROVE ChainInv
  OBVIOUS
<1>1. Len(<<>>) = 0
  OBVIOUS
<1> QED BY <1>1, PeerFacts
        DEF Init, ChainInv, Ordered, FirstFits, LastIsCounted, PoweredUp

\* Messages that move up by d places and lose nothing in between keep their order.
LEMMA OrderStays ==
    ASSUME TypeOK, NEW p \in Peers, NEW d \in {0, 1}, Ordered(p),
           Len(net'[p]) \in Nat, Len(net'[p]) + d <= Len(net[p]),
           \A i \in 1 .. Len(net'[p]) : net'[p][i] = net[p][i + d],
           board'[Other(p)].x = board[Other(p)].x
    PROVE  Ordered(p)'
<1>1. Len(net[p]) \in Nat
  BY NetFacts
<1> SUFFICES ASSUME NEW i \in 1 .. Len(net'[p]), NEW j \in 1 .. Len(net'[p]),
                    IsCipher(p, i)', IsCipher(p, j)'
             PROVE  /\ i < j => net'[p][i].text < net'[p][j].text
                    /\ j = i + 1 => net'[p][j].number =
                                      NumberAfter(net'[p][i].number, board'[Other(p)].x)
  BY DEF Ordered
<1>2. /\ i + d \in 1 .. Len(net[p]) /\ j + d \in 1 .. Len(net[p])
      /\ i < j => i + d < j + d
      /\ j = i + 1 => j + d = (i + d) + 1
      /\ net'[p][i] = net[p][i + d] /\ net'[p][j] = net[p][j + d]
  BY <1>1
<1>3. IsCipher(p, i + d) /\ IsCipher(p, j + d)
  BY <1>2 DEF IsCipher
<1> QED BY <1>2, <1>3 DEF Ordered

NoCiphers == \A p \in Peers : \A i \in 1 .. Len(net[p]) : ~ IsCipher(p, i)
AllReset  == \A p \in Peers : board[p].in_seq_no = 0 /\ board[p].out_seq_no = 0

\* With no ciphertext under way and all counters at 0 the chain is empty.
LEMMA NoCipherNoChain == TypeOK /\ NoCiphers /\ AllReset => ChainInv
<1> SUFFICES ASSUME TypeOK, NoCiphers, AllReset
             PROVE  ChainInv
  OBVIOUS
<1> SUFFICES ASSUME NEW p \in Peers
             PROVE  Ordered(p) /\ FirstFits(p) /\ LastIsCounted(p)
  BY DEF ChainInv
<1>1. /\ \A i \in 1 .. Len(net[p]) : ~ IsCipher(p, i)
      /\ Len(net[p]) \in Nat /\ (net[p] # <<>> <=> Len(net[p]) >= 1)
  BY NetFacts DEF NoCiphers
<1>2. board[p].in_seq_no = 0 /\ board[Other(p)].out_seq_no = 0
  BY PeerFacts DEF AllReset
<1>3. net[p] # <<>> => ~ IsCipher(p, 1) /\ ~ IsCipher(p, Len(net[p]))
  BY <1>1
<1> QED BY <1>1, <1>2, <1>3 DEF Ordered, FirstFits, LastIsCounted

LEMMA HandshakeNoChain ==
    TypeOK /\ HandshakeInv /\ NetInv /\ ~ Past => NoCiphers /\ AllReset /\ ChainInv
<1> SUFFICES ASSUME TypeOK, HandshakeInv, NetInv, ~ Past
             PROVE  NoCiphers /\ AllReset /\ ChainInv
  OBVIOUS
<1>1. NoCiphers
  BY KindsUnderWay DEF NoCiphers
<1>2. AllReset
  BY DEF HandshakeInv, AllReset
<1> QED BY <1>1, <1>2, NoCipherNoChain

\* A step that moves neither messages nor counters keeps the chain.
LEMMA ChainStays ==
    ASSUME ChainInv, net' = net, verdict' = verdict, connected' => connected,
           \A p \in Peers : /\ board'[p].x = board[p].x
                            /\ board'[p].in_seq_no = board[p].in_seq_no
                            /\ board'[p].out_seq_no = board[p].out_seq_no
                            /\ phase'[p] # "closed" => phase[p] # "closed"
    PROVE  ChainInv'
<1> SUFFICES ASSUME NEW p \in Peers
             PROVE  Ordered(p)' /\ FirstFits(p)' /\ LastIsCounted(p)'
  BY DEF ChainInv
<1>1. Ordered(p) /\ FirstFits(p) /\ LastIsCounted(p) /\ Other(p) \in Peers
  BY PeerFacts DEF ChainInv
<1> QED BY <1>1 DEF Ordered, FirstFits, LastIsCounted, IsCipher

LEMMA ChainNext == IInv /\ [Next]_vars => ChainInv'
<1> SUFFICES ASSUME IInv, [Next]_vars
             PROVE  ChainInv'
  OBVIOUS
<1> USE PeerFacts
<1>0. /\ TypeOK /\ HandshakeInv /\ NetInv /\ ChainInv
      /\ TypeOK' /\ HandshakeInv' /\ NetInv'
  BY NextType, HandshakeNext, NetNext DEF IInv
<1>c. \A p \in Peers : Ordered(p) /\ FirstFits(p) /\ LastIsCounted(p)
  BY <1>0 DEF ChainInv
<1>n. ~ Past' => ChainInv'
  BY <1>0, HandshakeNoChain, PTL
<1>t. TypeOK' /\ NoCiphers' /\ AllReset' => ChainInv'
  BY NoCipherNoChain, PTL
<1>1. CASE Call
  <2>1. ~ Past'
    BY <1>0, <1>1 DEF Call, TypeOK, Past, Before
  <2> QED BY <1>n, <2>1
<1>2. CASE CallUnanswered
  <2>1. ~ Past'
    BY <1>0, <1>2 DEF CallUnanswered, TypeOK, HandshakeInv, Past, Before
  <2> QED BY <1>n, <2>1
<1>3. CASE Accept
  <2>1. ~ Past'
    BY <1>0, <1>3 DEF Accept, TypeOK, Past, Before
  <2> QED BY <1>n, <2>1
<1>4. CASE AnswerToken
  <2> DEFINE m == Token({Callee})
  <2>1. /\ net[Callee] # <<>> /\ net[Caller] = <<>> /\ ~ Past
    BY <1>0, <1>4 DEF AnswerToken, HandshakeInv, Before, Past
  <2>2. /\ board' = [board EXCEPT ![Callee] = SendTokenShared(@, NO_STARTER, Callee)]
        /\ board'[Callee].my_k = {Callee}
        /\ board'[Callee].in_seq_no = 0 /\ board'[Callee].out_seq_no = 0
        /\ board'[Caller] = board[Caller]
    <3>1. board' = [board EXCEPT ![Callee] = SendTokenShared(@, NO_STARTER, Callee)]
      BY <1>4 DEF AnswerToken
    <3> QED BY <1>0, <3>1, TokenSentEffect
  <2>3. AllReset'
    BY <1>0, <2>1, <2>2, HandshakeNoChain DEF AllReset
  <2>4. m \in Message
    BY MessageFacts DEF Keys
  <2>5. /\ net'[Callee] = Tail(net[Callee])
        /\ net'[Caller] = Written(Callee, m)[Caller]
    <3>1. Written(Callee, m)[Callee] = net[Callee] /\ Written(Callee, m) \in [Peers -> Seq(Message)]
      BY <1>0, <2>4, WrittenEffect, WrittenType DEF TypeOK
    <3> QED BY <1>4, <2>2, <3>1 DEF AnswerToken
  <2>6. ASSUME NEW j \in 1 .. Len(net'[Callee])
        PROVE  ~ IsCipher(Callee, j)'
    <3>1. net'[Callee][j] = net[Callee][j + 1] /\ j + 1 \in 1 .. Len(net[Callee])
      BY <1>0, <2>1, <2>5, TailFacts DEF TypeOK
    <3>2. ~ IsCipher(Callee, j + 1)
      BY <1>0, <2>1, <3>1, HandshakeNoChain DEF NoCiphers
    <3> QED BY <3>1, <3>2 DEF IsCipher
  <2>7. ASSUME NEW j \in 1 .. Len(net'[Caller])
        PROVE  ~ IsCipher(Caller, j)'
    <3>1. Len(net[Caller]) = 0
      BY <2>1
    <3>2. connected /\ phase[Caller] # "closed"
      BY <1>0, <2>4, <2>5, <3>1, WrittenEffect
    <3>3. /\ Len(net'[Caller]) = Len(net[Caller]) + 1
          /\ net'[Caller][Len(net[Caller]) + 1] = m
      BY <1>0, <2>4, <2>5, <3>2, WrittenEffect
    <3>4. j = 1 /\ net'[Caller][1] = m
      BY <3>1, <3>3
    <3> QED BY <3>4 DEF IsCipher, Token
  <2>8. NoCiphers'
    BY <2>6, <2>7 DEF NoCiphers
  <2> QED BY <1>0, <1>t, <2>3, <2>8
<1>5. CASE DeriveKey
  <2>1. /\ net' = net /\ verdict' = verdict /\ connected' = connected
        /\ \A p \in Peers : phase'[p] # "closed" => phase[p] # "closed"
    BY <1>0, <1>5 DEF DeriveKey, TypeOK
  <2>2. \A p \in Peers : /\ board'[p].x = board[p].x
                         /\ board'[p].in_seq_no = board[p].in_seq_no
                         /\ board'[p].out_seq_no = board[p].out_seq_no
    <3>1. first \in Keys /\ board' = [board EXCEPT ![Callee] = ReceivedTokenShared(@, first)]
      BY <1>0, <1>5 DEF DeriveKey, TypeOK
    <3>2. /\ board'[Callee].x = board[Callee].x
          /\ board'[Callee].in_seq_no = board[Callee].in_seq_no
          /\ board'[Callee].out_seq_no = board[Callee].out_seq_no
          /\ board'[Caller] = board[Caller]
      BY <1>0, <3>1, KeyEffect
    <3> QED BY <3>2
  <2> QED BY <1>0, <2>1, <2>2, ChainStays
<1>6. CASE TakeAnswer
  <2>1. /\ net[Caller] # <<>> /\ net'[Caller] = Tail(net[Caller])
        /\ net'[Callee] = net[Callee] /\ ~ Past /\ Head(net[Caller]) \in Message
    BY <1>0, <1>6, TailFacts DEF TakeAnswer, TypeOK, Before, Past
  <2>2. \A p \in Peers : /\ board'[p].in_seq_no = board[p].in_seq_no
                         /\ board'[p].out_seq_no = board[p].out_seq_no
    <3>1. Head(net[Caller]).key \in Keys
      BY <2>1 DEF Message
    <3> QED BY <1>0, <1>6, <3>1, KeyEffect DEF TakeAnswer
  <2>3. AllReset'
    BY <1>0, <2>1, <2>2, HandshakeNoChain DEF AllReset
  <2>4. ASSUME NEW j \in 1 .. Len(net'[Caller])
        PROVE  ~ IsCipher(Caller, j)'
    <3>1. net'[Caller][j] = net[Caller][j + 1] /\ j + 1 \in 1 .. Len(net[Caller])
      BY <1>0, <2>1, TailFacts DEF TypeOK
    <3>2. ~ IsCipher(Caller, j + 1)
      BY <1>0, <2>1, <3>1, HandshakeNoChain DEF NoCiphers
    <3> QED BY <3>1, <3>2 DEF IsCipher
  <2>5. \A j \in 1 .. Len(net'[Callee]) : ~ IsCipher(Callee, j)'
    BY <1>0, <2>1, HandshakeNoChain DEF IsCipher, NoCiphers
  <2>6. NoCiphers'
    BY <2>4, <2>5 DEF NoCiphers
  <2> QED BY <1>0, <1>t, <2>3, <2>6
<1>7. ASSUME NEW p \in Peers, NEW w \in Words, Send(p, w)
      PROVE  ChainInv'
  <2> DEFINE q == Other(p)
             m == Cipher(board'[p], typed'[p], w)
             n == Len(net[q])
  <2>0. q \in Peers /\ q # p /\ Other(q) = p /\ (\A r \in Peers : r = p \/ r = q)
    OBVIOUS
  <2>1. /\ board'[p].x = board[p].x /\ board'[p].in_seq_no = board[p].in_seq_no
        /\ board'[p].out_seq_no = NumberAfter(board[p].out_seq_no, board[p].x)
        /\ board'[q] = board[q]
    BY <1>0, <1>7, EncryptEffect DEF Send, SameRole
  <2>2. Past /\ phase[p] # "closed"
    BY <1>0, <1>7 DEF Send, HandshakeInv, InUse
  <2>3. /\ phase' = phase /\ verdict' = verdict /\ connected' = connected
        /\ typed'[p] = typed[p] + 1 /\ typed[p] \in Nat
        /\ net' = Written(p, m)
    BY <1>0, <1>7, <2>0 DEF Send, TypeOK
  <2>4. m \in Message
    <3>1. board'[p] \in Boards /\ typed'[p] \in Nat /\ w \in BOOLEAN
      BY <1>0, LinkAssumption DEF TypeOK
    <3> QED BY <3>1, MessageFacts
  <2>5. m.kind = "cipher" /\ m.text = typed[p] + 1 /\ m.number = board'[p].out_seq_no
    BY <2>3 DEF Cipher
  <2>6. net'[p] = net[p]
    BY <1>0, <2>3, <2>4, WrittenEffect
  <2>7. Ordered(p)' /\ FirstFits(p)' /\ LastIsCounted(p)'
    BY <1>c, <2>0, <2>1, <2>3, <2>6 DEF Ordered, FirstFits, LastIsCounted, IsCipher
  <2>8. Ordered(q)' /\ FirstFits(q)' /\ LastIsCounted(q)'
    <3>1. CASE ~ (connected /\ phase[q] # "closed")
      <4>1. net'[q] = net[q]
        BY <1>0, <2>3, <2>4, <3>1, WrittenEffect
      <4> QED BY <1>c, <2>0, <2>1, <2>3, <3>1, <4>1
              DEF Ordered, FirstFits, LastIsCounted, IsCipher
    <3>2. CASE connected /\ phase[q] # "closed"
      <4>1. /\ n \in Nat /\ Len(net'[q]) = n + 1 /\ net'[q] # <<>>
            /\ net'[q][n + 1] = m
            /\ \A j \in 1 .. n : net'[q][j] = net[q][j]
        BY <1>0, <2>3, <2>4, <3>2, WrittenEffect
      <4>2. net[q] # <<>> <=> n >= 1
        BY <1>0, <2>0, NetFacts
      <4> HIDE DEF n, m
      <4>3. n >= 1 => IsCipher(q, n) /\ net[q][n].number = board[p].out_seq_no
        <5>1. ASSUME n >= 1
              PROVE  IsCipher(q, n)
          <6>1. n \in 1 .. Len(net[q])
            BY <4>1, <5>1 DEF n
          <6>2. net[q][n].kind # "END" /\ net[q][n].kind # "token"
            BY <1>0, <2>0, <2>2, <6>1, KindsUnderWay DEF Past
          <6> QED BY <1>0, <2>0, <6>1, <6>2, NetFacts DEF IsCipher
        <5>2. ASSUME n >= 1
              PROVE  net[q][n].number = board[p].out_seq_no
          BY <1>c, <2>0, <2>2, <3>2, <4>2, <5>1, <5>2 DEF LastIsCounted, n
        <5> QED BY <5>1, <5>2
      <4>4. \A i \in 1 .. n : IsCipher(q, i) => net[q][i].text < m.text
        <5>1. ASSUME NEW i \in 1 .. n, IsCipher(q, i)
              PROVE  net[q][i].text < m.text
          <6>1. i \in 1 .. Len(net[q]) /\ net[q][i] \in Message
            BY <1>0, <2>0, <5>1, NetFacts DEF n
          <6>2. ItemOK(q, i)
            BY <1>0, <2>0, <6>1 DEF NetInv
          <6>3. net[q][i].text <= typed[p] /\ net[q][i].text \in Nat
            BY <2>0, <5>1, <6>1, <6>2 DEF ItemOK, CipherOK, IsCipher, Message
          <6> QED BY <2>3, <2>5, <6>3
        <5> QED BY <5>1
      <4>5. Ordered(q)'
        <5> SUFFICES ASSUME NEW i \in 1 .. n + 1, NEW j \in 1 .. n + 1,
                            IsCipher(q, i)', IsCipher(q, j)'
                     PROVE  /\ i < j => net'[q][i].text < net'[q][j].text
                            /\ j = i + 1 => net'[q][j].number =
                                              NumberAfter(net'[q][i].number, board'[p].x)
          BY <2>0, <4>1 DEF Ordered
        <5>1. CASE j \in 1 .. n
          <6>1. CASE i \in 1 .. n
            BY <1>c, <2>0, <2>1, <4>1, <5>1, <6>1 DEF Ordered, IsCipher, n
          <6>2. CASE i = n + 1
            BY <4>1, <5>1, <6>2
          <6> QED BY <4>1, <6>1, <6>2
        <5>2. CASE j = n + 1
          <6>1. i < j => i \in 1 .. n /\ net'[q][i] = net[q][i] /\ IsCipher(q, i)
            BY <4>1, <5>2 DEF IsCipher
          <6>2. i < j => net'[q][i].text < net'[q][j].text
            BY <4>1, <4>4, <5>2, <6>1
          <6>3. j = i + 1 => i = n /\ n >= 1 /\ net'[q][i] = net[q][i]
            BY <4>1, <5>2
          <6>4. j = i + 1 => net'[q][j].number = NumberAfter(net'[q][i].number, board'[p].x)
            BY <2>1, <2>5, <4>1, <4>3, <5>2, <6>3
          <6> QED BY <6>2, <6>4
        <5> QED BY <4>1, <5>1, <5>2
      <4>6. FirstFits(q)'
        <5>1. CASE n >= 1
          <6>1. net'[q][1] = net[q][1]
            BY <4>1, <5>1
          <6> QED BY <1>c, <2>0, <2>1, <2>3, <4>2, <5>1, <6>1 DEF FirstFits, IsCipher
        <5>2. CASE n = 0
          <6>1. net'[q][1] = m
            BY <4>1, <5>2
          <6>2. verdict[q] # "HASHING" => board[q].in_seq_no = board[p].out_seq_no
            BY <1>c, <2>0, <2>2, <3>2, <4>2, <5>2 DEF LastIsCounted
          <6> QED BY <2>0, <2>1, <2>3, <2>5, <6>1, <6>2 DEF FirstFits
        <5> QED BY <4>1, <5>1, <5>2
      <4>7. LastIsCounted(q)'
        BY <2>0, <2>5, <4>1 DEF LastIsCounted
      <4> QED BY <4>5, <4>6, <4>7
    <3> QED BY <3>1, <3>2
  <2> QED BY <2>0, <2>7, <2>8 DEF ChainInv
<1>8. ASSUME NEW p \in Peers, SendFails(p)
      PROVE  ChainInv'
  <2> DEFINE q == Other(p)
  <2>0. q \in Peers /\ q # p /\ Other(q) = p /\ (\A r \in Peers : r = p \/ r = q)
    OBVIOUS
  <2>1. /\ net' = net /\ verdict' = verdict /\ phase' = phase /\ connected' = connected
        /\ ~ connected \/ phase[q] = "closed"
    BY <1>8 DEF SendFails
  <2>2. /\ board'[q] = board[q] /\ board'[p].x = board[p].x
        /\ board'[p].in_seq_no = board[p].in_seq_no
    BY <1>0, <1>8, EncryptEffect DEF SendFails, SameRole
  <2>3. ASSUME NEW r \in Peers
        PROVE  Ordered(r)' /\ FirstFits(r)' /\ LastIsCounted(r)'
    BY <1>c, <2>0, <2>1, <2>2 DEF Ordered, FirstFits, LastIsCounted, IsCipher
  <2> QED BY <2>3 DEF ChainInv
<1>9. ASSUME NEW p \in Peers, ReadHashing(p) \/ ReadNumbered(p)
      PROVE  ChainInv'
  <2> DEFINE q == Other(p)
             n == Len(net[p])
  <2>0. q \in Peers /\ q # p /\ Other(q) = p /\ (\A r \in Peers : r = p \/ r = q)
    OBVIOUS
  <2>1. Takes(p)
    BY <1>0, <1>9, HashingEffect, NumberedEffect
  <2>2. /\ phase' = phase /\ connected' = connected /\ net'[q] = net[q]
        /\ phase[p] = "open" /\ n \in Nat /\ n >= 1
        /\ net[p] # <<>> /\ Head(net[p]) = net[p][1]
        /\ Len(net'[p]) = n - 1
        /\ \A i \in 1 .. n - 1 : net'[p][i] = net[p][i + 1]
        /\ net'[p] = <<>> <=> n = 1
    BY <1>0, <2>1, ReceivesEffect DEF Takes, Receives
  <2>3. /\ board'[q] = board[q] /\ verdict'[q] = verdict[q]
        /\ board'[p].x = board[p].x /\ board'[p].out_seq_no = board[p].out_seq_no
    BY <2>1 DEF Takes, SameRole
  <2>4. Ordered(q)' /\ FirstFits(q)' /\ LastIsCounted(q)'
    BY <1>c, <2>0, <2>2, <2>3 DEF Ordered, FirstFits, LastIsCounted, IsCipher
  <2> HIDE DEF n
  <2>5. IsCipher(p, 1) /\ 1 \in 1 .. n /\ net[p][1].key = board[p].my_k
    <3>1. 1 \in 1 .. Len(net[p]) /\ net[p][1].kind # "END"
      BY <1>0, <2>1, <2>2, ReceivesEffect DEF Takes, n
    <3>2. net[p][1].kind # "token"
      BY <1>0, <2>2, <3>1, KindsUnderWay DEF Before
    <3>3. IsCipher(p, 1)
      BY <1>0, <3>1, <3>2, NetFacts DEF IsCipher
    <3>4. ItemOK(p, 1) /\ Keyed(p)
      BY <1>0, <2>2, <3>1 DEF NetInv, HandshakeInv
    <3> QED BY <3>1, <3>3, <3>4 DEF ItemOK, CipherOK, IsCipher, Keyed, n
  <2>6. verdict'[p] # "HASHING" => board'[p].in_seq_no = net[p][1].number
    <3>1. CASE ReadHashing(p)
      BY <1>0, <3>1, HashingEffect
    <3>2. CASE ReadNumbered(p)
      BY <1>0, <2>2, <2>5, <3>2, NumberedEffect DEF NumbersRead
    <3> QED BY <1>9, <3>1, <3>2
  <2>7. Ordered(p)'
    <3>1. /\ Len(net'[p]) \in Nat /\ Len(net'[p]) + 1 <= Len(net[p])
          /\ \A i \in 1 .. Len(net'[p]) : net'[p][i] = net[p][i + 1]
      BY <2>2 DEF n
    <3> QED BY <1>0, <1>c, <2>3, <3>1, OrderStays
  <2>8. FirstFits(p)'
    <3>1. ASSUME verdict'[p] # "HASHING", net'[p] # <<>>, IsCipher(p, 1)'
          PROVE  net'[p][1].number = NumberAfter(board'[p].in_seq_no, board'[q].x)
      <4>1. 2 \in 1 .. n /\ net'[p][1] = net[p][2]
        BY <2>2, <3>1
      <4>2. IsCipher(p, 2)
        BY <3>1, <4>1 DEF IsCipher
      <4>3. net[p][2].number = NumberAfter(net[p][1].number, board[q].x)
        BY <1>c, <2>5, <4>1, <4>2 DEF Ordered, n
      <4> QED BY <2>3, <2>6, <3>1, <4>1, <4>3
    <3> QED BY <3>1 DEF FirstFits
  <2>9. LastIsCounted(p)'
    <3>1. ASSUME connected, phase[p] # "closed", phase[q] # "closed",
                 net'[p] # <<>>, IsCipher(p, Len(net[p]))
          PROVE  net'[p][Len(net'[p])].number = board'[q].out_seq_no
      <4>1. net'[p][n - 1] = net[p][n]
        <5>1. n - 1 \in 1 .. n - 1 /\ (n - 1) + 1 = n
          BY <2>2, <3>1
        <5> QED BY <2>2, <5>1
      <4>2. net[p][n].number = board[q].out_seq_no
        BY <1>c, <2>2, <3>1 DEF LastIsCounted, n
      <4> QED BY <2>2, <2>3, <4>1, <4>2
    <3>3. net'[p] # <<>> => net'[p][Len(net'[p])] = net[p][Len(net[p])]
      <4>1. net'[p] # <<>> => n - 1 \in 1 .. n - 1 /\ (n - 1) + 1 = n
        BY <2>2
      <4> QED BY <2>2, <4>1 DEF n
    <3>4. ASSUME connected, phase[p] # "closed", phase[q] # "closed",
                 net'[p] = <<>>, verdict'[p] # "HASHING"
          PROVE  board'[p].in_seq_no = board'[q].out_seq_no
      <4>1. n = 1 /\ net[p][1].number = board[q].out_seq_no
        BY <1>c, <2>2, <2>5, <3>4 DEF LastIsCounted, n
      <4> QED BY <2>3, <2>6, <3>4, <4>1
    <3> QED BY <2>2, <3>1, <3>3, <3>4 DEF LastIsCounted, IsCipher
  <2> QED BY <2>0, <2>4, <2>7, <2>8, <2>9 DEF ChainInv
<1>10. ASSUME NEW p \in Peers, Hangup(p)
       PROVE  ChainInv'
  <2> DEFINE q == Other(p)
             n == Len(net[q])
  <2>0. q \in Peers /\ q # p /\ Other(q) = p /\ (\A r \in Peers : r = p \/ r = q)
    OBVIOUS
  <2>1. /\ board' = board /\ verdict' = verdict
        /\ phase'[p] = "closed"
        /\ net'[p] = <<>> /\ net'[q] = Written(p, EndMessage)[q]
    BY <1>0, <1>10, <2>0, MessageFacts, WrittenType DEF Hangup, TypeOK
  <2>2. Len(net'[p]) = 0
    BY <2>1
  <2>3. Ordered(p)' /\ FirstFits(p)' /\ LastIsCounted(p)'
    BY <2>1, <2>2 DEF Ordered, FirstFits, LastIsCounted
  <2>4. LastIsCounted(q)'
    BY <2>0, <2>1 DEF LastIsCounted
  <2>5. Ordered(q)' /\ FirstFits(q)'
    <3>1. CASE ~ (connected /\ phase[q] # "closed")
      <4>1. net'[q] = net[q]
        BY <1>0, <2>1, <3>1, MessageFacts, WrittenEffect
      <4> QED BY <1>c, <2>0, <2>1, <4>1 DEF Ordered, FirstFits, IsCipher
    <3>2. CASE connected /\ phase[q] # "closed"
      <4>1. /\ n \in Nat /\ Len(net'[q]) = n + 1
            /\ net'[q][n + 1] = EndMessage
            /\ \A j \in 1 .. n : net'[q][j] = net[q][j]
        BY <1>0, <2>1, <3>2, MessageFacts, WrittenEffect
      <4>2. net[q] # <<>> <=> n >= 1
        BY <1>0, <2>0, NetFacts
      <4>3. net'[q][n + 1].kind # "cipher"
        BY <4>1 DEF EndMessage
      <4> HIDE DEF n
      <4>4. Ordered(q)'
        <5> SUFFICES ASSUME NEW i \in 1 .. n + 1, NEW j \in 1 .. n + 1,
                            IsCipher(q, i)', IsCipher(q, j)'
                     PROVE  /\ i < j => net'[q][i].text < net'[q][j].text
                            /\ j = i + 1 => net'[q][j].number =
                                              NumberAfter(net'[q][i].number, board'[p].x)
          BY <2>0, <4>1 DEF Ordered
        <5>1. i \in 1 .. n /\ j \in 1 .. n
          BY <4>1, <4>3 DEF IsCipher
        <5>2. /\ net'[q][i] = net[q][i] /\ net'[q][j] = net[q][j]
              /\ IsCipher(q, i) /\ IsCipher(q, j)
              /\ i \in 1 .. Len(net[q]) /\ j \in 1 .. Len(net[q])
          BY <4>1, <5>1 DEF IsCipher, n
        <5> QED BY <1>c, <2>0, <2>1, <5>2 DEF Ordered
      <4>5. FirstFits(q)'
        <5>1. CASE n >= 1
          <6>1. net'[q][1] = net[q][1]
            BY <4>1, <5>1
          <6> QED BY <1>c, <2>0, <2>1, <4>2, <5>1, <6>1 DEF FirstFits, IsCipher
        <5>2. CASE n = 0
          BY <4>3, <5>2 DEF FirstFits, IsCipher
        <5> QED BY <4>1, <5>1, <5>2
      <4> QED BY <4>4, <4>5
    <3> QED BY <3>1, <3>2
  <2> QED BY <2>0, <2>3, <2>4, <2>5 DEF ChainInv
<1>11. ASSUME NEW p \in Peers, ReadEnd(p)
       PROVE  ChainInv'
  <2> DEFINE q == Other(p)
  <2>0. q \in Peers /\ q # p /\ Other(q) = p /\ (\A r \in Peers : r = p \/ r = q)
    OBVIOUS
  <2>1. /\ board' = board /\ verdict' = verdict
        /\ phase'[p] = "closed" /\ net'[p] = <<>> /\ net'[q] = net[q]
    BY <1>0, <1>11, <2>0 DEF ReadEnd, TypeOK
  <2>2. Len(net'[p]) = 0
    BY <2>1
  <2>3. Ordered(p)' /\ FirstFits(p)' /\ LastIsCounted(p)'
    BY <2>1, <2>2 DEF Ordered, FirstFits, LastIsCounted
  <2>4. Ordered(q)' /\ FirstFits(q)' /\ LastIsCounted(q)'
    BY <1>c, <2>0, <2>1 DEF Ordered, FirstFits, LastIsCounted, IsCipher
  <2> QED BY <2>0, <2>3, <2>4 DEF ChainInv
<1>12. CASE LinkLost
  <2>1. board' = board /\ verdict' = verdict /\ connected' = FALSE
    BY <1>12 DEF LinkLost
  <2>2. ASSUME NEW p \in Peers
        PROVE  Ordered(p)' /\ FirstFits(p)' /\ LastIsCounted(p)'
    <3>1. /\ Len(net'[p]) \in Nat /\ Len(net[p]) \in Nat /\ Len(net'[p]) <= Len(net[p])
          /\ \A i \in 1 .. Len(net'[p]) : net'[p][i] = net[p][i]
          /\ net[p] = <<>> => net'[p] = <<>>
          /\ net'[p] # <<>> => Len(net'[p]) >= 1
      BY <1>0, <1>12, LostEffect
    <3>2. Ordered(p)'
      <4>1. /\ \A i \in 1 .. Len(net'[p]) : net'[p][i] = net[p][i + 0]
            /\ Len(net'[p]) + 0 <= Len(net[p])
        BY <3>1
      <4> QED BY <1>0, <1>c, <2>1, <3>1, <4>1, OrderStays
    <3>3. FirstFits(p)'
      BY <1>c, <2>1, <3>1 DEF FirstFits, IsCipher
    <3>4. LastIsCounted(p)'
      BY <2>1 DEF LastIsCounted
    <3> QED BY <3>2, <3>3, <3>4
  <2> QED BY <2>2 DEF ChainInv
<1>13. ASSUME NEW p \in Peers, ListenerDies(p)
       PROVE  ChainInv'
  <2>1. /\ net' = net /\ verdict' = verdict /\ connected' = connected /\ board' = board
        /\ \A q \in Peers : phase'[q] # "closed" => phase[q] # "closed"
    BY <1>0, <1>13 DEF ListenerDies, TypeOK
  <2> QED BY <1>0, <2>1, ChainStays
<1>14. CASE UNCHANGED vars
  BY <1>0, <1>14 DEF vars, ChainInv, Ordered, FirstFits, LastIsCounted, IsCipher
<1> QED
  BY <1>1, <1>2, <1>3, <1>4, <1>5, <1>6, <1>7, <1>8, <1>9, <1>10, <1>11, <1>12, <1>13,
     <1>14 DEF Next, Listen

-------------------------------------------------------------------------------
(*************************** The theorems **********************************)

LEMMA Inductive == Spec => []IInv
<1>1. Init => IInv
  BY InitType, InitHandshake, InitNet, InitChain DEF IInv
<1>2. IInv /\ [Next]_vars => IInv'
  <2>1. IInv => TypeOK
    BY DEF IInv
  <2> QED BY <2>1, NextType, HandshakeNext, NetNext, ChainNext DEF IInv
<1> QED BY <1>1, <1>2, PTL DEF Spec

\* What a listener thread reads next is what its phase is ready for: the two
\* derivations and the Send button never overtake each other.
THEOREM ReadableNext == Spec => []NextIsReadable
<1>1. IInv => NextIsReadable
  <2> SUFFICES ASSUME IInv, NEW p \in Peers, net[p] # <<>>
               PROVE  /\ phase[p] = "awaitToken" => Head(net[p]).kind # "cipher"
                      /\ phase[p] = "open" =>
                            /\ Head(net[p]).kind # "token"
                            /\ Head(net[p]).kind = "cipher" =>
                                  Head(net[p]).key = board[p].my_k
    BY DEF NextIsReadable
  <2>1. TypeOK /\ HandshakeInv /\ NetInv
    BY DEF IInv
  <2>2. /\ net[p] \in Seq(Message) /\ Head(net[p]) = net[p][1]
        /\ 1 \in 1 .. Len(net[p])
    BY <2>1, TailFacts DEF TypeOK
  <2>3. ItemOK(p, 1)
    BY <2>1, <2>2 DEF NetInv
  <2>4. phase[p] = "awaitToken" => ~ Past
    BY PeerFacts DEF Past, Before
  <2>5. phase[p] = "open" => ~ Before(p) /\ Keyed(p)
    BY <2>1 DEF Before, HandshakeInv
  <2> QED BY <2>2, <2>3, <2>4, <2>5 DEF ItemOK, TokenOK, CipherOK, Keyed
<1> QED BY <1>1, Inductive, PTL

\* A board that is in step accepts the message it reads next.
LEMMA Expected ==
    ASSUME IInv, NEW p \in Peers, phase[p] = "open", verdict[p] # "HASHING",
           net[p] # <<>>, Head(net[p]).kind = "cipher"
    PROVE  NumberAccepted(board[p], Head(net[p]).number)
<1>1. TypeOK /\ HandshakeInv /\ ChainInv
  BY DEF IInv
<1>2. Head(net[p]) = net[p][1] /\ IsCipher(p, 1)
  BY <1>1, TailFacts DEF TypeOK, IsCipher
<1>3. net[p][1].number = NumberAfter(board[p].in_seq_no, board[Other(p)].x)
  BY <1>1, <1>2 DEF ChainInv, FirstFits
<1>4. board[p].x \in {0, 1} /\ board[Other(p)].x = 1 - board[p].x
  BY <1>1, PeerFacts DEF HandshakeInv, Roles
<1>5. board[p].in_seq_no \in Int16
  BY <1>1 DEF TypeOK, Boards
<1> QED BY <1>2, <1>3, <1>4, <1>5, ExpectedIsNext DEF NumberAccepted

\* A board whose last answer was not "HASHING NOT MATCHING" accepts the next
\* message, for any number of texts and across the wrap-around.
THEOREM StepKept == Spec => []InStep
<1>1. IInv => InStep
  BY Expected DEF InStep
<1> QED BY <1>1, Inductive, PTL

\* A message is never good for the board that encrypted it: the parity that
\* separates the directions survives the wrap-around of the numbers.
THEOREM SenderRefuses == Spec => []NotForItsSender
<1>1. IInv => NotForItsSender
  <2> SUFFICES ASSUME IInv, NEW p \in Peers, NEW i \in DOMAIN net[Other(p)],
                      net[Other(p)][i].kind = "cipher"
               PROVE  ~ NumberAccepted(board[p], net[Other(p)][i].number)
    BY DEF NotForItsSender
  <2> DEFINE q == Other(p)
  <2>0. q \in Peers /\ Other(q) = p
    BY PeerFacts
  <2>1. TypeOK /\ NetInv
    BY DEF IInv
  <2>2. i \in 1 .. Len(net[q])
    BY <2>0, <2>1, LenProperties DEF TypeOK
  <2>3. net[q][i].number % 2 = board[p].x /\ net[q][i].number \in Int16
    BY <2>0, <2>1, <2>2, NetFacts DEF NetInv, ItemOK, CipherOK, Message
  <2>4. board[p] \in Boards
    BY <2>1 DEF TypeOK
  <2> QED BY <2>3, <2>4, OwnNumberRefused
<1> QED BY <1>1, Inductive, PTL

-------------------------------------------------------------------------------
(*************************** The texts under way ***************************)

\* The ciphertexts of s are in the order their texts were typed.
Rising(s) ==
    \A i, j \in 1 .. Len(s) :
        s[i].kind = "cipher" /\ s[j].kind = "cipher" /\ i < j => s[i].text < s[j].text

LEMMA Members ==
    ASSUME NEW s \in Seq(Message)
    PROVE  \A m : m \in TextsIn(s) <=>
              \E i \in 1 .. Len(s) : s[i].kind = "cipher" /\ m = TextOf(s[i])
<1>1. DOMAIN s = 1 .. Len(s) BY LenProperties
<1> QED BY <1>1 DEF TextsIn

LEMMA TextNumbers ==
    ASSUME NEW s \in Seq(Message), NEW i \in 1 .. Len(s)
    PROVE  s[i].text \in Nat /\ TextOf(s[i]).text = s[i].text
<1>1. s[i] \in Message BY ElementOfSeq
<1> QED BY <1>1 DEF Message, TextOf

LEMMA TextsOfNothing == TextsIn(<<>>) = {}
<1>1. <<>> \in Seq(Message) /\ Len(<<>>) = 0 BY EmptySeq
<1>2. \A m : m \notin TextsIn(<<>>)
  <2>1. 1 .. Len(<<>>) = {} BY <1>1
  <2> QED BY <1>1, <2>1, Members
<1> QED BY <1>2

LEMMA TextsAppended ==
    ASSUME NEW s \in Seq(Message), NEW m \in Message
    PROVE  TextsIn(Append(s, m)) =
              TextsIn(s) \cup (IF m.kind = "cipher" THEN {TextOf(m)} ELSE {})
<1> DEFINE t == Append(s, m)
           n == Len(s)
<1>1. /\ t \in Seq(Message) /\ Len(t) = n + 1 /\ n \in Nat
      /\ \A i \in 1 .. n : t[i] = s[i]
      /\ t[n + 1] = m
  BY AppendFacts, LenProperties
<1> HIDE DEF t, n
<1>2. ASSUME NEW x
      PROVE  x \in TextsIn(t) <=>
                \/ x \in TextsIn(s)
                \/ m.kind = "cipher" /\ x = TextOf(m)
  <2>1. x \in TextsIn(s) <=> \E i \in 1 .. n : s[i].kind = "cipher" /\ x = TextOf(s[i])
    BY Members DEF n
  <2>2. x \in TextsIn(t) <=> \E i \in 1 .. n + 1 : t[i].kind = "cipher" /\ x = TextOf(t[i])
    BY <1>1, Members
  <2>3. \A i : i \in 1 .. n + 1 <=> i \in 1 .. n \/ i = n + 1 BY <1>1
  <2> QED BY <1>1, <2>1, <2>2, <2>3
<1>3. CASE m.kind = "cipher" BY <1>2, <1>3 DEF t
<1>4. CASE m.kind # "cipher" BY <1>2, <1>4 DEF t
<1> QED BY <1>3, <1>4

LEMMA TextsTaken ==
    ASSUME NEW s \in Seq(Message), s # <<>>, Rising(s)
    PROVE  /\ s[1].kind # "cipher" => TextsIn(Tail(s)) = TextsIn(s)
           /\ s[1].kind = "cipher" =>
                 /\ TextsIn(Tail(s)) = TextsIn(s) \ {TextOf(s[1])}
                 /\ TextOf(s[1]) \in TextsIn(s)
                 /\ \A u \in TextsIn(s) : s[1].text <= u.text
<1> DEFINE t == Tail(s)
           n == Len(s)
<1>1. /\ t \in Seq(Message) /\ Len(t) = n - 1 /\ n \in Nat /\ n >= 1
      /\ \A i \in 1 .. n - 1 : t[i] = s[i + 1]
  BY TailFacts
<1> HIDE DEF t
<1>2. \A x : x \in TextsIn(s) <=> \E i \in 1 .. n : s[i].kind = "cipher" /\ x = TextOf(s[i])
  BY Members
<1>3. \A x : x \in TextsIn(t) <=>
                \E i \in 1 .. n - 1 : s[i + 1].kind = "cipher" /\ x = TextOf(s[i + 1])
  BY <1>1, Members
<1>4. \A i, j \in 1 .. n : s[i].kind = "cipher" /\ s[j].kind = "cipher" /\ i < j
                              => s[i].text < s[j].text
  BY DEF Rising
<1>5. \A i \in 1 .. n : s[i].text \in Nat BY TextNumbers
<1>6. \A i \in 1 .. n : TextOf(s[i]).text = s[i].text BY TextNumbers
<1> HIDE DEF n
<1>7. /\ \A i \in 1 .. n - 1 : i + 1 \in 1 .. n /\ i + 1 # 1
      /\ \A i \in 1 .. n : i = 1 \/ (i - 1 \in 1 .. n - 1 /\ i = (i - 1) + 1 /\ 1 < i)
      /\ 1 \in 1 .. n
  BY <1>1
<1>8. \A x : x \in TextsIn(t) <=>
                \E i \in 1 .. n : i # 1 /\ s[i].kind = "cipher" /\ x = TextOf(s[i])
  BY <1>3, <1>7
<1>9. CASE s[1].kind # "cipher"
  <2>1. \A x : x \in TextsIn(t) <=> x \in TextsIn(s) BY <1>2, <1>8, <1>9
  <2> QED BY <1>9, <2>1 DEF t
<1>10. CASE s[1].kind = "cipher"
  <2>1. \A i \in 1 .. n : i # 1 /\ s[i].kind = "cipher" => s[1].text < s[i].text
    BY <1>4, <1>7, <1>10
  <2>2. \A i \in 1 .. n : i # 1 /\ s[i].kind = "cipher" => TextOf(s[i]) # TextOf(s[1])
    BY <1>5, <1>6, <1>7, <2>1
  <2>3. \A x : x \in TextsIn(t) <=> x \in TextsIn(s) /\ x # TextOf(s[1])
    BY <1>2, <1>7, <1>8, <1>10, <2>2
  <2>4. TextOf(s[1]) \in TextsIn(s) BY <1>2, <1>7, <1>10
  <2>5. ASSUME NEW u \in TextsIn(s) PROVE s[1].text <= u.text
    <3>1. PICK i \in 1 .. n : s[i].kind = "cipher" /\ u = TextOf(s[i]) BY <1>2
    <3> QED BY <1>5, <1>6, <1>7, <2>1, <3>1
  <2>6. TextsIn(t) = TextsIn(s) \ {TextOf(s[1])} BY <2>3
  <2> QED BY <1>10, <2>4, <2>5, <2>6 DEF t
<1> QED BY <1>9, <1>10

\* A first part of s holds the first of its texts.
LEMMA TextsOfPart ==
    ASSUME NEW s \in Seq(Message), NEW t \in Seq(Message), Rising(s),
           Len(t) <= Len(s), \A i \in 1 .. Len(t) : t[i] = s[i]
    PROVE  /\ TextsIn(t) \subseteq TextsIn(s)
           /\ \A m \in TextsIn(t), u \in TextsIn(s) : u.text <= m.text => u \in TextsIn(t)
<1>1. Len(t) \in Nat /\ Len(s) \in Nat BY LenProperties
<1>2. \A i \in 1 .. Len(t) : i \in 1 .. Len(s) BY <1>1
<1>3. TextsIn(t) \subseteq TextsIn(s) BY <1>2, Members
<1>4. ASSUME NEW m \in TextsIn(t), NEW u \in TextsIn(s), u.text <= m.text
      PROVE  u \in TextsIn(t)
  <2>1. PICK i \in 1 .. Len(t) : s[i].kind = "cipher" /\ m = TextOf(s[i]) BY Members
  <2>2. PICK j \in 1 .. Len(s) : s[j].kind = "cipher" /\ u = TextOf(s[j]) BY Members
  <2>a. i \in 1 .. Len(s) BY <1>2
  <2>3. s[j].text <= s[i].text /\ s[i].text \in Nat /\ s[j].text \in Nat
    BY <1>4, <2>1, <2>2, <2>a, TextNumbers
  <2>4. ~ i < j BY <1>2, <2>1, <2>2, <2>3 DEF Rising
  <2>5. j \in 1 .. Len(t) BY <1>1, <2>4
  <2> QED BY <2>2, <2>5, Members
<1> QED BY <1>3, <1>4

-------------------------------------------------------------------------------
(**************************** Steps of the chat ****************************)

\* What the proof of the invariant gives for each direction.
LEMMA NetRises ==
    ASSUME TypeOK, ChainInv, NEW p \in Peers
    PROVE  net[p] \in Seq(Message) /\ Rising(net[p])
BY DEF TypeOK, ChainInv, Ordered, IsCipher, Rising

LEMMA Mapped ==
    /\ \A p \in Peers : TypedFor[p] = typed[Other(p)] /\ Pending[p] = TextsIn(net[p])
    /\ \A p \in Peers : Intact[p] = (verdict[p] # "HASHING")
BY DEF TypedFor, Pending, Intact

\* Nothing a text is concerned by has changed.
LEMMA Stutters ==
    ASSUME typed' = typed, shown' = shown, verdict' = verdict,
           \A p \in Peers : TextsIn(net'[p]) = TextsIn(net[p])
    PROVE  UNCHANGED Delivery!vars
<1>1. TypedFor' = TypedFor /\ Intact' = Intact BY DEF TypedFor, Intact
<1>2. Pending' = Pending BY DEF Pending
<1> QED BY <1>1, <1>2 DEF Delivery!vars

\* The end of a chat: what is still under way is a first part of what was, or
\* all of it, with END behind it.
LEMMA Ends ==
    ASSUME TypeOK, ChainInv, TypeOK', typed' = typed, shown' = shown, verdict' = verdict,
           \A p \in Peers :
              \/ /\ Len(net'[p]) <= Len(net[p])
                 /\ \A i \in 1 .. Len(net'[p]) : net'[p][i] = net[p][i]
              \/ TextsIn(net'[p]) = TextsIn(net[p])
    PROVE  Delivery!CutOff
<1>1. \A p \in Peers : net'[p] \in Seq(Message) BY DEF TypeOK
<1>2. TypedFor' = TypedFor /\ Intact' = Intact BY DEF TypedFor, Intact
<1>3. ASSUME NEW p \in Peers
      PROVE  /\ Pending'[p] \subseteq Pending[p]
             /\ \A m \in Pending'[p], u \in Pending[p] : u.text <= m.text => u \in Pending'[p]
  <2>1. Pending[p] = TextsIn(net[p]) /\ Pending'[p] = TextsIn(net'[p]) BY DEF Pending
  <2>2. net[p] \in Seq(Message) /\ Rising(net[p]) /\ net'[p] \in Seq(Message)
    BY <1>1, NetRises
  <2>3. CASE TextsIn(net'[p]) = TextsIn(net[p]) BY <2>1, <2>3
  <2>4. CASE /\ Len(net'[p]) <= Len(net[p])
             /\ \A i \in 1 .. Len(net'[p]) : net'[p][i] = net[p][i]
    BY <2>1, <2>2, <2>4, TextsOfPart
  <2> QED BY <2>3, <2>4
<1>4. Pending' \in [Peers -> SUBSET UNION {Pending[p] : p \in Peers}]
  <2>1. Pending' = [p \in Peers |-> Pending'[p]] BY DEF Pending
  <2>2. \A p \in Peers : Pending'[p] \in SUBSET UNION {Pending[q] : q \in Peers} BY <1>3
  <2> QED BY <2>1, <2>2
<1> QED BY <1>2, <1>3, <1>4 DEF Delivery!CutOff

\* A text is typed: it is written to the connection or lost with it.
LEMMA Posts ==
    ASSUME TypeOK, NEW p \in Peers, NEW w \in BOOLEAN,
           typed' = [typed EXCEPT ![p] = @ + 1], shown' = shown, verdict' = verdict,
           net'[p] = net[p],
           \/ net'[Other(p)] = net[Other(p)]
           \/ TextsIn(net'[Other(p)]) =
                 TextsIn(net[Other(p)]) \cup {[text |-> typed[p] + 1, word |-> w]}
    PROVE  Delivery!Post(Other(p), w)
<1> DEFINE q == Other(p)
<1>1. q \in Peers /\ Other(q) = p /\ Other(p) = q /\ p # q BY PeerFacts
<1>2. \A r \in Peers : r = p \/ r = q BY PeerFacts
<1>3. TypedFor[q] = typed[p] BY <1>1, Mapped
<1>4. TypedFor' = [TypedFor EXCEPT ![q] = @ + 1]
  <2>1. \A r \in Peers : Other(r) \in Peers /\ (Other(r) = p <=> r = q) BY PeerFacts
  <2>2. \A r \in Peers : typed'[Other(r)] = IF r = q THEN typed[Other(r)] + 1 ELSE typed[Other(r)]
    BY <1>1, <2>1 DEF TypeOK
  <2> QED BY <2>2 DEF TypedFor
<1>5. Intact' = Intact BY DEF Intact
<1>6. \/ Pending' = Pending
      \/ Pending' = [Pending EXCEPT ![q] = @ \cup {[text |-> typed[p] + 1, word |-> w]}]
  <2>1. CASE net'[q] = net[q] BY <1>2, <2>1 DEF Pending
  <2>2. CASE TextsIn(net'[q]) = TextsIn(net[q]) \cup {[text |-> typed[p] + 1, word |-> w]}
    BY <1>1, <1>2, <2>2 DEF Pending
  <2> QED BY <2>1, <2>2
<1> QED BY <1>3, <1>4, <1>5, <1>6 DEF Delivery!Post

\* A message that is written adds its text to those on their way, if it has one.
LEMMA TextsWritten ==
    ASSUME TypeOK, NEW p \in Peers, NEW m \in Message
    PROVE  /\ Written(p, m)[p] = net[p]
           /\ m.kind # "cipher" =>
                 TextsIn(Written(p, m)[Other(p)]) = TextsIn(net[Other(p)])
           /\ m.kind = "cipher" =>
                 \/ Written(p, m)[Other(p)] = net[Other(p)]
                 \/ TextsIn(Written(p, m)[Other(p)]) = TextsIn(net[Other(p)]) \cup {TextOf(m)}
<1>1. /\ net \in [Peers -> Seq(Message)] /\ Other(p) \in Peers /\ Other(p) # p
      /\ net[Other(p)] \in Seq(Message)
  BY PeerFacts DEF TypeOK
<1>2. \/ Written(p, m) = net
      \/ Written(p, m) = [net EXCEPT ![Other(p)] = Append(@, m)]
  BY DEF Written
<1>3. CASE Written(p, m) = net BY <1>3
<1>4. CASE Written(p, m) = [net EXCEPT ![Other(p)] = Append(@, m)]
  <2>1. Written(p, m)[Other(p)] = Append(net[Other(p)], m) /\ Written(p, m)[p] = net[p]
    BY <1>1, <1>4
  <2>2. TextsIn(Append(net[Other(p)], m)) =
           TextsIn(net[Other(p)]) \cup (IF m.kind = "cipher" THEN {TextOf(m)} ELSE {})
    BY <1>1, TextsAppended
  <2>3. CASE m.kind = "cipher" BY <2>1, <2>2, <2>3
  <2>4. CASE m.kind # "cipher" BY <2>1, <2>2, <2>4
  <2> QED BY <2>3, <2>4
<1> QED BY <1>2, <1>3, <1>4

\* A listener thread of an open chat takes the oldest text under way.
LEMMA Reads ==
    ASSUME IInv, NEW p \in Peers, Receives(p)
    PROVE  /\ Head(net[p]).kind = "cipher"
           /\ CipherOK(p, Head(net[p])) /\ Head(net[p]) = net[p][1]
           /\ TextOf(Head(net[p])) \in Pending[p]
           /\ Delivery!Take(p, TextOf(Head(net[p])))
<1> DEFINE m == Head(net[p])
<1>0. TypeOK /\ HandshakeInv /\ NetInv /\ ChainInv BY DEF IInv
<1>1. /\ net[p] \in Seq(Message) /\ net[p] # <<>> /\ m = net[p][1] /\ m.kind # "END"
      /\ Len(net[p]) \in Nat /\ Len(net[p]) >= 1 /\ m \in Message
      /\ net'[p] = Tail(net[p]) /\ net'[Other(p)] = net[Other(p)] /\ phase[p] = "open"
  BY <1>0, ReceivesEffect
<1>2. 1 \in 1 .. Len(net[p]) BY <1>1
<1>3. m.kind = "cipher"
  <2>1. ~ Before(p) BY <1>1 DEF Before
  <2>2. net[p][1].kind # "token" BY <1>0, <1>2, <2>1, KindsUnderWay
  <2>3. m.kind \in {"token", "cipher", "END"} BY <1>1 DEF Message
  <2> QED BY <1>1, <2>2, <2>3
<1>4. CipherOK(p, m) BY <1>0, <1>1, <1>2, <1>3 DEF NetInv, ItemOK
<1>5. /\ TextsIn(Tail(net[p])) = TextsIn(net[p]) \ {TextOf(m)}
      /\ TextOf(m) \in TextsIn(net[p])
      /\ \A u \in TextsIn(net[p]) : m.text <= u.text
  BY <1>0, <1>1, <1>3, NetRises, TextsTaken
<1>6. Pending[p] = TextsIn(net[p]) BY Mapped
<1>7. Pending' = [Pending EXCEPT ![p] = @ \ {TextOf(m)}]
  <2>1. \A q \in Peers : q # p => net'[q] = net[q]
    BY <1>1, PeerFacts
  <2> QED BY <1>1, <1>5, <2>1 DEF Pending
<1>8. TypedFor' = TypedFor BY DEF Receives, TypedFor
<1>9. TextOf(m).text = m.text BY DEF TextOf
<1> QED BY <1>1, <1>3, <1>4, <1>5, <1>6, <1>7, <1>8, <1>9 DEF Delivery!Take, Delivery!Oldest

\* "HASHING NOT MATCHING": the text is lost and the board out of step.
LEMMA Garbles ==
    ASSUME IInv, NEW p \in Peers, ReadHashing(p)
    PROVE  \E m \in Pending[p] : Delivery!Garble(p, m)
<1>1. TextOf(Head(net[p])) \in Pending[p] /\ Delivery!Take(p, TextOf(Head(net[p])))
  BY Reads DEF ReadHashing
<1>2. verdict' = [verdict EXCEPT ![p] = "HASHING"] /\ shown' = shown
      /\ verdict \in [Peers -> Verdicts]
  BY DEF ReadHashing, IInv, TypeOK
<1>3. Intact' = [Intact EXCEPT ![p] = FALSE] BY <1>2 DEF Intact
<1> QED BY <1>1, <1>2, <1>3 DEF Delivery!Garble

\* Otherwise it is shown, kept back for a word in it, or the price of getting
\* back in step.
LEMMA Judges ==
    ASSUME IInv, NEW p \in Peers, ReadNumbered(p)
    PROVE  \E m \in Pending[p] :
              Delivery!Show(p, m) \/ Delivery!Swallow(p, m) \/ Delivery!Resync(p, m)
<1> DEFINE h == Head(net[p])
<1>0. TypeOK /\ HandshakeInv /\ NetInv /\ ChainInv BY DEF IInv
<1>1. /\ h.kind = "cipher" /\ CipherOK(p, h) /\ h = net[p][1]
      /\ TextOf(h) \in Pending[p] /\ Delivery!Take(p, TextOf(h))
  BY Reads DEF ReadNumbered
<1>2. phase[p] = "open" /\ net[p] # <<>> BY DEF ReadNumbered, Receives
<1>3. NumbersRead(board[p], h) = {h.number}
  BY <1>0, <1>1, <1>2 DEF NumbersRead, HandshakeInv, Keyed, CipherOK
<1>4. \/ /\ NumberAccepted(board[p], h.number)
         /\ verdict' = [verdict EXCEPT ![p] = "confirmed"]
         /\ shown' = IF h.word THEN shown ELSE [shown EXCEPT ![p] = h.text]
      \/ /\ ~ NumberAccepted(board[p], h.number)
         /\ verdict' = [verdict EXCEPT ![p] = "wrong"]
         /\ shown' = shown
  BY <1>3 DEF ReadNumbered
<1>5. Intact' = [Intact EXCEPT ![p] = TRUE]
  <2>1. verdict \in [Peers -> Verdicts] BY <1>0 DEF TypeOK
  <2> QED BY <1>4, <2>1 DEF Intact
<1>6. TextOf(h).text = h.text /\ TextOf(h).word = h.word BY DEF TextOf
<1>7. h.text > shown[p]
  <2>1. h.text \in Nat /\ shown[p] \in Nat
    <3>1. h \in Message BY <1>0, ReceivesType DEF ReadNumbered
    <3> QED BY <1>0, <3>1 DEF TypeOK, Message
  <2>2. shown[p] < h.text BY <1>1 DEF CipherOK
  <2> QED BY <2>1, <2>2
<1>8. CASE NumberAccepted(board[p], h.number) /\ h.word
  <2>1. shown' = shown BY <1>4, <1>8
  <2> QED BY <1>1, <1>5, <1>6, <1>8, <2>1 DEF Delivery!Swallow
<1>9. CASE NumberAccepted(board[p], h.number) /\ ~ h.word
  <2>1. shown' = [shown EXCEPT ![p] = h.text] BY <1>4, <1>9
  <2> QED BY <1>1, <1>5, <1>6, <1>7, <1>9, <2>1 DEF Delivery!Show
<1>10. CASE ~ NumberAccepted(board[p], h.number)
  <2>1. verdict[p] = "HASHING"
    BY <1>0, <1>1, <1>2, <1>10, Expected
  <2>2. ~ Intact[p] BY <2>1, Mapped
  <2>3. shown' = shown BY <1>4, <1>10
  <2> QED BY <1>1, <1>5, <2>2, <2>3 DEF Delivery!Resync
<1> QED BY <1>8, <1>9, <1>10

-------------------------------------------------------------------------------
(****************************** The theorem *******************************)

LEMMA InitRefined == Init => Delivery!Init
<1> SUFFICES ASSUME Init PROVE Delivery!Init
  OBVIOUS
<1>1. \A p \in Peers : Other(p) \in Peers BY PeerFacts
<1>2. TypedFor = [p \in Peers |-> 0] BY <1>1 DEF Init, TypedFor
<1>3. Pending = [p \in Peers |-> {}] BY TextsOfNothing DEF Init, Pending
<1>4. Intact = [p \in Peers |-> TRUE] BY DEF Init, Intact
<1>5. shown = [p \in Peers |-> 0] BY DEF Init
<1> QED BY <1>2, <1>3, <1>4, <1>5 DEF Delivery!Init

\* The token that is taken from the front is no text.
LEMMA TokenTaken ==
    ASSUME IInv, NEW p \in Peers, Before(p), net[p] # <<>>, Head(net[p]).kind # "END"
    PROVE  /\ Head(net[p]) \in Message /\ Head(net[p]).key \in Keys
           /\ TextsIn(Tail(net[p])) = TextsIn(net[p])
<1>1. TypeOK /\ NetInv /\ ChainInv BY DEF IInv
<1>2. Head(net[p]).kind = "token" BY <1>1, HeadIsToken
<1>3. net[p] \in Seq(Message) /\ Rising(net[p]) BY <1>1, NetRises
<1>4. Head(net[p]) = net[p][1] /\ Head(net[p]) \in Message BY <1>3, TailFacts
<1> QED BY <1>2, <1>3, <1>4, TextsTaken DEF Message

\* Every step of a chat is a step of MessageDelivery or does not concern texts.
LEMMA StepRefined == IInv /\ [Next]_vars => [Delivery!Next]_(Delivery!vars)
<1> SUFFICES ASSUME IInv, [Next]_vars
             PROVE  [Delivery!Next]_(Delivery!vars)
  OBVIOUS
<1> USE PeerFacts
<1>0. TypeOK /\ HandshakeInv /\ NetInv /\ ChainInv /\ TypeOK'
  BY NextType DEF IInv
<1>n. \A p \in Peers : net[p] \in Seq(Message) /\ net \in [Peers -> Seq(Message)]
  BY <1>0 DEF TypeOK
<1>m. \A p \in Peers : board'[p].my_k \in Keys
  BY <1>0 DEF TypeOK, Boards
<1>1. CASE Call
  <2> DEFINE m == Token(board'[Caller].my_k)
  <2>1. m \in Message /\ m.kind = "token"
    BY <1>m, MessageFacts DEF Token
  <2>2. net' = [net EXCEPT ![Callee] = Append(@, m)] BY <1>1 DEF Call
  <2> HIDE DEF m
  <2>3. TextsIn(Append(net[Callee], m)) = TextsIn(net[Callee])
    <3>1. net[Callee] \in Seq(Message) BY <1>n
    <3>2. TextsIn(Append(net[Callee], m)) =
             TextsIn(net[Callee]) \cup (IF m.kind = "cipher" THEN {TextOf(m)} ELSE {})
      BY <2>1, <3>1, TextsAppended
    <3> QED BY <2>1, <3>2
  <2>4. \A p \in Peers : TextsIn(net'[p]) = TextsIn(net[p])
    BY <1>n, <2>2, <2>3
  <2> QED BY <1>1, <2>4, Stutters DEF Call
<1>2. CASE CallUnanswered \/ Accept \/ DeriveKey \/ \E p \in Peers : ListenerDies(p)
  <2>1. typed' = typed /\ shown' = shown /\ verdict' = verdict /\ net' = net
    BY <1>2 DEF CallUnanswered, Accept, DeriveKey, ListenerDies
  <2> QED BY <2>1, Stutters
<1>3. CASE AnswerToken
  <2> DEFINE m == Token(board'[Callee].my_k)
  <2>1. m \in Message /\ m.kind = "token"
    BY <1>m, MessageFacts DEF Token
  <2>2. net' = [Written(Callee, m) EXCEPT ![Callee] = Tail(@)]
    BY <1>3 DEF AnswerToken
  <2> HIDE DEF m
  <2>3. /\ Written(Callee, m)[Callee] = net[Callee]
        /\ TextsIn(Written(Callee, m)[Caller]) = TextsIn(net[Caller])
        /\ Written(Callee, m) \in [Peers -> Seq(Message)]
    <3>1. /\ Written(Callee, m)[Callee] = net[Callee]
          /\ TextsIn(Written(Callee, m)[Other(Callee)]) = TextsIn(net[Other(Callee)])
      BY <1>0, <2>1, TextsWritten
    <3>2. Written(Callee, m) \in [Peers -> Seq(Message)]
      BY <1>n, <2>1, WrittenType
    <3>3. Other(Callee) = Caller OBVIOUS
    <3> QED BY <3>1, <3>2, <3>3
  <2>4. TextsIn(Tail(net[Callee])) = TextsIn(net[Callee])
    BY <1>3, TokenTaken DEF AnswerToken, Before
  <2>5. \A p \in Peers : TextsIn(net'[p]) = TextsIn(net[p])
    BY <2>2, <2>3, <2>4
  <2> QED BY <1>3, <2>5, Stutters DEF AnswerToken
<1>4. CASE TakeAnswer
  <2>1. TextsIn(Tail(net[Caller])) = TextsIn(net[Caller])
    BY <1>4, TokenTaken DEF TakeAnswer, Before
  <2>2. \A p \in Peers : TextsIn(net'[p]) = TextsIn(net[p])
    BY <1>4, <1>n, <2>1 DEF TakeAnswer
  <2> QED BY <1>4, <2>2, Stutters DEF TakeAnswer
<1>5. ASSUME NEW p \in Peers, NEW w \in Words, Send(p, w)
      PROVE  Delivery!Next
  <2> DEFINE m == Cipher(board'[p], typed'[p], w)
  <2>1. w \in BOOLEAN BY LinkAssumption
  <2>2. typed'[p] = typed[p] + 1 /\ typed'[p] \in Nat /\ board'[p] \in Boards
    BY <1>0, <1>5 DEF Send, TypeOK
  <2>3. m \in Message BY <2>1, <2>2, MessageFacts
  <2>4. m.kind = "cipher" /\ TextOf(m) = [text |-> typed[p] + 1, word |-> w]
    BY <2>2 DEF Cipher, TextOf
  <2>5. net' = Written(p, m) BY <1>5 DEF Send
  <2> HIDE DEF m
  <2>6. /\ net'[p] = net[p]
        /\ \/ net'[Other(p)] = net[Other(p)]
           \/ TextsIn(net'[Other(p)]) =
                 TextsIn(net[Other(p)]) \cup {[text |-> typed[p] + 1, word |-> w]}
    BY <1>0, <2>3, <2>4, <2>5, TextsWritten
  <2>7. Delivery!Post(Other(p), w)
    BY <1>0, <1>5, <2>1, <2>6, Posts DEF Send
  <2> QED BY <2>1, <2>7 DEF Delivery!Next
<1>6. ASSUME NEW p \in Peers, SendFails(p)
      PROVE  Delivery!Next
  <2>1. Delivery!Post(Other(p), TRUE)
    BY <1>0, <1>6, Posts DEF SendFails
  <2> QED BY <2>1 DEF Delivery!Next
<1>7. ASSUME NEW p \in Peers, Hangup(p)
      PROVE  Delivery!Next
  <2>1. EndMessage \in Message /\ EndMessage.kind = "END"
    BY MessageFacts DEF EndMessage
  <2>2. /\ TextsIn(Written(p, EndMessage)[Other(p)]) = TextsIn(net[Other(p)])
        /\ Written(p, EndMessage) \in [Peers -> Seq(Message)]
    BY <1>0, <1>n, <2>1, TextsWritten, WrittenType
  <2>3. net'[p] = <<>> /\ TextsIn(net'[Other(p)]) = TextsIn(net[Other(p)])
    BY <1>7, <2>2 DEF Hangup
  <2>4. Len(net'[p]) <= Len(net[p]) /\ \A i \in 1 .. Len(net'[p]) : net'[p][i] = net[p][i]
    BY <1>n, <2>3, LenProperties
  <2>5. \A q \in Peers : q = p \/ q = Other(p) OBVIOUS
  <2>6. Delivery!CutOff
    BY <1>0, <1>7, <2>3, <2>4, <2>5, Ends DEF Hangup
  <2> QED BY <2>6 DEF Delivery!Next
<1>8. ASSUME NEW p \in Peers, ReadHashing(p)
      PROVE  Delivery!Next
  BY <1>8, Garbles DEF Delivery!Next
<1>9. ASSUME NEW p \in Peers, ReadNumbered(p)
      PROVE  Delivery!Next
  BY <1>9, Judges DEF Delivery!Next
<1>10. ASSUME NEW p \in Peers, ReadEnd(p)
       PROVE  Delivery!Next
  <2>1. net'[p] = <<>> /\ \A q \in Peers : q # p => net'[q] = net[q]
    BY <1>10, <1>n DEF ReadEnd
  <2>2. Len(net'[p]) <= Len(net[p]) /\ \A i \in 1 .. Len(net'[p]) : net'[p][i] = net[p][i]
    BY <1>n, <2>1, LenProperties
  <2>3. Delivery!CutOff
    BY <1>0, <1>10, <2>1, <2>2, Ends DEF ReadEnd
  <2> QED BY <2>3 DEF Delivery!Next
<1>11. CASE LinkLost
  <2>1. \A p \in Peers : /\ Len(net'[p]) <= Len(net[p])
                         /\ \A i \in 1 .. Len(net'[p]) : net'[p][i] = net[p][i]
    BY <1>0, <1>11, LostEffect
  <2>2. Delivery!CutOff
    BY <1>0, <1>11, <2>1, Ends DEF LinkLost
  <2> QED BY <2>2 DEF Delivery!Next
<1>12. CASE UNCHANGED vars
  BY <1>12, Stutters DEF vars
<1> QED
  BY <1>1, <1>2, <1>3, <1>4, <1>5, <1>6, <1>7, <1>8, <1>9, <1>10, <1>11, <1>12
     DEF Next, Listen

\* A chat keeps the promise of MessageDelivery: whatever the two boards, the
\* threads and the connection do, texts are judged once, oldest first, and a
\* text is lost for one of the three reasons only or with the end of the chat.
THEOREM DeliveryImplemented == Spec => DeliveryHolds
<1>1. Init => Delivery!Init
  BY InitRefined
<1>2. IInv /\ [Next]_vars => [Delivery!Next]_(Delivery!vars)
  BY StepRefined
<1>3. Spec => []IInv
  BY Inductive
<1> QED BY <1>1, <1>2, <1>3, PTL DEF Spec, DeliveryHolds, Delivery!Spec

-------------------------------------------------------------------------------
(**************************** Growing numbers ******************************)

\* The numbers the sketch gives the texts of p, until they leave 16 bits.
Numbers(p) ==
    IF p = Caller
    THEN <<2, 6, 14, 30, 62, 126, 254, 510, 1022, 2046, 4094, 8190, 16382, 32766>>
    ELSE <<3, 9, 21, 45, 93, 189, 381, 765, 1533, 3069, 6141, 12285, 24573>>
NumberOf(p, t) == IF t = 0 THEN 0 ELSE Numbers(p)[t]

LEMMA FirstNumbers ==
    /\ \A t \in 0 .. 13 : NumberAfter(NumberOf(Caller, t), 0) = NumberOf(Caller, t + 1)
    /\ \A t \in 0 .. 12 : NumberAfter(NumberOf(Callee, t), 1) = NumberOf(Callee, t + 1)
<1>1. Caller # Callee BY PeerFacts
<1>2. ASSUME NEW t \in 0 .. 13
      PROVE  NumberAfter(NumberOf(Caller, t), 0) = NumberOf(Caller, t + 1)
  <2>1. \/ t = 0 \/ t = 1 \/ t = 2 \/ t = 3 \/ t = 4 \/ t = 5 \/ t = 6 \/ t = 7
        \/ t = 8 \/ t = 9 \/ t = 10 \/ t = 11 \/ t = 12 \/ t = 13
    OBVIOUS
  <2> QED BY <2>1 DEF NumberAfter, Wrap16, NumberOf, Numbers
<1>3. ASSUME NEW t \in 0 .. 12
      PROVE  NumberAfter(NumberOf(Callee, t), 1) = NumberOf(Callee, t + 1)
  <2>1. \/ t = 0 \/ t = 1 \/ t = 2 \/ t = 3 \/ t = 4 \/ t = 5 \/ t = 6 \/ t = 7
        \/ t = 8 \/ t = 9 \/ t = 10 \/ t = 11 \/ t = 12
    OBVIOUS
  <2> QED BY <1>1, <2>1 DEF NumberAfter, Wrap16, NumberOf, Numbers
<1> QED BY <1>2, <1>3

LEMMA NumbersRise ==
    ASSUME NEW p \in Peers, NEW t \in 0 .. Fresh(p), NEW u \in 0 .. Fresh(p), t < u
    PROVE  NumberOf(p, t) < NumberOf(p, u)
<1>1. Caller # Callee BY PeerFacts
<1>2. CASE p = Caller
  <2>1. t \in 0 .. 14 /\ u \in 0 .. 14 BY <1>2 DEF Fresh
  <2> QED BY <1>2, <2>1 DEF NumberOf, Numbers
<1>3. CASE p = Callee
  <2>1. t \in 0 .. 13 /\ u \in 0 .. 13 BY <1>1, <1>3 DEF Fresh
  <2> QED BY <1>1, <1>3, <2>1 DEF NumberOf, Numbers
<1> QED BY <1>2, <1>3, PeerFacts

\* The ciphertexts a sequence holds.
Ciphers(s) == {m \in Message : m.kind = "cipher" /\ \E i \in 1 .. Len(s) : m = s[i]}

LEMMA CiphersOfNothing == Ciphers(<<>>) = {}
<1>1. <<>> \in Seq(Message) /\ Len(<<>>) = 0 BY EmptySeq
<1>2. 1 .. Len(<<>>) = {} BY <1>1
<1> QED BY <1>2 DEF Ciphers

LEMMA CiphersAppended ==
    ASSUME NEW s \in Seq(Message), NEW m \in Message
    PROVE  /\ Ciphers(Append(s, m)) \subseteq Ciphers(s) \cup {m}
           /\ m.kind # "cipher" => Ciphers(Append(s, m)) \subseteq Ciphers(s)
<1> DEFINE t == Append(s, m)
<1>1. /\ Len(t) = Len(s) + 1 /\ Len(s) \in Nat
      /\ \A i \in 1 .. Len(s) : t[i] = s[i]
      /\ t[Len(s) + 1] = m
  BY AppendFacts, LenProperties
<1> HIDE DEF t
<1>2. \A i \in 1 .. Len(t) : i \in 1 .. Len(s) \/ i = Len(s) + 1 BY <1>1
<1>3. Ciphers(t) \subseteq Ciphers(s) \cup {m} BY <1>1, <1>2 DEF Ciphers
<1>4. m.kind # "cipher" => m \notin Ciphers(t) BY DEF Ciphers
<1> QED BY <1>3, <1>4 DEF t

LEMMA CiphersOfTail ==
    ASSUME NEW s \in Seq(Message), s # <<>>
    PROVE  Ciphers(Tail(s)) \subseteq Ciphers(s)
<1>1. /\ Len(Tail(s)) = Len(s) - 1 /\ Len(s) \in Nat
      /\ \A i \in 1 .. Len(s) - 1 : Tail(s)[i] = s[i + 1]
  BY TailFacts
<1>2. \A i \in 1 .. Len(Tail(s)) : i + 1 \in 1 .. Len(s) /\ Tail(s)[i] = s[i + 1] BY <1>1
<1> QED BY <1>2 DEF Ciphers

LEMMA CiphersWritten ==
    ASSUME TypeOK, NEW p \in Peers, NEW m \in Message
    PROVE  /\ Ciphers(Written(p, m)[Other(p)]) \subseteq Ciphers(net[Other(p)]) \cup {m}
           /\ m.kind # "cipher" =>
                 Ciphers(Written(p, m)[Other(p)]) \subseteq Ciphers(net[Other(p)])
<1>1. /\ net \in [Peers -> Seq(Message)] /\ Other(p) \in Peers
      /\ net[Other(p)] \in Seq(Message)
  BY PeerFacts DEF TypeOK
<1>2. \/ Written(p, m)[Other(p)] = net[Other(p)]
      \/ Written(p, m)[Other(p)] = Append(net[Other(p)], m)
  BY <1>1 DEF Written
<1> QED BY <1>1, <1>2, CiphersAppended

\* Only the Send button puts a ciphertext on its way, with the number and the
\* text it was pressed for.
Sends(p, w) ==
    /\ Send(p, w)
    /\ Ciphers(net'[Other(p)]) \subseteq
          Ciphers(net[Other(p)]) \cup {Cipher(board'[p], typed'[p], w)}
Brings(q) == Ciphers(net'[q]) \subseteq Ciphers(net[q])

LEMMA CiphersNext ==
    ASSUME IInv, [Next]_vars
    PROVE  \A q \in Peers : Brings(q) \/ \E w \in Words : Sends(Other(q), w)
<1> USE PeerFacts DEF Brings
<1>0. TypeOK /\ HandshakeInv /\ NetInv /\ ChainInv /\ TypeOK'
  BY NextType DEF IInv
<1>n. net \in [Peers -> Seq(Message)] /\ \A p \in Peers : net[p] \in Seq(Message)
  BY <1>0 DEF TypeOK
<1>t. \A p \in Peers : net[p] # <<>> => Ciphers(Tail(net[p])) \subseteq Ciphers(net[p])
  BY <1>n, CiphersOfTail
<1>m. \A p \in Peers : Token(board'[p].my_k) \in Message /\ Token(board'[p].my_k).kind = "token"
  <2>1. \A p \in Peers : board'[p].my_k \in Keys BY <1>0 DEF TypeOK, Boards
  <2> QED BY <2>1, MessageFacts DEF Token
<1>1. CASE Call
  <2> DEFINE m == Token(board'[Caller].my_k)
  <2>1. m \in Message /\ m.kind = "token" BY <1>m
  <2>2. net' = [net EXCEPT ![Callee] = Append(@, m)] BY <1>1 DEF Call
  <2> HIDE DEF m
  <2>3. Ciphers(Append(net[Callee], m)) \subseteq Ciphers(net[Callee])
    BY <1>n, <2>1, CiphersAppended
  <2> QED BY <1>n, <2>2, <2>3
<1>2. CASE CallUnanswered \/ Accept \/ DeriveKey \/ UNCHANGED vars
           \/ \E p \in Peers : SendFails(p) \/ ListenerDies(p)
  <2>1. net' = net BY <1>2 DEF CallUnanswered, Accept, DeriveKey, SendFails, ListenerDies, vars
  <2> QED BY <2>1
<1>3. CASE AnswerToken
  <2> DEFINE m == Token(board'[Callee].my_k)
  <2>1. m \in Message /\ m.kind = "token" BY <1>m
  <2>2. net' = [Written(Callee, m) EXCEPT ![Callee] = Tail(@)] /\ net[Callee] # <<>>
    BY <1>3 DEF AnswerToken
  <2> HIDE DEF m
  <2>3. /\ Written(Callee, m) \in [Peers -> Seq(Message)]
        /\ Written(Callee, m)[Callee] = net[Callee]
    BY <1>0, <1>n, <2>1, TextsWritten, WrittenType
  <2>4. Ciphers(Written(Callee, m)[Other(Callee)]) \subseteq Ciphers(net[Other(Callee)])
    BY <1>0, <2>1, CiphersWritten
  <2>5. net'[Callee] = Tail(net[Callee]) /\ net'[Caller] = Written(Callee, m)[Caller]
    BY <2>2, <2>3
  <2> QED BY <1>t, <2>2, <2>4, <2>5
<1>4. ASSUME NEW p \in Peers, net' = [net EXCEPT ![p] = Tail(@)], net[p] # <<>>, NEW q \in Peers
      PROVE  Brings(q)
  <2>1. q = p \/ net'[q] = net[q] BY <1>n, <1>4
  <2>2. net'[p] = Tail(net[p]) BY <1>n, <1>4
  <2> QED BY <1>t, <1>4, <2>1, <2>2
<1>5. CASE TakeAnswer BY <1>4, <1>5 DEF TakeAnswer
<1>6. CASE \E p \in Peers : ReadHashing(p) \/ ReadNumbered(p)
  BY <1>4, <1>6 DEF ReadHashing, ReadNumbered, Receives
<1>7. ASSUME NEW p \in Peers, NEW w \in Words, Send(p, w), NEW q \in Peers
      PROVE  Brings(q) \/ \E v \in Words : Sends(Other(q), v)
  <2> DEFINE m == Cipher(board'[p], typed'[p], w)
  <2>1. m \in Message
    <3>1. w \in BOOLEAN /\ typed'[p] \in Nat /\ board'[p] \in Boards
      BY <1>0, LinkAssumption DEF TypeOK
    <3> QED BY <3>1, MessageFacts
  <2>2. net' = Written(p, m) BY <1>7 DEF Send
  <2>3. m = Cipher(board'[p], typed'[p], w) OBVIOUS
  <2> HIDE DEF m
  <2>4. net'[p] = net[p] BY <1>0, <2>1, <2>2, TextsWritten
  <2>5. Ciphers(net'[Other(p)]) \subseteq Ciphers(net[Other(p)]) \cup {m}
    BY <1>0, <2>1, <2>2, CiphersWritten
  <2>6. Sends(p, w) BY <1>7, <2>3, <2>5 DEF Sends
  <2>7. q = p \/ (q = Other(p) /\ Other(q) = p) OBVIOUS
  <2> QED BY <2>4, <2>6, <2>7
<1>8. ASSUME NEW p \in Peers, Hangup(p), NEW q \in Peers
      PROVE  Brings(q)
  <2>1. EndMessage \in Message /\ EndMessage.kind = "END"
    BY MessageFacts DEF EndMessage
  <2>2. Ciphers(Written(p, EndMessage)[Other(p)]) \subseteq Ciphers(net[Other(p)])
    BY <1>0, <2>1, CiphersWritten
  <2>3. Written(p, EndMessage) \in [Peers -> Seq(Message)] BY <1>n, <2>1, WrittenType
  <2>4. net'[p] = <<>> /\ net'[Other(p)] = Written(p, EndMessage)[Other(p)]
    BY <1>8, <2>3 DEF Hangup
  <2>5. q = p \/ q = Other(p) OBVIOUS
  <2> QED BY <2>2, <2>4, <2>5, CiphersOfNothing
<1>9. ASSUME NEW p \in Peers, ReadEnd(p), NEW q \in Peers
      PROVE  Brings(q)
  <2>1. net'[p] = <<>> /\ (q # p => net'[q] = net[q]) BY <1>9, <1>n DEF ReadEnd
  <2> QED BY <2>1, CiphersOfNothing
<1>10. CASE LinkLost
  <2>1. ASSUME NEW q \in Peers PROVE Brings(q)
    <3>1. /\ Len(net[q]) \in Nat /\ Len(net'[q]) \in Nat /\ Len(net'[q]) <= Len(net[q])
          /\ \A i \in 1 .. Len(net'[q]) : net'[q][i] = net[q][i]
      BY <1>0, <1>10, LostEffect
    <3>2. \A i \in 1 .. Len(net'[q]) : i \in 1 .. Len(net[q]) BY <3>1
    <3> QED BY <3>1, <3>2 DEF Ciphers
  <2> QED BY <2>1
<1> QED
  BY <1>1, <1>2, <1>3, <1>5, <1>6, <1>7, <1>8, <1>9, <1>10 DEF Next, Listen

\* Every number is the one of its text, on the board and on its way.
NumberInv ==
    \A p \in Peers :
        /\ typed[p] <= Fresh(p) => board[p].out_seq_no = NumberOf(p, typed[p])
        /\ \A m \in Ciphers(net[Other(p)]) :
              m.text <= Fresh(p) => m.number = NumberOf(p, m.text)

\* What a step does to the counter of p's board and to the texts p has typed.
LEMMA CountersNext ==
    ASSUME IInv, [Next]_vars, NEW p \in Peers
    PROVE  \/ typed'[p] = typed[p] /\ board'[p].out_seq_no = board[p].out_seq_no
           \/ typed'[p] = 0 /\ board'[p].out_seq_no = 0
           \/ /\ typed'[p] = typed[p] + 1
              /\ board'[p].out_seq_no = NumberAfter(board[p].out_seq_no, board[p].x)
              /\ InUse(p)
<1> USE PeerFacts
<1>0. TypeOK /\ HandshakeInv BY DEF IInv
<1>b. board \in [Peers -> Boards] /\ \A q \in Peers : q = p \/ q = Other(p)
  BY <1>0 DEF TypeOK
<1>1. CASE Call
  <2>1. typed' = typed /\ \A q \in Peers : typed[q] = 0
    BY <1>0, <1>1 DEF Call, HandshakeInv, Past, Before
  <2>2. /\ board'[Caller].out_seq_no = 0 /\ board'[Callee] = board[Callee]
    BY <1>0, <1>1, TokenSentEffect DEF Call
  <2> QED BY <2>1, <2>2
<1>2. CASE CallUnanswered
  <2>1. typed' = typed /\ \A q \in Peers : typed[q] = 0
    BY <1>0, <1>2 DEF CallUnanswered, HandshakeInv, Past, Before
  <2>2. /\ board'[Caller].out_seq_no = 0 /\ board'[Callee] = board[Callee]
    BY <1>0, <1>2, TokenSentEffect DEF CallUnanswered
  <2> QED BY <2>1, <2>2
<1>3. CASE AnswerToken
  <2>1. typed' = typed /\ \A q \in Peers : typed[q] = 0
    BY <1>0, <1>3 DEF AnswerToken, HandshakeInv, Past, Before
  <2>2. /\ board'[Callee].out_seq_no = 0 /\ board'[Caller] = board[Caller]
    BY <1>0, <1>3, TokenSentEffect DEF AnswerToken
  <2> QED BY <2>1, <2>2
<1>4. CASE DeriveKey
  <2>1. first \in Keys /\ board' = [board EXCEPT ![Callee] = ReceivedTokenShared(@, first)]
    BY <1>0, <1>4 DEF DeriveKey, TypeOK
  <2>2. board'[Callee].out_seq_no = board[Callee].out_seq_no /\ board'[Caller] = board[Caller]
    BY <1>0, <2>1, KeyEffect
  <2> QED BY <1>4, <2>2 DEF DeriveKey
<1>5. CASE TakeAnswer
  <2>1. Head(net[Caller]).key \in Keys BY <1>5, TokenTaken DEF TakeAnswer, Before
  <2>2. board'[Caller].out_seq_no = board[Caller].out_seq_no /\ board'[Callee] = board[Callee]
    BY <1>0, <1>5, <2>1, KeyEffect DEF TakeAnswer
  <2> QED BY <1>5, <2>2 DEF TakeAnswer
<1>6. ASSUME NEW q \in Peers, SendFails(q) \/ \E w \in Words : Send(q, w)
      PROVE  \/ typed'[p] = typed[p] /\ board'[p].out_seq_no = board[p].out_seq_no
             \/ /\ typed'[p] = typed[p] + 1
                /\ board'[p].out_seq_no = NumberAfter(board[p].out_seq_no, board[p].x)
                /\ InUse(p)
  <2>1. /\ board' = [board EXCEPT ![q] = EncryptMessage(@)]
        /\ typed' = [typed EXCEPT ![q] = @ + 1]
        /\ window[q] = "usable"
    BY <1>6 DEF Send, SendFails
  <2>2. /\ board'[q].out_seq_no = NumberAfter(board[q].out_seq_no, board[q].x)
        /\ board'[Other(q)] = board[Other(q)]
    BY <1>0, <2>1, EncryptEffect
  <2>3. typed'[q] = typed[q] + 1 /\ typed'[Other(q)] = typed[Other(q)] BY <1>0, <2>1 DEF TypeOK
  <2>4. p = q \/ p = Other(q) OBVIOUS
  <2> QED BY <2>1, <2>2, <2>3, <2>4 DEF InUse
<1>7. ASSUME NEW q \in Peers, ReadHashing(q) \/ ReadNumbered(q)
      PROVE  typed'[p] = typed[p] /\ board'[p].out_seq_no = board[p].out_seq_no
  <2>1. Takes(q) BY <1>0, <1>7, HashingEffect, NumberedEffect
  <2>2. typed' = typed BY <1>7 DEF ReadHashing, ReadNumbered, Receives
  <2>3. p = q \/ p = Other(q) OBVIOUS
  <2> QED BY <2>1, <2>2, <2>3 DEF Takes
<1>8. CASE Accept \/ LinkLost \/ UNCHANGED vars
           \/ \E q \in Peers : Hangup(q) \/ ReadEnd(q) \/ ListenerDies(q)
  BY <1>8 DEF Accept, LinkLost, vars, Hangup, ReadEnd, ListenerDies
<1> QED
  BY <1>1, <1>2, <1>3, <1>4, <1>5, <1>6, <1>7, <1>8 DEF Next, Listen

LEMMA NumberNext == IInv /\ NumberInv /\ [Next]_vars => NumberInv'
<1> SUFFICES ASSUME IInv, NumberInv, [Next]_vars, NEW p \in Peers
             PROVE  /\ typed'[p] <= Fresh(p) => board'[p].out_seq_no = NumberOf(p, typed'[p])
                    /\ \A m \in Ciphers(net'[Other(p)]) :
                          m.text <= Fresh(p) => m.number = NumberOf(p, m.text)
  BY PeerFacts DEF NumberInv
<1>0. TypeOK /\ HandshakeInv /\ typed[p] \in Nat /\ Other(Other(p)) = p /\ Other(p) \in Peers
  BY PeerFacts DEF IInv, TypeOK
<1>1. ASSUME typed'[p] <= Fresh(p)
      PROVE  board'[p].out_seq_no = NumberOf(p, typed'[p])
  <2>1. typed[p] <= Fresh(p) => board[p].out_seq_no = NumberOf(p, typed[p])
    BY DEF NumberInv
  <2>2. CASE typed'[p] = typed[p] /\ board'[p].out_seq_no = board[p].out_seq_no
    BY <1>1, <2>1, <2>2
  <2>3. CASE typed'[p] = 0 /\ board'[p].out_seq_no = 0
    BY <2>3 DEF NumberOf
  <2>4. CASE /\ typed'[p] = typed[p] + 1
             /\ board'[p].out_seq_no = NumberAfter(board[p].out_seq_no, board[p].x)
             /\ InUse(p)
    <3>1. Fresh(p) \in Nat BY DEF Fresh
    <3>2. typed[p] + 1 <= Fresh(p) BY <1>1, <2>4
    <3>3. typed[p] \in 0 .. Fresh(p) - 1 /\ typed[p] <= Fresh(p) BY <1>0, <3>1, <3>2
    <3>4. board[p].out_seq_no = NumberOf(p, typed[p]) BY <2>1, <3>3
    <3>5. CASE p = Caller
      <4>1. board[p].x = 0 BY <1>0, <3>5 DEF HandshakeInv
      <4>2. typed[p] \in 0 .. 13 BY <3>3, <3>5 DEF Fresh
      <4> QED BY <2>4, <3>4, <3>5, <4>1, <4>2, FirstNumbers
    <3>6. CASE p = Callee
      <4>1. board[p].x = 1 BY <1>0, <2>4, <3>6 DEF HandshakeInv, Roles
      <4>2. typed[p] \in 0 .. 12 BY <3>3, <3>6, PeerFacts DEF Fresh
      <4> QED BY <2>4, <3>4, <3>6, <4>1, <4>2, FirstNumbers
    <3> QED BY <3>5, <3>6, PeerFacts
  <2> QED BY <2>2, <2>3, <2>4, CountersNext
<1>2. ASSUME NEW m \in Ciphers(net'[Other(p)]), m.text <= Fresh(p)
      PROVE  m.number = NumberOf(p, m.text)
  <2>1. CASE m \in Ciphers(net[Other(p)]) BY <1>2, <2>1 DEF NumberInv
  <2>2. CASE m \notin Ciphers(net[Other(p)])
    <3>1. PICK w \in Words : Sends(p, w) BY <1>0, <2>2, CiphersNext DEF Brings
    <3>2. m = Cipher(board'[p], typed'[p], w) BY <2>2, <3>1 DEF Sends
    <3>3. m.text = typed'[p] /\ m.number = board'[p].out_seq_no BY <3>2 DEF Cipher
    <3> QED BY <1>1, <1>2, <3>3
  <2> QED BY <2>1, <2>2
<1> QED BY <1>1, <1>2

LEMMA InitNumber == Init => NumberInv
<1> SUFFICES ASSUME Init, NEW p \in Peers
             PROVE  /\ board[p].out_seq_no = NumberOf(p, typed[p])
                    /\ Ciphers(net[Other(p)]) = {}
  BY DEF NumberInv
<1>1. typed[p] = 0 /\ board[p].out_seq_no = 0 /\ net[Other(p)] = <<>>
  BY PeerFacts DEF Init, PoweredUp
<1> QED BY <1>1, CiphersOfNothing DEF NumberOf

\* As long as the numbers have not left 16 bits, what is still on its way has a
\* smaller number than the text typed last: no two texts share one.
THEOREM NumbersKeepGrowing == Spec => []NumbersGrow
<1>1. IInv /\ NumberInv => NumbersGrow
  <2> SUFFICES ASSUME IInv, NumberInv, NEW p \in Peers, NEW i \in DOMAIN net[Other(p)],
                      net[Other(p)][i].kind = "cipher",
                      net[Other(p)][i].text < typed[p], typed[p] <= Fresh(p)
               PROVE  net[Other(p)][i].number < board[p].out_seq_no
    BY DEF NumbersGrow
  <2> DEFINE m == net[Other(p)][i]
  <2>1. /\ net[Other(p)] \in Seq(Message) /\ Other(p) \in Peers
        /\ typed[p] \in Nat
    BY PeerFacts DEF IInv, TypeOK
  <2>2. i \in 1 .. Len(net[Other(p)]) BY <2>1, LenProperties
  <2>3. m \in Message /\ m.text \in Nat BY <2>1, <2>2, TextNumbers, ElementOfSeq
  <2>4. m \in Ciphers(net[Other(p)]) BY <2>2, <2>3 DEF Ciphers
  <2>5. Fresh(p) \in Nat BY DEF Fresh
  <2> HIDE DEF m
  <2>6. /\ m.text \in 0 .. Fresh(p) /\ typed[p] \in 0 .. Fresh(p)
        /\ m.text < typed[p] /\ m.text <= Fresh(p)
    BY <2>1, <2>3, <2>5 DEF m
  <2>7. m.number = NumberOf(p, m.text) /\ board[p].out_seq_no = NumberOf(p, typed[p])
    BY <2>4, <2>6 DEF NumberInv
  <2>8. m.number < board[p].out_seq_no BY <2>6, <2>7, NumbersRise
  <2> QED BY <2>8 DEF m
<1>2. IInv /\ NumberInv /\ [Next]_vars => NumberInv' BY NumberNext
<1> QED BY <1>1, <1>2, InitNumber, Inductive, PTL DEF Spec

-------------------------------------------------------------------------------
(*********************** Confirmed texts are shown *************************)

\* No text holds a word that none of the users types.
WordInv == \A p \in Peers : \A m \in Ciphers(net[p]) : m.word \in Words

\* In a standing chat the last text typed is the last one on its way; when none
\* is, it is the one that was judged.
LastOf(p) ==
    connected /\ phase[p] # "closed" =>
        /\ TextsIn(net[p]) # {} => \E m \in TextsIn(net[p]) : m.text = typed[Other(p)]
        /\ TextsIn(net[p]) = {} /\ verdict[p] = "confirmed" => shown[p] = typed[Other(p)]
LastInv == \A p \in Peers : LastOf(p)

LEMMA WordNext == IInv /\ WordInv /\ [Next]_vars => WordInv'
<1> SUFFICES ASSUME IInv, WordInv, [Next]_vars, NEW p \in Peers, NEW m \in Ciphers(net'[p])
             PROVE  m.word \in Words
  BY DEF WordInv
<1>1. CASE m \in Ciphers(net[p]) BY <1>1 DEF WordInv
<1>2. CASE m \notin Ciphers(net[p])
  <2>1. PICK w \in Words : Sends(Other(p), w) BY <1>2, CiphersNext DEF Brings
  <2>2. m.word = w BY <1>2, <2>1, PeerFacts DEF Sends, Cipher
  <2> QED BY <2>2
<1> QED BY <1>1, <1>2

\* Nothing p's window is concerned by has changed.
LEMMA LastStays ==
    ASSUME NEW p \in Peers, LastOf(p),
           connected' => connected, phase'[p] # "closed" => phase[p] # "closed",
           typed'[Other(p)] = typed[Other(p)], TextsIn(net'[p]) = TextsIn(net[p]),
           shown'[p] = shown[p], verdict'[p] = verdict[p]
    PROVE  LastOf(p)'
BY DEF LastOf

\* A text is judged.
LEMMA LastRead ==
    ASSUME IInv, WordInv, LastInv, Words = {FALSE}, NEW s \in Peers,
           ReadHashing(s) \/ ReadNumbered(s)
    PROVE  LastInv'
<1> DEFINE h == Head(net[s])
<1>0. TypeOK /\ NetInv /\ ChainInv BY DEF IInv
<1>1. Receives(s) BY DEF ReadHashing, ReadNumbered
<1>2. /\ h.kind = "cipher" /\ h = net[s][1] /\ Delivery!Take(s, TextOf(h))
      /\ TextOf(h) \in Pending[s]
  BY <1>1, Reads
<1>3. /\ TextsIn(net'[s]) = TextsIn(net[s]) \ {TextOf(h)}
      /\ \A u \in TextsIn(net[s]) : TextOf(h).text <= u.text
      /\ TextOf(h) \in TextsIn(net[s])
  <2>1. Pending = [p \in Peers |-> TextsIn(net[p])] BY DEF Pending
  <2>2. Pending'[s] = Pending[s] \ {TextOf(h)} BY <1>2, <2>1 DEF Delivery!Take
  <2>3. Pending'[s] = TextsIn(net'[s]) /\ Pending[s] = TextsIn(net[s]) BY DEF Pending
  <2> QED BY <1>2, <2>2, <2>3 DEF Delivery!Take, Delivery!Oldest
<1>4. TextOf(h).text = h.text BY DEF TextOf
<1>5. h.word = FALSE /\ h.text \in Nat
  <2>1. h \in Message BY <1>0, <1>1, ReceivesType
  <2>2. h \in Ciphers(net[s])
    <3>1. 1 \in 1 .. Len(net[s]) BY <1>0, <1>1, ReceivesEffect
    <3> QED BY <1>2, <2>1, <3>1 DEF Ciphers
  <2> QED BY <2>1, <2>2 DEF WordInv, Message
<1>6. \A u \in TextsIn(net[s]) : u.text \in Nat /\ u.text <= typed[Other(s)]
  <2> SUFFICES ASSUME NEW u \in TextsIn(net[s])
               PROVE  u.text \in Nat /\ u.text <= typed[Other(s)]
    OBVIOUS
  <2>1. net[s] \in Seq(Message) BY <1>0 DEF TypeOK
  <2>2. PICK i \in 1 .. Len(net[s]) : net[s][i].kind = "cipher" /\ u = TextOf(net[s][i])
    BY <2>1, Members
  <2>3. CipherOK(s, net[s][i]) BY <1>0, <2>2 DEF NetInv, ItemOK
  <2>4. net[s][i].text \in Nat /\ u.text = net[s][i].text BY <2>1, <2>2, TextNumbers
  <2> QED BY <2>3, <2>4 DEF CipherOK
<1>7. ASSUME NEW p \in Peers, p # s PROVE LastOf(p)'
  <2>1. /\ net' = [net EXCEPT ![s] = Tail(@)] /\ phase' = phase
        /\ connected' = connected /\ typed' = typed
    BY <1>1 DEF Receives
  <2>2. verdict'[p] = verdict[p] /\ shown'[p] = shown[p]
    BY <1>0, <1>7 DEF ReadHashing, ReadNumbered, TypeOK
  <2>3. net'[p] = net[p] BY <1>0, <1>7, <2>1 DEF TypeOK
  <2> QED BY <2>1, <2>2, <2>3, LastStays DEF LastInv
<1>8. LastOf(s)'
  <2> SUFFICES ASSUME connected', phase'[s] # "closed"
               PROVE  /\ TextsIn(net'[s]) # {} =>
                            \E m \in TextsIn(net'[s]) : m.text = typed'[Other(s)]
                      /\ TextsIn(net'[s]) = {} /\ verdict'[s] = "confirmed" =>
                            shown'[s] = typed'[Other(s)]
    BY DEF LastOf
  <2>1. connected /\ phase[s] # "closed" /\ typed' = typed BY <1>1 DEF Receives
  <2>2. PICK m \in TextsIn(net[s]) : m.text = typed[Other(s)]
    BY <1>3, <2>1 DEF LastInv, LastOf
  <2>3. ASSUME TextsIn(net'[s]) # {}
        PROVE  \E u \in TextsIn(net'[s]) : u.text = typed'[Other(s)]
    <3>1. PICK u \in TextsIn(net'[s]) : TRUE BY <2>3
    <3>2. CASE m # TextOf(h) BY <1>3, <2>1, <2>2, <3>2
    <3>3. CASE m = TextOf(h)
      <4>1. /\ u \in TextsIn(net[s]) /\ m.text <= u.text /\ u.text <= typed[Other(s)]
            /\ u.text \in Nat /\ m.text \in Nat
        BY <1>3, <1>6, <3>1, <3>3
      <4>2. u.text = typed[Other(s)] BY <2>2, <4>1
      <4> QED BY <2>1, <3>1, <4>2
    <3> QED BY <3>2, <3>3
  <2>4. ASSUME TextsIn(net'[s]) = {}, verdict'[s] = "confirmed"
        PROVE  shown'[s] = typed'[Other(s)]
    <3>1. m = TextOf(h) BY <1>3, <2>4
    <3>2. verdict'[s] # "HASHING" BY <2>4
    <3>3. ReadNumbered(s) BY <1>0, <3>2, HashingEffect
    <3>4. shown'[s] = h.text
      BY <1>0, <1>5, <2>4, <3>3, NumberedEffect
    <3> QED BY <1>4, <2>1, <2>2, <3>1, <3>4
  <2> QED BY <2>3, <2>4
<1> QED BY <1>7, <1>8 DEF LastInv

LEMMA LastNext == Words = {FALSE} /\ IInv /\ WordInv /\ LastInv /\ [Next]_vars => LastInv'
<1> SUFFICES ASSUME Words = {FALSE}, IInv, WordInv, LastInv, [Next]_vars
             PROVE  LastInv'
  OBVIOUS
<1> USE PeerFacts
<1>0. TypeOK /\ HandshakeInv /\ NetInv /\ ChainInv /\ TypeOK'
  BY NextType DEF IInv
<1>n. \A p \in Peers : net[p] \in Seq(Message) /\ net \in [Peers -> Seq(Message)]
  BY <1>0 DEF TypeOK
<1>i. phase \in [Peers -> Phases] BY <1>0 DEF TypeOK
<1>k. \A p \in Peers : board'[p].my_k \in Keys
  BY <1>0 DEF TypeOK, Boards
<1>1. CASE Call
  <2> DEFINE m == Token(board'[Caller].my_k)
  <2>1. m \in Message /\ m.kind = "token"
    BY <1>k, MessageFacts DEF Token
  <2>2. net' = [net EXCEPT ![Callee] = Append(@, m)] BY <1>1 DEF Call
  <2> HIDE DEF m
  <2>3. /\ \A p \in Peers : net[p] = <<>> /\ verdict[p] = "none"
        /\ verdict' = verdict
    BY <1>0, <1>1 DEF Call, HandshakeInv, Past, Before
  <2>4. TextsIn(Append(net[Callee], m)) = {}
    <3>1. net[Callee] \in Seq(Message) BY <1>n
    <3>2. TextsIn(Append(net[Callee], m)) =
             TextsIn(net[Callee]) \cup (IF m.kind = "cipher" THEN {TextOf(m)} ELSE {})
      BY <2>1, <3>1, TextsAppended
    <3> QED BY <2>1, <2>3, <3>2, TextsOfNothing
  <2>5. \A p \in Peers : TextsIn(net'[p]) = {}
    BY <1>n, <2>2, <2>3, <2>4, TextsOfNothing
  <2> QED BY <2>3, <2>5 DEF LastInv, LastOf
<1>2. ASSUME typed' = typed, shown' = shown, verdict' = verdict, connected' => connected,
             \A p \in Peers : phase'[p] # "closed" => phase[p] # "closed",
             \A p \in Peers : phase'[p] # "closed" => TextsIn(net'[p]) = TextsIn(net[p])
      PROVE  LastInv'
  BY <1>2, LastStays DEF LastInv, LastOf
<1>3. CASE CallUnanswered \/ Accept \/ DeriveKey \/ UNCHANGED vars
           \/ \E p \in Peers : ListenerDies(p)
  <2>1. /\ typed' = typed /\ shown' = shown /\ verdict' = verdict /\ net' = net
        /\ connected' = connected
    BY <1>3 DEF CallUnanswered, Accept, DeriveKey, ListenerDies, vars
  <2>2. \A p \in Peers : phase'[p] # "closed" => phase[p] # "closed"
    BY <1>3, <1>i DEF CallUnanswered, Accept, DeriveKey, ListenerDies, vars
  <2> QED BY <1>2, <2>1, <2>2
<1>4. CASE AnswerToken
  <2> DEFINE m == Token(board'[Callee].my_k)
  <2>1. m \in Message /\ m.kind = "token"
    BY <1>k, MessageFacts DEF Token
  <2>2. net' = [Written(Callee, m) EXCEPT ![Callee] = Tail(@)]
    BY <1>4 DEF AnswerToken
  <2> HIDE DEF m
  <2>3. /\ Written(Callee, m) \in [Peers -> Seq(Message)]
        /\ Written(Callee, m)[Callee] = net[Callee]
        /\ TextsIn(Written(Callee, m)[Other(Callee)]) = TextsIn(net[Other(Callee)])
    BY <1>0, <1>n, <2>1, TextsWritten, WrittenType
  <2>4. TextsIn(Tail(net[Callee])) = TextsIn(net[Callee])
    BY <1>4, TokenTaken DEF AnswerToken, Before
  <2>5. net'[Callee] = Tail(net[Callee]) /\ net'[Other(Callee)] = Written(Callee, m)[Other(Callee)]
    BY <2>2, <2>3
  <2>6. \A p \in Peers : p = Callee \/ p = Other(Callee) OBVIOUS
  <2>7. \A p \in Peers : TextsIn(net'[p]) = TextsIn(net[p]) BY <2>3, <2>4, <2>5, <2>6
  <2>8. \A p \in Peers : phase'[p] # "closed" => phase[p] # "closed"
    BY <1>4, <1>i DEF AnswerToken
  <2> QED BY <1>2, <1>4, <2>7, <2>8 DEF AnswerToken
<1>5. CASE TakeAnswer
  <2>1. TextsIn(Tail(net[Caller])) = TextsIn(net[Caller])
    BY <1>5, TokenTaken DEF TakeAnswer, Before
  <2>2. \A p \in Peers : TextsIn(net'[p]) = TextsIn(net[p])
    BY <1>5, <1>n, <2>1 DEF TakeAnswer
  <2>3. \A p \in Peers : phase'[p] # "closed" => phase[p] # "closed"
    BY <1>5, <1>i DEF TakeAnswer
  <2> QED BY <1>2, <1>5, <2>2, <2>3 DEF TakeAnswer
<1>6. ASSUME NEW s \in Peers, NEW w \in Words, Send(s, w)
      PROVE  LastInv'
  <2> DEFINE m == Cipher(board'[s], typed'[s], w)
             q == Other(s)
  <2>1. /\ w \in BOOLEAN /\ board'[s] \in Boards
        /\ typed'[s] = typed[s] + 1 /\ typed'[q] = typed[q] /\ typed'[s] \in Nat
    BY <1>0, <1>6, LinkAssumption DEF Send, TypeOK
  <2>2. m \in Message BY <2>1, MessageFacts
  <2>3. m.kind = "cipher" /\ TextOf(m).text = typed'[s] BY DEF Cipher, TextOf
  <2>4. net' = Written(s, m) BY <1>6 DEF Send
  <2>5. /\ phase' = phase /\ connected' = connected /\ verdict' = verdict /\ shown' = shown
    BY <1>6 DEF Send
  <2> HIDE DEF m
  <2>6. LastOf(s)'
    <3>1. net'[s] = net[s] BY <1>0, <2>2, <2>4, TextsWritten
    <3> QED BY <2>1, <2>5, <3>1, LastStays DEF LastInv
  <2>7. LastOf(q)'
    <3> SUFFICES ASSUME connected, phase[q] # "closed"
                 PROVE  \E u \in TextsIn(net'[q]) : u.text = typed'[s]
      BY <2>5 DEF LastOf
    <3>1. net'[q] = Append(net[q], m) BY <1>n, <2>4 DEF Written
    <3>2. net[q] \in Seq(Message) BY <1>n
    <3>3. TextsIn(Append(net[q], m)) =
             TextsIn(net[q]) \cup (IF m.kind = "cipher" THEN {TextOf(m)} ELSE {})
      BY <2>2, <3>2, TextsAppended
    <3> QED BY <2>3, <3>1, <3>3
  <2>8. \A p \in Peers : p = s \/ p = q OBVIOUS
  <2> QED BY <2>6, <2>7, <2>8 DEF LastInv
<1>7. ASSUME NEW s \in Peers, SendFails(s)
      PROVE  LastInv'
  <2>1. /\ net' = net /\ phase' = phase /\ connected' = connected
        /\ verdict' = verdict /\ shown' = shown
        /\ typed'[Other(s)] = typed[Other(s)]
        /\ ~ connected \/ phase[Other(s)] = "closed"
    BY <1>0, <1>7 DEF SendFails, TypeOK
  <2>2. LastOf(s)' BY <2>1, LastStays DEF LastInv
  <2>3. LastOf(Other(s))' BY <2>1 DEF LastOf
  <2>4. \A p \in Peers : p = s \/ p = Other(s) OBVIOUS
  <2> QED BY <2>2, <2>3, <2>4 DEF LastInv
<1>8. ASSUME NEW s \in Peers, Hangup(s)
      PROVE  LastInv'
  <2>1. EndMessage \in Message /\ EndMessage.kind = "END"
    BY MessageFacts DEF EndMessage
  <2>2. /\ TextsIn(Written(s, EndMessage)[Other(s)]) = TextsIn(net[Other(s)])
        /\ Written(s, EndMessage) \in [Peers -> Seq(Message)]
    BY <1>0, <1>n, <2>1, TextsWritten, WrittenType
  <2>3. TextsIn(net'[Other(s)]) = TextsIn(net[Other(s)])
    BY <1>8, <2>2 DEF Hangup
  <2>4. phase'[s] = "closed" /\ phase'[Other(s)] = phase[Other(s)]
    BY <1>8, <1>i DEF Hangup
  <2>5. \A p \in Peers : p = s \/ p = Other(s) OBVIOUS
  <2>6. /\ \A p \in Peers : phase'[p] # "closed" => phase[p] # "closed"
        /\ \A p \in Peers : phase'[p] # "closed" => TextsIn(net'[p]) = TextsIn(net[p])
    BY <2>3, <2>4, <2>5
  <2>7. typed' = typed /\ shown' = shown /\ verdict' = verdict /\ connected' = connected
    BY <1>8 DEF Hangup
  <2> QED BY <1>2, <2>6, <2>7
<1>9. ASSUME NEW s \in Peers, ReadEnd(s)
      PROVE  LastInv'
  <2>1. /\ phase'[s] = "closed"
        /\ \A p \in Peers : p # s => net'[p] = net[p] /\ phase'[p] = phase[p]
    BY <1>9, <1>i, <1>n DEF ReadEnd
  <2>2. /\ \A p \in Peers : phase'[p] # "closed" => phase[p] # "closed"
        /\ \A p \in Peers : phase'[p] # "closed" => TextsIn(net'[p]) = TextsIn(net[p])
    BY <2>1
  <2> QED BY <1>2, <1>9, <2>2 DEF ReadEnd
<1>10. CASE LinkLost
  BY <1>10 DEF LinkLost, LastInv, LastOf
<1>11. CASE \E s \in Peers : ReadHashing(s) \/ ReadNumbered(s)
  BY <1>11, LastRead
<1> QED
  BY <1>1, <1>3, <1>4, <1>5, <1>6, <1>7, <1>8, <1>9, <1>10, <1>11 DEF Next, Listen

LEMMA InitLast == Init => WordInv /\ LastInv
<1> SUFFICES ASSUME Init PROVE WordInv /\ LastInv
  OBVIOUS
<1>1. \A p \in Peers : net[p] = <<>> /\ verdict[p] = "none" BY DEF Init
<1> QED BY <1>1, CiphersOfNothing, TextsOfNothing DEF WordInv, LastInv, LastOf

\* When no text holds one of the board's error words: a window whose board
\* confirmed what it saw last, with nothing on its way, shows the peer's last text.
THEOREM ConfirmedAreShown == Words = {FALSE} => (Spec => []ConfirmedIsShown)
<1> SUFFICES ASSUME Words = {FALSE} PROVE Spec => []ConfirmedIsShown
  OBVIOUS
<1>1. LastInv => ConfirmedIsShown
  BY TextsOfNothing DEF LastInv, LastOf, ConfirmedIsShown
<1>2. IInv /\ WordInv /\ LastInv /\ [Next]_vars => LastInv' BY LastNext
<1>3. IInv /\ WordInv /\ [Next]_vars => WordInv' BY WordNext
<1> QED BY <1>1, <1>2, <1>3, InitLast, Inductive, PTL DEF Spec
===============================================================================
