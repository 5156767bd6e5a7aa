-------------------------- MODULE ChatNetworkProofs --------------------------
(***************************************************************************)
(* Theorems about ChatNetwork, for any users, whoever may call whom, and   *)
(* any number of connections, windows and texts.                           *)
(***************************************************************************)
EXTENDS ChatNetwork, SequenceTheorems, WellFoundedInduction, TLAPS

\* The two ends of connection c.
S(c) == <<c, STARTER>>
N(c) == <<c, NO_STARTER>>

Threads  == {"none", "reading", "answering", "deriving", "ended"}
Tokens   == SUBSET Nat
Messages == [kind : {"token", "cipher"}, key : Tokens, from : Users, to : Users]
            \cup {EndOfChat}
Windows  == [user : Users, dest : Users, type : {STARTER, NO_STARTER},
             enabled : BOOLEAN, shown : BOOLEAN]
Errands  == [message : Messages \ {EndOfChat}, frame : Nat \ {0}, reached : Nat]
            \cup {Nothing}
BoardStates == [x : {0, 1}, in_seq_no : {0}, out_seq_no : {0}, my_f : Tokens, my_k : Tokens]

(* Every variable keeps its type. *)
TypeInv ==
    /\ contacts \in [Users -> Nat] /\ opened \in Nat
    /\ frames \in Seq(Windows)
    /\ conns \in Seq([from : Users, to : Users]) /\ Len(conns) <= MaxConns
    /\ chats \in [Users -> Seq(Ends)]
    /\ dest \in [Ends -> Users \cup {Nobody}]
    /\ frame \in [Ends -> Nat]
    /\ thread \in [Ends -> Threads]
    /\ countMsg \in [Ends -> Nat]
    /\ firstToken \in [Ends -> Tokens]
    /\ streams \in [Ends -> Seq(Messages)]
    /\ closed \in SUBSET Ends
    /\ sending \in [Writers -> Errands]
    /\ boards \in [{STARTER, NO_STARTER} -> BoardStates]
    /\ draws \in Nat /\ texts \in Nat
    /\ calls \in [Users -> [Users -> Nat]]
    /\ calm \in BOOLEAN

(* An end of no connection is as it was at first; the others lead to the user
   whose number they have, if they have one. *)
EndFits(e) ==
    /\ e \notin Used => thread[e] = "none" /\ streams[e] = <<>>
    /\ thread[e] = "none" => /\ dest[e] = Nobody /\ frame[e] = 0 /\ countMsg[e] = 0
                             /\ e \notin closed
    /\ e \in Used =>
          /\ dest[e] # Nobody => dest[e] = Owner(Mate(e))
          /\ \A i \in 1 .. Len(streams[e]) : streams[e][i].kind # "END" =>
                streams[e][i].from = Owner(Mate(e)) /\ streams[e][i].to = Owner(e)
          /\ frame[e] # 0 => /\ frame[e] \in 1 .. Len(frames)
                             /\ frames[frame[e]].user = Owner(e)
                             /\ frames[frame[e]].dest = Owner(Mate(e))

(* Who writes is a user, or one the listener thread of an end of his; what it
   writes was made in a window of that user, and the connection it has opened
   for the message leads to the user the message is for. *)
WriterFits(t) ==
    sending[t] # Nothing =>
        LET m == sending[t].message
            f == sending[t].frame
            c == sending[t].reached
        IN
        /\ \/ t \in Users
           \/ t \in Used /\ thread[t] = "answering" /\ m.to = Owner(Mate(t)) /\ m.kind = "token"
        /\ m.from = Writer(t)
        /\ f \in 1 .. Len(frames) /\ frames[f].user = m.from /\ frames[f].dest = m.to
        /\ c # 0 => /\ c \in 1 .. Len(conns)
                    /\ conns[c].from = m.from /\ conns[c].to = m.to

(* A list holds the ends of its user that are joined and not closed, each once,
   and the closed ones that had no window. *)
InList(u, e) == \E i \in 1 .. Len(chats[u]) : chats[u][i] = e
Distinct(u) ==
    \A i, j \in 1 .. Len(chats[u]) : chats[u][i] = chats[u][j] => i = j
ListFits(u) ==
    /\ Distinct(u)
    /\ \A e : InList(u, e) <=> /\ e \in Used /\ Owner(e) = u
                              /\ thread[e] # "none" /\ (e \in closed => frame[e] = 0)

NetInv ==
    /\ TypeInv
    /\ \A e \in Ends : EndFits(e)
    /\ \A t \in Writers : WriterFits(t)
    /\ \A u \in Users : ListFits(u)

-------------------------------------------------------------------------------
(************************** Ends, lists and messages ***********************)

LEMMA EndsOf ==
    ASSUME NEW c \in 1 .. MaxConns
    PROVE  S(c) \in Ends /\ N(c) \in Ends
BY DEF Ends, S, N

LEMMA EndsAre ==
    /\ \A c : /\ Mate(S(c)) = N(c) /\ Mate(N(c)) = S(c) /\ S(c)[1] = c /\ N(c)[1] = c
             /\ S(c)[2] = STARTER /\ N(c)[2] = NO_STARTER
    /\ \A c, d : S(c) # N(d)
    /\ \A c, d : c # d => S(c) # S(d) /\ N(c) # N(d)
BY DEF Mate, S, N, STARTER, NO_STARTER

LEMMA EndIs ==
    ASSUME NEW e \in Ends
    PROVE  /\ e[1] \in 1 .. MaxConns /\ e[1] \in Nat
           /\ e = S(e[1]) \/ e = N(e[1])
           /\ e[2] = STARTER <=> e = S(e[1])
           /\ e[2] = NO_STARTER <=> e = N(e[1])
           /\ e[2] \in {STARTER, NO_STARTER}
           /\ Mate(e) \in Ends /\ Mate(e)[1] = e[1] /\ Mate(Mate(e)) = e /\ Mate(e) # e
BY NetworkAssumption DEF Ends, Mate, S, N, STARTER, NO_STARTER

LEMMA WritersAre ==
    /\ \A u \in Users : u \in Writers /\ u \notin Ends
    /\ \A t \in Writers : t \in Users \/ (t \in Ends /\ t = N(t[1]))
    /\ \A e \in Ends : e = N(e[1]) => e \in Writers /\ e \notin Users
<1>1. \A e \in Ends : e[2] = NO_STARTER <=> e = N(e[1])
  BY EndIs
<1> QED BY <1>1, NetworkAssumption DEF Writers

LEMMA OwnersAre ==
    ASSUME TypeInv
    PROVE  /\ Len(conns) \in Nat /\ Len(conns) <= MaxConns
           /\ \A c \in 1 .. Len(conns) : conns[c].from \in Users /\ conns[c].to \in Users
           /\ Used \subseteq Ends
           /\ \A e \in Used : /\ e[1] \in 1 .. Len(conns) /\ Mate(e) \in Used
                             /\ Owner(e) \in Users /\ Owner(Mate(e)) \in Users
           /\ \A c \in 1 .. Len(conns) : S(c) \in Used /\ N(c) \in Used
           /\ \A c : Owner(S(c)) = conns[c].from /\ Owner(N(c)) = conns[c].to
<1>1. Len(conns) \in Nat /\ Len(conns) <= MaxConns BY DEF TypeInv
<1>2. \A c \in 1 .. Len(conns) : conns[c].from \in Users /\ conns[c].to \in Users
  <2> SUFFICES ASSUME NEW c \in 1 .. Len(conns)
               PROVE  conns[c].from \in Users /\ conns[c].to \in Users
    OBVIOUS
  <2>1. conns[c] \in [from : Users, to : Users] BY ElementOfSeq DEF TypeInv
  <2> QED BY <2>1
<1>3. \A c : Owner(S(c)) = conns[c].from /\ Owner(N(c)) = conns[c].to
  BY DEF Owner, S, N, STARTER, NO_STARTER
<1>4. \A c \in 1 .. Len(conns) : S(c) \in Used /\ N(c) \in Used
  BY <1>1, EndsOf, EndsAre, NetworkAssumption DEF Used
<1>5. \A e \in Used : e \in Ends /\ e[1] \in 1 .. Len(conns) /\ Mate(e) \in Used
  <2> SUFFICES ASSUME NEW e \in Used
               PROVE  e \in Ends /\ e[1] \in 1 .. Len(conns) /\ Mate(e) \in Used
    OBVIOUS
  <2>1. e \in Ends /\ e[1] <= Len(conns) BY DEF Used
  <2>2. e[1] \in 1 .. MaxConns /\ Mate(e) \in Ends /\ Mate(e)[1] = e[1] BY <2>1, EndIs
  <2>3. e[1] \in 1 .. Len(conns) BY <1>1, <2>1, <2>2, NetworkAssumption
  <2> QED BY <2>1, <2>2, <2>3 DEF Used
<1>6. \A e \in Used : Owner(e) \in Users /\ Owner(Mate(e)) \in Users
  BY <1>2, <1>5 DEF Owner
<1> QED BY <1>1, <1>2, <1>3, <1>4, <1>5, <1>6

LEMMA Least ==
    ASSUME NEW T \in SUBSET Nat, T # {}
    PROVE  \E i \in T : \A j \in T : i <= j
<1>1. PICK i \in T : \A j \in T : <<j, i>> \notin OpToRel(<, Nat)
  BY NatLessThanWellFounded, WFMin
<1>2. \A j \in T : ~ (j < i) BY <1>1 DEF OpToRel
<1> QED BY <1>2

\* findActiveChat finds a chat of the list, with the number.
LEMMA FindFinds ==
    ASSUME TypeInv, NEW u \in Users, NEW v
    PROVE  /\ chats[u] \in Seq(Ends) /\ Len(chats[u]) \in Nat
           /\ IsListed(u, v) <=> \E e : InList(u, e) /\ dest[e] = v
           /\ IsListed(u, v) => /\ Place(u, v) \in 1 .. Len(chats[u])
                                /\ Find(u, v) = chats[u][Place(u, v)]
                                /\ Find(u, v) \in Ends /\ InList(u, Find(u, v))
                                /\ dest[Find(u, v)] = v
<1>1. chats[u] \in Seq(Ends) /\ Len(chats[u]) \in Nat /\ DOMAIN chats[u] = 1 .. Len(chats[u])
  BY LenProperties DEF TypeInv
<1>2. Places(u, v) \in SUBSET Nat BY <1>1 DEF Places
<1>3. IsListed(u, v) => Place(u, v) \in Places(u, v)
  BY <1>2, Least DEF Place, IsListed
<1> QED BY <1>1, <1>3 DEF Places, IsListed, Find, InList

LEMMA Removed ==
    ASSUME NEW T, NEW s \in Seq(T), NEW p \in 1 .. Len(s)
    PROVE  /\ RemoveAt(s, p) \in Seq(T)
           /\ Len(RemoveAt(s, p)) = Len(s) - 1
           /\ \A i \in 1 .. Len(s) - 1 : RemoveAt(s, p)[i] = IF i < p THEN s[i] ELSE s[i + 1]
<1> DEFINE l == SubSeq(s, 1, p - 1)
           r == SubSeq(s, p + 1, Len(s))
<1>0. Len(s) \in Nat BY LenProperties
<1>1. l \in Seq(T) /\ Len(l) = p - 1 /\ \A i \in 1 .. p - 1 : l[i] = s[i]
  BY <1>0, SubSeqProperties
<1>2. r \in Seq(T) /\ Len(r) = Len(s) - p /\ \A i \in 1 .. Len(s) - p : r[i] = s[p + i]
  <2>1. r \in Seq(T) BY <1>0, SubSeqProperties
  <2>2. Len(r) = Len(s) - p BY <1>0, SubSeqProperties
  <2>3. \A i \in 1 .. Len(s) - p : r[i] = s[p + i] BY <1>0, <2>2, SubSeqProperties
  <2> QED BY <2>1, <2>2, <2>3
<1> HIDE DEF l, r
<1>3. l \o r \in Seq(T) /\ Len(l \o r) = Len(l) + Len(r) BY <1>1, <1>2, ConcatProperties
<1>4. \A i \in 1 .. Len(l) + Len(r) : (l \o r)[i] = IF i <= Len(l) THEN l[i] ELSE r[i - Len(l)]
  BY <1>1, <1>2, ConcatProperties
<1>5. \A i \in 1 .. Len(s) - 1 : (l \o r)[i] = IF i < p THEN s[i] ELSE s[i + 1]
  <2> SUFFICES ASSUME NEW i \in 1 .. Len(s) - 1
               PROVE  (l \o r)[i] = IF i < p THEN s[i] ELSE s[i + 1]
    OBVIOUS
  <2>1. i \in 1 .. Len(l) + Len(r) BY <1>0, <1>1, <1>2
  <2>2. (l \o r)[i] = IF i <= Len(l) THEN l[i] ELSE r[i - Len(l)] BY <1>4, <2>1
  <2>3. ASSUME i < p PROVE (l \o r)[i] = s[i]
    <3>1. i <= Len(l) /\ i \in 1 .. p - 1 BY <1>0, <1>1, <2>3
    <3> QED BY <1>1, <2>2, <3>1
  <2>4. ASSUME ~ (i < p) PROVE (l \o r)[i] = s[i + 1]
    <3>1. /\ ~ (i <= Len(l)) /\ i - Len(l) \in 1 .. Len(s) - p
          /\ p + (i - Len(l)) = i + 1
      BY <1>0, <1>1, <2>4
    <3>2. r[i - Len(l)] = s[p + (i - Len(l))] BY <1>2, <3>1
    <3> QED BY <2>2, <3>1, <3>2
  <2> QED BY <2>3, <2>4
<1>6. RemoveAt(s, p) = l \o r BY DEF RemoveAt, l, r
<1>7. Len(l) + Len(r) = Len(s) - 1 BY <1>0, <1>1, <1>2
<1> QED BY <1>3, <1>5, <1>6, <1>7

LEMMA StreamIs ==
    ASSUME NEW s \in Seq(Messages)
    PROVE  /\ Len(s) \in Nat /\ DOMAIN s = 1 .. Len(s)
           /\ s = <<>> <=> Len(s) = 0
           /\ \A i \in 1 .. Len(s) : s[i] \in Messages
           /\ s # <<>> => /\ Head(s) = s[1] /\ Tail(s) \in Seq(Messages)
                          /\ Len(Tail(s)) = Len(s) - 1
                          /\ \A i \in 1 .. Len(s) - 1 : Tail(s)[i] = s[i + 1]
           /\ \A m \in Messages : /\ Append(s, m) \in Seq(Messages)
                                  /\ Len(Append(s, m)) = Len(s) + 1
                                  /\ Append(s, m)[Len(s) + 1] = m
                                  /\ \A i \in 1 .. Len(s) : Append(s, m)[i] = s[i]
<1>1. Len(s) \in Nat /\ DOMAIN s = 1 .. Len(s) /\ \A i \in 1 .. Len(s) : s[i] \in Messages
  BY LenProperties, ElementOfSeq
<1>2. s = <<>> <=> Len(s) = 0 BY EmptySeq
<1> QED BY <1>1, <1>2, HeadTailProperties, AppendProperties

LEMMA MessagesAre ==
    /\ EndOfChat \in Messages /\ EndOfChat.kind = "END"
    /\ \A m \in Messages : m.kind # "END" => /\ m.kind \in {"token", "cipher"}
                                             /\ m.from \in Users /\ m.to \in Users
                                             /\ m.key \in Tokens /\ m # EndOfChat
    /\ \A m \in Messages : m # EndOfChat => m.kind # "END"
    /\ \A k \in Tokens, u, v \in Users :
          /\ [kind |-> "token", key |-> k, from |-> u, to |-> v] \in Messages \ {EndOfChat}
          /\ [kind |-> "cipher", key |-> k, from |-> u, to |-> v] \in Messages \ {EndOfChat}
    /\ Nothing.message.kind = "END"
    /\ \A m : m \in Messages => AsToken(m) \in Tokens
BY DEF Messages, EndOfChat, Nothing, AsToken, Tokens

LEMMA ErrandsAre ==
    ASSUME TypeInv, NEW t \in Writers
    PROVE  /\ sending[t] # Nothing => /\ sending[t].message \in Messages
                                      /\ sending[t].message.kind \in {"token", "cipher"}
                                      /\ sending[t].message.from \in Users
                                      /\ sending[t].message.to \in Users
                                      /\ sending[t].frame \in Nat /\ sending[t].frame # 0
                                      /\ sending[t].reached \in Nat
           /\ sending[t] = Nothing => /\ sending[t].message.kind = "END"
                                      /\ sending[t].frame = 0 /\ sending[t].reached = 0
<1>1. sending[t] \in Errands BY DEF TypeInv
<1>2. CASE sending[t] = Nothing BY <1>2 DEF Nothing, EndOfChat
<1>3. CASE sending[t] # Nothing
  <2>1. sending[t].message \in Messages \ {EndOfChat} /\ sending[t].frame \in Nat \ {0}
        /\ sending[t].reached \in Nat
    BY <1>1, <1>3 DEF Errands
  <2> QED BY <2>1, <1>3, MessagesAre
<1> QED BY <1>2, <1>3

-------------------------------------------------------------------------------
(****************** What the shared operators do to the state **************)

LEMMA Closing ==
    ASSUME TypeInv, NEW u \in Users, NEW v, NEW left, Closes(u, v, left), Distinct(u),
           left \in [Ends -> Seq(Messages)], ~ IsListed(u, v) => left = streams
    PROVE  /\ chats' \in [Users -> Seq(Ends)] /\ closed' \in SUBSET Ends
           /\ streams' \in [Ends -> Seq(Messages)]
           /\ ~ IsListed(u, v) => UNCHANGED <<closed, streams, chats>>
           /\ IsListed(u, v) =>
                 /\ Find(u, v) \in Ends /\ InList(u, Find(u, v)) /\ dest[Find(u, v)] = v
                 /\ closed' = closed \cup {Find(u, v)}
                 /\ streams'[Find(u, v)] = <<>>
                 /\ \A d \in Ends : d # Find(u, v) => streams'[d] = left[d]
                 /\ \A e : InList(u, e)' <=> InList(u, e) /\ (e # Find(u, v) \/ frame[e] = 0)
                 /\ Distinct(u)'
           /\ \A w \in Users : w # u => chats'[w] = chats[w]
<1>1. CASE ~ IsListed(u, v)
  BY <1>1 DEF Closes, TypeInv
<1>3. CASE IsListed(u, v) /\ frame[Find(u, v)] = 0
  <2>1. Find(u, v) \in Ends /\ InList(u, Find(u, v)) /\ dest[Find(u, v)] = v
    BY <1>3, FindFinds
  <2>2. /\ closed' = closed \cup {Find(u, v)} /\ streams' = [left EXCEPT ![Find(u, v)] = <<>>]
        /\ chats' = chats
    BY <1>3 DEF Closes
  <2>3. /\ streams' \in [Ends -> Seq(Messages)] /\ streams'[Find(u, v)] = <<>>
        /\ \A d \in Ends : d # Find(u, v) => streams'[d] = left[d]
    <3>1. <<>> \in Seq(Messages) BY EmptySeq
    <3> QED BY <2>1, <2>2, <3>1
  <2>4. (\A e : InList(u, e)' <=> InList(u, e)) /\ Distinct(u)' BY <2>2 DEF InList, Distinct
  <2> QED BY <1>3, <2>1, <2>2, <2>3, <2>4 DEF TypeInv
<1>2. CASE IsListed(u, v) /\ frame[Find(u, v)] # 0
  <2> DEFINE a == Find(u, v)
             p == Place(u, v)
             s == chats[u]
  <2>1. s \in Seq(Ends) /\ Len(s) \in Nat /\ p \in 1 .. Len(s) /\ a = s[p] /\ a \in Ends
        /\ InList(u, a) /\ dest[a] = v
    BY <1>2, FindFinds
  <2>2. /\ closed' = closed \cup {a} /\ streams' = [left EXCEPT ![a] = <<>>]
        /\ chats' = [chats EXCEPT ![u] = RemoveAt(s, p)]
    BY <1>2 DEF Closes
  <2>3. /\ RemoveAt(s, p) \in Seq(Ends) /\ Len(RemoveAt(s, p)) = Len(s) - 1
        /\ \A i \in 1 .. Len(s) - 1 : RemoveAt(s, p)[i] = IF i < p THEN s[i] ELSE s[i + 1]
    BY <2>1, Removed
  <2> DEFINE z == RemoveAt(s, p)
  <2>4. chats' \in [Users -> Seq(Ends)] /\ chats'[u] = z
        /\ \A w \in Users : w # u => chats'[w] = chats[w]
    BY <2>2, <2>3 DEF TypeInv
  <2>5. /\ streams' \in [Ends -> Seq(Messages)] /\ closed' \in SUBSET Ends /\ streams'[a] = <<>>
        /\ \A d \in Ends : d # a => streams'[d] = left[d]
    <3>1. <<>> \in Seq(Messages) BY EmptySeq
    <3> QED BY <2>1, <2>2, <3>1 DEF TypeInv
  <2>6. \A i, j \in 1 .. Len(s) : s[i] = s[j] => i = j BY DEF Distinct
  <2> HIDE DEF z, s, p, a
  <2>7. \A i, j \in 1 .. Len(z) : z[i] = z[j] => i = j
    <3> SUFFICES ASSUME NEW i \in 1 .. Len(z), NEW j \in 1 .. Len(z), z[i] = z[j] PROVE i = j
      OBVIOUS
    <3>1. i \in 1 .. Len(s) - 1 /\ j \in 1 .. Len(s) - 1 BY <2>3 DEF z
    <3>2. z[i] = (IF i < p THEN s[i] ELSE s[i + 1]) /\ z[j] = (IF j < p THEN s[j] ELSE s[j + 1])
      BY <2>3, <3>1 DEF z
    <3>3. PICK k \in 1 .. Len(s) : k = (IF i < p THEN i ELSE i + 1) /\ z[i] = s[k]
      <4>1. CASE i < p
        <5>1. i \in 1 .. Len(s) BY <2>1, <3>1
        <5> QED BY <4>1, <5>1, <3>2
      <4>2. CASE ~ (i < p)
        <5>1. i + 1 \in 1 .. Len(s) BY <2>1, <3>1
        <5> QED BY <4>2, <5>1, <3>2
      <4> QED BY <4>1, <4>2
    <3>4. PICK l \in 1 .. Len(s) : l = (IF j < p THEN j ELSE j + 1) /\ z[j] = s[l]
      <4>1. CASE j < p
        <5>1. j \in 1 .. Len(s) BY <2>1, <3>1
        <5> QED BY <4>1, <5>1, <3>2
      <4>2. CASE ~ (j < p)
        <5>1. j + 1 \in 1 .. Len(s) BY <2>1, <3>1
        <5> QED BY <4>2, <5>1, <3>2
      <4> QED BY <4>1, <4>2
    <3>5. k = l BY <2>6, <3>3, <3>4
    <3> QED BY <2>1, <3>1, <3>3, <3>4, <3>5
  <2>8. \A i \in 1 .. Len(z) : \E j \in 1 .. Len(s) : z[i] = s[j] /\ s[j] # a
    <3> SUFFICES ASSUME NEW i \in 1 .. Len(z)
                 PROVE  \E j \in 1 .. Len(s) : z[i] = s[j] /\ s[j] # a
      OBVIOUS
    <3>1. i \in 1 .. Len(s) - 1 /\ z[i] = IF i < p THEN s[i] ELSE s[i + 1] BY <2>3 DEF z
    <3>2. CASE i < p
      <4>1. i \in 1 .. Len(s) /\ i # p BY <3>1, <3>2, <2>1
      <4> QED BY <4>1, <3>1, <3>2, <2>1, <2>6
    <3>3. CASE ~ (i < p)
      <4>1. i + 1 \in 1 .. Len(s) /\ i + 1 # p BY <3>1, <3>3, <2>1
      <4> QED BY <4>1, <3>1, <3>3, <2>1, <2>6
    <3> QED BY <3>2, <3>3
  <2>9. \A j \in 1 .. Len(s) : s[j] # a => \E i \in 1 .. Len(z) : z[i] = s[j]
    <3> SUFFICES ASSUME NEW j \in 1 .. Len(s), s[j] # a PROVE \E i \in 1 .. Len(z) : z[i] = s[j]
      OBVIOUS
    <3>1. j # p BY <2>1
    <3>2. CASE j < p
      <4>1. j \in 1 .. Len(s) - 1 BY <3>2, <2>1
      <4> QED BY <4>1, <2>3, <3>2 DEF z
    <3>3. CASE j > p
      <4>1. j - 1 \in 1 .. Len(s) - 1 /\ ~ (j - 1 < p) /\ (j - 1) + 1 = j BY <3>3, <2>1
      <4> QED BY <4>1, <2>3 DEF z
    <3> QED BY <2>1, <3>1, <3>2, <3>3
  <2>10. \A e : InList(u, e)' <=> InList(u, e) /\ e # a
    <3>1. \A e : InList(u, e)' <=> \E i \in 1 .. Len(z) : z[i] = e BY <2>4 DEF InList
    <3>2. \A e : InList(u, e) <=> \E i \in 1 .. Len(s) : s[i] = e BY DEF InList, s
    <3> QED BY <3>1, <3>2, <2>8, <2>9
  <2>11. Distinct(u)' BY <2>4, <2>7 DEF Distinct
  <2> QED BY <1>2, <2>1, <2>2, <2>4, <2>5, <2>10, <2>11 DEF a
<1> QED BY <1>1, <1>2, <1>3

LEMMA Joining ==
    ASSUME TypeInv, NEW u \in Users, NEW e \in Ends, ~ InList(u, e), Distinct(u),
           chats' = [chats EXCEPT ![u] = Append(@, e)]
    PROVE  /\ chats' \in [Users -> Seq(Ends)]
           /\ \A w \in Users : w # u => chats'[w] = chats[w]
           /\ \A d : InList(u, d)' <=> InList(u, d) \/ d = e
           /\ Distinct(u)'
<1> DEFINE s == chats[u]
           z == Append(s, e)
<1>1. s \in Seq(Ends) BY DEF TypeInv
<1>2. z \in Seq(Ends) /\ Len(s) \in Nat /\ Len(z) = Len(s) + 1 /\ z[Len(s) + 1] = e
      /\ \A i \in 1 .. Len(s) : z[i] = s[i]
  BY <1>1, AppendProperties, LenProperties
<1>3. chats' \in [Users -> Seq(Ends)] /\ chats'[u] = z
      /\ \A w \in Users : w # u => chats'[w] = chats[w]
  BY <1>2 DEF TypeInv
<1>4. \A i \in 1 .. Len(s) : s[i] # e BY DEF InList
<1>5. \A i, j \in 1 .. Len(s) : s[i] = s[j] => i = j BY DEF Distinct
<1> HIDE DEF s, z
<1>6. \A i, j \in 1 .. Len(z) : z[i] = z[j] => i = j
  <2> SUFFICES ASSUME NEW i \in 1 .. Len(z), NEW j \in 1 .. Len(z), z[i] = z[j] PROVE i = j
    OBVIOUS
  <2>1. i \in 1 .. Len(s) \/ i = Len(s) + 1 BY <1>2
  <2>2. j \in 1 .. Len(s) \/ j = Len(s) + 1 BY <1>2
  <2> QED BY <2>1, <2>2, <1>2, <1>4, <1>5
<1>7. \A d : (\E i \in 1 .. Len(z) : z[i] = d) <=> (\E i \in 1 .. Len(s) : s[i] = d) \/ d = e
  <2>1. \A i \in 1 .. Len(z) : z[i] = e \/ \E j \in 1 .. Len(s) : s[j] = z[i]
    <3> SUFFICES ASSUME NEW i \in 1 .. Len(z) PROVE z[i] = e \/ \E j \in 1 .. Len(s) : s[j] = z[i]
      OBVIOUS
    <3>1. i \in 1 .. Len(s) \/ i = Len(s) + 1 BY <1>2
    <3> QED BY <3>1, <1>2
  <2>2. \A j \in 1 .. Len(s) : j \in 1 .. Len(z) /\ z[j] = s[j] BY <1>2
  <2>3. Len(s) + 1 \in 1 .. Len(z) BY <1>2
  <2> QED BY <2>1, <2>2, <2>3, <1>2
<1> QED BY <1>3, <1>6, <1>7 DEF InList, Distinct, s

LEMMA Writing ==
    ASSUME TypeInv, NEW e \in Ends, NEW m \in Messages
    PROVE  /\ AfterWriting(e, m) \in [Ends -> Seq(Messages)]
           /\ \A d \in Ends : d # Mate(e) => AfterWriting(e, m)[d] = streams[d]
           /\ AfterWriting(e, m)[Mate(e)] =
                 IF Mate(e) \in closed \/ thread[Mate(e)] = "ended" THEN streams[Mate(e)]
                 ELSE Append(streams[Mate(e)], m)
<1>1. Mate(e) \in Ends /\ streams \in [Ends -> Seq(Messages)] BY EndIs DEF TypeInv
<1>2. Append(streams[Mate(e)], m) \in Seq(Messages) BY <1>1, StreamIs
<1> QED BY <1>1, <1>2 DEF AfterWriting

LEMMA Reading ==
    ASSUME TypeInv, NEW e \in Ends, Reads(e)
    PROVE  /\ streams' \in [Ends -> Seq(Messages)] /\ countMsg' \in [Ends -> Nat]
           /\ e \in Used /\ thread[e] = "reading" /\ e \notin closed
           /\ streams[e] \in Seq(Messages) /\ streams[e] # <<>>
           /\ Len(streams[e]) \in Nat /\ Len(streams[e]) >= 1
           /\ Head(streams[e]) = streams[e][1] /\ streams[e][1] \in Messages
           /\ streams[e][1].kind # "END"
           /\ Len(streams'[e]) = Len(streams[e]) - 1
           /\ \A i \in 1 .. Len(streams'[e]) : /\ i + 1 \in 1 .. Len(streams[e])
                                                /\ streams'[e][i] = streams[e][i + 1]
           /\ countMsg'[e] = countMsg[e] + 1
           /\ \A d \in Ends : d # e => streams'[d] = streams[d] /\ countMsg'[d] = countMsg[d]
<1>1. streams[e] \in Seq(Messages) /\ streams[e] # <<>> BY DEF Reads, TypeInv
<1>2. /\ Len(streams[e]) \in Nat /\ Len(streams[e]) >= 1
      /\ Head(streams[e]) = streams[e][1] /\ streams[e][1] \in Messages
      /\ Tail(streams[e]) \in Seq(Messages) /\ Len(Tail(streams[e])) = Len(streams[e]) - 1
      /\ \A i \in 1 .. Len(streams[e]) - 1 : Tail(streams[e])[i] = streams[e][i + 1]
  BY <1>1, StreamIs
<1>3. streams' = [streams EXCEPT ![e] = Tail(streams[e])]
      /\ countMsg' = [countMsg EXCEPT ![e] = countMsg[e] + 1]
  BY DEF Reads
<1>4. streams' \in [Ends -> Seq(Messages)] /\ streams'[e] = Tail(streams[e])
      /\ countMsg' \in [Ends -> Nat] /\ countMsg'[e] = countMsg[e] + 1
      /\ \A d \in Ends : d # e => streams'[d] = streams[d] /\ countMsg'[d] = countMsg[d]
  BY <1>2, <1>3 DEF TypeInv
<1>5. e \in Used /\ thread[e] = "reading" /\ e \notin closed /\ streams[e][1].kind # "END"
  BY <1>2 DEF Reads
<1> QED BY <1>1, <1>2, <1>4, <1>5

-------------------------------------------------------------------------------
(**************************** The types are kept ***************************)

\* What the parts of an action do to the types.
LEMMA WriterIs ==
    ASSUME NetInv, NEW t \in Writers, HasToWrite(t)
    PROVE  /\ Writer(t) \in Users /\ Target(t) \in Users /\ Target(t) # Nobody
           /\ sending[t].message \in Messages \ {EndOfChat} /\ sending[t].frame \in Nat \ {0}
           /\ sending[t].reached \in Nat
           /\ sending[t].message.kind \in {"token", "cipher"}
           /\ sending[t].message.from = Writer(t) /\ sending[t].message.to = Target(t)
           /\ sending[t].reached # 0 => /\ sending[t].reached \in 1 .. Len(conns)
                                        /\ S(sending[t].reached) \in Used
                                        /\ conns[sending[t].reached].from = Writer(t)
                                        /\ conns[sending[t].reached].to = Target(t)
<1>1. TypeInv /\ WriterFits(t) BY DEF NetInv
<1>2. sending[t] \in Errands /\ sending[t] # Nothing BY <1>1 DEF TypeInv, HasToWrite
<1>3. sending[t].message \in Messages \ {EndOfChat} /\ sending[t].frame \in Nat \ {0}
      /\ sending[t].reached \in Nat
  BY <1>2 DEF Errands
<1>4. sending[t].message.kind \in {"token", "cipher"} /\ sending[t].message.to \in Users
      /\ sending[t].message.from \in Users
  BY <1>3, MessagesAre
<1> QED BY <1>1, <1>2, <1>3, <1>4, OwnersAre, NetworkAssumption DEF WriterFits, Writer, Target

LEMMA BoardsAre ==
    ASSUME TypeInv, NEW p \in {STARTER, NO_STARTER}
    PROVE  /\ boards[p].my_k \in Tokens /\ boards[p].my_f \in Tokens
           /\ \A q \in {STARTER, NO_STARTER}, d \in Nat :
                 LET b == SendTokenShared(boards[p], q, d) IN
                 /\ [boards EXCEPT ![p] = b] \in [{STARTER, NO_STARTER} -> BoardStates]
                 /\ [boards EXCEPT ![p] = b][p] = b
                 /\ b.my_k = {d} /\ b.my_f = {d} /\ b.my_k \in Tokens
           /\ \A k \in Tokens :
                 LET b == ReceivedTokenShared(boards[p], k) IN
                 /\ [boards EXCEPT ![p] = b] \in [{STARTER, NO_STARTER} -> BoardStates]
                 /\ b.my_f = {} /\ b.my_k = DerivedKey(boards[p], k)
<1>1. boards \in [{STARTER, NO_STARTER} -> BoardStates] BY DEF TypeInv
<1>2. boards[p] \in BoardStates BY <1>1
<1>3. ASSUME NEW q \in {STARTER, NO_STARTER}, NEW d \in Nat
      PROVE  LET b == SendTokenShared(boards[p], q, d) IN
             b \in BoardStates /\ b.my_k = {d} /\ b.my_f = {d} /\ b.my_k \in Tokens
  BY <1>2 DEF SendTokenShared, BoardStates, Tokens
<1>4. ASSUME NEW k \in Tokens
      PROVE  LET b == ReceivedTokenShared(boards[p], k) IN
             b \in BoardStates /\ b.my_f = {} /\ b.my_k = DerivedKey(boards[p], k)
  BY <1>2 DEF ReceivedTokenShared, DerivedKey, BoardStates, Tokens
<1>5. boards[p].my_k \in Tokens /\ boards[p].my_f \in Tokens BY <1>2 DEF BoardStates
<1> HIDE DEF SendTokenShared, ReceivedTokenShared
<1> QED BY <1>1, <1>3, <1>4, <1>5

LEMMA WindowsStay ==
    ASSUME TypeInv, NEW k \in Nat
    PROVE  /\ \A b \in BOOLEAN : [frames EXCEPT ![k].shown = b] \in Seq(Windows)
           /\ \A b \in BOOLEAN : [frames EXCEPT ![k].enabled = b] \in Seq(Windows)
<1>1. frames \in Seq(Windows) /\ Len(frames) \in Nat /\ DOMAIN frames = 1 .. Len(frames)
  BY LenProperties DEF TypeInv
<1>2. CASE k \in 1 .. Len(frames)
  <2>1. frames[k] \in Windows BY <1>1, <1>2, ElementOfSeq
  <2>2. ASSUME NEW b \in BOOLEAN
        PROVE  [frames[k] EXCEPT !.shown = b] \in Windows /\ [frames[k] EXCEPT !.enabled = b] \in Windows
    BY <2>1 DEF Windows
  <2> QED BY <1>1, <1>2, <2>2, ExceptSeq
<1>3. CASE k \notin 1 .. Len(frames)
  <2>1. ASSUME NEW w PROVE [frames EXCEPT ![k] = w] = frames
    BY <1>1, <1>3
  <2> QED BY <1>1, <2>1
<1> QED BY <1>2, <1>3

LEMMA TypesKept ==
    ASSUME NetInv, [NetNext]_netVars
    PROVE  TypeInv'
<1> USE DEF userVars, threadVars
<1>0. TypeInv BY DEF NetInv
<1>1. ASSUME NEW u \in Users, OpenContacts(u) PROVE TypeInv'
  BY <1>1, <1>0 DEF OpenContacts, TypeInv
<1>2. ASSUME NEW u \in Users, NEW v \in Users, StartCall(u, v) PROVE TypeInv'
  <2>1. draws' \in Nat /\ draws' = draws + 1 BY <1>2, <1>0 DEF StartCall, TypeInv
  <2>2. boards' \in [{STARTER, NO_STARTER} -> BoardStates] /\ boards'[STARTER].my_k \in Tokens
    BY <1>2, <1>0, <2>1, BoardsAre DEF StartCall
  <2>3. frames' \in Seq(Windows) /\ Len(frames') \in Nat \ {0}
    <3>1. [user |-> u, dest |-> v, type |-> STARTER, enabled |-> FALSE, shown |-> TRUE] \in Windows
      BY DEF Windows
    <3> QED BY <3>1, <1>2, <1>0, AppendProperties, LenProperties DEF StartCall, TypeInv
  <2>4. sending' \in [Writers -> Errands]
    <3>1. Sends(TokenTo(boards'[STARTER], u, v), Len(frames')) \in Errands
      BY <2>2, <2>3, MessagesAre DEF Sends, TokenTo, Errands
    <3> QED BY <3>1, <1>2, <1>0, WritersAre DEF StartCall, TypeInv
  <2>5. calls' \in [Users -> [Users -> Nat]] /\ contacts' \in [Users -> Nat] /\ calm' \in BOOLEAN
    <3>1. calls[u] \in [Users -> Nat] /\ contacts[u] \in Nat /\ contacts[u] > 0
      BY <1>2, <1>0 DEF StartCall, TypeInv
    <3>2. [calls[u] EXCEPT ![v] = calls[u][v] + 1] \in [Users -> Nat] /\ contacts[u] - 1 \in Nat
      BY <3>1
    <3>3. calls' = [calls EXCEPT ![u] = [calls[u] EXCEPT ![v] = calls[u][v] + 1]]
      BY <1>2 DEF StartCall
    <3>4. calls' \in [Users -> [Users -> Nat]] BY <1>0, <3>2, <3>3 DEF TypeInv
    <3>5. contacts' \in [Users -> Nat] BY <1>2, <1>0, <3>2 DEF StartCall, TypeInv
    <3>6. calm' \in BOOLEAN BY <1>2, <1>0 DEF StartCall, TypeInv
    <3> QED BY <3>4, <3>5, <3>6
  <2> QED BY <1>2, <1>0, <2>1, <2>2, <2>3, <2>4, <2>5 DEF StartCall, TypeInv
<1>3. ASSUME NEW t \in Writers, Reach(t) PROVE TypeInv'
  <2>1. Writer(t) \in Users /\ Target(t) \in Users /\ HasToWrite(t) BY <1>3, WriterIs DEF Reach
  <2>2. conns' = Append(conns, [from |-> Writer(t), to |-> Target(t)]) /\ Len(conns) < MaxConns
    BY <1>3 DEF Reach
  <2>3. conns' \in Seq([from : Users, to : Users]) /\ Len(conns') = Len(conns) + 1
    BY <1>0, <2>1, <2>2, AppendProperties DEF TypeInv
  <2>4. sending' \in [Writers -> Errands]
    <3>1. sending[t].message \in Messages \ {EndOfChat} /\ sending[t].frame \in Nat \ {0}
          /\ sending[t] \in Errands /\ sending[t] # Nothing
      BY <1>0, <2>1, WriterIs DEF HasToWrite, TypeInv
    <3>2. [sending[t] EXCEPT !.reached = Len(conns')] \in Errands
      BY <1>0, <2>3, <3>1, OwnersAre DEF Errands
    <3> QED BY <3>2, <1>3, <1>0 DEF Reach, TypeInv
  <2>5. Len(conns') <= MaxConns BY <1>0, <2>2, <2>3, OwnersAre, NetworkAssumption
  <2> QED BY <1>3, <1>0, <2>3, <2>4, <2>5 DEF Reach, TypeInv
<1>4. ASSUME NEW t \in Writers, Join(t) PROVE TypeInv'
  <2> DEFINE e == S(sending[t].reached)
  <2>1. Writer(t) \in Users /\ Target(t) \in Users /\ HasToWrite(t) /\ e \in Ends
    BY <1>4, <1>0, WriterIs, OwnersAre DEF Join
  <2>2. sending[t] \in Errands /\ sending[t] # Nothing BY <1>4, <1>0 DEF Join, HasToWrite, TypeInv
  <2>3. [sending[t] EXCEPT !.reached = 0] \in Errands /\ sending[t].frame \in Nat
    BY <2>2 DEF Errands
  <2>4. Append(chats[Writer(t)], e) \in Seq(Ends)
    BY <1>0, <2>1, AppendProperties DEF TypeInv
  <2>5. chats' \in [Users -> Seq(Ends)] BY <1>4, <1>0, <2>4 DEF Join, TypeInv, S
  <2>6. /\ dest' \in [Ends -> Users \cup {Nobody}] /\ frame' \in [Ends -> Nat]
        /\ thread' \in [Ends -> Threads] /\ countMsg' \in [Ends -> Nat]
    BY <1>4, <1>0, <2>1, <2>3 DEF Join, TypeInv, Threads
  <2>7. sending' \in [Writers -> Errands] BY <1>4, <1>0, <2>3 DEF Join, TypeInv
  <2> QED BY <1>4, <1>0, <2>5, <2>6, <2>7 DEF Join, TypeInv
<1>5. ASSUME NEW t \in Writers, WriteFound(t) PROVE TypeInv'
  <2>1. Writer(t) \in Users /\ Target(t) \in Users /\ sending[t].message \in Messages
    BY <1>5, WriterIs DEF WriteFound
  <2>2. Find(Writer(t), Target(t)) \in Ends BY <1>5, <1>0, <2>1, FindFinds DEF WriteFound
  <2>3. streams' \in [Ends -> Seq(Messages)] BY <1>5, <1>0, <2>1, <2>2, Writing DEF WriteFound
  <2>4. sending' \in [Writers -> Errands] BY <1>5, <1>0 DEF WriteFound, TypeInv, Errands
  <2>5. thread' \in [Ends -> Threads] BY <1>5, <1>0 DEF WriteFound, TypeInv, Threads
  <2> QED BY <1>5, <1>0, <2>3, <2>4, <2>5 DEF WriteFound, TypeInv
<1>6. ASSUME NEW c \in 1 .. MaxConns, TakeCall(c) PROVE TypeInv'
  <2>1. <<c, NO_STARTER>> \in Ends /\ conns[c].to \in Users
    BY <1>6, <1>0, EndsOf, OwnersAre DEF TakeCall, N
  <2>2. Append(chats[conns[c].to], <<c, NO_STARTER>>) \in Seq(Ends)
    BY <1>0, <2>1, AppendProperties DEF TypeInv
  <2>3. chats' \in [Users -> Seq(Ends)] /\ thread' \in [Ends -> Threads]
    BY <1>6, <1>0, <2>1, <2>2 DEF TakeCall, TypeInv, Threads
  <2> QED BY <1>6, <1>0, <2>3 DEF TakeCall, TypeInv
<1>7. ASSUME NEW e \in Ends, ReadFirst(e) PROVE TypeInv'
  <2>1. /\ streams' \in [Ends -> Seq(Messages)] /\ countMsg' \in [Ends -> Nat] /\ e \in Used
        /\ Head(streams[e]) \in Messages
    BY <1>7, <1>0, Reading DEF ReadFirst
  <2>2. Owner(e) \in Users /\ Owner(Mate(e)) \in Users BY <1>0, <2>1, OwnersAre
  <2>3. draws' \in Nat /\ draws' = draws + 1 BY <1>7, <1>0 DEF ReadFirst, TypeInv
  <2>4. boards' \in [{STARTER, NO_STARTER} -> BoardStates] /\ boards'[NO_STARTER].my_k \in Tokens
    BY <1>7, <1>0, <2>3, BoardsAre DEF ReadFirst
  <2>5. frames' \in Seq(Windows) /\ Len(frames') \in Nat \ {0}
    <3>1. [user |-> Owner(e), dest |-> Owner(Mate(e)), type |-> NO_STARTER, enabled |-> TRUE,
           shown |-> FALSE] \in Windows
      BY <2>2 DEF Windows
    <3> QED BY <3>1, <1>7, <1>0, AppendProperties, LenProperties DEF ReadFirst, TypeInv
  <2>6. sending' \in [Writers -> Errands]
    <3>1. Sends(TokenTo(boards'[NO_STARTER], Owner(e), Owner(Mate(e))), Len(frames')) \in Errands
      BY <2>2, <2>4, <2>5, MessagesAre DEF Sends, TokenTo, Errands
    <3> QED BY <3>1, <1>7, <1>0 DEF ReadFirst, TypeInv
  <2>7. /\ dest' \in [Ends -> Users \cup {Nobody}] /\ frame' \in [Ends -> Nat]
        /\ thread' \in [Ends -> Threads]
    BY <1>7, <1>0, <2>2, <2>5 DEF ReadFirst, TypeInv, Threads
  <2>8. firstToken' \in [Ends -> Tokens] BY <1>7, <1>0, <2>1, MessagesAre DEF ReadFirst, TypeInv
  <2> QED BY <1>7, <1>0, <2>1, <2>3, <2>4, <2>5, <2>6, <2>7, <2>8 DEF ReadFirst, TypeInv
<1>8. ASSUME NEW e \in Ends, Derive(e) PROVE TypeInv'
  <2>1. firstToken[e] \in Tokens BY <1>0 DEF TypeInv
  <2>2. boards' \in [{STARTER, NO_STARTER} -> BoardStates]
    BY <1>8, <1>0, <2>1, BoardsAre DEF Derive
  <2>3. thread' \in [Ends -> Threads] BY <1>8, <1>0 DEF Derive, TypeInv, Threads
  <2> QED BY <1>8, <1>0, <2>2, <2>3 DEF Derive, TypeInv
<1>9. ASSUME NEW e \in Ends, ReadAnswer(e) PROVE TypeInv'
  <2>1. /\ streams' \in [Ends -> Seq(Messages)] /\ countMsg' \in [Ends -> Nat]
        /\ AsToken(Head(streams[e])) \in Tokens
    BY <1>9, <1>0, Reading, MessagesAre DEF ReadAnswer
  <2>2. boards' \in [{STARTER, NO_STARTER} -> BoardStates]
    BY <1>9, <1>0, <2>1, BoardsAre DEF ReadAnswer
  <2>3. frames' \in Seq(Windows)
    <3>1. frame[e] \in Nat BY <1>0 DEF TypeInv
    <3> QED BY <1>9, <1>0, <3>1, WindowsStay DEF ReadAnswer, TypeInv
  <2> QED BY <1>9, <1>0, <2>1, <2>2, <2>3 DEF ReadAnswer, TypeInv
<1>10. ASSUME NEW e \in Ends, ReadText(e) PROVE TypeInv'
  <2>1. streams' \in [Ends -> Seq(Messages)] /\ countMsg' \in [Ends -> Nat]
    BY <1>10, <1>0, Reading DEF ReadText
  <2>2. frames' \in Seq(Windows)
    <3>1. frame[e] \in Nat BY <1>0 DEF TypeInv
    <3> QED BY <1>10, <1>0, <3>1, WindowsStay DEF ReadText, TypeInv
  <2>3. thread' \in [Ends -> Threads] BY <1>10, <1>0 DEF ReadText, TypeInv, Threads
  <2> QED BY <1>10, <1>0, <2>1, <2>2, <2>3 DEF ReadText, TypeInv
<1>11. ASSUME NEW e \in Ends, ReadClose(e) PROVE TypeInv'
  <2>1. Owner(e) \in Users /\ ListFits(Owner(e)) BY <1>11, <1>0, OwnersAre DEF ReadClose, NetInv
  <2>2. /\ chats' \in [Users -> Seq(Ends)] /\ closed' \in SUBSET Ends
        /\ streams' \in [Ends -> Seq(Messages)]
    BY <1>11, <1>0, <2>1, Closing DEF ReadClose, ListFits, TypeInv
  <2>3. frames' \in Seq(Windows)
    <3> DEFINE a == Find(Owner(e), dest[e])
    <3>1. CASE IsListed(Owner(e), dest[e]) /\ frame[a] # 0
      <4>1. frame[a] \in Nat BY <1>0, <2>1, <3>1, FindFinds DEF TypeInv
      <4>2. frames' = [frames EXCEPT ![frame[a]].shown = FALSE] BY <1>11, <3>1 DEF ReadClose
      <4> HIDE DEF a
      <4> QED BY <1>0, <4>1, <4>2, WindowsStay
    <3>2. CASE ~ (IsListed(Owner(e), dest[e]) /\ frame[a] # 0)
      BY <1>11, <1>0, <3>2 DEF ReadClose, TypeInv
    <3> QED BY <3>1, <3>2
  <2>4. thread' \in [Ends -> Threads] BY <1>11, <1>0 DEF ReadClose, TypeInv, Threads
  <2> QED BY <1>11, <1>0, <2>2, <2>3, <2>4 DEF ReadClose, TypeInv
<1>12. ASSUME NEW e \in Ends, SocketEnds(e) PROVE TypeInv'
  <2>1. streams' \in [Ends -> Seq(Messages)] /\ thread' \in [Ends -> Threads]
    <3>1. <<>> \in Seq(Messages) BY EmptySeq
    <3> QED BY <3>1, <1>12, <1>0 DEF SocketEnds, TypeInv, Threads
  <2> QED BY <1>12, <1>0, <2>1 DEF SocketEnds, TypeInv
<1>13. ASSUME NEW f \in 1 .. Len(frames), PressSend(f) PROVE TypeInv'
  <2>1. frames[f] \in Windows /\ f \in Nat \ {0} BY <1>0, ElementOfSeq, LenProperties DEF TypeInv
  <2>2. frames[f].user \in Users /\ frames[f].dest \in Users
        /\ boards[frames[f].type].my_k \in Tokens
    BY <1>0, <2>1, BoardsAre DEF Windows
  <2>3. sending' \in [Writers -> Errands]
    <3>1. Sends(CipherTo(boards[frames[f].type], frames[f].user, frames[f].dest), f) \in Errands
      BY <2>1, <2>2, MessagesAre DEF Sends, CipherTo, Errands
    <3> QED BY <3>1, <1>13, <1>0 DEF PressSend, TypeInv
  <2>4. texts' \in Nat BY <1>13, <1>0 DEF PressSend, TypeInv
  <2> QED BY <1>13, <1>0, <2>3, <2>4 DEF PressSend, TypeInv
<1>14. ASSUME NEW f \in 1 .. Len(frames), PressClose(f) PROVE TypeInv'
  <2> DEFINE u == frames[f].user
             v == frames[f].dest
             left == IF IsListed(u, v) THEN AfterWriting(Find(u, v), EndOfChat) ELSE streams
  <2>1. frames[f] \in Windows BY <1>0, ElementOfSeq DEF TypeInv
  <2>2. u \in Users /\ ListFits(u) BY <2>1 DEF Windows, NetInv
  <2>3. left \in [Ends -> Seq(Messages)] BY <1>0, <2>2, FindFinds, Writing, MessagesAre DEF TypeInv
  <2>4. Closes(u, v, left) /\ Distinct(u) BY <1>14, <2>2 DEF PressClose, ListFits
  <2>5. /\ chats' \in [Users -> Seq(Ends)] /\ closed' \in SUBSET Ends
        /\ streams' \in [Ends -> Seq(Messages)]
    <3>1. ~ IsListed(u, v) => left = streams OBVIOUS
    <3> HIDE DEF u, v, left
    <3> QED BY <1>0, <2>2, <2>3, <2>4, <3>1, Closing
  <2>6. frames' \in Seq(Windows)
    <3>1. f \in Nat BY <1>0, LenProperties DEF TypeInv
    <3> QED BY <1>14, <1>0, <3>1, WindowsStay DEF PressClose, TypeInv
  <2>7. calm' \in BOOLEAN BY <1>14, <1>0, <2>1 DEF PressClose, TypeInv, Windows
  <2> QED BY <1>14, <1>0, <2>5, <2>6, <2>7 DEF PressClose, TypeInv
<1>15. CASE UNCHANGED netVars
  BY <1>0, <1>15 DEF TypeInv, netVars
<1> QED
  BY <1>1, <1>2, <1>3, <1>4, <1>5, <1>6, <1>7, <1>8, <1>9, <1>10, <1>11, <1>12, <1>13, <1>14,
     <1>15 DEF NetNext

-------------------------------------------------------------------------------
(**************** What stays as it is, whatever the step *******************)

\* Connections are only added, by Reach.
LEMMA ConnsKept ==
    ASSUME NetInv, [NetNext]_netVars
    PROVE  /\ Len(conns)' \in Nat /\ Len(conns) \in Nat /\ Len(conns) <= Len(conns)'
           /\ \A c \in 1 .. Len(conns) : conns[c]' = conns[c]
           /\ Used \subseteq Used'
           /\ \A e \in Used : Owner(e)' = Owner(e) /\ Owner(Mate(e))' = Owner(Mate(e))
           /\ conns' = conns \/ \E t \in Writers : Reach(t)
<1> USE DEF userVars, threadVars
<1>1. TypeInv BY DEF NetInv
<1>2. conns' = conns \/ \E t \in Writers : Reach(t)
  BY DEF NetNext, netVars, OpenContacts, StartCall, Join, WriteFound, TakeCall, ReadFirst, Derive,
         ReadAnswer, ReadText, ReadClose, SocketEnds, PressSend, PressClose
<1>3. Len(conns) \in Nat /\ \A e \in Used : e[1] \in 1 .. Len(conns) /\ Mate(e) \in Used
  BY <1>1, OwnersAre
<1>4. CASE conns' = conns
  BY <1>2, <1>3, <1>4 DEF Used, Owner
<1>5. ASSUME NEW t \in Writers, Reach(t)
      PROVE  /\ Len(conns)' = Len(conns) + 1
             /\ \A c \in 1 .. Len(conns) : conns[c]' = conns[c]
  <2>1. Writer(t) \in Users /\ Target(t) \in Users BY <1>5, WriterIs DEF Reach
  <2>2. conns' = Append(conns, [from |-> Writer(t), to |-> Target(t)]) BY <1>5 DEF Reach
  <2> QED BY <1>1, <2>1, <2>2, AppendProperties DEF TypeInv
<1>6. ASSUME NEW t \in Writers, Reach(t)
      PROVE  /\ Used \subseteq Used'
             /\ \A e \in Used : Owner(e)' = Owner(e) /\ Owner(Mate(e))' = Owner(Mate(e))
  <2>1. Len(conns)' = Len(conns) + 1 /\ \A c \in 1 .. Len(conns) : conns[c]' = conns[c]
    BY <1>6, <1>5
  <2>2. \A e \in Ends : e[1] \in Nat BY EndIs
  <2>3. Used \subseteq Used' BY <1>3, <2>1, <2>2 DEF Used
  <2>4. \A e \in Used : conns[e[1]]' = conns[e[1]] BY <1>3, <2>1
  <2>5. \A e \in Used : Owner(e)' = Owner(e) BY <2>4 DEF Owner
  <2> QED BY <1>3, <2>3, <2>5
<1> QED BY <1>2, <1>3, <1>4, <1>5, <1>6

\* Windows are only added and keep their user, number and role; an enabled
\* one stays enabled.
LEMMA WindowsKept ==
    ASSUME NetInv, [NetNext]_netVars
    PROVE  /\ Len(frames) \in Nat /\ Len(frames)' \in Nat /\ Len(frames) <= Len(frames)'
           /\ \A f \in 1 .. Len(frames) :
                 /\ frames[f].user' = frames[f].user /\ frames[f].dest' = frames[f].dest
                 /\ frames[f].type' = frames[f].type
                 /\ frames[f].enabled => frames[f].enabled'
<1> USE DEF userVars, threadVars
<1> DEFINE Same(f) == /\ frames[f].user' = frames[f].user /\ frames[f].dest' = frames[f].dest
                      /\ frames[f].type' = frames[f].type
                      /\ frames[f].enabled => frames[f].enabled'
           Goal == /\ Len(frames)' \in Nat /\ Len(frames) <= Len(frames)'
                   /\ \A f \in 1 .. Len(frames) : Same(f)
<1>0. /\ TypeInv /\ frames \in Seq(Windows) /\ Len(frames) \in Nat
      /\ DOMAIN frames = 1 .. Len(frames)
  BY LenProperties DEF NetInv, TypeInv
<1>1. ASSUME frames' = frames PROVE Goal BY <1>0, <1>1
<1>2. ASSUME NEW w, frames' = Append(frames, w) PROVE Goal
  <2>1. /\ frames \in Seq(Windows \cup {w}) /\ w \in Windows \cup {w} BY <1>0, SeqMonotonic
  <2>2. /\ Len(frames') = Len(frames) + 1
        /\ \A i \in 1 .. Len(frames) : frames'[i] = frames[i]
    BY <1>2, <2>1, AppendProperties
  <2> QED BY <1>0, <2>2
<1>3. ASSUME NEW k \in Nat, frames' = [frames EXCEPT ![k].shown = TRUE]
                            \/ frames' = [frames EXCEPT ![k].shown = FALSE]
                            \/ frames' = [frames EXCEPT ![k].enabled = TRUE]
      PROVE  Goal
  <2>1. \A f \in 1 .. Len(frames) : frames[f] \in Windows BY <1>0, ElementOfSeq
  <2>2. PICK w : /\ frames' = [frames EXCEPT ![k] = w]
                 /\ \/ w = [frames[k] EXCEPT !.shown = TRUE]
                    \/ w = [frames[k] EXCEPT !.shown = FALSE]
                    \/ w = [frames[k] EXCEPT !.enabled = TRUE]
    BY <1>3
  <2>3. CASE k \in 1 .. Len(frames)
    <3>1. w \in Windows BY <2>1, <2>2, <2>3 DEF Windows
    <3>2. /\ w.user = frames[k].user /\ w.dest = frames[k].dest /\ w.type = frames[k].type
          /\ frames[k].enabled => w.enabled
      BY <2>1, <2>2, <2>3 DEF Windows
    <3>3. Len(frames') = Len(frames) /\ \A j \in 1 .. Len(frames) : frames'[j] = IF j = k THEN w ELSE frames[j]
      BY <1>0, <2>2, <2>3, <3>1, ExceptSeq
    <3> QED BY <1>0, <3>2, <3>3
  <2>4. CASE k \notin 1 .. Len(frames)
    <3>1. frames' = frames BY <1>0, <2>2, <2>4
    <3> QED BY <3>1, <1>1
  <2> QED BY <2>3, <2>4
<1>4. ASSUME NEW e \in Ends PROVE frame[e] \in Nat BY <1>0 DEF TypeInv
<1> HIDE DEF Goal
<1>5. ASSUME NEW u \in Users, OpenContacts(u) \/ \E v \in Users : StartCall(u, v) PROVE Goal
  BY <1>5, <1>1, <1>2 DEF OpenContacts, StartCall
<1>6. ASSUME NEW t \in Writers, Reach(t) \/ Join(t) \/ WriteFound(t) PROVE Goal
  BY <1>6, <1>1 DEF Reach, Join, WriteFound
<1>7. ASSUME NEW c \in 1 .. MaxConns, TakeCall(c) PROVE Goal BY <1>7, <1>1 DEF TakeCall
<1>8. ASSUME NEW e \in Ends, ReadFirst(e) \/ Derive(e) \/ SocketEnds(e) PROVE Goal
  BY <1>8, <1>1, <1>2 DEF ReadFirst, Derive, SocketEnds
<1>9. ASSUME NEW e \in Ends, ReadAnswer(e) \/ ReadText(e) PROVE Goal
  BY <1>9, <1>1, <1>3, <1>4 DEF ReadAnswer, ReadText
<1>10. ASSUME NEW e \in Ends, ReadClose(e) PROVE Goal
  <2> DEFINE a == Find(Owner(e), dest[e])
  <2>1. Owner(e) \in Users BY <1>0, <1>10, OwnersAre DEF ReadClose
  <2>2. CASE IsListed(Owner(e), dest[e]) /\ frame[a] # 0
    <3>1. frame[a] \in Nat BY <1>0, <2>1, <2>2, FindFinds DEF TypeInv
    <3>2. frames' = [frames EXCEPT ![frame[a]].shown = FALSE] BY <1>10, <2>2 DEF ReadClose
    <3> HIDE DEF a
    <3> QED BY <3>1, <3>2, <1>3
  <2>3. CASE ~ (IsListed(Owner(e), dest[e]) /\ frame[a] # 0)
    BY <1>10, <2>3, <1>1 DEF ReadClose
  <2> QED BY <2>2, <2>3
<1>11. ASSUME NEW f \in 1 .. Len(frames), PressSend(f) \/ PressClose(f) PROVE Goal
  <2>1. f \in Nat BY <1>0
  <2> QED BY <1>11, <2>1, <1>1, <1>3 DEF PressSend, PressClose
<1>12. CASE UNCHANGED netVars BY <1>1, <1>12 DEF netVars
<1>13. ASSUME NetNext PROVE Goal
  <2>1. CASE \E u \in Users : OpenContacts(u) \/ \E v \in Users : StartCall(u, v) BY <2>1, <1>5
  <2>2. CASE \E t \in Writers : Reach(t) \/ Join(t) \/ WriteFound(t) BY <2>2, <1>6
  <2>3. CASE \E c \in 1 .. MaxConns : TakeCall(c) BY <2>3, <1>7
  <2>4. CASE \E e \in Ends : \/ ReadFirst(e) \/ Derive(e) \/ ReadAnswer(e) \/ ReadText(e)
                             \/ ReadClose(e) \/ SocketEnds(e)
    BY <2>4, <1>8, <1>9, <1>10
  <2>5. CASE \E f \in 1 .. Len(frames) : PressSend(f) \/ PressClose(f) BY <2>5, <1>11
  <2> QED BY <1>13, <2>1, <2>2, <2>3, <2>4, <2>5 DEF NetNext
<1> QED BY <1>0, <1>12, <1>13 DEF Goal

-------------------------------------------------------------------------------
(******************** Ends, writers and lists fit on ***********************)

Carries(e, m) == m.kind # "END" => m.from = Owner(Mate(e)) /\ m.to = Owner(e)

\* What a step may do to an end of a connection.
LEMMA EndMoves ==
    ASSUME NetInv, [NetNext]_netVars, NEW d \in Ends,
           d \in Used \/ (thread'[d] = thread[d] /\ streams'[d] = streams[d]),
           thread'[d] = "none" => /\ thread[d] = "none" /\ dest'[d] = dest[d]
                                  /\ frame'[d] = frame[d] /\ countMsg'[d] = countMsg[d]
                                  /\ (d \in closed' => d \in closed),
           dest'[d] = dest[d] \/ dest'[d] = Owner(Mate(d)),
           \/ frame'[d] = frame[d]
           \/ /\ frame'[d] \in 1 .. Len(frames')
              /\ frames'[frame'[d]].user = Owner(d) /\ frames'[frame'[d]].dest = Owner(Mate(d)),
           \A i \in 1 .. Len(streams'[d]) :
              \/ \E j \in 1 .. Len(streams[d]) : streams'[d][i] = streams[d][j]
              \/ Carries(d, streams'[d][i])
    PROVE  EndFits(d)'
<1>1. EndFits(d) BY DEF NetInv
<1>2. CASE d \notin Used
  <2>1. /\ thread[d] = "none" /\ streams'[d] = <<>> /\ thread'[d] = "none"
        /\ dest'[d] = Nobody /\ frame'[d] = 0 /\ countMsg'[d] = 0 /\ d \notin closed'
    BY <1>1, <1>2 DEF EndFits
  <2>2. \A i : i \notin 1 .. Len(streams'[d]) BY <2>1, EmptySeq
  <2> QED BY <2>1, <2>2 DEF EndFits
<1>3. CASE d \in Used
  <2>1. d \in Used' /\ Owner(d)' = Owner(d) /\ Owner(Mate(d))' = Owner(Mate(d))
    BY <1>3, ConnsKept
  <2>2. thread'[d] = "none" => /\ dest'[d] = Nobody /\ frame'[d] = 0 /\ countMsg'[d] = 0
                               /\ d \notin closed'
    BY <1>1 DEF EndFits
  <2>3. dest'[d] # Nobody => dest'[d] = Owner(Mate(d)) BY <1>1, <1>3 DEF EndFits
  <2>4. \A i \in 1 .. Len(streams'[d]) : Carries(d, streams'[d][i])
    BY <1>1, <1>3 DEF EndFits, Carries
  <2>5. frame'[d] # 0 => /\ frame'[d] \in 1 .. Len(frames')
                         /\ frames'[frame'[d]].user = Owner(d)
                         /\ frames'[frame'[d]].dest = Owner(Mate(d))
    <3>1. CASE frame'[d] = frame[d]
      <4>1. frame[d] # 0 => /\ frame[d] \in 1 .. Len(frames)
                            /\ frames[frame[d]].user = Owner(d)
                            /\ frames[frame[d]].dest = Owner(Mate(d))
        BY <1>1, <1>3 DEF EndFits
      <4> QED BY <3>1, <4>1, WindowsKept
    <3> QED BY <3>1
  <2> QED BY <2>1, <2>2, <2>3, <2>4, <2>5 DEF EndFits, Carries
<1> QED BY <1>2, <1>3

LEMMA EndStays ==
    ASSUME NetInv, [NetNext]_netVars, NEW d \in Ends,
           thread'[d] = thread[d], streams'[d] = streams[d], dest'[d] = dest[d],
           frame'[d] = frame[d], countMsg'[d] = countMsg[d], d \in closed' => d \in closed
    PROVE  EndFits(d)'
BY EndMoves

\* The chat found is closed, and the lists hold what they should.
LEMMA Shutting ==
    ASSUME NetInv, NEW u \in Users, NEW v, NEW a, a = Find(u, v),
           NEW left \in [Ends -> Seq(Messages)], ~ IsListed(u, v) => left = streams,
           Closes(u, v, left), UNCHANGED <<conns, frame>>,
           \A b \in Ends : thread'[b] = "none" <=> thread[b] = "none"
    PROVE  /\ ~ IsListed(u, v) => UNCHANGED <<closed, streams, chats>>
           /\ IsListed(u, v) =>
                 /\ a \in Used /\ a \in Ends /\ Owner(a) = u /\ dest[a] = v
                 /\ thread[a] # "none" /\ (a \in closed => frame[a] = 0)
                 /\ closed' = closed \cup {a} /\ streams'[a] = <<>>
                 /\ \A d \in Ends : d # a => streams'[d] = left[d]
           /\ \A w \in Users : ListFits(w)'
<1>1. TypeInv /\ ListFits(u) /\ Distinct(u) BY DEF NetInv, ListFits
<1>2. /\ ~ IsListed(u, v) => UNCHANGED <<closed, streams, chats>>
      /\ IsListed(u, v) => /\ a \in Ends /\ InList(u, a) /\ dest[a] = v
                           /\ closed' = closed \cup {a} /\ streams'[a] = <<>>
                           /\ \A d \in Ends : d # a => streams'[d] = left[d]
                           /\ \A d : InList(u, d)' <=> InList(u, d) /\ (d # a \/ frame[d] = 0)
                           /\ Distinct(u)'
      /\ \A w \in Users : w # u => chats'[w] = chats[w]
  BY <1>1, Closing
<1>3. IsListed(u, v) => /\ a \in Used /\ Owner(a) = u /\ thread[a] # "none"
                        /\ a \in closed => frame[a] = 0
  BY <1>1, <1>2 DEF ListFits
<1>4. \A b : ((b \in Used)' <=> b \in Used) /\ Owner(b)' = Owner(b) BY DEF Used, Owner
<1>5. Used \subseteq Ends BY DEF Used
<1>6. ASSUME NEW w \in Users PROVE ListFits(w)'
  <2>1. ListFits(w) BY DEF NetInv
  <2>2. CASE w = u /\ IsListed(u, v)
    BY <1>1, <1>2, <1>3, <1>4, <1>5, <2>2 DEF ListFits
  <2>3. CASE w # u \/ ~ IsListed(u, v)
    <3>1. chats'[w] = chats[w] BY <1>2, <2>3
    <3>2. (\A b : InList(w, b)' <=> InList(w, b)) /\ (Distinct(w)' <=> Distinct(w))
      BY <3>1 DEF InList, Distinct
    <3>3. \A b \in Used : Owner(b) = w => (b \in closed' <=> b \in closed)
      BY <1>2, <1>3, <2>3
    <3> QED BY <1>4, <1>5, <2>1, <3>2, <3>3 DEF ListFits
  <2> QED BY <2>2, <2>3
<1> QED BY <1>2, <1>3, <1>6

LEMMA ReadCloses ==
    ASSUME NetInv, NEW e \in Ends, ReadClose(e), NEW u, NEW v, NEW a,
           u = Owner(e), v = dest[e], a = Find(u, v)
    PROVE  /\ e \in Used /\ thread[e] = "reading" /\ e \notin closed /\ u \in Users
           /\ \A d \in Ends : thread'[d] = IF d = e THEN "ended" ELSE thread[d]
           /\ ~ IsListed(u, v) => UNCHANGED <<closed, streams, chats, frames>>
           /\ IsListed(u, v) =>
                 /\ a \in Used /\ a \in Ends /\ Owner(a) = u /\ dest[a] = v
                 /\ thread[a] # "none" /\ (a \in closed => frame[a] = 0)
                 /\ closed' = closed \cup {a} /\ streams'[a] = <<>>
                 /\ \A d \in Ends : d # a => streams'[d] = streams[d]
           /\ \A w \in Users : ListFits(w)'
<1>1. TypeInv BY DEF NetInv
<1>2. e \in Used /\ thread[e] = "reading" /\ e \notin closed /\ u \in Users
  BY <1>1, OwnersAre DEF ReadClose
<1>3. /\ Closes(u, v, streams) /\ conns' = conns /\ frame' = frame
      /\ thread' = [thread EXCEPT ![e] = "ended"]
      /\ ~ IsListed(u, v) => frames' = frames
  BY DEF ReadClose
<1>4. \A d \in Ends : thread'[d] = IF d = e THEN "ended" ELSE thread[d] BY <1>1, <1>3 DEF TypeInv
<1>5. streams \in [Ends -> Seq(Messages)] BY <1>1 DEF TypeInv
<1>6. \A d \in Ends : thread'[d] = "none" <=> thread[d] = "none" BY <1>2, <1>4
<1>7. /\ ~ IsListed(u, v) => UNCHANGED <<closed, streams, chats>>
      /\ IsListed(u, v) =>
            /\ a \in Used /\ a \in Ends /\ Owner(a) = u /\ dest[a] = v
            /\ thread[a] # "none" /\ (a \in closed => frame[a] = 0)
            /\ closed' = closed \cup {a} /\ streams'[a] = <<>>
            /\ \A d \in Ends : d # a => streams'[d] = streams[d]
      /\ \A w \in Users : ListFits(w)'
  BY <1>2, <1>3, <1>5, <1>6, Shutting
<1> QED BY <1>2, <1>3, <1>4, <1>7

LEMMA PressCloses ==
    ASSUME NetInv, NEW f \in 1 .. Len(frames), PressClose(f), NEW u, NEW v, NEW a,
           u = frames[f].user, v = frames[f].dest, a = Find(u, v)
    PROVE  /\ frames[f] \in Windows /\ u \in Users /\ v \in Users
           /\ ~ IsListed(u, v) => UNCHANGED <<closed, streams, chats>>
           /\ IsListed(u, v) =>
                 /\ a \in Used /\ a \in Ends /\ Owner(a) = u /\ dest[a] = v
                 /\ Mate(a) \in Used /\ Mate(a) \in Ends /\ Mate(a) # a
                 /\ thread[a] # "none" /\ (a \in closed => frame[a] = 0)
                 /\ closed' = closed \cup {a} /\ streams'[a] = <<>>
                 /\ \A d \in Ends : d # a /\ d # Mate(a) => streams'[d] = streams[d]
                 /\ streams'[Mate(a)] =
                       IF Mate(a) \in closed \/ thread[Mate(a)] = "ended" THEN streams[Mate(a)]
                       ELSE Append(streams[Mate(a)], EndOfChat)
           /\ \A w \in Users : ListFits(w)'
<1> USE DEF userVars, threadVars
<1>1. TypeInv BY DEF NetInv
<1>2. frames[f] \in Windows BY <1>1, ElementOfSeq DEF TypeInv
<1>3. u \in Users /\ v \in Users BY <1>2 DEF Windows
<1>4. PICK left : left = IF IsListed(u, v) THEN AfterWriting(a, EndOfChat) ELSE streams
  OBVIOUS
<1>5. IsListed(u, v) => a \in Ends BY <1>1, <1>3, FindFinds
<1>6. left \in [Ends -> Seq(Messages)] /\ (~ IsListed(u, v) => left = streams)
  <2>1. CASE IsListed(u, v) BY <1>1, <1>4, <1>5, <2>1, Writing, MessagesAre
  <2>2. CASE ~ IsListed(u, v) BY <1>1, <1>4, <2>2 DEF TypeInv
  <2> QED BY <2>1, <2>2
<1>7. Closes(u, v, left) /\ conns' = conns /\ frame' = frame /\ thread' = thread
  BY <1>4 DEF PressClose
<1>8. /\ ~ IsListed(u, v) => UNCHANGED <<closed, streams, chats>>
      /\ IsListed(u, v) =>
            /\ a \in Used /\ a \in Ends /\ Owner(a) = u /\ dest[a] = v
            /\ thread[a] # "none" /\ (a \in closed => frame[a] = 0)
            /\ closed' = closed \cup {a} /\ streams'[a] = <<>>
            /\ \A d \in Ends : d # a => streams'[d] = left[d]
      /\ \A w \in Users : ListFits(w)'
  BY <1>3, <1>6, <1>7, Shutting
<1>9. IsListed(u, v) => Mate(a) \in Used /\ Mate(a) \in Ends /\ Mate(a) # a
  BY <1>1, <1>8, OwnersAre, EndIs
<1>10. IsListed(u, v) =>
          /\ \A d \in Ends : d # Mate(a) => left[d] = streams[d]
          /\ left[Mate(a)] = IF Mate(a) \in closed \/ thread[Mate(a)] = "ended" THEN streams[Mate(a)]
                             ELSE Append(streams[Mate(a)], EndOfChat)
  BY <1>1, <1>4, <1>8, Writing, MessagesAre
<1> QED BY <1>2, <1>3, <1>8, <1>9, <1>10

LEMMA EndsFit ==
    ASSUME NetInv, [NetNext]_netVars, NEW d \in Ends
    PROVE  EndFits(d)'
<1> USE DEF userVars, threadVars
<1>types. TypeInv BY DEF NetInv
<1>next. [NetNext]_netVars OBVIOUS
<1>old. EndFits(d) BY DEF NetInv
<1>1. ASSUME NEW u \in Users, OpenContacts(u) PROVE EndFits(d)'
  BY <1>1, EndStays DEF OpenContacts
<1>2. ASSUME NEW u \in Users, NEW v \in Users, StartCall(u, v) PROVE EndFits(d)'
  BY <1>2, EndStays DEF StartCall
<1>3. ASSUME NEW t \in Writers, Reach(t) PROVE EndFits(d)'
  BY <1>3, EndStays DEF Reach
<1>4. ASSUME NEW t \in Writers, Join(t) PROVE EndFits(d)'
  <2> DEFINE e == S(sending[t].reached)
  <2>1. HasToWrite(t) /\ sending[t].reached # 0 BY <1>4 DEF Join
  <2>2. e \in Used /\ e \in Ends /\ Owner(e) = Writer(t) /\ Owner(Mate(e)) = Target(t)
    BY <1>types, <2>1, WriterIs, OwnersAre, EndsAre
  <2>3. WriterFits(t) BY DEF NetInv
  <2>4. CASE d = e
    <3>1. thread'[d] = "reading" /\ dest'[d] = Target(t) /\ frame'[d] = sending[t].frame
      BY <1>4, <1>types, <2>2, <2>4 DEF Join, TypeInv, S
    <3>2. /\ frame'[d] \in 1 .. Len(frames') /\ frames' = frames
          /\ frames[frame'[d]].user = Owner(d) /\ frames[frame'[d]].dest = Owner(Mate(d))
      BY <1>4, <2>1, <2>2, <2>3, <2>4, <3>1, WriterIs DEF WriterFits, HasToWrite, Join
    <3>3. streams' = streams BY <1>4 DEF Join
    <3> QED BY <2>2, <2>4, <3>1, <3>2, <3>3, EndMoves
  <2>5. CASE d # e
    BY <1>4, <1>types, <2>5, EndStays DEF Join, TypeInv, S
  <2> QED BY <2>4, <2>5
<1>5. ASSUME NEW t \in Writers, WriteFound(t) PROVE EndFits(d)'
  <2> DEFINE a == Find(Writer(t), Target(t))
             m == sending[t].message
  <2>1. /\ HasToWrite(t) /\ Writer(t) \in Users /\ Target(t) \in Users /\ Target(t) # Nobody
        /\ m \in Messages /\ m.from = Writer(t) /\ m.to = Target(t)
    BY <1>5, WriterIs DEF WriteFound
  <2>2. a \in Ends /\ InList(Writer(t), a) /\ dest[a] = Target(t)
    BY <1>5, <1>types, <2>1, FindFinds DEF WriteFound
  <2>3. a \in Used /\ Owner(a) = Writer(t) BY <2>1, <2>2 DEF NetInv, ListFits
  <2>4. EndFits(a) /\ Mate(a) \in Used /\ Mate(Mate(a)) = a
    BY <1>types, <2>2, <2>3, EndIs, OwnersAre DEF NetInv
  <2>5. Owner(Mate(a)) = Target(t) BY <2>1, <2>2, <2>3, <2>4 DEF EndFits
  <2>6. Carries(Mate(a), m) BY <2>1, <2>3, <2>4, <2>5 DEF Carries
  <2>7. streams' = AfterWriting(a, m) BY <1>5 DEF WriteFound
  <2>8. \A i \in 1 .. Len(streams'[d]) : \/ \E j \in 1 .. Len(streams[d]) : streams'[d][i] = streams[d][j]
                                         \/ Carries(d, streams'[d][i])
    <3>1. CASE streams'[d] = streams[d] BY <3>1
    <3>2. CASE d = Mate(a) /\ streams'[d] = Append(streams[d], m)
      <4>1. streams[d] \in Seq(Messages) BY <1>types DEF TypeInv
      <4>2. /\ Len(streams[d]) \in Nat /\ Len(streams'[d]) = Len(streams[d]) + 1
            /\ streams'[d][Len(streams[d]) + 1] = m
            /\ \A i \in 1 .. Len(streams[d]) : streams'[d][i] = streams[d][i]
        BY <2>1, <3>2, <4>1, StreamIs
      <4>3. \A i \in 1 .. Len(streams'[d]) : i \in 1 .. Len(streams[d]) \/ i = Len(streams[d]) + 1
        BY <4>2
      <4> QED BY <2>6, <3>2, <4>2, <4>3
    <3> HIDE DEF a, m
    <3> QED BY <1>types, <2>1, <2>2, <2>7, <3>1, <3>2, Writing
  <2>9. d \in Used \/ streams'[d] = streams[d]
    BY <1>types, <2>1, <2>2, <2>4, <2>7, Writing
  <2>10. thread'[d] = thread[d] \/ (thread'[d] = "deriving" /\ d \in Used)
    <3>1. t \in Users \/ (t \in Used /\ t \in Ends)
      BY <1>types, <2>1, OwnersAre DEF NetInv, WriterFits, HasToWrite
    <3> QED BY <1>5, <1>types, <3>1 DEF WriteFound, TypeInv
  <2>11. dest'[d] = dest[d] /\ frame'[d] = frame[d] /\ countMsg'[d] = countMsg[d] /\ closed' = closed
    BY <1>5 DEF WriteFound
  <2>12. thread'[d] = "none" => thread[d] = "none" BY <2>10
  <2>13. d \in Used \/ (thread'[d] = thread[d] /\ streams'[d] = streams[d])
    BY <2>9, <2>10
  <2> HIDE DEF a, m
  <2> QED BY <2>8, <2>11, <2>12, <2>13, EndMoves
<1>6. ASSUME NEW c \in 1 .. MaxConns, TakeCall(c) PROVE EndFits(d)'
  <2>1. N(c) \in Used BY <1>6, <1>types, OwnersAre DEF TakeCall
  <2>2. CASE d = N(c)
    BY <1>6, <1>types, <2>1, <2>2, EndMoves DEF TakeCall, TypeInv, N
  <2>3. CASE d # N(c) BY <1>6, <1>types, <2>3, EndStays DEF TakeCall, TypeInv, N
  <2> QED BY <2>2, <2>3
<1>7. ASSUME NEW e \in Ends, ReadFirst(e) PROVE EndFits(d)'
  <2>1. /\ e \in Used /\ thread[e] = "reading" /\ e \notin closed
        /\ \A i \in 1 .. Len(streams'[e]) : /\ i + 1 \in 1 .. Len(streams[e])
                                             /\ streams'[e][i] = streams[e][i + 1]
        /\ \A a \in Ends : a # e => streams'[a] = streams[a] /\ countMsg'[a] = countMsg[a]
    BY <1>7, <1>types, Reading DEF ReadFirst
  <2>2. CASE d = e
    <3>1. /\ thread'[d] = "answering" /\ dest'[d] = Owner(Mate(d)) /\ frame'[d] = Len(frames')
          /\ frames' = Append(frames, [user |-> Owner(d), dest |-> Owner(Mate(d)),
                                       type |-> NO_STARTER, enabled |-> TRUE, shown |-> FALSE])
      BY <1>7, <1>types, <2>2 DEF ReadFirst, TypeInv
    <3>2. Owner(d) \in Users /\ Owner(Mate(d)) \in Users BY <1>types, <2>1, <2>2, OwnersAre
    <3>3. /\ Len(frames) \in Nat /\ Len(frames') = Len(frames) + 1
          /\ frames'[Len(frames')].user = Owner(d) /\ frames'[Len(frames')].dest = Owner(Mate(d))
      <4>1. [user |-> Owner(d), dest |-> Owner(Mate(d)), type |-> NO_STARTER, enabled |-> TRUE,
             shown |-> FALSE] \in Windows
        BY <3>2 DEF Windows
      <4> QED BY <1>types, <3>1, <4>1, AppendProperties, LenProperties DEF TypeInv
    <3>4. frame'[d] \in 1 .. Len(frames') BY <3>1, <3>3
    <3> QED BY <2>1, <2>2, <3>1, <3>3, <3>4, EndMoves
  <2>3. CASE d # e BY <1>7, <1>types, <2>1, <2>3, EndStays DEF ReadFirst, TypeInv
  <2> QED BY <2>2, <2>3
<1>8. ASSUME NEW e \in Ends, Derive(e) PROVE EndFits(d)'
  <2>1. thread[e] = "deriving" /\ EndFits(e) BY <1>8 DEF Derive, NetInv
  <2>2. e \in Used BY <2>1 DEF EndFits
  <2>3. CASE d = e BY <1>8, <1>types, <2>2, <2>3, EndMoves DEF Derive, TypeInv
  <2>4. CASE d # e BY <1>8, <1>types, <2>4, EndStays DEF Derive, TypeInv
  <2> QED BY <2>3, <2>4
<1>9. ASSUME NEW e \in Ends, ReadAnswer(e) PROVE EndFits(d)'
  <2>1. /\ e \in Used /\ thread[e] = "reading" /\ e \notin closed
        /\ \A i \in 1 .. Len(streams'[e]) : /\ i + 1 \in 1 .. Len(streams[e])
                                             /\ streams'[e][i] = streams[e][i + 1]
        /\ \A a \in Ends : a # e => streams'[a] = streams[a] /\ countMsg'[a] = countMsg[a]
    BY <1>9, <1>types, Reading DEF ReadAnswer
  <2>2. CASE d = e BY <1>9, <2>1, <2>2, EndMoves DEF ReadAnswer
  <2>3. CASE d # e BY <1>9, <2>1, <2>3, EndStays DEF ReadAnswer
  <2> QED BY <2>2, <2>3
<1>10. ASSUME NEW e \in Ends, ReadText(e) PROVE EndFits(d)'
  <2>1. /\ e \in Used /\ thread[e] = "reading" /\ e \notin closed
        /\ \A i \in 1 .. Len(streams'[e]) : /\ i + 1 \in 1 .. Len(streams[e])
                                             /\ streams'[e][i] = streams[e][i + 1]
        /\ \A a \in Ends : a # e => streams'[a] = streams[a] /\ countMsg'[a] = countMsg[a]
    BY <1>10, <1>types, Reading DEF ReadText
  <2>4. thread'[d] = thread[d] \/ (d = e /\ thread'[d] = "ended")
    BY <1>10, <1>types DEF ReadText, TypeInv
  <2>2. CASE d = e BY <1>10, <2>1, <2>2, <2>4, EndMoves DEF ReadText
  <2>3. CASE d # e BY <1>10, <2>1, <2>3, <2>4, EndStays DEF ReadText
  <2> QED BY <2>2, <2>3
<1>11. ASSUME NEW e \in Ends, ReadClose(e) PROVE EndFits(d)'
  <2>0. PICK u, v, a : u = Owner(e) /\ v = dest[e] /\ a = Find(u, v) OBVIOUS
  <2>1. /\ e \in Used /\ thread[e] = "reading"
        /\ thread'[d] = IF d = e THEN "ended" ELSE thread[d]
        /\ d \in closed' => d \in closed \/ (d = a /\ a \in Used /\ thread[a] # "none")
        /\ streams'[d] = streams[d] \/ (d = a /\ a \in Used /\ streams'[d] = <<>>)
    BY <1>11, <2>0, ReadCloses
  <2>2. dest'[d] = dest[d] /\ frame'[d] = frame[d] /\ countMsg'[d] = countMsg[d]
    BY <1>11 DEF ReadClose
  <2>3. \A i \in 1 .. Len(streams'[d]) : \E j \in 1 .. Len(streams[d]) : streams'[d][i] = streams[d][j]
    BY <2>1, EmptySeq
  <2>4. d \in Used \/ (thread'[d] = thread[d] /\ streams'[d] = streams[d]) BY <2>1
  <2>5. thread'[d] = "none" => thread[d] = "none" /\ (d \in closed' => d \in closed) BY <2>1
  <2> QED BY <2>2, <2>3, <2>4, <2>5, EndMoves
<1>12. ASSUME NEW e \in Ends, SocketEnds(e) PROVE EndFits(d)'
  <2>1. e \in Used /\ thread[e] = "reading" BY <1>12 DEF SocketEnds
  <2>2. CASE d = e
    <3>1. streams'[d] = <<>> BY <1>12, <1>types, <2>2 DEF SocketEnds, TypeInv
    <3>2. \A i : i \notin 1 .. Len(streams'[d]) BY <3>1, EmptySeq
    <3> QED BY <1>12, <1>types, <2>1, <2>2, <3>2, EndMoves DEF SocketEnds, TypeInv
  <2>3. CASE d # e BY <1>12, <1>types, <2>3, EndStays DEF SocketEnds, TypeInv
  <2> QED BY <2>2, <2>3
<1>13. ASSUME NEW f \in 1 .. Len(frames), PressSend(f) PROVE EndFits(d)'
  BY <1>13, EndStays DEF PressSend
<1>14. ASSUME NEW f \in 1 .. Len(frames), PressClose(f) PROVE EndFits(d)'
  <2>0. PICK u, v, a : u = frames[f].user /\ v = frames[f].dest /\ a = Find(u, v) OBVIOUS
  <2>1. /\ d \in closed' => d \in closed \/ (d = a /\ a \in Used /\ thread[a] # "none")
        /\ \/ streams'[d] = streams[d]
           \/ d \in Used /\ (streams'[d] = <<>> \/ streams'[d] = Append(streams[d], EndOfChat))
    <3>1. CASE IsListed(u, v) /\ d = a BY <1>14, <2>0, <3>1, PressCloses
    <3>2. CASE IsListed(u, v) /\ d = Mate(a)
      <4>1. /\ Mate(a) \in Used /\ closed' = closed \cup {a} /\ a \in Used /\ thread[a] # "none"
            /\ streams'[Mate(a)] =
                  IF Mate(a) \in closed \/ thread[Mate(a)] = "ended" THEN streams[Mate(a)]
                  ELSE Append(streams[Mate(a)], EndOfChat)
        BY <1>14, <2>0, <3>2, PressCloses
      <4> QED BY <3>2, <4>1
    <3>3. CASE ~ (IsListed(u, v) /\ d \in {a, Mate(a)}) BY <1>14, <2>0, <3>3, PressCloses
    <3> QED BY <3>1, <3>2, <3>3
  <2>2. thread'[d] = thread[d] /\ dest'[d] = dest[d] /\ frame'[d] = frame[d] /\ countMsg'[d] = countMsg[d]
    BY <1>14 DEF PressClose
  <2>3. \A i \in 1 .. Len(streams'[d]) : \/ \E j \in 1 .. Len(streams[d]) : streams'[d][i] = streams[d][j]
                                         \/ Carries(d, streams'[d][i])
    <3>1. CASE streams'[d] = streams[d] BY <3>1
    <3>2. CASE streams'[d] = <<>> BY <3>2, EmptySeq
    <3>3. CASE streams'[d] = Append(streams[d], EndOfChat)
      <4>1. streams[d] \in Seq(Messages) BY <1>types DEF TypeInv
      <4>2. /\ Len(streams[d]) \in Nat /\ Len(streams'[d]) = Len(streams[d]) + 1
            /\ streams'[d][Len(streams[d]) + 1].kind = "END"
            /\ \A i \in 1 .. Len(streams[d]) : streams'[d][i] = streams[d][i]
        BY <3>3, <4>1, StreamIs, MessagesAre
      <4>3. \A i \in 1 .. Len(streams'[d]) : i \in 1 .. Len(streams[d]) \/ i = Len(streams[d]) + 1
        BY <4>2
      <4> QED BY <4>2, <4>3 DEF Carries
    <3> QED BY <2>1, <3>1, <3>2, <3>3
  <2>4. d \in Used \/ (thread'[d] = thread[d] /\ streams'[d] = streams[d]) BY <2>1, <2>2
  <2>5. thread'[d] = "none" => thread[d] = "none" /\ (d \in closed' => d \in closed) BY <2>1, <2>2
  <2> QED BY <2>2, <2>3, <2>4, <2>5, EndMoves
<1>15. CASE UNCHANGED netVars
  BY <1>15, EndStays DEF netVars
<1> QED
  BY <1>1, <1>2, <1>3, <1>4, <1>5, <1>6, <1>7, <1>8, <1>9, <1>10, <1>11, <1>12, <1>13, <1>14,
     <1>15 DEF NetNext

LEMMA WriterStays ==
    ASSUME NetInv, [NetNext]_netVars, NEW t \in Writers, sending'[t] = sending[t],
           t \in Ends /\ thread[t] = "answering" => thread'[t] = "answering"
    PROVE  WriterFits(t)'
<1>1. TypeInv /\ WriterFits(t) BY DEF NetInv
<1>2. CASE sending[t] = Nothing BY <1>2 DEF WriterFits
<1>3. CASE sending[t] # Nothing
  <2>1. t \in Users \/ (t \in Used /\ t \in Used' /\ thread'[t] = "answering")
    BY <1>1, <1>3, ConnsKept DEF WriterFits, Used
  <2>2. /\ Writer(t)' = Writer(t)
        /\ t \in Used => Owner(Mate(t))' = Owner(Mate(t))
    BY <2>1, ConnsKept DEF Writer
  <2>3. sending[t].reached # 0 =>
           /\ sending[t].reached \in 1 .. Len(conns)'
           /\ conns[sending[t].reached]' = conns[sending[t].reached]
    BY <1>1, <1>3, ConnsKept DEF WriterFits
  <2>4. /\ sending[t].frame \in 1 .. Len(frames)'
        /\ frames'[sending[t].frame].user = frames[sending[t].frame].user
        /\ frames'[sending[t].frame].dest = frames[sending[t].frame].dest
    BY <1>1, <1>3, WindowsKept DEF WriterFits
  <2> QED BY <1>1, <1>3, <2>1, <2>2, <2>3, <2>4 DEF WriterFits
<1> QED BY <1>2, <1>3

LEMMA WritersFit ==
    ASSUME NetInv, [NetNext]_netVars, NEW x \in Writers
    PROVE  WriterFits(x)'
<1> USE DEF userVars, threadVars
<1>types. TypeInv BY DEF NetInv
<1>next. [NetNext]_netVars OBVIOUS
<1>1. ASSUME NEW u \in Users, OpenContacts(u) PROVE WriterFits(x)'
  BY <1>1, WriterStays DEF OpenContacts
<1>2. ASSUME NEW u \in Users, NEW v \in Users, StartCall(u, v) PROVE WriterFits(x)'
  <2>1. CASE x # u BY <1>2, <1>types, <2>1, WriterStays DEF StartCall, TypeInv
  <2>2. CASE x = u
    <3> DEFINE w == [user |-> u, dest |-> v, type |-> STARTER, enabled |-> FALSE, shown |-> TRUE]
    <3>1. w \in Windows /\ w.user = u /\ w.dest = v BY DEF Windows
    <3>2. frames' = Append(frames, w) BY <1>2 DEF StartCall
    <3> HIDE DEF w
    <3>3. Len(frames') \in 1 .. Len(frames') /\ frames'[Len(frames')] = w
      BY <1>types, <3>1, <3>2, AppendProperties, LenProperties DEF TypeInv
    <3>4. sending'[x] = Sends(TokenTo(boards'[STARTER], u, v), Len(frames'))
      BY <1>2, <1>types, <2>2 DEF StartCall, TypeInv
    <3> QED BY <2>2, <3>1, <3>3, <3>4 DEF WriterFits, Sends, TokenTo, Writer
  <2> QED BY <2>1, <2>2
<1>3. ASSUME NEW t \in Writers, Reach(t) PROVE WriterFits(x)'
  <2>1. CASE x # t BY <1>3, <1>types, <2>1, WriterStays DEF Reach, TypeInv
  <2>2. CASE x = t
    <3>1. /\ HasToWrite(t) /\ Writer(t) \in Users /\ Target(t) \in Users
          /\ sending[t].message.from = Writer(t) /\ sending[t].message.to = Target(t)
          /\ conns' = Append(conns, [from |-> Writer(t), to |-> Target(t)])
      BY <1>3, WriterIs DEF Reach
    <3>2. /\ sending[t] \in Errands /\ sending[t] # Nothing
          /\ sending' = [sending EXCEPT ![t] = [sending[t] EXCEPT !.reached = Len(conns')]]
      BY <1>3, <1>types, <3>1 DEF Reach, HasToWrite, TypeInv
    <3>3. /\ sending'[t].message = sending[t].message /\ sending'[t].frame = sending[t].frame
          /\ sending'[t].reached = Len(conns')
      BY <1>types, <3>2 DEF TypeInv, Errands
    <3>4. /\ Len(conns') \in 1 .. Len(conns')
          /\ conns'[Len(conns')].from = Writer(t) /\ conns'[Len(conns')].to = Target(t)
      BY <1>types, <3>1, AppendProperties, LenProperties DEF TypeInv
    <3>5. WriterFits(t) BY DEF NetInv
    <3>6. /\ t \in Users \/ (t \in Used /\ t \in Used')
          /\ Writer(t)' = Writer(t) /\ (t \in Used => Owner(Mate(t))' = Owner(Mate(t)))
      BY <3>1, <3>5, ConnsKept DEF WriterFits, HasToWrite, Writer
    <3>7. frames' = frames /\ thread' = thread BY <1>3 DEF Reach
    <3> QED BY <2>2, <3>1, <3>2, <3>3, <3>4, <3>5, <3>6, <3>7 DEF WriterFits
  <2> QED BY <2>1, <2>2
<1>4. ASSUME NEW t \in Writers, Join(t) PROVE WriterFits(x)'
  <2>1. CASE x # t BY <1>4, <1>types, <2>1, WriterStays DEF Join, TypeInv
  <2>2. CASE x = t
    <3>1. /\ sending[t] \in Errands /\ sending[t] # Nothing
          /\ sending' = [sending EXCEPT ![t] = [sending[t] EXCEPT !.reached = 0]]
      BY <1>4, <1>types DEF Join, HasToWrite, TypeInv
    <3>2. /\ sending'[t].message = sending[t].message /\ sending'[t].frame = sending[t].frame
          /\ sending'[t].reached = 0
      BY <1>types, <3>1 DEF TypeInv, Errands
    <3>3. WriterFits(t) BY DEF NetInv
    <3>4. frames' = frames /\ conns' = conns BY <1>4 DEF Join
    <3>5. t \in Users \/ thread'[t] = thread[t]
      <4>1. t \in Users \/ (t \in Ends /\ t # S(sending[t].reached)) BY WritersAre, EndsAre
      <4> QED BY <1>4, <1>types, <4>1 DEF Join, TypeInv, S
    <3> QED BY <2>2, <3>1, <3>2, <3>3, <3>4, <3>5 DEF WriterFits, Writer, Owner, Used
  <2> QED BY <2>1, <2>2
<1>5. ASSUME NEW t \in Writers, WriteFound(t) PROVE WriterFits(x)'
  <2>1. CASE x # t BY <1>5, <1>types, <2>1, WriterStays DEF WriteFound, TypeInv
  <2>2. CASE x = t
    <3>1. sending'[t] = Nothing BY <1>5, <1>types DEF WriteFound, TypeInv
    <3> QED BY <2>2, <3>1 DEF WriterFits
  <2> QED BY <2>1, <2>2
<1>6. ASSUME NEW c \in 1 .. MaxConns, TakeCall(c) PROVE WriterFits(x)'
  BY <1>6, WriterStays DEF TakeCall
<1>7. ASSUME NEW e \in Ends, ReadFirst(e) PROVE WriterFits(x)'
  <2>1. CASE x # e BY <1>7, <1>types, <2>1, WriterStays DEF ReadFirst, TypeInv
  <2>2. CASE x = e
    <3>1. /\ e \in Used /\ e \notin Users /\ Owner(e) \in Users /\ Owner(Mate(e)) \in Users
      BY <1>7, <1>types, <2>2, Reading, OwnersAre, WritersAre DEF ReadFirst
    <3> DEFINE w == [user |-> Owner(e), dest |-> Owner(Mate(e)), type |-> NO_STARTER,
                     enabled |-> TRUE, shown |-> FALSE]
    <3>2. w \in Windows /\ w.user = Owner(e) /\ w.dest = Owner(Mate(e)) BY <3>1 DEF Windows
    <3>3. frames' = Append(frames, w) /\ conns' = conns BY <1>7 DEF ReadFirst
    <3> HIDE DEF w
    <3>4. Len(frames') \in 1 .. Len(frames') /\ frames'[Len(frames')] = w
      BY <1>types, <3>2, <3>3, AppendProperties, LenProperties DEF TypeInv
    <3>5. sending'[x] = Sends(TokenTo(boards'[NO_STARTER], Owner(e), Owner(Mate(e))), Len(frames'))
      BY <1>7, <1>types, <2>2 DEF ReadFirst, TypeInv
    <3>6. e \in Used' /\ Owner(e)' = Owner(e) /\ Owner(Mate(e))' = Owner(Mate(e))
      BY <3>1, ConnsKept
    <3>7. thread'[x] = "answering" BY <1>7, <1>types, <2>2 DEF ReadFirst, TypeInv
    <3> QED BY <2>2, <3>1, <3>2, <3>4, <3>5, <3>6, <3>7 DEF WriterFits, Sends, TokenTo, Writer
  <2> QED BY <2>1, <2>2
<1>8. ASSUME NEW e \in Ends, Derive(e) PROVE WriterFits(x)'
  BY <1>8, WriterStays DEF Derive
<1>9. ASSUME NEW e \in Ends, ReadAnswer(e) PROVE WriterFits(x)'
  BY <1>9, WriterStays DEF ReadAnswer
<1>10. ASSUME NEW e \in Ends, ReadText(e) PROVE WriterFits(x)'
  <2>1. thread[e] = "reading" BY <1>10 DEF ReadText, Reads
  <2> QED BY <1>10, <1>types, <2>1, WriterStays DEF ReadText, TypeInv
<1>11. ASSUME NEW e \in Ends, ReadClose(e) PROVE WriterFits(x)'
  BY <1>11, WriterStays DEF ReadClose
<1>12. ASSUME NEW e \in Ends, SocketEnds(e) PROVE WriterFits(x)'
  BY <1>12, WriterStays DEF SocketEnds
<1>13. ASSUME NEW f \in 1 .. Len(frames), PressSend(f) PROVE WriterFits(x)'
  <2> DEFINE w == frames[f]
  <2>1. w \in Windows /\ f \in Nat BY <1>types, ElementOfSeq, LenProperties DEF TypeInv
  <2>2. CASE x # w.user BY <1>13, <1>types, <2>2, WriterStays DEF PressSend, TypeInv
  <2>3. CASE x = w.user
    <3>1. /\ sending'[x] = Sends(CipherTo(boards[w.type], w.user, w.dest), f) /\ frames' = frames
          /\ x \in Users
      BY <1>13, <1>types, <2>1, <2>3 DEF PressSend, TypeInv, Windows
    <3> QED BY <2>3, <3>1 DEF WriterFits, Sends, CipherTo, Writer
  <2> QED BY <2>2, <2>3
<1>14. ASSUME NEW f \in 1 .. Len(frames), PressClose(f) PROVE WriterFits(x)'
  BY <1>14, WriterStays DEF PressClose
<1>15. CASE UNCHANGED netVars
  BY <1>15, WriterStays DEF netVars
<1> QED
  BY <1>1, <1>2, <1>3, <1>4, <1>5, <1>6, <1>7, <1>8, <1>9, <1>10, <1>11, <1>12, <1>13, <1>14,
     <1>15 DEF NetNext

LEMMA ListStays ==
    ASSUME NetInv, [NetNext]_netVars, NEW w \in Users, chats'[w] = chats[w],
           \A a \in Ends : thread'[a] = "none" <=> thread[a] = "none",
           closed' = closed, \A a \in Ends : a \in closed => frame'[a] = frame[a]
    PROVE  ListFits(w)'
<1>1. TypeInv /\ ListFits(w) BY DEF NetInv
<1>2. \A a : InList(w, a)' <=> InList(w, a) BY DEF InList
<1>3. Distinct(w)' BY <1>1 DEF Distinct, ListFits
<1>4. \A a \in Used : a \in Ends /\ a \in Used' /\ Owner(a)' = Owner(a) BY <1>1, ConnsKept, OwnersAre
<1>5. \A a \in Used' : a \in Ends /\ (a \notin Used => thread[a] = "none")
  BY DEF Used, NetInv, EndFits
<1> QED BY <1>1, <1>2, <1>3, <1>4, <1>5 DEF ListFits

LEMMA ListsFit ==
    ASSUME NetInv, [NetNext]_netVars, NEW w \in Users
    PROVE  ListFits(w)'
<1> USE DEF userVars, threadVars
<1>types. TypeInv BY DEF NetInv
<1>next. [NetNext]_netVars OBVIOUS
<1>1. ASSUME NEW u \in Users, OpenContacts(u) PROVE ListFits(w)'
  BY <1>1, ListStays DEF OpenContacts
<1>2. ASSUME NEW u \in Users, NEW v \in Users, StartCall(u, v) PROVE ListFits(w)'
  BY <1>2, ListStays DEF StartCall
<1>3. ASSUME NEW t \in Writers, Reach(t) PROVE ListFits(w)'
  BY <1>3, ListStays DEF Reach
<1>4. ASSUME NEW t \in Writers, Join(t) PROVE ListFits(w)'
  <2>0. PICK e, y : e = S(sending[t].reached) /\ y = Writer(t) OBVIOUS
  <2>1. /\ HasToWrite(t) /\ sending[t].reached # 0 /\ thread[e] = "none"
        /\ chats' = [chats EXCEPT ![y] = Append(@, e)]
        /\ thread' = [thread EXCEPT ![e] = "reading"] /\ closed' = closed /\ conns' = conns
    BY <1>4, <2>0 DEF Join, S
  <2>2. e \in Used /\ e \in Ends /\ Owner(e) = y /\ y \in Users
    BY <1>types, <2>0, <2>1, WriterIs, OwnersAre
  <2>3. ListFits(y) /\ ListFits(w) /\ EndFits(e) BY <2>2 DEF NetInv
  <2>4. ~ InList(y, e) /\ e \notin closed BY <2>1, <2>3 DEF ListFits, EndFits
  <2>5. /\ \A a \in Users : a # y => chats'[a] = chats[a]
        /\ \A d : InList(y, d)' <=> InList(y, d) \/ d = e
        /\ Distinct(y)'
    BY <1>types, <2>1, <2>2, <2>3, <2>4, Joining DEF ListFits
  <2>6. \A a \in Ends : thread'[a] = IF a = e THEN "reading" ELSE thread[a]
    BY <1>types, <2>1 DEF TypeInv
  <2>7. \A a : (a \in Used)' <=> a \in Used BY <2>1 DEF Used
  <2>8. \A a : Owner(a)' = Owner(a) BY <2>1 DEF Owner
  <2>9. Used \subseteq Ends BY DEF Used
  <2>12. \A a \in Ends : a # e => frame'[a] = frame[a] BY <1>4, <1>types, <2>0 DEF Join, TypeInv, S
  <2>10. CASE w = y
    BY <2>1, <2>2, <2>3, <2>4, <2>5, <2>6, <2>7, <2>8, <2>9, <2>10, <2>12 DEF ListFits
  <2>11. CASE w # y
    <3>1. (\A a : InList(w, a)' <=> InList(w, a)) /\ (Distinct(w) => Distinct(w)')
      BY <2>5, <2>11 DEF InList, Distinct
    <3> QED BY <2>1, <2>2, <2>3, <2>6, <2>4, <2>7, <2>8, <2>9, <2>11, <2>12, <3>1 DEF ListFits
  <2> QED BY <2>10, <2>11
<1>5. ASSUME NEW t \in Writers, WriteFound(t) PROVE ListFits(w)'
  <2>1. thread' = thread \/ (t \in Used /\ thread' = [thread EXCEPT ![t] = "deriving"])
    BY <1>5 DEF WriteFound, NetInv, WriterFits, HasToWrite
  <2>2. t \in Used => t \in Ends BY DEF Used
  <2>3. t \in Used /\ t \notin Users => thread[t] # "none"
    BY <1>5, <1>types DEF WriteFound, NetInv, WriterFits, HasToWrite
  <2>4. \A a \in Ends : thread'[a] = "none" <=> thread[a] = "none"
    BY <1>5, <1>types, <2>1, <2>2, <2>3 DEF WriteFound, TypeInv
  <2> QED BY <1>5, <2>4, ListStays DEF WriteFound
<1>6. ASSUME NEW c \in 1 .. MaxConns, TakeCall(c) PROVE ListFits(w)'
  <2>0. PICK e, y : e = N(c) /\ y = conns[c].to OBVIOUS
  <2>1. /\ c \in 1 .. Len(conns) /\ thread[e] = "none"
        /\ chats' = [chats EXCEPT ![y] = Append(@, e)]
        /\ thread' = [thread EXCEPT ![e] = "reading"] /\ closed' = closed /\ conns' = conns
    BY <1>6, <1>types, <2>0, OwnersAre DEF TakeCall, N
  <2>2. e \in Used /\ e \in Ends /\ Owner(e) = y /\ y \in Users
    BY <1>types, <2>0, <2>1, OwnersAre
  <2>3. ListFits(y) /\ ListFits(w) /\ EndFits(e) BY <2>2 DEF NetInv
  <2>4. ~ InList(y, e) /\ e \notin closed BY <2>1, <2>3 DEF ListFits, EndFits
  <2>5. /\ \A a \in Users : a # y => chats'[a] = chats[a]
        /\ \A d : InList(y, d)' <=> InList(y, d) \/ d = e
        /\ Distinct(y)'
    BY <1>types, <2>1, <2>2, <2>3, <2>4, Joining DEF ListFits
  <2>6. \A a \in Ends : thread'[a] = IF a = e THEN "reading" ELSE thread[a]
    BY <1>types, <2>1 DEF TypeInv
  <2>7. \A a : (a \in Used)' <=> a \in Used BY <2>1 DEF Used
  <2>8. \A a : Owner(a)' = Owner(a) BY <2>1 DEF Owner
  <2>9. Used \subseteq Ends BY DEF Used
  <2>12. \A a \in Ends : a # e => frame'[a] = frame[a] BY <1>6, <1>types, <2>0 DEF TakeCall, TypeInv, N
  <2>10. CASE w = y
    BY <2>1, <2>2, <2>3, <2>4, <2>5, <2>6, <2>7, <2>8, <2>9, <2>10, <2>12 DEF ListFits
  <2>11. CASE w # y
    <3>1. (\A a : InList(w, a)' <=> InList(w, a)) /\ (Distinct(w) => Distinct(w)')
      BY <2>5, <2>11 DEF InList, Distinct
    <3> QED BY <2>1, <2>2, <2>3, <2>6, <2>4, <2>7, <2>8, <2>9, <2>11, <2>12, <3>1 DEF ListFits
  <2> QED BY <2>10, <2>11
<1>7. ASSUME NEW e \in Ends, ReadFirst(e) PROVE ListFits(w)'
  <2>1. \A a \in Ends : thread'[a] = "none" <=> thread[a] = "none"
    BY <1>7, <1>types, Reading DEF ReadFirst, TypeInv
  <2>2. \A a \in Ends : a \in closed => frame'[a] = frame[a]
    BY <1>7, <1>types DEF ReadFirst, TypeInv, Reads
  <2> QED BY <1>7, <2>1, <2>2, ListStays DEF ReadFirst
<1>8. ASSUME NEW e \in Ends, Derive(e) PROVE ListFits(w)'
  <2>1. \A a \in Ends : thread'[a] = "none" <=> thread[a] = "none"
    BY <1>8, <1>types DEF Derive, TypeInv
  <2>2. \A a \in Ends : a \in closed => frame'[a] = frame[a]
    BY <1>8, <1>types DEF Derive, TypeInv, Reads
  <2> QED BY <1>8, <2>1, <2>2, ListStays DEF Derive
<1>9. ASSUME NEW e \in Ends, ReadAnswer(e) PROVE ListFits(w)'
  BY <1>9, ListStays DEF ReadAnswer
<1>10. ASSUME NEW e \in Ends, ReadText(e) PROVE ListFits(w)'
  <2>1. \A a \in Ends : thread'[a] = "none" <=> thread[a] = "none"
    BY <1>10, <1>types, Reading DEF ReadText, TypeInv
  <2> QED BY <1>10, <2>1, ListStays DEF ReadText
<1>11. ASSUME NEW e \in Ends, ReadClose(e) PROVE ListFits(w)'
  <2>0. PICK u, v, a : u = Owner(e) /\ v = dest[e] /\ a = Find(u, v) OBVIOUS
  <2> QED BY <1>11, <2>0, ReadCloses
<1>12. ASSUME NEW e \in Ends, SocketEnds(e) PROVE ListFits(w)'
  <2>1. \A a \in Ends : thread'[a] = "none" <=> thread[a] = "none"
    BY <1>12, <1>types DEF SocketEnds, TypeInv
  <2> QED BY <1>12, <2>1, ListStays DEF SocketEnds
<1>13. ASSUME NEW f \in 1 .. Len(frames), PressSend(f) PROVE ListFits(w)'
  BY <1>13, ListStays DEF PressSend
<1>14. ASSUME NEW f \in 1 .. Len(frames), PressClose(f) PROVE ListFits(w)'
  <2>0. PICK u, v, a : u = frames[f].user /\ v = frames[f].dest /\ a = Find(u, v) OBVIOUS
  <2> QED BY <1>14, <2>0, PressCloses
<1>15. CASE UNCHANGED netVars
  BY <1>15, ListStays DEF netVars
<1> QED
  BY <1>1, <1>2, <1>3, <1>4, <1>5, <1>6, <1>7, <1>8, <1>9, <1>10, <1>11, <1>12, <1>13, <1>14,
     <1>15 DEF NetNext

-------------------------------------------------------------------------------
(*************************** Nothing goes astray ***************************)

LEMMA NetInit_NetInv == NetInit => NetInv
<1> SUFFICES ASSUME NetInit PROVE NetInv
  OBVIOUS
<1> USE DEF NetInit
<1>1. /\ Len(conns) = 0 /\ conns \in Seq([from : Users, to : Users])
      /\ frames \in Seq(Windows) /\ <<>> \in Seq(Ends) /\ <<>> \in Seq(Messages)
  BY EmptySeq
<1>2. Used = {} BY <1>1, EndIs, NetworkAssumption DEF Used
<1>3. TypeInv
  <2>1. PoweredUp \in BoardStates BY DEF PoweredUp, BoardStates, Tokens
  <2>2. {} \in Tokens BY DEF Tokens
  <2>3. calls \in [Users -> [Users -> Nat]] /\ contacts \in [Users -> Nat] OBVIOUS
  <2>4. boards \in [{STARTER, NO_STARTER} -> BoardStates] BY <2>1
  <2>5. chats \in [Users -> Seq(Ends)] /\ streams \in [Ends -> Seq(Messages)] BY <1>1
  <2>6. sending \in [Writers -> Errands] BY DEF Errands
  <2>7. firstToken \in [Ends -> Tokens] BY <2>2
  <2> QED BY <1>1, <2>3, <2>4, <2>5, <2>6, <2>7, NetworkAssumption DEF TypeInv, Threads
<1>4. \A e \in Ends : EndFits(e) BY <1>2 DEF EndFits
<1>5. \A t \in Writers : WriterFits(t) BY DEF WriterFits
<1>6. \A u \in Users : ListFits(u)
  <2>1. \A u \in Users : chats[u] = <<>> /\ Len(chats[u]) = 0 BY EmptySeq
  <2> QED BY <1>2, <2>1 DEF ListFits, InList, Distinct
<1> QED BY <1>3, <1>4, <1>5, <1>6 DEF NetInv

LEMMA NetInvKept == NetInv /\ [NetNext]_netVars => NetInv'
<1> SUFFICES ASSUME NetInv, [NetNext]_netVars PROVE NetInv'
  OBVIOUS
<1>1. TypeInv' BY TypesKept
<1>2. \A e \in Ends : EndFits(e)' BY EndsFit
<1>3. \A t \in Writers : WriterFits(t)' BY WritersFit
<1>4. \A u \in Users : ListFits(u)' BY ListsFit
<1> QED BY <1>1, <1>2, <1>3, <1>4 DEF NetInv

LEMMA NetInvHolds == NetSpec => []NetInv
<1>1. NetInit => NetInv BY NetInit_NetInv
<1>2. NetInv /\ [NetNext]_netVars => NetInv' BY NetInvKept
<1> QED BY <1>1, <1>2, PTL DEF NetSpec

\* Whoever calls whom: what is under way to a user was written to that user by
\* the one whose name is on the window it will be shown in.
THEOREM NothingAstray == NetSpec => []NothingGoesAstray
<1>1. NetInv => NothingGoesAstray
  <2> SUFFICES ASSUME NetInv PROVE NothingGoesAstray
    OBVIOUS
  <2>1. \A e \in Used : e \in Ends BY DEF Used
  <2>2. \A e \in Ends : DOMAIN streams[e] = 1 .. Len(streams[e]) BY StreamIs DEF NetInv, TypeInv
  <2> QED BY <2>1, <2>2 DEF NetInv, EndFits, NothingGoesAstray
<1> QED BY <1>1, NetInvHolds, PTL

-------------------------------------------------------------------------------
(******************** What the thread of an end has read *******************)

(* A chat has a window when its number is known: at the caller's end from the
   start, at the other from the first message on. *)
SideFits(e) ==
    /\ dest[e] = Nobody <=> frame[e] = 0
    /\ e[2] = STARTER =>
          /\ thread[e] # "none" => frame[e] # 0 /\ countMsg[e] >= 1
          /\ thread[e] \in {"none", "reading", "ended"}
    /\ e[2] = NO_STARTER =>
          /\ countMsg[e] = 0 <=> frame[e] = 0
          /\ frame[e] # 0 => frames[frame[e]].type = NO_STARTER
          /\ thread[e] = "answering" => sending[e] # Nothing
          /\ thread[e] \in {"answering", "deriving"} => countMsg[e] = 1
SideInv == \A e \in Ends : SideFits(e)

LEMMA SideMoves ==
    ASSUME NetInv, SideInv, [NetNext]_netVars, NEW d \in Ends,
           \/ dest'[d] = dest[d] /\ frame'[d] = frame[d]
           \/ /\ dest'[d] # Nobody /\ frame'[d] # 0
              /\ d[2] = NO_STARTER => frames'[frame'[d]].type = NO_STARTER,
           d[2] = STARTER => /\ thread'[d] # "none" => frame'[d] # 0 /\ countMsg'[d] >= 1
                             /\ thread'[d] \in {"none", "reading", "ended"},
           d[2] = NO_STARTER => /\ countMsg'[d] = 0 <=> frame'[d] = 0
                                /\ thread'[d] = "answering" => sending'[d] # Nothing
                                /\ thread'[d] \in {"answering", "deriving"} => countMsg'[d] = 1
    PROVE  SideFits(d)'
<1>1. SideFits(d) /\ EndFits(d) BY DEF NetInv, SideInv
<1>2. CASE dest'[d] = dest[d] /\ frame'[d] = frame[d]
  <2>1. frame[d] # 0 => frame[d] \in 1 .. Len(frames) BY <1>1 DEF EndFits
  <2>2. frame[d] # 0 => frames'[frame[d]].type = frames[frame[d]].type BY <2>1, WindowsKept
  <2> QED BY <1>1, <1>2, <2>2 DEF SideFits
<1>3. CASE ~ (dest'[d] = dest[d] /\ frame'[d] = frame[d])
  BY <1>3 DEF SideFits
<1> QED BY <1>2, <1>3

LEMMA SideStays ==
    ASSUME NetInv, SideInv, [NetNext]_netVars, NEW d \in Ends,
           dest'[d] = dest[d], frame'[d] = frame[d], countMsg'[d] = countMsg[d],
           thread'[d] = thread[d] \/ (thread'[d] = "ended" /\ thread[d] # "none"),
           d[2] = NO_STARTER /\ sending[d] # Nothing => sending'[d] # Nothing
    PROVE  SideFits(d)'
<1>1. SideFits(d) BY DEF SideInv
<1> QED BY <1>1, SideMoves DEF SideFits

\* Whoever connects or joins has the same to write after that.
LEMMA ReachedIs ==
    ASSUME NetInv, NEW t \in Writers, Reach(t) \/ Join(t)
    PROVE  /\ sending' = [sending EXCEPT ![t] = sending'[t]]
           /\ sending'[t].message = sending[t].message /\ sending'[t].frame = sending[t].frame
           /\ sending'[t] # Nothing /\ sending[t] # Nothing
           /\ \A d : sending'[d] # Nothing \/ sending'[d] = sending[d]
           /\ sending'[t].reached = IF Reach(t) THEN Len(conns') ELSE 0
<1>1. TypeInv BY DEF NetInv
<1>2. HasToWrite(t) BY DEF Reach, Join
<1>3. sending[t] \in Errands /\ sending[t] # Nothing BY <1>1, <1>2 DEF HasToWrite, TypeInv
<1>4. PICK r : /\ sending' = [sending EXCEPT ![t] = [sending[t] EXCEPT !.reached = r]]
               /\ r = IF Reach(t) THEN Len(conns') ELSE 0
  <2>1. CASE Reach(t) BY <2>1 DEF Reach
  <2>2. CASE ~ Reach(t) BY <2>2 DEF Join
  <2> QED BY <2>1, <2>2
<1>5. sending'[t] = [sending[t] EXCEPT !.reached = r] BY <1>1, <1>4 DEF TypeInv
<1>6. /\ sending'[t].message = sending[t].message /\ sending'[t].frame = sending[t].frame
      /\ sending'[t].reached = r
  BY <1>3, <1>5 DEF Errands
<1>7. sending'[t] # Nothing
  <2>1. sending[t].frame # 0 BY <1>3 DEF Errands
  <2> QED BY <1>6, <2>1 DEF Nothing
<1>8. \A d : sending'[d] # Nothing \/ sending'[d] = sending[d]
  BY <1>4, <1>7
<1> QED BY <1>1, <1>3, <1>4, <1>5, <1>6, <1>7, <1>8 DEF TypeInv

LEMMA SidesFit ==
    ASSUME NetInv, SideInv, [NetNext]_netVars, NEW d \in Ends
    PROVE  SideFits(d)'
<1> USE DEF userVars, threadVars
<1>types. TypeInv BY DEF NetInv
<1>next. [NetNext]_netVars OBVIOUS
<1>old. SideFits(d) /\ EndFits(d) BY DEF NetInv, SideInv
<1>d. d[2] = NO_STARTER => d \in Writers /\ d \notin Users BY EndIs, WritersAre
<1>1. ASSUME NEW u \in Users, OpenContacts(u) PROVE SideFits(d)'
  BY <1>1, SideStays DEF OpenContacts
<1>2. ASSUME NEW u \in Users, NEW v \in Users, StartCall(u, v) PROVE SideFits(d)'
  <2>1. d[2] = NO_STARTER => sending'[d] = sending[d]
    BY <1>2, <1>types, <1>d DEF StartCall, TypeInv
  <2> QED BY <1>2, <2>1, SideStays DEF StartCall
<1>3. ASSUME NEW t \in Writers, Reach(t) PROVE SideFits(d)'
  <2>1. d[2] = NO_STARTER /\ sending[d] # Nothing => sending'[d] # Nothing
    BY <1>3, ReachedIs
  <2> QED BY <1>3, <2>1, SideStays DEF Reach
<1>4. ASSUME NEW t \in Writers, Join(t) PROVE SideFits(d)'
  <2>1. d[2] = NO_STARTER /\ sending[d] # Nothing => sending'[d] # Nothing
    BY <1>4, ReachedIs
  <2>2. Target(t) # Nobody /\ sending[t].frame \in Nat \ {0} /\ S(sending[t].reached) \in Used
    BY <1>4, WriterIs DEF Join
  <2>3. CASE d = S(sending[t].reached)
    <3>1. d[2] = STARTER /\ d[2] # NO_STARTER BY <2>3 DEF S, STARTER, NO_STARTER
    <3>2. /\ dest'[d] = Target(t) /\ frame'[d] = sending[t].frame
          /\ thread'[d] = "reading" /\ countMsg'[d] = 1
      BY <1>4, <1>types, <2>3 DEF Join, TypeInv, S
    <3> QED BY <2>2, <3>1, <3>2, SideMoves
  <2>4. CASE d # S(sending[t].reached)
    BY <1>4, <1>types, <2>1, <2>4, SideStays DEF Join, TypeInv, S
  <2> QED BY <2>3, <2>4
<1>5. ASSUME NEW t \in Writers, WriteFound(t) PROVE SideFits(d)'
  <2>0. d # t /\ d[2] = NO_STARTER => sending'[d] = sending[d]
    BY <1>5, <1>types, <1>d DEF WriteFound, TypeInv
  <2>1. CASE d # t
    BY <1>5, <1>types, <2>0, <2>1, SideStays DEF WriteFound, TypeInv
  <2>2. CASE d = t
    <3>1. t \notin Users /\ d[2] = NO_STARTER /\ d[2] # STARTER
      BY <2>2, WritersAre, EndIs DEF STARTER, NO_STARTER
    <3>2. thread[d] = "answering" BY <1>5, <2>2, <3>1 DEF NetInv, WriterFits, WriteFound, HasToWrite
    <3>3. countMsg[d] = 1 /\ (countMsg[d] = 0 <=> frame[d] = 0) BY <1>old, <3>1, <3>2 DEF SideFits
    <3>4. thread'[d] = "deriving" /\ UNCHANGED <<dest, frame, countMsg>>
      BY <1>5, <1>types, <2>2, <3>1 DEF WriteFound, TypeInv
    <3> QED BY <3>1, <3>3, <3>4, SideMoves
  <2> QED BY <2>1, <2>2
<1>6. ASSUME NEW c \in 1 .. MaxConns, TakeCall(c) PROVE SideFits(d)'
  <2>1. CASE d # N(c)
    BY <1>6, <1>types, <2>1, SideStays DEF TakeCall, TypeInv, N
  <2>2. CASE d = N(c)
    <3>1. d[2] = NO_STARTER /\ d[2] # STARTER /\ thread'[d] = "reading"
      BY <1>6, <1>types, <2>2 DEF TakeCall, TypeInv, N, STARTER, NO_STARTER
    <3>2. countMsg[d] = 0 <=> frame[d] = 0 BY <1>old, <3>1 DEF SideFits
    <3> QED BY <1>6, <3>1, <3>2, SideMoves DEF TakeCall
  <2> QED BY <2>1, <2>2
<1>7. ASSUME NEW e \in Ends, ReadFirst(e) PROVE SideFits(d)'
  <2>1. /\ e \in Used /\ thread[e] = "reading" /\ countMsg'[e] = countMsg[e] + 1
        /\ countMsg'[e] = 1 /\ countMsg[e] \in Nat
        /\ \A a \in Ends : a # e => countMsg'[a] = countMsg[a]
    BY <1>7, <1>types, Reading DEF ReadFirst, TypeInv
  <2>2. CASE d = e
    <3>1. d[2] # STARTER
      <4>1. d[2] = STARTER => countMsg[d] >= 1 BY <1>old, <2>1, <2>2 DEF SideFits
      <4> QED BY <2>1, <2>2, <4>1
    <3>2. Owner(e) \in Users /\ Owner(Mate(e)) \in Users BY <1>types, <2>1, OwnersAre
    <3> DEFINE w == [user |-> Owner(e), dest |-> Owner(Mate(e)), type |-> NO_STARTER,
                     enabled |-> TRUE, shown |-> FALSE]
    <3>3. w \in Windows /\ w.type = NO_STARTER BY <3>2 DEF Windows
    <3>4. frames' = Append(frames, w) BY <1>7 DEF ReadFirst
    <3> HIDE DEF w
    <3>5. Len(frames') # 0 /\ frames'[Len(frames')] = w
      BY <1>types, <3>3, <3>4, AppendProperties, LenProperties DEF TypeInv
    <3>6. /\ dest'[d] = Owner(Mate(e)) /\ frame'[d] = Len(frames') /\ thread'[d] = "answering"
      BY <1>7, <1>types, <2>2 DEF ReadFirst, TypeInv
    <3>7. d[2] = NO_STARTER => sending'[d] # Nothing
      <4>1. d[2] = NO_STARTER => sending'[d].frame = Len(frames')
        BY <1>7, <1>types, <1>d, <2>2 DEF ReadFirst, TypeInv, Sends
      <4> QED BY <3>5, <4>1 DEF Nothing
    <3> QED BY <2>1, <2>2, <3>1, <3>2, <3>3, <3>5, <3>6, <3>7, NetworkAssumption, SideMoves
  <2>3. CASE d # e
    <3>1. d[2] = NO_STARTER => sending'[d] = sending[d] BY <1>7, <1>types, <1>d, <2>3 DEF ReadFirst, TypeInv
    <3> QED BY <1>7, <1>types, <2>1, <2>3, <3>1, SideStays DEF ReadFirst, TypeInv
  <2> QED BY <2>2, <2>3
<1>8. ASSUME NEW e \in Ends, Derive(e) PROVE SideFits(d)'
  <2>1. CASE d = e
    <3>1. thread[d] = "deriving" /\ thread'[d] = "reading" BY <1>8, <1>types, <2>1 DEF Derive, TypeInv
    <3>2. d[2] # STARTER /\ (d[2] = NO_STARTER => (countMsg[d] = 0 <=> frame[d] = 0))
      BY <1>old, <3>1 DEF SideFits
    <3> QED BY <1>8, <3>1, <3>2, SideMoves DEF Derive
  <2>2. CASE d # e BY <1>8, <1>types, <2>2, SideStays DEF Derive, TypeInv
  <2> QED BY <2>1, <2>2
<1>9. ASSUME NEW e \in Ends, ReadAnswer(e) PROVE SideFits(d)'
  <2>1. /\ thread[e] = "reading" /\ countMsg'[e] = 2 /\ e[2] = STARTER
        /\ \A a \in Ends : a # e => countMsg'[a] = countMsg[a]
    BY <1>9, <1>types, Reading DEF ReadAnswer
  <2>2. CASE d = e
    <3>1. d[2] # NO_STARTER BY <2>1, <2>2 DEF STARTER, NO_STARTER
    <3>2. UNCHANGED <<dest, frame, thread>> BY <1>9 DEF ReadAnswer
    <3>3. frame[d] # 0 BY <1>old, <2>1, <2>2 DEF SideFits
    <3> QED BY <2>1, <2>2, <3>1, <3>2, <3>3, SideMoves
  <2>3. CASE d # e BY <1>9, <2>1, <2>3, SideStays DEF ReadAnswer
  <2> QED BY <2>2, <2>3
<1>10. ASSUME NEW e \in Ends, ReadText(e) PROVE SideFits(d)'
  <2>1. /\ thread[e] = "reading" /\ countMsg'[e] = countMsg[e] + 1 /\ countMsg'[e] >= 2
        /\ countMsg[e] \in Nat
        /\ \A a \in Ends : a # e => countMsg'[a] = countMsg[a]
    BY <1>10, <1>types, Reading DEF ReadText, TypeInv
  <2>2. thread'[d] = thread[d] \/ (d = e /\ thread'[d] = "ended")
    BY <1>10, <1>types DEF ReadText, TypeInv
  <2>3. UNCHANGED <<dest, frame, sending>> BY <1>10 DEF ReadText
  <2>4. CASE d = e
    <3>1. d[2] = STARTER => frame[d] # 0 BY <1>old, <2>1, <2>4 DEF SideFits
    <3>2. d[2] = NO_STARTER => frame[d] # 0
      <4>1. countMsg[d] # 0 BY <2>1, <2>4
      <4> QED BY <1>old, <4>1 DEF SideFits
    <3>3. thread'[d] \in {"reading", "ended"} BY <2>1, <2>2, <2>4
    <3>4. countMsg'[d] >= 1 /\ countMsg'[d] # 0 BY <2>1, <2>4
    <3> QED BY <2>3, <3>1, <3>2, <3>3, <3>4, SideMoves
  <2>5. CASE d # e BY <2>1, <2>2, <2>3, <2>5, SideStays
  <2> QED BY <2>4, <2>5
<1>11. ASSUME NEW e \in Ends, ReadClose(e) PROVE SideFits(d)'
  BY <1>11, <1>types, SideStays DEF ReadClose, TypeInv
<1>12. ASSUME NEW e \in Ends, SocketEnds(e) PROVE SideFits(d)'
  BY <1>12, <1>types, SideStays DEF SocketEnds, TypeInv
<1>13. ASSUME NEW f \in 1 .. Len(frames), PressSend(f) PROVE SideFits(d)'
  <2>1. frames[f].user \in Users
    <3>1. frames[f] \in Windows BY <1>types, ElementOfSeq DEF TypeInv
    <3> QED BY <3>1 DEF Windows
  <2>2. d[2] = NO_STARTER => sending'[d] = sending[d]
    BY <1>13, <1>types, <1>d, <2>1 DEF PressSend, TypeInv
  <2> QED BY <1>13, <2>2, SideStays DEF PressSend
<1>14. ASSUME NEW f \in 1 .. Len(frames), PressClose(f) PROVE SideFits(d)'
  BY <1>14, SideStays DEF PressClose
<1>15. CASE UNCHANGED netVars
  BY <1>15, SideStays DEF netVars
<1> QED
  BY <1>1, <1>2, <1>3, <1>4, <1>5, <1>6, <1>7, <1>8, <1>9, <1>10, <1>11, <1>12, <1>13, <1>14,
     <1>15 DEF NetNext

LEMMA NetInit_SideInv == NetInit => SideInv
BY EndIs DEF NetInit, SideInv, SideFits

LEMMA SideInvKept == NetInv /\ SideInv /\ [NetNext]_netVars => SideInv'
BY SidesFit DEF SideInv

-------------------------------------------------------------------------------
(********************* Two users with one call at most *********************)

Between(c, u, v) == \/ conns[c].from = u /\ conns[c].to = v
                    \/ conns[c].from = v /\ conns[c].to = u
LoneConn(c) == Lone(conns[c].from, conns[c].to)

(* Every connection and every window goes back to a call of one to the other;
   a caller's window that is enabled, and a called one's, to a connection. *)
Called(u, v)  == calls[u][v] + calls[v][u] >= 1
ConnCalled(c) == Called(conns[c].from, conns[c].to)
WindowCalled(f) ==
    LET w == frames[f] IN
    /\ Called(w.user, w.dest)
    /\ w.type = STARTER => calls[w.user][w.dest] >= 1
    /\ w.type = STARTER /\ w.enabled => \E c \in 1 .. Len(conns) : frame[S(c)] = f
    /\ w.type = NO_STARTER => \E c \in 1 .. Len(conns) : frame[N(c)] = f

(* What a user is writing comes from a window that is up. *)
Occupied(u) ==
    sending[u] # Nothing =>
        LET w == frames[sending[u].frame] IN
        /\ w.shown
        /\ sending[u].message.kind = "token" => w.type = STARTER
        /\ sending[u].message.kind = "cipher" => w.enabled

(* Two users with one call have one window and one connection for it. *)
OneWindow(f) ==
    LET w == frames[f] IN
    w.type = STARTER /\ Lone(w.user, w.dest) =>
        /\ \A g \in 1 .. Len(frames) :
              frames[g].type = STARTER /\ frames[g].user = w.user /\ frames[g].dest = w.dest => g = f
        /\ \/ sending[w.user].frame = f /\ sending[w.user].message.kind = "token"
           \/ \E c \in 1 .. Len(conns) : frame[S(c)] = f
OneConn(c) ==
    LoneConn(c) =>
        /\ calls[conns[c].from][conns[c].to] = 1
        /\ \A d \in 1 .. Len(conns) : Between(d, conns[c].from, conns[c].to) => d = c

-------------------------------------------------------------------------------
(************ The handshake of two users with one call at most *************)

Errand(u, v) == IF sending[u].message.to = v THEN sending[u] ELSE Nothing

(* The first message cannot be read any more. *)
Lost(n) == countMsg[n] = 0 /\ (n \in closed \/ thread[n] = "ended")

(* The caller u: connects, joins and writes the token, then waits for the
   other's, and writes texts after that. *)
CallerSide(u, v, s, n) ==
    /\ thread[s] = "none" => Errand(u, v).message.kind = "token" /\ Errand(u, v).reached = s[1]
    /\ Errand(u, v).message.kind = "token" =>
          /\ Errand(u, v).reached = 0 => thread[s] # "none" /\ countMsg[s] = 1 /\ s \notin closed
          /\ Errand(u, v).reached # 0 => thread[s] = "none"
          /\ streams[s] = <<>> /\ streams[n] = <<>> /\ countMsg[n] = 0
    /\ Errand(u, v).message.kind = "cipher" =>
          Errand(u, v).reached = 0 /\ thread[s] # "none" /\ s \notin closed /\ countMsg[s] >= 2
    /\ thread[s] # "none" =>
          /\ frames[frame[s]].type = STARTER
          /\ frames[frame[s]].enabled <=> countMsg[s] >= 2
          /\ s \in closed => ~ frames[frame[s]].shown
          /\ Errand(u, v) # Nothing => Errand(u, v).frame = frame[s]

(* The called one, v: answers the token before his window is up, and writes
   texts from that window alone. *)
CalledSide(u, v, s, n) ==
    /\ frame[n] # 0 /\ frames[frame[n]].shown => countMsg[n] >= 2 /\ n \notin closed
    /\ sending[n] # Nothing =>
          sending[n].reached = 0 /\ countMsg[s] = 1 /\ streams[s] = <<>>
    /\ thread[n] \in {"answering", "deriving"} => n \notin closed
    /\ Errand(v, u) # Nothing =>
          /\ Errand(v, u).message.kind = "cipher" /\ Errand(v, u).reached = 0
          /\ Errand(v, u).frame = frame[n]

(* What is under way fits the counts of the two ends. *)
StreamsFit(s, n) ==
    /\ \A i \in 1 .. Len(streams[n]) :
          /\ streams[n][i].kind = "token" <=> i = 1 /\ countMsg[n] = 0
          /\ streams[n][i].kind = "cipher" => countMsg[s] >= 2
          /\ streams[n][i].kind = "END" => s \in closed
    /\ \A i \in 1 .. Len(streams[s]) :
          /\ streams[s][i].kind = "token" <=> countMsg[s] = 1
          /\ countMsg[s] = 1 => i = 1
          /\ streams[s][i].kind = "END" => n \in closed
    /\ streams[s] # <<>> => countMsg[n] >= 1
    /\ countMsg[n] >= 2 => countMsg[s] >= 2
    /\ countMsg[s] >= 2 => countMsg[n] >= 1

(* Until the answer is read it is under way, or will be. *)
Answered(u, v, s, n) ==
    thread[s] # "none" /\ countMsg[s] = 1 /\ s \notin closed /\ ~ Lost(n) =>
       /\ thread[s] = "reading"
       /\ \/ Errand(u, v).message.kind = "token"
          \/ countMsg[n] = 0 /\ streams[n] # <<>>
          \/ thread[n] = "answering"
          \/ countMsg[n] >= 1 /\ streams[s] # <<>>
Handshake(u, v, s, n) ==
    CallerSide(u, v, s, n) /\ CalledSide(u, v, s, n) /\ StreamsFit(s, n) /\ Answered(u, v, s, n)
HandshakeFits(c) == LoneConn(c) => Handshake(conns[c].from, conns[c].to, S(c), N(c))

(* It gets lost only where somebody has two calls with the called one. *)
Kept(c) == Quiet(conns[c].to) /\ Lost(N(c)) => S(c) \in closed

LoneInv ==
    /\ \A f \in 1 .. Len(frames) : WindowCalled(f) /\ OneWindow(f)
    /\ \A u \in Users : Occupied(u)
    /\ \A c \in 1 .. Len(conns) : ConnCalled(c) /\ OneConn(c) /\ HandshakeFits(c) /\ Kept(c)

-------------------------------------------------------------------------------
(****************** Facts about a pair with one connection *****************)

LEMMA CallsGrow ==
    ASSUME NetInv, [NetNext]_netVars
    PROVE  \A u, v \in Users : /\ calls[u][v] \in Nat /\ calls'[u][v] \in Nat
                              /\ calls[u][v] <= calls'[u][v]
<1> USE DEF userVars, threadVars
<1>1. TypeInv /\ TypeInv' BY TypesKept DEF NetInv
<1>2. \A u, v \in Users : calls[u][v] \in Nat /\ calls'[u][v] \in Nat BY <1>1 DEF TypeInv
<1>3. calls' = calls \/ \E u, v \in Users : calls' = [calls EXCEPT ![u][v] = @ + 1]
  BY DEF NetNext, netVars, OpenContacts, StartCall, Reach, Join, WriteFound, TakeCall, ReadFirst,
         Derive, ReadAnswer, ReadText, ReadClose, SocketEnds, PressSend, PressClose
<1>4. \A u, v \in Users : calls[u][v] <= calls'[u][v]
  <2>1. CASE calls' = calls BY <1>2, <2>1
  <2>2. ASSUME NEW x \in Users, NEW y \in Users, calls' = [calls EXCEPT ![x][y] = @ + 1],
               NEW u \in Users, NEW v \in Users
        PROVE  calls[u][v] <= calls'[u][v]
    <3>1. calls' = [calls EXCEPT ![x] = [calls[x] EXCEPT ![y] = calls[x][y] + 1]] BY <2>2
    <3>2. calls \in [Users -> [Users -> Nat]] BY <1>1 DEF TypeInv
    <3>3. calls'[u] = IF u = x THEN [calls[x] EXCEPT ![y] = calls[x][y] + 1] ELSE calls[u]
      BY <3>1, <3>2
    <3>4. calls[x] \in [Users -> Nat] BY <3>2
    <3>5. calls'[u][v] = calls[u][v] \/ calls'[u][v] = calls[u][v] + 1 BY <3>3, <3>4
    <3> QED BY <1>2, <3>5
  <2> QED BY <1>3, <2>1, <2>2
<1> QED BY <1>2, <1>4

LEMMA LoneKept ==
    ASSUME NetInv, [NetNext]_netVars, NEW u \in Users, NEW v \in Users
    PROVE  (Lone(u, v)' => Lone(u, v)) /\ (Lone(u, v) => Lone(v, u))
<1>1. /\ calls[u][v] \in Nat /\ calls'[u][v] \in Nat /\ calls[u][v] <= calls'[u][v]
      /\ calls[v][u] \in Nat /\ calls'[v][u] \in Nat /\ calls[v][u] <= calls'[v][u]
  BY CallsGrow
<1> QED BY <1>1 DEF Lone

LEMMA CalledKept ==
    ASSUME NetInv, [NetNext]_netVars, NEW u \in Users, NEW v \in Users
    PROVE  Called(u, v) => Called(u, v)'
<1>1. /\ calls[u][v] \in Nat /\ calls'[u][v] \in Nat /\ calls[u][v] <= calls'[u][v]
      /\ calls[v][u] \in Nat /\ calls'[v][u] \in Nat /\ calls[v][u] <= calls'[v][u]
  BY CallsGrow
<1> QED BY <1>1 DEF Called

LEMMA QuietKept ==
    ASSUME NetInv, [NetNext]_netVars, NEW v \in Users
    PROVE  Quiet(v)' => Quiet(v)
<1>1. \A u \in Users : Lone(u, v)' => Lone(u, v) BY LoneKept
<1> QED BY <1>1 DEF Quiet

\* The window of a chat is for good, and counts only grow.
LEMMA FrameKept ==
    ASSUME NetInv, SideInv, [NetNext]_netVars, NEW d \in Ends
    PROVE  /\ frame[d] # 0 => frame'[d] = frame[d] /\ dest'[d] = dest[d]
           /\ countMsg[d] \in Nat /\ countMsg'[d] \in Nat /\ countMsg[d] <= countMsg'[d]
<1> USE DEF userVars, threadVars
<1>1. TypeInv /\ TypeInv' /\ EndFits(d) /\ SideFits(d) BY TypesKept DEF NetInv, SideInv
<1>2. countMsg[d] \in Nat /\ countMsg'[d] \in Nat BY <1>1 DEF TypeInv
<1>3. frame[d] # 0 => frame'[d] = frame[d] /\ dest'[d] = dest[d]
  <2>1. ASSUME NEW t \in Writers, Join(t), frame[d] # 0
        PROVE  frame'[d] = frame[d] /\ dest'[d] = dest[d]
    <3>1. d # <<sending[t].reached, STARTER>> BY <2>1, <1>1 DEF Join, EndFits
    <3> QED BY <2>1, <3>1, <1>1 DEF Join, TypeInv
  <2>2. ASSUME NEW e \in Ends, ReadFirst(e), frame[d] # 0
        PROVE  frame'[d] = frame[d] /\ dest'[d] = dest[d]
    <3>1. thread[e] = "reading" /\ countMsg[e] + 1 = 1 /\ countMsg[e] \in Nat
      BY <2>2, <1>1, Reading DEF ReadFirst, TypeInv
    <3>2. SideFits(e) /\ e[2] \in {STARTER, NO_STARTER} BY EndIs DEF SideInv
    <3>3. d # e BY <2>2, <3>1, <3>2 DEF SideFits
    <3> QED BY <2>2, <3>3, <1>1 DEF ReadFirst, TypeInv
  <2>3. \/ UNCHANGED <<frame, dest>>
        \/ \E t \in Writers : Join(t)
        \/ \E e \in Ends : ReadFirst(e)
    BY DEF NetNext, netVars, OpenContacts, StartCall, Reach, WriteFound, TakeCall, Derive,
           ReadAnswer, ReadText, ReadClose, SocketEnds, PressSend, PressClose
  <2> QED BY <2>1, <2>2, <2>3
<1>4. countMsg[d] <= countMsg'[d]
  <2>1. ASSUME NEW t \in Writers, Join(t) PROVE countMsg[d] <= countMsg'[d]
    <3>1. CASE d = <<sending[t].reached, STARTER>>
      <4>1. countMsg[d] = 0 BY <2>1, <3>1, <1>1 DEF Join, EndFits
      <4> QED BY <1>2, <4>1
    <3>2. CASE d # <<sending[t].reached, STARTER>>
      <4>1. countMsg'[d] = countMsg[d] BY <2>1, <3>2, <1>1 DEF Join, TypeInv
      <4> QED BY <1>2, <4>1
    <3> QED BY <3>1, <3>2
  <2>2. ASSUME NEW e \in Ends, Reads(e) PROVE countMsg[d] <= countMsg'[d]
    <3>1. countMsg'[d] = countMsg[d] \/ countMsg'[d] = countMsg[d] + 1 BY <2>2, <1>1, Reading
    <3> QED BY <1>2, <3>1
  <2>3. \/ UNCHANGED countMsg
        \/ \E t \in Writers : Join(t)
        \/ \E e \in Ends : Reads(e)
    BY DEF NetNext, netVars, OpenContacts, StartCall, Reach, WriteFound, TakeCall, Derive,
           ReadFirst, ReadAnswer, ReadText, ReadClose, SocketEnds, PressSend, PressClose
  <2> QED BY <1>2, <2>1, <2>2, <2>3
<1> QED BY <1>2, <1>3, <1>4

\* Setting shown or enabled of one window.
LEMMA WindowSet ==
    ASSUME TypeInv, NEW k \in Nat, NEW b \in BOOLEAN, NEW f \in 1 .. Len(frames)
    PROVE  /\ frames[f] \in Windows
           /\ Len([frames EXCEPT ![k].shown = b]) = Len(frames)
           /\ [frames EXCEPT ![k].shown = b][f].shown = IF f = k THEN b ELSE frames[f].shown
           /\ [frames EXCEPT ![k].shown = b][f].enabled = frames[f].enabled
           /\ Len([frames EXCEPT ![k].enabled = b]) = Len(frames)
           /\ [frames EXCEPT ![k].enabled = b][f].enabled = IF f = k THEN b ELSE frames[f].enabled
           /\ [frames EXCEPT ![k].enabled = b][f].shown = frames[f].shown
<1>1. frames \in Seq(Windows) /\ DOMAIN frames = 1 .. Len(frames) /\ Len(frames) \in Nat
  BY LenProperties DEF TypeInv
<1>2. \A g \in 1 .. Len(frames) : frames[g] \in Windows BY <1>1, ElementOfSeq
<1>3. CASE k \in 1 .. Len(frames)
  <2>1. [frames[k] EXCEPT !.shown = b] \in Windows /\ [frames[k] EXCEPT !.enabled = b] \in Windows
    BY <1>2, <1>3 DEF Windows
  <2>2. ASSUME NEW w \in Windows
        PROVE  /\ Len([frames EXCEPT ![k] = w]) = Len(frames)
               /\ [frames EXCEPT ![k] = w][f] = IF f = k THEN w ELSE frames[f]
    BY <1>1, <1>3, ExceptSeq
  <2>3. /\ [frames[k] EXCEPT !.shown = b].shown = b /\ [frames[k] EXCEPT !.enabled = b].enabled = b
        /\ [frames[k] EXCEPT !.shown = b].enabled = frames[k].enabled
        /\ [frames[k] EXCEPT !.enabled = b].shown = frames[k].shown
    BY <1>2, <1>3 DEF Windows
  <2> QED BY <1>2, <2>1, <2>2, <2>3
<1>4. CASE k \notin 1 .. Len(frames)
  <2>1. ASSUME NEW w PROVE [frames EXCEPT ![k] = w] = frames BY <1>1, <1>4
  <2> QED BY <1>2, <1>4, <2>1
<1> QED BY <1>3, <1>4


LEMMA OtherWindow ==
    ASSUME TypeInv, NEW k \in Nat, NEW b \in BOOLEAN, NEW f \in 1 .. Len(frames), f # k
    PROVE  /\ [frames EXCEPT ![k].shown = b][f].shown = frames[f].shown
           /\ [frames EXCEPT ![k].shown = b][f].enabled = frames[f].enabled
           /\ [frames EXCEPT ![k].enabled = b][f].enabled = frames[f].enabled
           /\ [frames EXCEPT ![k].enabled = b][f].shown = frames[f].shown
BY WindowSet

\* The two ends of the one connection of two users.
LEMMA LoneEnds ==
    ASSUME NetInv, SideInv, LoneInv, NEW c \in 1 .. Len(conns), LoneConn(c),
           NEW A, NEW B, NEW s, NEW n,
           A = conns[c].from, B = conns[c].to, s = S(c), n = N(c)
    PROVE  /\ A \in Users /\ B \in Users /\ A # B /\ A \in Writers /\ B \in Writers
           /\ calls[A][B] = 1 /\ calls[B][A] = 0
           /\ s \in Used /\ n \in Used /\ s \in Ends /\ n \in Ends /\ s # n
           /\ s[2] = STARTER /\ n[2] = NO_STARTER /\ s[1] = c /\ n[1] = c
           /\ Mate(s) = n /\ Mate(n) = s /\ n \in Writers /\ n \notin Users /\ s \notin Writers
           /\ Owner(s) = A /\ Owner(n) = B
           /\ \A e \in Used : (Owner(e) = A /\ Owner(Mate(e)) = B) <=> e = s
           /\ \A e \in Used : (Owner(e) = B /\ Owner(Mate(e)) = A) <=> e = n
<1>1. TypeInv /\ OneConn(c) /\ ConnCalled(c) BY DEF NetInv, LoneInv
<1>2. A \in Users /\ B \in Users BY <1>1, OwnersAre
<1>3. calls[A][B] \in Nat /\ calls[B][A] \in Nat BY <1>1, <1>2 DEF TypeInv
<1>4. calls[A][B] = 1 /\ calls[B][A] = 0 /\ A # B
  BY <1>1, <1>3 DEF OneConn, LoneConn, Lone
<1>5. s \in Used /\ n \in Used /\ s \in Ends /\ n \in Ends /\ Owner(s) = A /\ Owner(n) = B
  BY <1>1, OwnersAre
<1>6. /\ s # n /\ s[2] = STARTER /\ n[2] = NO_STARTER /\ s[1] = c /\ n[1] = c
      /\ Mate(s) = n /\ Mate(n) = s
  BY EndsAre
<1>7. n \in Writers /\ n \notin Users BY <1>5, <1>6, WritersAre
<1>8. s \notin Writers BY <1>5, <1>6, WritersAre, EndsAre
<1>9. ASSUME NEW e \in Used, Owner(e) \in {A, B}, Owner(Mate(e)) \in {A, B}, Owner(e) # Owner(Mate(e))
      PROVE  e = s \/ e = n
  <2>1. /\ e \in Ends /\ e[1] \in 1 .. Len(conns) /\ (e = S(e[1]) \/ e = N(e[1]))
        /\ \/ Owner(e) = conns[e[1]].from /\ Owner(Mate(e)) = conns[e[1]].to
           \/ Owner(e) = conns[e[1]].to /\ Owner(Mate(e)) = conns[e[1]].from
    BY <1>1, OwnersAre, EndIs, EndsAre
  <2>2. Between(e[1], A, B) BY <1>9, <2>1 DEF Between
  <2>3. e[1] = c BY <1>1, <2>1, <2>2 DEF OneConn
  <2> QED BY <2>1, <2>3
<1> QED BY <1>2, <1>4, <1>5, <1>6, <1>7, <1>8, <1>9, WritersAre

\* The windows of two users with one connection.
LEMMA LoneWindows ==
    ASSUME NetInv, SideInv, LoneInv, NEW c \in 1 .. Len(conns), LoneConn(c),
           NEW A, NEW B, NEW s, NEW n,
           A = conns[c].from, B = conns[c].to, s = S(c), n = N(c)
    PROVE  /\ \A e \in Used : frame[e] # 0 /\ frame[e] = frame[s] => e = s
           /\ \A e \in Used : frame[e] # 0 /\ frame[e] = frame[n] => e = n
           /\ frame[s] # 0 => /\ frame[s] \in 1 .. Len(frames)
                              /\ frames[frame[s]].user = A /\ frames[frame[s]].dest = B
           /\ frame[n] # 0 => /\ frame[n] \in 1 .. Len(frames)
                              /\ frames[frame[n]].user = B /\ frames[frame[n]].dest = A
           /\ \A f \in 1 .. Len(frames) :
                 /\ frames[f].user = A /\ frames[f].dest = B =>
                       /\ frames[f].type = STARTER
                       /\ \/ f = frame[s] /\ frame[s] # 0
                          \/ Errand(A, B).message.kind = "token" /\ Errand(A, B).frame = f
                 /\ frames[f].user = B /\ frames[f].dest = A =>
                       frames[f].type = NO_STARTER /\ f = frame[n] /\ frame[n] # 0
<1>1. /\ A \in Users /\ B \in Users /\ calls[A][B] = 1 /\ calls[B][A] = 0
      /\ s \in Used /\ n \in Used /\ Owner(s) = A /\ Owner(n) = B /\ Mate(s) = n /\ Mate(n) = s
      /\ s \in Ends /\ n \in Ends /\ s # n
  BY LoneEnds
<1>2. /\ \A e \in Used : (Owner(e) = A /\ Owner(Mate(e)) = B) <=> e = s
      /\ \A e \in Used : (Owner(e) = B /\ Owner(Mate(e)) = A) <=> e = n
  BY LoneEnds
<1>3. \A e \in Used : frame[e] # 0 => /\ frame[e] \in 1 .. Len(frames)
                                      /\ frames[frame[e]].user = Owner(e)
                                      /\ frames[frame[e]].dest = Owner(Mate(e))
  BY DEF NetInv, EndFits, Used
<1>4. \A f \in 1 .. Len(frames) : WindowCalled(f) /\ OneWindow(f) BY DEF LoneInv
<1>5. TypeInv BY DEF NetInv
<1>6. ASSUME NEW f \in 1 .. Len(frames)
      PROVE  /\ frames[f].type \in {STARTER, NO_STARTER}
             /\ frames[f].type = NO_STARTER => \E d \in Used : frame[d] = f /\ d[2] = NO_STARTER
             /\ f # 0
  <2>1. frames[f] \in Windows BY <1>5, ElementOfSeq DEF TypeInv
  <2>2. frames[f].type \in {STARTER, NO_STARTER} BY <2>1 DEF Windows
  <2>3. f # 0 BY <1>5, LenProperties DEF TypeInv
  <2> QED BY <1>4, <1>5, <2>2, <2>3, OwnersAre, EndsAre DEF WindowCalled
<1>7. ASSUME NEW f \in 1 .. Len(frames), frames[f].user = A, frames[f].dest = B
      PROVE  /\ frames[f].type = STARTER
             /\ \/ f = frame[s] /\ frame[s] # 0
                \/ Errand(A, B).message.kind = "token" /\ Errand(A, B).frame = f
  <2>1. ASSUME frames[f].type = NO_STARTER PROVE FALSE
    <3>1. PICK d \in Used : frame[d] = f /\ d[2] = NO_STARTER BY <1>6, <2>1
    <3>2. d = s BY <1>2, <1>3, <1>6, <1>7, <3>1
    <3> QED BY <3>1, <3>2, EndsAre DEF STARTER, NO_STARTER
  <2>2. frames[f].type = STARTER /\ Lone(A, B)
    BY <1>6, <2>1 DEF LoneConn
  <2>3. \/ sending[A].frame = f /\ sending[A].message.kind = "token"
        \/ \E d \in 1 .. Len(conns) : frame[S(d)] = f
    BY <1>4, <1>7, <2>2 DEF OneWindow
  <2>4. ASSUME NEW d \in 1 .. Len(conns), frame[S(d)] = f PROVE f = frame[s] /\ frame[s] # 0
    <3>1. S(d) \in Used BY <1>5, OwnersAre
    <3>2. S(d) = s BY <1>2, <1>3, <1>6, <1>7, <2>4, <3>1
    <3> QED BY <1>6, <2>4, <3>2
  <2>5. ASSUME sending[A].frame = f, sending[A].message.kind = "token"
        PROVE  Errand(A, B).message.kind = "token" /\ Errand(A, B).frame = f
    <3>1. A \in Writers /\ sending[A] # Nothing BY <1>1, <2>5, WritersAre, MessagesAre
    <3>2. sending[A].message.to = B BY <1>7, <2>5, <3>1 DEF NetInv, WriterFits
    <3> QED BY <2>5, <3>2 DEF Errand
  <2> QED BY <2>2, <2>3, <2>4, <2>5
<1>8. ASSUME NEW f \in 1 .. Len(frames), frames[f].user = B, frames[f].dest = A
      PROVE  frames[f].type = NO_STARTER /\ f = frame[n] /\ frame[n] # 0
  <2>1. frames[f].type = NO_STARTER
    <3>1. frames[f].type = STARTER => calls[B][A] >= 1 BY <1>4, <1>8 DEF WindowCalled
    <3> QED BY <1>1, <1>6, <3>1
  <2>2. PICK d \in Used : frame[d] = f BY <1>6, <2>1
  <2>3. d = n BY <1>2, <1>3, <1>6, <1>8, <2>2
  <2> QED BY <1>6, <2>1, <2>2, <2>3
<1> QED BY <1>1, <1>2, <1>3, <1>7, <1>8

\* The chats of two users with one connection, and who writes between them.
LEMMA LoneChats ==
    ASSUME NetInv, SideInv, LoneInv, NEW c \in 1 .. Len(conns), LoneConn(c),
           NEW A, NEW B, NEW s, NEW n,
           A = conns[c].from, B = conns[c].to, s = S(c), n = N(c)
    PROVE  /\ IsListed(A, B) => Find(A, B) = s
           /\ thread[s] # "none" /\ s \notin closed => IsListed(A, B)
           /\ IsListed(B, A) => Find(B, A) = n
           /\ countMsg[n] # 0 /\ n \notin closed => IsListed(B, A)
           /\ \A u \in Users : \A v : IsListed(u, v) /\ Find(u, v) = s => u = A /\ v = B
           /\ \A u \in Users : \A v : IsListed(u, v) /\ Find(u, v) = n =>
                 u = B /\ (v = A \/ (v = Nobody /\ countMsg[n] = 0))
           /\ \A t \in Writers : HasToWrite(t) /\ Writer(t) = A /\ Target(t) = B => t = A
           /\ \A t \in Writers : HasToWrite(t) /\ Writer(t) = B /\ Target(t) = A => t = B \/ t = n
<1>1. /\ A \in Users /\ B \in Users /\ A # B
      /\ s \in Used /\ n \in Used /\ Owner(s) = A /\ Owner(n) = B /\ Mate(s) = n /\ Mate(n) = s
      /\ s \in Ends /\ n \in Ends /\ s # n /\ s[2] = STARTER /\ n[2] = NO_STARTER
  BY LoneEnds
<1>2. /\ \A e \in Used : (Owner(e) = A /\ Owner(Mate(e)) = B) <=> e = s
      /\ \A e \in Used : (Owner(e) = B /\ Owner(Mate(e)) = A) <=> e = n
      /\ s \notin Writers
  BY LoneEnds
<1>3. TypeInv /\ EndFits(s) /\ EndFits(n) /\ SideFits(s) /\ SideFits(n)
  BY <1>1 DEF NetInv, SideInv
<1>4. Nobody \notin Users BY NetworkAssumption
<1>5. \A e \in Used : dest[e] # Nobody => dest[e] = Owner(Mate(e)) BY DEF NetInv, EndFits, Used
<1>6. ASSUME NEW u \in Users, NEW v, IsListed(u, v)
      PROVE  Find(u, v) \in Used /\ Owner(Find(u, v)) = u /\ dest[Find(u, v)] = v
  <2>1. InList(u, Find(u, v)) /\ dest[Find(u, v)] = v BY <1>3, <1>6, FindFinds
  <2> QED BY <2>1 DEF NetInv, ListFits
<1>7. (IsListed(A, B) => Find(A, B) = s) /\ (IsListed(B, A) => Find(B, A) = n)
  BY <1>1, <1>2, <1>4, <1>5, <1>6
<1>8. thread[s] # "none" /\ s \notin closed => IsListed(A, B)
  <2>1. thread[s] # "none" => dest[s] = B BY <1>1, <1>3, <1>5 DEF SideFits
  <2>2. thread[s] # "none" /\ s \notin closed => InList(A, s) BY <1>1 DEF NetInv, ListFits
  <2> QED BY <1>1, <1>3, <2>1, <2>2, FindFinds
<1>9. countMsg[n] # 0 /\ n \notin closed => IsListed(B, A)
  <2>1. countMsg[n] # 0 => dest[n] = A /\ thread[n] # "none"
    BY <1>1, <1>3, <1>5 DEF SideFits, EndFits
  <2>2. countMsg[n] # 0 /\ n \notin closed => InList(B, n) BY <1>1, <2>1 DEF NetInv, ListFits
  <2> QED BY <1>1, <1>3, <2>1, <2>2, FindFinds
<1>10. ASSUME NEW u \in Users, NEW v, IsListed(u, v), Find(u, v) = s PROVE u = A /\ v = B
  <2>1. Owner(s) = u /\ dest[s] = v /\ thread[s] # "none"
    <3>1. InList(u, s) BY <1>3, <1>10, FindFinds
    <3> QED BY <1>6, <1>10, <3>1 DEF NetInv, ListFits
  <2> QED BY <1>1, <1>3, <1>5, <2>1 DEF SideFits
<1>11. ASSUME NEW u \in Users, NEW v, IsListed(u, v), Find(u, v) = n
       PROVE  u = B /\ (v = A \/ (v = Nobody /\ countMsg[n] = 0))
  <2>1. Owner(n) = u /\ dest[n] = v BY <1>6, <1>11
  <2> QED BY <1>1, <1>3, <1>5, <2>1 DEF SideFits
<1>12. ASSUME NEW t \in Writers, HasToWrite(t), Writer(t) = A, Target(t) = B PROVE t = A
  <2>1. t \notin Users => /\ t \in Used /\ Target(t) = Owner(Mate(t)) /\ Writer(t) = Owner(t)
    BY <1>12 DEF NetInv, WriterFits, HasToWrite, Target, Writer
  <2>2. t \notin Users => t = s BY <1>2, <1>12, <2>1
  <2> QED BY <1>2, <1>12, <2>2 DEF Writer
<1>13. ASSUME NEW t \in Writers, HasToWrite(t), Writer(t) = B, Target(t) = A PROVE t = B \/ t = n
  <2>1. t \notin Users => /\ t \in Used /\ Target(t) = Owner(Mate(t)) /\ Writer(t) = Owner(t)
    BY <1>13 DEF NetInv, WriterFits, HasToWrite, Target, Writer
  <2>2. t \notin Users => t = n BY <1>2, <1>13, <2>1
  <2> QED BY <1>13, <2>2 DEF Writer
<1> QED BY <1>7, <1>8, <1>9, <1>10, <1>11, <1>12, <1>13

-------------------------------------------------------------------------------
(************************ There is one connection **************************)

LEMMA WindowJoined ==
    ASSUME NetInv, SideInv, LoneInv, NEW f \in 1 .. Len(frames),
           frames[f].type = NO_STARTER \/ frames[f].enabled
    PROVE  \E d \in 1 .. Len(conns) : Between(d, frames[f].user, frames[f].dest)
<1>1. TypeInv /\ WindowCalled(f) BY DEF NetInv, LoneInv
<1>2. frames[f].type \in {STARTER, NO_STARTER} /\ f # 0
  <2>1. frames[f] \in Windows BY <1>1, ElementOfSeq DEF TypeInv
  <2> QED BY <1>1, <2>1, LenProperties DEF Windows, TypeInv
<1>3. PICK d \in 1 .. Len(conns) : frame[S(d)] = f \/ frame[N(d)] = f
  BY <1>1, <1>2 DEF WindowCalled
<1>4. /\ S(d) \in Used /\ N(d) \in Used /\ S(d) \in Ends /\ N(d) \in Ends
      /\ Mate(S(d)) = N(d) /\ Mate(N(d)) = S(d)
      /\ Owner(S(d)) = conns[d].from /\ Owner(N(d)) = conns[d].to
  BY <1>1, OwnersAre, EndsAre
<1>5. EndFits(S(d)) /\ EndFits(N(d)) BY <1>4 DEF NetInv
<1>6. Between(d, frames[f].user, frames[f].dest)
  BY <1>2, <1>3, <1>4, <1>5 DEF EndFits, Between
<1> QED BY <1>6

\* Nobody connects to whom he has the one connection with.
LEMMA NoSecond ==
    ASSUME NetInv, SideInv, LoneInv, NEW t \in Writers, Reach(t),
           NEW c \in 1 .. Len(conns), LoneConn(c)
    PROVE  ~ Between(c, Writer(t), Target(t))
<1> SUFFICES ASSUME Between(c, Writer(t), Target(t)) PROVE FALSE
  OBVIOUS
<1>0. PICK A, B, s, n : A = conns[c].from /\ B = conns[c].to /\ s = S(c) /\ n = N(c) OBVIOUS
<1>1. /\ HasToWrite(t) /\ sending[t].reached = 0 /\ ~ IsListed(Writer(t), Target(t))
      /\ sending[t].message.kind \in {"token", "cipher"} /\ sending[t] # Nothing
      /\ sending[t].frame # 0
  BY WriterIs DEF Reach, HasToWrite
<1>2. CallerSide(A, B, s, n) /\ CalledSide(A, B, s, n)
  BY <1>0 DEF LoneInv, HandshakeFits, Handshake
<1>3. /\ thread[s] # "none" /\ s \notin closed => IsListed(A, B)
      /\ countMsg[n] # 0 /\ n \notin closed => IsListed(B, A)
      /\ Writer(t) = A /\ Target(t) = B => t = A
      /\ Writer(t) = B /\ Target(t) = A => t = B \/ t = n
  BY <1>0, <1>1, LoneChats
<1>4. CASE Writer(t) = A /\ Target(t) = B
  <2>1. t = A /\ Errand(A, B) = sending[t]
    BY <1>0, <1>3, <1>4 DEF Errand, Target
  <2>2. thread[s] # "none" /\ s \notin closed BY <1>0, <1>1, <1>2, <2>1 DEF CallerSide
  <2> QED BY <1>1, <1>3, <1>4, <2>2
<1>5. CASE Writer(t) = B /\ Target(t) = A
  <2>1. CASE t = B
    <3>1. Errand(B, A) = sending[t] BY <1>0, <1>5, <2>1 DEF Errand, Target
    <3>2. sending[t].frame = frame[n] BY <1>0, <1>1, <1>2, <3>1 DEF CalledSide
    <3>3. B \in Users BY <1>0, LoneEnds
    <3>4. frames[frame[n]].shown BY <1>1, <2>1, <3>2, <3>3 DEF LoneInv, Occupied
    <3>5. countMsg[n] >= 2 /\ n \notin closed BY <1>0, <1>1, <1>2, <3>2, <3>4 DEF CalledSide
    <3>6. countMsg[n] # 0 BY <3>5
    <3> QED BY <1>1, <1>3, <1>5, <3>5, <3>6
  <2>2. CASE t = n
    <3>1. n \in Ends /\ n \notin Users /\ n[2] = NO_STARTER BY <1>0, LoneEnds
    <3>2. thread[n] = "answering" BY <1>1, <2>2, <3>1 DEF NetInv, WriterFits
    <3>3. countMsg[n] = 1 BY <3>1, <3>2 DEF SideInv, SideFits
    <3>4. n \notin closed BY <1>0, <1>2, <3>2 DEF CalledSide
    <3> QED BY <1>1, <1>3, <1>5, <3>3, <3>4
  <2> QED BY <1>3, <1>5, <2>1, <2>2
<1> QED BY <1>0, <1>4, <1>5 DEF Between

\* Who connects to a user with one call between them does so for the token of
\* that call.
LEMMA FirstConn ==
    ASSUME NetInv, SideInv, LoneInv, NEW t \in Writers, Reach(t), NEW u, NEW v,
           u = Writer(t), v = Target(t), Lone(u, v)
    PROVE  /\ t = u /\ u \in Users /\ v \in Users /\ u # v /\ calls[u][v] = 1 /\ calls[v][u] = 0
           /\ sending[u].message.kind = "token" /\ sending[u].message.to = v
           /\ Errand(v, u) = Nothing
           /\ \A d \in 1 .. Len(conns) : ~ Between(d, u, v)
<1>1. /\ TypeInv /\ u \in Users /\ v \in Users /\ sending[t] # Nothing
      /\ sending[t].message.kind \in {"token", "cipher"} /\ sending[t].message.to = v
  BY WriterIs DEF Reach, HasToWrite, NetInv
<1>2. calls[u][v] \in Nat /\ calls[v][u] \in Nat BY <1>1 DEF TypeInv
<1>3. ASSUME NEW d \in 1 .. Len(conns) PROVE ~ Between(d, u, v)
  <2>1. Between(d, u, v) => LoneConn(d) BY <1>2 DEF Between, LoneConn, Lone
  <2> QED BY <2>1, NoSecond
<1>4. t = u
  <2>1. t \in Users \/ (t \in Used /\ v = Owner(Mate(t))) BY <1>1 DEF NetInv, WriterFits
  <2>2. CASE t \notin Users
    <3>1. /\ t \in Used /\ t \in Ends /\ t[1] \in 1 .. Len(conns) /\ Owner(t) = u
          /\ Owner(Mate(t)) = v /\ (t = S(t[1]) \/ t = N(t[1]))
      BY <1>1, <2>1, <2>2, OwnersAre, EndIs DEF Writer
    <3>2. Between(t[1], u, v) BY <1>1, <3>1, OwnersAre, EndsAre DEF Between
    <3> QED BY <1>3, <3>1, <3>2
  <2> QED BY <2>2 DEF Writer
<1>5. ASSUME NEW x \in Users, NEW y \in Users, {x, y} = {u, v}, sending[x] # Nothing,
             sending[x].message.to = y
      PROVE  sending[x].message.kind = "token" /\ calls[x][y] >= 1
  <2> DEFINE f == sending[x].frame
  <2>1. WriterFits(x) /\ Occupied(x) /\ x \in Writers BY WritersAre DEF NetInv, LoneInv
  <2>2. /\ f \in 1 .. Len(frames) /\ frames[f].user = x /\ frames[f].dest = y
        /\ sending[x].message.kind \in {"token", "cipher"}
    BY <1>1, <1>5, <2>1, ErrandsAre DEF WriterFits, Writer
  <2>3. \A d \in 1 .. Len(conns) : ~ Between(d, x, y)
    BY <1>3, <1>5 DEF Between
  <2>4. frames[f].type # NO_STARTER /\ ~ frames[f].enabled BY <2>2, <2>3, WindowJoined
  <2>5. sending[x].message.kind = "token" /\ frames[f].type = STARTER
    BY <1>5, <2>1, <2>2, <2>4 DEF Occupied
  <2>6. WindowCalled(f) BY <2>2 DEF LoneInv
  <2> QED BY <2>2, <2>5, <2>6 DEF WindowCalled
<1>6. sending[u].message.kind = "token" /\ calls[u][v] >= 1 BY <1>1, <1>4, <1>5
<1>7. calls[u][v] = 1 /\ calls[v][u] = 0 /\ u # v BY <1>2, <1>6 DEF Lone
<1>8. Errand(v, u) = Nothing
  <2>1. CASE sending[v].message.to = u
    <3>1. sending[v] # Nothing BY <1>1, <2>1, NetworkAssumption DEF Nothing, EndOfChat
    <3>2. calls[v][u] >= 1 BY <1>1, <1>5, <2>1, <3>1
    <3> QED BY <1>7, <3>2
  <2>2. CASE sending[v].message.to # u BY <2>2 DEF Errand
  <2> QED BY <2>1, <2>2
<1> QED BY <1>1, <1>3, <1>4, <1>6, <1>7, <1>8

LEMMA ReachAdds ==
    ASSUME NetInv, NEW t \in Writers, Reach(t)
    PROVE  /\ Len(conns') = Len(conns) + 1 /\ Len(conns) \in Nat
           /\ \A c \in 1 .. Len(conns) : conns'[c] = conns[c]
           /\ conns'[Len(conns) + 1].from = Writer(t) /\ conns'[Len(conns) + 1].to = Target(t)
<1>1. TypeInv BY DEF NetInv
<1>2. Writer(t) \in Users /\ Target(t) \in Users BY WriterIs DEF Reach
<1>3. conns' = Append(conns, [from |-> Writer(t), to |-> Target(t)]) BY DEF Reach
<1>4. [from |-> Writer(t), to |-> Target(t)] \in [from : Users, to : Users] BY <1>2
<1> QED BY <1>1, <1>3, <1>4, AppendProperties, LenProperties DEF TypeInv

LEMMA ConnsFit ==
    ASSUME NetInv, SideInv, LoneInv, [NetNext]_netVars, NEW c \in 1 .. Len(conns')
    PROVE  ConnCalled(c)' /\ OneConn(c)'
<1>1. TypeInv /\ TypeInv' BY TypesKept DEF NetInv
<1>2. \A u, v \in Users : /\ calls[u][v] \in Nat /\ calls'[u][v] \in Nat
                          /\ calls[u][v] <= calls'[u][v]
  BY CallsGrow
<1>3. ASSUME c \in 1 .. Len(conns)
      PROVE  /\ conns'[c] = conns[c] /\ ConnCalled(c)' /\ (LoneConn(c)' => LoneConn(c))
             /\ LoneConn(c)' => calls'[conns[c].from][conns[c].to] = 1
  <2>1. conns'[c] = conns[c] BY <1>3, ConnsKept
  <2>2. conns[c].from \in Users /\ conns[c].to \in Users /\ ConnCalled(c) /\ OneConn(c)
    BY <1>1, <1>3, OwnersAre DEF LoneInv
  <2>3. ConnCalled(c)' /\ (LoneConn(c)' => LoneConn(c))
    BY <2>1, <2>2, CalledKept, LoneKept DEF ConnCalled, LoneConn
  <2>4. ASSUME LoneConn(c)' PROVE calls'[conns[c].from][conns[c].to] = 1
    <3>1. calls[conns[c].from][conns[c].to] = 1 BY <2>2, <2>3, <2>4 DEF OneConn
    <3>0. PICK A, B : A = conns[c].from /\ B = conns[c].to OBVIOUS
    <3>2. calls'[A][B] + calls'[B][A] <= 1 BY <2>1, <2>4, <3>0 DEF LoneConn, Lone
    <3>3. calls'[A][B] \in Nat /\ calls'[B][A] \in Nat /\ calls[A][B] <= calls'[A][B]
      BY <1>2, <2>2, <3>0
    <3>4. calls'[A][B] = 1 BY <3>0, <3>1, <3>2, <3>3
    <3> QED BY <3>0, <3>4
  <2> QED BY <2>1, <2>3, <2>4
<1>4. CASE conns' = conns
  <2>1. c \in 1 .. Len(conns) BY <1>4
  <2>2. ConnCalled(c)' /\ (LoneConn(c)' => LoneConn(c)) /\ OneConn(c)
    BY <1>3, <2>1 DEF LoneInv
  <2> QED BY <1>3, <1>4, <2>1, <2>2 DEF OneConn, Between
<1>5. ASSUME NEW t \in Writers, Reach(t) PROVE ConnCalled(c)' /\ OneConn(c)'
  <2>0. PICK u, v, k : u = Writer(t) /\ v = Target(t) /\ k = Len(conns) + 1 OBVIOUS
  <2>1. /\ Len(conns') = k /\ Len(conns) \in Nat
        /\ \A d \in 1 .. Len(conns) : conns'[d] = conns[d]
        /\ conns'[k].from = u /\ conns'[k].to = v
    BY <1>5, <2>0, ReachAdds
  <2>2. \A d \in 1 .. Len(conns') : d \in 1 .. Len(conns) \/ d = k BY <2>0, <2>1
  <2>3. u \in Users /\ v \in Users /\ calls' = calls BY <1>5, <2>0, WriterIs DEF Reach, userVars
  <2>4. CASE c \in 1 .. Len(conns)
    <3>1. ASSUME LoneConn(c)', NEW d \in 1 .. Len(conns'), Between(d, conns[c].from, conns[c].to)'
          PROVE  d = c
      <4>1. LoneConn(c) /\ OneConn(c) BY <1>3, <2>4, <3>1 DEF LoneInv
      <4>2. conns'[c] = conns[c] BY <2>1, <2>4
      <4>3. CASE d \in 1 .. Len(conns)
        BY <2>1, <3>1, <4>1, <4>2, <4>3 DEF OneConn, Between
      <4>4. CASE d = k
        <5>1. Between(c, u, v) BY <2>1, <3>1, <4>2, <4>4 DEF Between
        <5> QED BY <1>5, <2>0, <2>4, <4>1, <5>1, NoSecond
      <4> QED BY <2>2, <4>3, <4>4
    <3>2. conns'[c] = conns[c] BY <2>1, <2>4
    <3> QED BY <1>3, <2>4, <3>1, <3>2 DEF OneConn, Between
  <2>5. CASE c = k
    <3>1. ConnCalled(c)'
      <4>1. WriterFits(t) /\ sending[t] # Nothing BY <1>5 DEF NetInv, Reach, HasToWrite
      <4>2. WindowCalled(sending[t].frame) BY <4>1 DEF WriterFits, LoneInv
      <4>3. /\ frames[sending[t].frame].user = u /\ frames[sending[t].frame].dest = v
        BY <2>0, <4>1 DEF WriterFits, Target
      <4> QED BY <2>1, <2>3, <2>5, <4>2, <4>3 DEF WindowCalled, ConnCalled, Called
    <3>2. ASSUME LoneConn(c)'
          PROVE  calls[u][v] = 1 /\ \A d \in 1 .. Len(conns) : ~ Between(d, u, v)
      <4>1. Lone(u, v) BY <2>1, <2>3, <2>5, <3>2 DEF LoneConn, Lone
      <4> QED BY <1>5, <2>0, <4>1, FirstConn
    <3>3. LoneConn(c)' => \A d \in 1 .. Len(conns') : Between(d, u, v)' => d = c
      BY <2>1, <2>2, <2>5, <3>2 DEF Between
    <3> QED BY <2>1, <2>3, <2>5, <3>1, <3>2, <3>3 DEF OneConn, Between
  <2> QED BY <2>2, <2>4, <2>5
<1> QED BY <1>4, <1>5, ConnsKept

-------------------------------------------------------------------------------
(****************************** The windows ********************************)

LEMMA FramesBy ==
    ASSUME [NetNext]_netVars
    PROVE  \/ frames' = frames
           \/ \E u \in Users : \E v \in Users : StartCall(u, v)
           \/ \E e \in Ends : ReadFirst(e) \/ ReadAnswer(e) \/ ReadText(e) \/ ReadClose(e)
           \/ \E f \in 1 .. Len(frames) : PressClose(f)
BY DEF NetNext, netVars, OpenContacts, Reach, Join, WriteFound, TakeCall, Derive, SocketEnds,
       PressSend

\* A new window is that of a call, or of a first message.
LEMMA NewWindow ==
    ASSUME NetInv, SideInv, [NetNext]_netVars, NEW f \in 1 .. Len(frames')
    PROVE  \/ f \in 1 .. Len(frames)
           \/ \E u, v \in Users :
                 /\ StartCall(u, v) /\ f = Len(frames) + 1
                 /\ frames'[f] = [user |-> u, dest |-> v, type |-> STARTER,
                                  enabled |-> FALSE, shown |-> TRUE]
           \/ \E e \in Ends :
                 /\ ReadFirst(e) /\ f = Len(frames) + 1 /\ frame'[e] = f
                 /\ e \in Used /\ countMsg[e] = 0 /\ e[2] = NO_STARTER
                 /\ frames'[f] = [user |-> Owner(e), dest |-> Owner(Mate(e)),
                                  type |-> NO_STARTER, enabled |-> TRUE, shown |-> FALSE]
<1>1. TypeInv /\ frames \in Seq(Windows) /\ Len(frames) \in Nat BY WindowsKept DEF NetInv, TypeInv
<1>2. ASSUME NEW w \in Windows, frames' = Append(frames, w)
      PROVE  Len(frames') = Len(frames) + 1 /\ frames'[Len(frames) + 1] = w
  BY <1>1, <1>2, AppendProperties
<1>3. ASSUME NEW u \in Users, NEW v \in Users, StartCall(u, v), f \notin 1 .. Len(frames)
      PROVE  /\ f = Len(frames) + 1
             /\ frames'[f] = [user |-> u, dest |-> v, type |-> STARTER,
                              enabled |-> FALSE, shown |-> TRUE]
  <2>1. PICK w : /\ w = [user |-> u, dest |-> v, type |-> STARTER, enabled |-> FALSE, shown |-> TRUE]
                 /\ frames' = Append(frames, w)
    BY <1>3 DEF StartCall
  <2>2. w \in Windows BY <2>1 DEF Windows
  <2> QED BY <1>1, <1>2, <1>3, <2>1, <2>2
<1>4. ASSUME NEW e \in Ends, ReadFirst(e), f \notin 1 .. Len(frames)
      PROVE  /\ f = Len(frames) + 1 /\ frame'[e] = f
             /\ e \in Used /\ countMsg[e] = 0 /\ e[2] = NO_STARTER
             /\ frames'[f] = [user |-> Owner(e), dest |-> Owner(Mate(e)),
                              type |-> NO_STARTER, enabled |-> TRUE, shown |-> FALSE]
  <2>0. Reads(e) /\ countMsg'[e] = 1 BY <1>4 DEF ReadFirst
  <2>1. e \in Used /\ countMsg[e] + 1 = 1 /\ countMsg[e] \in Nat /\ thread[e] = "reading"
    BY <1>1, <2>0, Reading DEF TypeInv
  <2>2. SideFits(e) /\ e[2] \in {STARTER, NO_STARTER} BY EndIs DEF SideInv
  <2>3. countMsg[e] = 0 /\ e[2] = NO_STARTER BY <2>1, <2>2 DEF SideFits
  <2>4. Owner(e) \in Users /\ Owner(Mate(e)) \in Users BY <1>1, <2>1, OwnersAre
  <2>5. PICK w : /\ w = [user |-> Owner(e), dest |-> Owner(Mate(e)), type |-> NO_STARTER,
                         enabled |-> TRUE, shown |-> FALSE]
                 /\ frames' = Append(frames, w)
    BY <1>4 DEF ReadFirst
  <2>6. w \in Windows BY <2>4, <2>5 DEF Windows
  <2>7. Len(frames') = Len(frames) + 1 /\ frames'[Len(frames) + 1] = w BY <1>2, <2>5, <2>6
  <2>8. frame' = [frame EXCEPT ![e] = Len(frames')] BY <1>4 DEF ReadFirst
  <2>9. frame'[e] = Len(frames') BY <1>1, <2>8 DEF TypeInv
  <2> QED BY <1>1, <1>4, <2>1, <2>3, <2>5, <2>7, <2>9
<1>5. ASSUME Len(frames') = Len(frames) PROVE f \in 1 .. Len(frames) BY <1>5
<1>6. ASSUME NEW e \in Ends, ReadAnswer(e) \/ ReadText(e) \/ ReadClose(e)
      PROVE  Len(frames') = Len(frames)
  <2>1. \/ frames' = frames
        \/ \E a \in Ends : frames' = [frames EXCEPT ![frame[a]].shown = TRUE]
        \/ \E a \in Ends : frames' = [frames EXCEPT ![frame[a]].shown = FALSE]
        \/ \E a \in Ends : frames' = [frames EXCEPT ![frame[a]].enabled = TRUE]
    <3>1. CASE ReadAnswer(e) BY <3>1 DEF ReadAnswer
    <3>2. CASE ReadText(e) BY <3>2 DEF ReadText
    <3>3. CASE ReadClose(e)
      <4>1. Owner(e) \in Users BY <1>1, <3>3, OwnersAre DEF ReadClose
      <4>2. IsListed(Owner(e), dest[e]) => Find(Owner(e), dest[e]) \in Ends
        BY <1>1, <4>1, FindFinds
      <4> QED BY <3>3, <4>2 DEF ReadClose
    <3> QED BY <1>6, <3>1, <3>2, <3>3
  <2>2. \A a \in Ends : frame[a] \in Nat BY <1>1 DEF TypeInv
  <2>4. \/ frames' = frames
        \/ \E k \in Nat : \/ frames' = [frames EXCEPT ![k].shown = TRUE]
                         \/ frames' = [frames EXCEPT ![k].shown = FALSE]
                         \/ frames' = [frames EXCEPT ![k].enabled = TRUE]
    BY <2>1, <2>2
  <2>3. \A k \in Nat : \A b \in BOOLEAN : /\ Len([frames EXCEPT ![k].shown = b]) = Len(frames)
                                          /\ Len([frames EXCEPT ![k].enabled = b]) = Len(frames)
    BY <1>1, LenProperties, ExceptSeq
  <2> QED BY <2>3, <2>4
<1>7. ASSUME NEW g \in 1 .. Len(frames), PressClose(g) PROVE Len(frames') = Len(frames)
  <2>1. frames' = [frames EXCEPT ![g].shown = FALSE] /\ g \in Nat BY <1>1, <1>7 DEF PressClose
  <2> QED BY <1>1, <2>1, LenProperties, ExceptSeq
<1> QED BY <1>3, <1>4, <1>5, <1>6, <1>7, FramesBy

\* A window in which somebody writes stays up.
LEMMA ShownKept ==
    ASSUME NetInv, SideInv, [NetNext]_netVars, NEW f \in 1 .. Len(frames),
           frames[f].shown, ~ EventFree(frames[f].user)
    PROVE  frames'[f].shown
<1>1. TypeInv /\ frames \in Seq(Windows) /\ Len(frames) \in Nat BY WindowsKept DEF NetInv, TypeInv
<1>2. ASSUME NEW w \in Windows, frames' = Append(frames, w) PROVE frames'[f].shown
  BY <1>1, <1>2, AppendProperties
<1>3. ASSUME NEW u \in Users, NEW v \in Users, StartCall(u, v) PROVE frames'[f].shown
  <2>1. PICK w : /\ w = [user |-> u, dest |-> v, type |-> STARTER, enabled |-> FALSE, shown |-> TRUE]
                 /\ frames' = Append(frames, w)
    BY <1>3 DEF StartCall
  <2>2. w \in Windows BY <2>1 DEF Windows
  <2> QED BY <1>2, <2>1, <2>2
<1>4. ASSUME NEW e \in Ends, ReadFirst(e) PROVE frames'[f].shown
  <2>1. e \in Used BY <1>4 DEF ReadFirst, Reads
  <2>4. Owner(e) \in Users /\ Owner(Mate(e)) \in Users BY <1>1, <2>1, OwnersAre
  <2>5. PICK w : /\ w = [user |-> Owner(e), dest |-> Owner(Mate(e)), type |-> NO_STARTER,
                         enabled |-> TRUE, shown |-> FALSE]
                 /\ frames' = Append(frames, w)
    BY <1>4 DEF ReadFirst
  <2>6. w \in Windows BY <2>4, <2>5 DEF Windows
  <2> QED BY <1>2, <2>5, <2>6
<1>5. ASSUME NEW e \in Ends, ReadAnswer(e) \/ ReadText(e) PROVE frames'[f].shown
  <2>1. \/ frames' = frames
        \/ frames' = [frames EXCEPT ![frame[e]].shown = TRUE]
        \/ frames' = [frames EXCEPT ![frame[e]].enabled = TRUE]
    BY <1>5 DEF ReadAnswer, ReadText
  <2>2. frame[e] \in Nat BY <1>1 DEF TypeInv
  <2>3. /\ [frames EXCEPT ![frame[e]].shown = TRUE][f].shown
        /\ [frames EXCEPT ![frame[e]].enabled = TRUE][f].shown
    BY <1>1, <2>2, WindowSet
  <2> QED BY <2>1, <2>3
<1>6. ASSUME NEW e \in Ends, ReadClose(e) PROVE frames'[f].shown
  <2>0. PICK u, a : u = Owner(e) /\ a = Find(u, dest[e]) OBVIOUS
  <2>1. CASE IsListed(u, dest[e]) /\ frame[a] # 0
    <3>1. /\ frames' = [frames EXCEPT ![frame[a]].shown = FALSE]
          /\ frames[frame[a]].shown => EventFree(u)
      BY <1>6, <2>0, <2>1 DEF ReadClose
    <3>2. a \in Used /\ a \in Ends /\ Owner(a) = u BY <1>6, <2>0, <2>1, ReadCloses
    <3>3. EndFits(a) /\ frame[a] \in Nat BY <1>1, <3>2 DEF NetInv, TypeInv
    <3>4. frames[frame[a]].user = u BY <2>1, <3>2, <3>3 DEF EndFits
    <3>5. f # frame[a] BY <3>1, <3>4
    <3> QED BY <1>1, <3>1, <3>3, <3>5, WindowSet
  <2>2. CASE ~ (IsListed(u, dest[e]) /\ frame[a] # 0)
    BY <1>6, <2>0, <2>2 DEF ReadClose
  <2> QED BY <2>1, <2>2
<1>7. ASSUME NEW g \in 1 .. Len(frames), PressClose(g) PROVE frames'[f].shown
  <2>1. frames' = [frames EXCEPT ![g].shown = FALSE] /\ g \in Nat /\ EventFree(frames[g].user)
    BY <1>1, <1>7 DEF PressClose
  <2>2. f # g BY <2>1
  <2> QED BY <1>1, <2>1, <2>2, WindowSet
<1>8. frames' = frames => frames'[f].shown OBVIOUS
<1> QED BY <1>3, <1>4, <1>5, <1>6, <1>7, <1>8, FramesBy

\* A window becomes enabled when its chat has read the answer.
LEMMA EnabledBy ==
    ASSUME NetInv, SideInv, [NetNext]_netVars, NEW f \in 1 .. Len(frames), frames'[f].enabled
    PROVE  frames[f].enabled \/ \E c \in 1 .. Len(conns) : f = frame[S(c)]
<1>1. TypeInv /\ frames \in Seq(Windows) /\ Len(frames) \in Nat BY WindowsKept DEF NetInv, TypeInv
<1>2. ASSUME NEW w \in Windows, frames' = Append(frames, w) PROVE frames[f].enabled
  BY <1>1, <1>2, AppendProperties
<1>3. ASSUME NEW u \in Users, NEW v \in Users, StartCall(u, v) PROVE frames[f].enabled
  <2>1. PICK w : /\ w = [user |-> u, dest |-> v, type |-> STARTER, enabled |-> FALSE, shown |-> TRUE]
                 /\ frames' = Append(frames, w)
    BY <1>3 DEF StartCall
  <2>2. w \in Windows BY <2>1 DEF Windows
  <2> QED BY <1>2, <2>1, <2>2
<1>4. ASSUME NEW e \in Ends, ReadFirst(e) PROVE frames[f].enabled
  <2>1. e \in Used BY <1>4 DEF ReadFirst, Reads
  <2>4. Owner(e) \in Users /\ Owner(Mate(e)) \in Users BY <1>1, <2>1, OwnersAre
  <2>5. PICK w : /\ w = [user |-> Owner(e), dest |-> Owner(Mate(e)), type |-> NO_STARTER,
                         enabled |-> TRUE, shown |-> FALSE]
                 /\ frames' = Append(frames, w)
    BY <1>4 DEF ReadFirst
  <2>6. w \in Windows BY <2>4, <2>5 DEF Windows
  <2> QED BY <1>2, <2>5, <2>6
<1>5. ASSUME NEW k \in Nat, NEW b \in BOOLEAN, frames' = [frames EXCEPT ![k].shown = b]
      PROVE  frames[f].enabled
  BY <1>1, <1>5, WindowSet
<1>6. ASSUME NEW e \in Ends, ReadAnswer(e)
      PROVE  frames[f].enabled \/ \E c \in 1 .. Len(conns) : f = frame[S(c)]
  <2>1. frames' = [frames EXCEPT ![frame[e]].enabled = TRUE] /\ frame[e] \in Nat /\ e \in Used
        /\ e[2] = STARTER
    BY <1>1, <1>6 DEF ReadAnswer, Reads, TypeInv
  <2>2. CASE f # frame[e] BY <1>1, <2>1, <2>2, WindowSet
  <2>3. e[1] \in 1 .. Len(conns) /\ e = S(e[1]) BY <1>1, <2>1, OwnersAre, EndIs
  <2> QED BY <2>2, <2>3
<1>7. ASSUME NEW e \in Ends, ReadText(e) PROVE frames[f].enabled
  <2>1. frames' = frames \/ frames' = [frames EXCEPT ![frame[e]].shown = TRUE]
    BY <1>7 DEF ReadText
  <2>2. frame[e] \in Nat BY <1>1 DEF TypeInv
  <2> QED BY <1>5, <2>1, <2>2
<1>8. ASSUME NEW e \in Ends, ReadClose(e) PROVE frames[f].enabled
  <2>0. PICK u, a : u = Owner(e) /\ a = Find(u, dest[e]) OBVIOUS
  <2>1. CASE IsListed(u, dest[e]) /\ frame[a] # 0
    <3>1. frames' = [frames EXCEPT ![frame[a]].shown = FALSE] BY <1>8, <2>0, <2>1 DEF ReadClose
    <3>2. a \in Ends BY <1>8, <2>0, <2>1, ReadCloses
    <3>3. frame[a] \in Nat BY <1>1, <3>2 DEF TypeInv
    <3> QED BY <1>5, <3>1, <3>3
  <2>2. CASE ~ (IsListed(u, dest[e]) /\ frame[a] # 0)
    BY <1>8, <2>0, <2>2 DEF ReadClose
  <2> QED BY <2>1, <2>2
<1>9. ASSUME NEW g \in 1 .. Len(frames), PressClose(g) PROVE frames[f].enabled
  <2>1. frames' = [frames EXCEPT ![g].shown = FALSE] /\ g \in Nat BY <1>1, <1>9 DEF PressClose
  <2> QED BY <1>5, <2>1
<1>10. frames' = frames => frames[f].enabled OBVIOUS
<1> QED BY <1>3, <1>4, <1>6, <1>7, <1>8, <1>9, <1>10, FramesBy

\* What a user is to write changes at his own actions, and as it is written.
LEMMA UserSends ==
    ASSUME NetInv, [NetNext]_netVars, NEW u \in Users
    PROVE  \/ sending'[u] = sending[u]
           \/ \E t \in Writers : Reach(t) \/ Join(t)
           \/ WriteFound(u) /\ sending'[u] = Nothing
           \/ EventFree(u) /\ \E v \in Users : StartCall(u, v)
           \/ EventFree(u) /\ \E f \in 1 .. Len(frames) : PressSend(f) /\ frames[f].user = u
<1> USE DEF userVars, threadVars
<1>1. TypeInv /\ u \in Writers /\ u \notin Ends BY WritersAre DEF NetInv
<1>2. sending \in [Writers -> Errands] BY <1>1 DEF TypeInv
<1>3. ASSUME NEW x \in Users, NEW v \in Users, StartCall(x, v)
      PROVE  sending'[u] = sending[u] \/ (EventFree(u) /\ StartCall(u, v))
  <2>1. CASE x = u BY <1>3, <2>1 DEF StartCall
  <2>2. CASE x # u BY <1>2, <1>1, <1>3, <2>2 DEF StartCall
  <2> QED BY <2>1, <2>2
<1>4. ASSUME NEW t \in Writers, WriteFound(t)
      PROVE  sending'[u] = sending[u] \/ (WriteFound(u) /\ sending'[u] = Nothing)
  <2>1. sending' = [sending EXCEPT ![t] = Nothing] BY <1>4 DEF WriteFound
  <2> QED BY <1>1, <1>2, <1>4, <2>1
<1>5. ASSUME NEW e \in Ends, ReadFirst(e) PROVE sending'[u] = sending[u]
  BY <1>1, <1>2, <1>5 DEF ReadFirst
<1>6. ASSUME NEW f \in 1 .. Len(frames), PressSend(f)
      PROVE  sending'[u] = sending[u] \/ (EventFree(u) /\ frames[f].user = u)
  <2>1. CASE frames[f].user = u BY <1>6, <2>1 DEF PressSend
  <2>2. CASE frames[f].user # u BY <1>1, <1>2, <1>6, <2>2 DEF PressSend
  <2> QED BY <2>1, <2>2
<1>7. \/ sending' = sending
      \/ \E t \in Writers : Reach(t) \/ Join(t)
      \/ \E x \in Users : \E v \in Users : StartCall(x, v)
      \/ \E t \in Writers : WriteFound(t)
      \/ \E e \in Ends : ReadFirst(e)
      \/ \E f \in 1 .. Len(frames) : PressSend(f)
  BY DEF NetNext, netVars, OpenContacts, TakeCall, Derive, ReadAnswer, ReadText, ReadClose,
         SocketEnds, PressClose
<1> QED BY <1>3, <1>4, <1>5, <1>6, <1>7

LEMMA WindowsCalled ==
    ASSUME NetInv, SideInv, LoneInv, [NetNext]_netVars, NEW f \in 1 .. Len(frames')
    PROVE  WindowCalled(f)'
<1>1. TypeInv /\ TypeInv' BY TypesKept DEF NetInv
<1>2. Len(conns)' \in Nat /\ Len(conns) \in Nat /\ 1 .. Len(conns) \subseteq 1 .. Len(conns')
  BY <1>1, ConnsKept, OwnersAre
<1>3. \A c \in 1 .. Len(conns) : S(c) \in Ends /\ N(c) \in Ends
  BY <1>1, OwnersAre
<1>4. CASE f \in 1 .. Len(frames)
  <2>1. WindowCalled(f) /\ frames[f] \in Windows BY <1>1, <1>4, ElementOfSeq DEF LoneInv, TypeInv
  <2>2. PICK u, v : u = frames[f].user /\ v = frames[f].dest OBVIOUS
  <2>3. /\ u \in Users /\ v \in Users /\ frames[f].type \in {STARTER, NO_STARTER} /\ f # 0
        /\ frames'[f].user = u /\ frames'[f].dest = v /\ frames'[f].type = frames[f].type
    <3>1. /\ frames[f].user' = frames[f].user /\ frames[f].dest' = frames[f].dest
          /\ frames[f].type' = frames[f].type /\ Len(frames) \in Nat
      BY <1>4, WindowsKept
    <3> QED BY <1>4, <2>1, <2>2, <3>1 DEF Windows
  <2>4. Called(u, v)' BY <2>1, <2>2, <2>3, CalledKept DEF WindowCalled
  <2>5. frames[f].type = STARTER => calls'[u][v] >= 1
    <3>1. calls[u][v] \in Nat /\ calls'[u][v] \in Nat /\ calls[u][v] <= calls'[u][v]
      BY <2>3, CallsGrow
    <3> QED BY <2>1, <2>2, <3>1 DEF WindowCalled
  <2>6. ASSUME NEW c \in 1 .. Len(conns)
        PROVE  /\ c \in 1 .. Len(conns')
               /\ frame[S(c)] = f => frame'[S(c)] = f
               /\ frame[N(c)] = f => frame'[N(c)] = f
    BY <1>2, <1>3, <2>3, FrameKept
  <2>7. frames[f].type = STARTER /\ frames'[f].enabled => \E c \in 1 .. Len(conns') : frame'[S(c)] = f
    <3>1. frames[f].type = STARTER /\ frames'[f].enabled => \E c \in 1 .. Len(conns) : frame[S(c)] = f
      BY <1>4, <2>1, EnabledBy DEF WindowCalled
    <3> QED BY <2>6, <3>1
  <2>8. frames[f].type = NO_STARTER => \E c \in 1 .. Len(conns') : frame'[N(c)] = f
    BY <2>1, <2>6 DEF WindowCalled
  <2> QED BY <2>3, <2>4, <2>5, <2>7, <2>8 DEF WindowCalled
<1>5. ASSUME NEW u \in Users, NEW v \in Users, StartCall(u, v),
             frames'[f] = [user |-> u, dest |-> v, type |-> STARTER, enabled |-> FALSE, shown |-> TRUE]
      PROVE  WindowCalled(f)'
  <2>1. calls' = [calls EXCEPT ![u] = [calls[u] EXCEPT ![v] = calls[u][v] + 1]]
    BY <1>5 DEF StartCall
  <2>2. calls \in [Users -> [Users -> Nat]] BY <1>1 DEF TypeInv
  <2>3. calls[u] \in [Users -> Nat] BY <2>2
  <2>4. calls'[u][v] = calls[u][v] + 1 /\ calls[u][v] \in Nat BY <2>1, <2>2, <2>3
  <2>5. calls'[v][u] \in Nat BY CallsGrow
  <2>6. Called(u, v)' BY <2>4, <2>5 DEF Called
  <2> QED BY <1>5, <2>4, <2>6 DEF WindowCalled, STARTER, NO_STARTER
<1>6. ASSUME NEW e \in Ends, ReadFirst(e), frame'[e] = f, e \in Used, e[2] = NO_STARTER,
             frames'[f] = [user |-> Owner(e), dest |-> Owner(Mate(e)), type |-> NO_STARTER,
                           enabled |-> TRUE, shown |-> FALSE]
      PROVE  WindowCalled(f)'
  <2>1. PICK k : k = e[1] OBVIOUS
  <2>2. k \in 1 .. Len(conns) /\ e = N(k) BY <1>1, <1>6, <2>1, OwnersAre, EndIs
  <2>3. PICK u, v : u = conns[k].to /\ v = conns[k].from OBVIOUS
  <2>4. Owner(e) = u /\ Owner(Mate(e)) = v /\ u \in Users /\ v \in Users
    BY <1>1, <2>2, <2>3, OwnersAre, EndsAre
  <2>5. calls[u][v] \in Nat /\ calls[v][u] \in Nat BY <2>4, CallsGrow
  <2>6. Called(u, v) BY <2>2, <2>3, <2>5 DEF LoneInv, ConnCalled, Called
  <2>7. Called(u, v)' BY <2>4, <2>6, CalledKept
  <2>8. k \in 1 .. Len(conns') BY <1>2, <2>2
  <2>9. \E c \in 1 .. Len(conns') : frame'[N(c)] = f BY <1>6, <2>2, <2>8
  <2> QED BY <1>6, <2>4, <2>7, <2>9 DEF WindowCalled, STARTER, NO_STARTER
<1> QED BY <1>4, <1>5, <1>6, NewWindow

\* The token, too, is written by the time the window has a chat.
LEMMA TokenWritten ==
    ASSUME NetInv, SideInv, LoneInv, NEW t \in Users, WriteFound(t), NEW f \in 1 .. Len(frames),
           sending[t].frame = f, frames[f].type = STARTER, Lone(frames[f].user, frames[f].dest)
    PROVE  \E c \in 1 .. Len(conns) : frame[S(c)] = f
<1>1. TypeInv /\ t \in Writers /\ HasToWrite(t) /\ sending[t] # Nothing
  BY WritersAre DEF NetInv, WriteFound, HasToWrite
<1>2. PICK v, a : v = Target(t) /\ a = Find(t, v) OBVIOUS
<1>3. Writer(t) = t BY DEF Writer
<1>4. /\ v \in Users /\ v # Nobody /\ IsListed(t, v) /\ frames[f].user = t /\ frames[f].dest = v
  BY <1>1, <1>2, <1>3, WriterIs DEF WriteFound, NetInv, WriterFits
<1>5. a \in Ends /\ InList(t, a) /\ dest[a] = v BY <1>1, <1>2, <1>4, FindFinds
<1>6. a \in Used /\ Owner(a) = t /\ thread[a] # "none" BY <1>5 DEF NetInv, ListFits
<1>7. Owner(Mate(a)) = v BY <1>4, <1>5, <1>6 DEF NetInv, EndFits
<1>8. PICK c : c = a[1] OBVIOUS
<1>9. /\ c \in 1 .. Len(conns) /\ (a = S(c) \/ a = N(c)) /\ Between(c, t, v)
  <2>1. c \in 1 .. Len(conns) /\ (a = S(c) \/ a = N(c)) BY <1>1, <1>6, <1>8, OwnersAre, EndIs
  <2> QED BY <1>1, <1>6, <1>7, <2>1, OwnersAre, EndsAre DEF Between
<1>10. calls[t][v] \in Nat /\ calls[v][t] \in Nat BY <1>1, <1>4 DEF TypeInv
<1>11. calls[t][v] >= 1 /\ calls[v][t] = 0 /\ calls[t][v] + calls[v][t] <= 1
  <2>1. WindowCalled(f) BY DEF LoneInv
  <2> QED BY <1>4, <1>10, <2>1 DEF WindowCalled, Lone
<1>12. LoneConn(c) BY <1>9, <1>10, <1>11 DEF LoneConn, Lone, Between
<1>13. conns[c].from = t /\ conns[c].to = v
  <2>1. OneConn(c) BY <1>9 DEF LoneInv
  <2> QED BY <1>9, <1>11, <1>12, <2>1 DEF OneConn, Between
<1>14. a = S(c)
  <2>1. t # v BY <1>10, <1>11
  <2> QED BY <1>1, <1>6, <1>9, <1>13, <2>1, OwnersAre
<1>15. Errand(t, v) = sending[t] /\ CallerSide(t, v, S(c), N(c))
  <2>1. HandshakeFits(c) BY <1>9 DEF LoneInv
  <2> QED BY <1>2, <1>12, <1>13, <2>1 DEF Errand, Target, HandshakeFits, Handshake
<1> QED BY <1>1, <1>6, <1>9, <1>14, <1>15 DEF CallerSide

LEMMA WindowsOnce ==
    ASSUME NetInv, SideInv, LoneInv, [NetNext]_netVars, NEW f \in 1 .. Len(frames')
    PROVE  OneWindow(f)'
<1>1. TypeInv /\ TypeInv' BY TypesKept DEF NetInv
<1>2. PICK u, v : u = frames'[f].user /\ v = frames'[f].dest OBVIOUS
<1> SUFFICES ASSUME frames'[f].type = STARTER, Lone(u, v)'
             PROVE  /\ \A g \in 1 .. Len(frames') :
                          frames'[g].type = STARTER /\ frames'[g].user = u
                          /\ frames'[g].dest = v => g = f
                    /\ \/ sending'[u].frame = f /\ sending'[u].message.kind = "token"
                       \/ \E c \in 1 .. Len(conns') : frame'[S(c)] = f
  BY <1>2 DEF OneWindow
<1>3. u \in Users /\ v \in Users /\ Lone(u, v)' /\ Lone(u, v)
  <2>1. frames'[f] \in Windows BY <1>1, ElementOfSeq DEF TypeInv
  <2>2. u \in Users /\ v \in Users BY <1>2, <2>1 DEF Windows
  <2> QED BY <1>2, <2>2, LoneKept
<1>4. /\ calls[u][v] \in Nat /\ calls[v][u] \in Nat /\ calls'[u][v] \in Nat /\ calls'[v][u] \in Nat
      /\ calls[u][v] <= calls'[u][v] /\ calls'[u][v] + calls'[v][u] <= 1
  <2>1. calls'[u][v] + calls'[v][u] <= 1 BY <1>3 DEF Lone
  <2> QED BY <1>3, <2>1, CallsGrow
<1>5. ASSUME NEW g \in 1 .. Len(frames)
      PROVE  /\ g \in 1 .. Len(frames')
             /\ frames'[g].user = frames[g].user /\ frames'[g].dest = frames[g].dest
             /\ frames'[g].type = frames[g].type
             /\ frames[g].type = STARTER /\ frames[g].user = u /\ frames[g].dest = v => calls[u][v] >= 1
  <2>1. /\ frames[g].user' = frames[g].user /\ frames[g].dest' = frames[g].dest
        /\ frames[g].type' = frames[g].type
        /\ Len(frames) \in Nat /\ Len(frames)' \in Nat /\ Len(frames) <= Len(frames)'
    BY <1>5, WindowsKept
  <2>2. WindowCalled(g) BY DEF LoneInv
  <2> QED BY <1>5, <2>1, <2>2 DEF WindowCalled
<1>6. ASSUME NEW x \in Users, NEW y \in Users, StartCall(x, y), x = u, y = v
      PROVE  calls[u][v] = 0
  <2>1. calls' = [calls EXCEPT ![u] = [calls[u] EXCEPT ![v] = calls[u][v] + 1]]
    BY <1>6 DEF StartCall
  <2>2. calls \in [Users -> [Users -> Nat]] BY <1>1 DEF TypeInv
  <2>3. calls[u] \in [Users -> Nat] BY <1>3, <2>2
  <2>4. calls'[u][v] = calls[u][v] + 1 BY <1>3, <2>1, <2>2, <2>3
  <2> QED BY <1>4, <2>4
<1>7. ASSUME NEW g \in 1 .. Len(frames'), frames'[g].type = STARTER, frames'[g].user = u,
             frames'[g].dest = v, g \notin 1 .. Len(frames)
      PROVE  /\ g = Len(frames) + 1 /\ StartCall(u, v)
             /\ calls[u][v] = 0
  <2>1. ASSUME NEW x \in Users, NEW y \in Users, StartCall(x, y),
               frames'[g] = [user |-> x, dest |-> y, type |-> STARTER,
                             enabled |-> FALSE, shown |-> TRUE]
        PROVE  x = u /\ y = v
    BY <1>7, <2>1
  <2>2. STARTER # NO_STARTER BY DEF STARTER, NO_STARTER
  <2>3. ASSUME NEW e \in Ends,
               frames'[g] = [user |-> Owner(e), dest |-> Owner(Mate(e)),
                             type |-> NO_STARTER, enabled |-> TRUE, shown |-> FALSE]
        PROVE  FALSE
    BY <1>7, <2>2, <2>3
  <2> QED BY <1>6, <1>7, <2>1, <2>3, NewWindow
<1>8. ASSUME NEW g \in 1 .. Len(frames'), frames'[g].type = STARTER, frames'[g].user = u,
             frames'[g].dest = v
      PROVE  g = f
  <2>1. CASE f \in 1 .. Len(frames) /\ g \in 1 .. Len(frames)
    <3>1. OneWindow(f) BY <2>1 DEF LoneInv
    <3>2. /\ frames[g].type = STARTER /\ frames[g].user = u /\ frames[g].dest = v
          /\ frames[f].type = STARTER /\ frames[f].user = u /\ frames[f].dest = v
      BY <1>2, <1>5, <1>8, <2>1
    <3> QED BY <1>3, <2>1, <3>1, <3>2 DEF OneWindow
  <2>2. CASE f \notin 1 .. Len(frames)
    BY <1>2, <1>4, <1>5, <1>7, <1>8, <2>2
  <2>3. CASE g \notin 1 .. Len(frames)
    BY <1>2, <1>4, <1>5, <1>7, <1>8, <2>3
  <2> QED BY <2>1, <2>2, <2>3
<1>9. \/ sending'[u].frame = f /\ sending'[u].message.kind = "token"
      \/ \E c \in 1 .. Len(conns') : frame'[S(c)] = f
  <2>0. u \in Writers /\ u \notin Ends BY <1>3, WritersAre
  <2>1. CASE f \notin 1 .. Len(frames)
    <3>1. StartCall(u, v) /\ f = Len(frames) + 1 BY <1>2, <1>7, <2>1
    <3>2. /\ sending' = [sending EXCEPT ![u] = Sends(TokenTo(boards'[STARTER], u, v), Len(frames'))]
      BY <3>1 DEF StartCall
    <3>3. Len(frames') = f
      <4>1. Len(frames) \in Nat /\ Len(frames)' \in Nat BY WindowsKept
      <4>2. PICK w : /\ w = [user |-> u, dest |-> v, type |-> STARTER, enabled |-> FALSE, shown |-> TRUE]
                     /\ frames' = Append(frames, w)
        BY <3>1 DEF StartCall
      <4>3. w \in Windows BY <1>3, <4>2 DEF Windows
      <4> QED BY <1>1, <3>1, <4>2, <4>3, AppendProperties DEF TypeInv
    <3> QED BY <1>1, <2>0, <3>2, <3>3 DEF TypeInv, Sends, TokenTo
  <2>2. CASE f \in 1 .. Len(frames)
    <3>1. frames[f].type = STARTER /\ frames[f].user = u /\ frames[f].dest = v /\ f # 0
      <4>1. f # 0 BY <2>2, WindowsKept
      <4> QED BY <1>2, <1>5, <2>2, <4>1
    <3>2. \/ sending[u].frame = f /\ sending[u].message.kind = "token"
          \/ \E c \in 1 .. Len(conns) : frame[S(c)] = f
      BY <1>3, <2>2, <3>1 DEF LoneInv, OneWindow
    <3>3. ASSUME NEW c \in 1 .. Len(conns), frame[S(c)] = f
          PROVE  c \in 1 .. Len(conns') /\ frame'[S(c)] = f
      <4>1. S(c) \in Ends BY <1>1, OwnersAre
      <4>2. Len(conns) \in Nat /\ Len(conns)' \in Nat /\ Len(conns) <= Len(conns')
        BY <1>1, ConnsKept, OwnersAre
      <4> QED BY <3>1, <3>3, <4>1, <4>2, FrameKept
    <3>4. ASSUME sending[u].frame = f, sending[u].message.kind = "token"
          PROVE  \/ sending'[u].frame = f /\ sending'[u].message.kind = "token"
                 \/ \E c \in 1 .. Len(conns) : frame[S(c)] = f
      <4>1. ~ EventFree(u) BY <3>1, <3>4 DEF EventFree, Nothing
      <4>2. CASE sending'[u] = sending[u] BY <3>4, <4>2
      <4>3. ASSUME NEW t \in Writers, Reach(t) \/ Join(t)
            PROVE  sending'[u].frame = f /\ sending'[u].message.kind = "token"
        <5>1. /\ sending' = [sending EXCEPT ![t] = sending'[t]]
              /\ sending'[t].message = sending[t].message /\ sending'[t].frame = sending[t].frame
          BY <4>3, ReachedIs
        <5>2. u # t => sending'[u] = sending[u] BY <1>1, <2>0, <5>1 DEF TypeInv
        <5> QED BY <3>4, <5>1, <5>2
      <4>4. ASSUME WriteFound(u) PROVE \E c \in 1 .. Len(conns) : frame[S(c)] = f
        BY <1>3, <2>2, <3>1, <3>4, <4>4, TokenWritten
      <4>5. \/ sending'[u] = sending[u]
            \/ \E t \in Writers : Reach(t) \/ Join(t)
            \/ WriteFound(u)
        BY <1>3, <4>1, UserSends
      <4> QED BY <4>2, <4>3, <4>4, <4>5
    <3> QED BY <3>2, <3>3, <3>4
  <2> QED BY <2>1, <2>2
<1> QED BY <1>2, <1>8, <1>9

LEMMA UsersOccupied ==
    ASSUME NetInv, SideInv, LoneInv, [NetNext]_netVars, NEW u \in Users
    PROVE  Occupied(u)'
<1>1. TypeInv /\ TypeInv' /\ u \in Writers /\ u \notin Ends BY TypesKept, WritersAre DEF NetInv
<1>2. Occupied(u) /\ WriterFits(u) BY <1>1 DEF LoneInv, NetInv
<1>3. ASSUME sending[u] # Nothing, sending'[u].frame = sending[u].frame,
             sending'[u].message = sending[u].message
      PROVE  Occupied(u)'
  <2>1. PICK f : f = sending[u].frame OBVIOUS
  <2>2. f \in 1 .. Len(frames) /\ frames[f].user = u
    BY <1>2, <1>3, <2>1 DEF WriterFits, Writer
  <2>3. frames'[f].shown BY <1>2, <1>3, <2>1, <2>2, ShownKept DEF Occupied, EventFree
  <2>4. frames'[f].type = frames[f].type /\ (frames[f].enabled => frames'[f].enabled)
    BY <2>2, WindowsKept
  <2> QED BY <1>2, <1>3, <2>1, <2>3, <2>4 DEF Occupied
<1>4. CASE sending'[u] = sending[u]
  BY <1>3, <1>4 DEF Occupied
<1>5. CASE sending'[u] = Nothing BY <1>5 DEF Occupied
<1>6. ASSUME NEW t \in Writers, Reach(t) \/ Join(t) PROVE Occupied(u)'
  <2>1. /\ sending' = [sending EXCEPT ![t] = sending'[t]] /\ sending[t] # Nothing
        /\ sending'[t].message = sending[t].message /\ sending'[t].frame = sending[t].frame
    BY <1>6, ReachedIs
  <2>2. u # t => sending'[u] = sending[u] BY <1>1, <2>1 DEF TypeInv
  <2> QED BY <1>3, <1>4, <2>1, <2>2
<1>7. ASSUME NEW v \in Users, StartCall(u, v) PROVE Occupied(u)'
  <2>1. sending' = [sending EXCEPT ![u] = Sends(TokenTo(boards'[STARTER], u, v), Len(frames'))]
    BY <1>7 DEF StartCall
  <2>2. sending'[u] = Sends(TokenTo(boards'[STARTER], u, v), Len(frames'))
    BY <1>1, <2>1 DEF TypeInv
  <2>3. sending'[u].frame = Len(frames') /\ sending'[u].message.kind = "token"
    BY <2>2 DEF Sends, TokenTo
  <2>4. PICK w : /\ w = [user |-> u, dest |-> v, type |-> STARTER, enabled |-> FALSE, shown |-> TRUE]
                 /\ frames' = Append(frames, w)
    BY <1>7 DEF StartCall
  <2>5. w \in Windows BY <2>4 DEF Windows
  <2>6. frames'[Len(frames')] = w BY <1>1, <2>4, <2>5, AppendProperties, LenProperties DEF TypeInv
  <2> QED BY <2>3, <2>4, <2>6 DEF Occupied
<1>8. ASSUME NEW f \in 1 .. Len(frames), PressSend(f), frames[f].user = u PROVE Occupied(u)'
  <2>1. /\ sending' = [sending EXCEPT ![u] = Sends(CipherTo(boards[frames[f].type], u, frames[f].dest), f)]
        /\ frames' = frames /\ frames[f].shown /\ frames[f].enabled
    BY <1>8 DEF PressSend
  <2>2. sending'[u] = Sends(CipherTo(boards[frames[f].type], u, frames[f].dest), f)
    BY <1>1, <2>1 DEF TypeInv
  <2>3. sending'[u].frame = f /\ sending'[u].message.kind = "cipher"
    BY <2>2 DEF Sends, CipherTo
  <2> QED BY <2>1, <2>3 DEF Occupied
<1>9. \/ sending'[u] \in {sending[u], Nothing}
      \/ \E t \in Writers : Reach(t) \/ Join(t)
      \/ \E v \in Users : StartCall(u, v)
      \/ \E f \in 1 .. Len(frames) : PressSend(f) /\ frames[f].user = u
  BY UserSends
<1> QED BY <1>4, <1>5, <1>6, <1>7, <1>8, <1>9

-------------------------------------------------------------------------------
(********************* Steps of the handshake's two sides ******************)

IsPair(c, A, B, s, n) ==
    /\ c \in 1 .. Len(conns) /\ LoneConn(c)
    /\ A = conns[c].from /\ B = conns[c].to /\ s = S(c) /\ n = N(c)

LEMMA PairIs ==
    ASSUME NetInv, SideInv, LoneInv, NEW c, NEW A, NEW B, NEW s, NEW n, IsPair(c, A, B, s, n)
    PROVE  /\ A \in Users /\ B \in Users /\ A # B /\ A \in Writers /\ B \in Writers
           /\ s \in Used /\ n \in Used /\ s \in Ends /\ n \in Ends /\ s # n
           /\ s[2] = STARTER /\ n[2] = NO_STARTER /\ s[1] = c
           /\ Mate(s) = n /\ Mate(n) = s /\ n \in Writers /\ n \notin Users /\ s \notin Writers
           /\ Owner(s) = A /\ Owner(n) = B /\ n # A /\ n # B
           /\ TypeInv /\ EndFits(s) /\ EndFits(n) /\ SideFits(s) /\ SideFits(n)
           /\ Handshake(A, B, s, n)
<1>1. c \in 1 .. Len(conns) /\ LoneConn(c) BY DEF IsPair
<1>2. HandshakeFits(c) BY <1>1 DEF LoneInv
<1>3. Handshake(A, B, s, n) BY <1>1, <1>2 DEF HandshakeFits, IsPair
<1>4. /\ A \in Users /\ B \in Users /\ A # B /\ A \in Writers /\ B \in Writers
      /\ s \in Used /\ n \in Used /\ s \in Ends /\ n \in Ends /\ s # n
      /\ s[2] = STARTER /\ n[2] = NO_STARTER /\ s[1] = c
      /\ Mate(s) = n /\ Mate(n) = s /\ n \in Writers /\ n \notin Users /\ s \notin Writers
      /\ Owner(s) = A /\ Owner(n) = B
  BY <1>1, LoneEnds DEF IsPair
<1>5. n # A /\ n # B BY <1>4
<1> QED BY <1>3, <1>4, <1>5 DEF NetInv, SideInv

\* What the two have and write, besides.
LEMMA PairHas ==
    ASSUME NetInv, SideInv, LoneInv, NEW c, NEW A, NEW B, NEW s, NEW n, IsPair(c, A, B, s, n)
    PROVE  /\ countMsg[s] \in Nat /\ countMsg[n] \in Nat
           /\ streams[s] \in Seq(Messages) /\ streams[n] \in Seq(Messages)
           /\ thread[s] \in {"none", "reading", "ended"}
           /\ thread[s] # "none" => countMsg[s] >= 1 /\ frame[s] # 0
           /\ frame[s] # 0 => thread[s] # "none"
           /\ countMsg[n] = 0 <=> frame[n] = 0
           /\ sending[n] # Nothing => /\ thread[n] = "answering" /\ sending[n].message.kind = "token"
                                      /\ countMsg[n] = 1
           /\ Errand(A, B) = Nothing \/ (Errand(A, B) = sending[A] /\ sending[A] # Nothing)
           /\ Errand(B, A) = Nothing \/ (Errand(B, A) = sending[B] /\ sending[B] # Nothing)
           /\ Nothing.message.kind = "END" /\ Nothing.frame = 0
<1>1. /\ TypeInv /\ s \in Ends /\ n \in Ends /\ n \in Writers /\ n \notin Users
      /\ s[2] = STARTER /\ n[2] = NO_STARTER
      /\ EndFits(s) /\ EndFits(n) /\ SideFits(s) /\ SideFits(n)
  BY PairIs
<1>2. /\ countMsg[s] \in Nat /\ countMsg[n] \in Nat
      /\ streams[s] \in Seq(Messages) /\ streams[n] \in Seq(Messages)
  BY <1>1 DEF TypeInv
<1>3. /\ thread[s] \in {"none", "reading", "ended"}
      /\ thread[s] # "none" => countMsg[s] >= 1 /\ frame[s] # 0
      /\ frame[s] # 0 => thread[s] # "none"
      /\ countMsg[n] = 0 <=> frame[n] = 0
  BY <1>1 DEF SideFits, EndFits
<1>4. sending[n] # Nothing => /\ thread[n] = "answering" /\ sending[n].message.kind = "token"
                              /\ countMsg[n] = 1
  BY <1>1 DEF NetInv, WriterFits, SideFits
<1> QED BY <1>2, <1>3, <1>4 DEF Errand, Nothing, EndOfChat

\* The windows and streams of the two are no other's.
LEMMA PairAlone ==
    ASSUME NetInv, SideInv, LoneInv, NEW c, NEW A, NEW B, NEW s, NEW n, IsPair(c, A, B, s, n)
    PROVE  /\ \A e \in Used : frame[e] # 0 /\ frame[e] = frame[s] => e = s
           /\ \A e \in Used : frame[e] # 0 /\ frame[e] = frame[n] => e = n
           /\ frame[s] # 0 => frame[s] # frame[n]
           /\ \A e \in Used : Mate(e) = s => e = n
           /\ \A e \in Used : Mate(e) = n => e = s
<1>1. c \in 1 .. Len(conns) /\ LoneConn(c) BY DEF IsPair
<1>2. /\ \A e \in Used : frame[e] # 0 /\ frame[e] = frame[s] => e = s
      /\ \A e \in Used : frame[e] # 0 /\ frame[e] = frame[n] => e = n
  BY <1>1, LoneWindows DEF IsPair
<1>3. s \in Used /\ n \in Used /\ s # n /\ Mate(s) = n /\ Mate(n) = s BY PairIs
<1>4. \A e \in Used : Mate(Mate(e)) = e BY EndIs DEF Used
<1> QED BY <1>2, <1>3, <1>4

\* The two are where they were if nothing of theirs has changed but that a
\* thread reads again, or that a window has been taken down.
LEMMA Aside ==
    ASSUME NetInv, SideInv, LoneInv, [NetNext]_netVars,
           NEW c, NEW A, NEW B, NEW s, NEW n, IsPair(c, A, B, s, n),
           countMsg'[s] = countMsg[s], countMsg'[n] = countMsg[n],
           streams'[s] = streams[s], streams'[n] = streams[n],
           s \in closed' <=> s \in closed, n \in closed' <=> n \in closed,
           thread'[s] = thread[s],
           thread'[n] = thread[n] \/ (thread'[n] = "reading" /\ thread[n] \in {"none", "deriving"}),
           frame'[s] = frame[s], frame'[n] = frame[n], sending'[n] = sending[n],
           Errand(A, B)' = Errand(A, B), Errand(B, A)' = Errand(B, A),
           frame[s] # 0 => /\ frames'[frame[s]].enabled <=> frames[frame[s]].enabled
                           /\ frames'[frame[s]].shown => frames[frame[s]].shown,
           frame[n] # 0 /\ frames'[frame[n]].shown => frames[frame[n]].shown
    PROVE  Handshake(A, B, s, n)'
<1>1. Handshake(A, B, s, n) /\ EndFits(s) BY PairIs
<1>2. thread[s] # "none" => frame[s] # 0 BY PairHas
<1>3. frame[s] # 0 => frames'[frame[s]].type = frames[frame[s]].type
  BY <1>1, WindowsKept, PairIs DEF EndFits
<1>4. CallerSide(A, B, s, n)' BY <1>1, <1>2, <1>3 DEF Handshake, CallerSide
<1>5. CalledSide(A, B, s, n)' BY <1>1 DEF Handshake, CalledSide
<1>6. StreamsFit(s, n)' BY <1>1 DEF Handshake, StreamsFit
<1>7. Answered(A, B, s, n)' BY <1>1 DEF Handshake, Answered, Lost
<1> QED BY <1>4, <1>5, <1>6, <1>7 DEF Handshake

\* The same where writers, ends and windows are other than theirs.
LEMMA AsideWindows ==
    ASSUME NetInv, SideInv, LoneInv, [NetNext]_netVars,
           NEW c, NEW A, NEW B, NEW s, NEW n, IsPair(c, A, B, s, n),
           countMsg'[s] = countMsg[s], countMsg'[n] = countMsg[n],
           streams'[s] = streams[s], streams'[n] = streams[n],
           s \in closed' <=> s \in closed, n \in closed' <=> n \in closed,
           thread'[s] = thread[s],
           thread'[n] = thread[n] \/ (thread'[n] = "reading" /\ thread[n] \in {"none", "deriving"}),
           frame'[s] = frame[s], frame'[n] = frame[n], sending'[n] = sending[n],
           Errand(A, B)' = Errand(A, B), Errand(B, A)' = Errand(B, A),
           \/ frames' = frames
           \/ \E w \in Windows : frames' = Append(frames, w)
           \/ \E k \in Nat : /\ k = 0 \/ (k # frame[s] /\ k # frame[n])
                             /\ \/ \E b \in BOOLEAN : frames' = [frames EXCEPT ![k].shown = b]
                                \/ \E b \in BOOLEAN : frames' = [frames EXCEPT ![k].enabled = b]
           \/ \E k \in Nat : frames' = [frames EXCEPT ![k].shown = FALSE]
    PROVE  Handshake(A, B, s, n)'
<1>1. TypeInv /\ EndFits(s) /\ EndFits(n) /\ frames \in Seq(Windows) /\ Len(frames) \in Nat
      /\ s \in Used /\ n \in Used
  BY PairIs, WindowsKept DEF TypeInv
<1>2. ASSUME NEW f \in 1 .. Len(frames), f = frame[s] \/ f = frame[n], f # 0
      PROVE  /\ frames'[f].enabled <=> frames[f].enabled
             /\ frames'[f].shown => frames[f].shown
  <2>1. CASE frames' = frames BY <2>1
  <2>2. ASSUME NEW w \in Windows, frames' = Append(frames, w)
        PROVE  frames'[f] = frames[f]
    BY <1>1, <2>2, AppendProperties
  <2>3. ASSUME NEW k \in Nat, k = 0 \/ (k # frame[s] /\ k # frame[n]), NEW b \in BOOLEAN,
               \/ frames' = [frames EXCEPT ![k].shown = b]
               \/ frames' = [frames EXCEPT ![k].enabled = b]
        PROVE  /\ frames'[f].enabled = frames[f].enabled
               /\ frames'[f].shown = frames[f].shown
    <3>1. k # f BY <1>2, <2>3
    <3>2. /\ [frames EXCEPT ![k].shown = b][f].shown = frames[f].shown
          /\ [frames EXCEPT ![k].shown = b][f].enabled = frames[f].enabled
          /\ [frames EXCEPT ![k].enabled = b][f].enabled = frames[f].enabled
          /\ [frames EXCEPT ![k].enabled = b][f].shown = frames[f].shown
      BY <1>1, <3>1, WindowSet
    <3> QED BY <2>3, <3>2
  <2>4. ASSUME NEW k \in Nat, frames' = [frames EXCEPT ![k].shown = FALSE]
        PROVE  /\ frames'[f].enabled = frames[f].enabled
               /\ frames'[f].shown => frames[f].shown
    <3>1. /\ [frames EXCEPT ![k].shown = FALSE][f].shown = IF f = k THEN FALSE ELSE frames[f].shown
          /\ [frames EXCEPT ![k].shown = FALSE][f].enabled = frames[f].enabled
      BY <1>1, WindowSet
    <3> QED BY <2>4, <3>1
  <2> QED BY <2>1, <2>2, <2>3, <2>4
<1>3. frame[s] # 0 => frame[s] \in 1 .. Len(frames) BY <1>1 DEF EndFits
<1>4. frame[n] # 0 => frame[n] \in 1 .. Len(frames) BY <1>1 DEF EndFits
<1>5. frame[s] # 0 => /\ frames'[frame[s]].enabled <=> frames[frame[s]].enabled
                      /\ frames'[frame[s]].shown => frames[frame[s]].shown
  BY <1>2, <1>3
<1>6. frame[n] # 0 /\ frames'[frame[n]].shown => frames[frame[n]].shown
  BY <1>2, <1>4
<1> QED BY <1>5, <1>6, Aside

\* What is written between others changes nothing that the two write.
LEMMA ErrandsStay ==
    ASSUME NetInv, SideInv, LoneInv, NEW c, NEW A, NEW B, NEW s, NEW n, IsPair(c, A, B, s, n),
           NEW t \in Writers, NEW x, sending' = [sending EXCEPT ![t] = x], t # n,
           t = A => sending[t].message.to # B /\ x.message.to # B,
           t = B => sending[t].message.to # A /\ x.message.to # A
    PROVE  /\ sending'[n] = sending[n]
           /\ Errand(A, B)' = Errand(A, B) /\ Errand(B, A)' = Errand(B, A)
<1>1. /\ A \in Writers /\ B \in Writers /\ n \in Writers /\ A # B
      /\ sending \in [Writers -> Errands]
  BY PairIs DEF TypeInv
<1>2. /\ A # t => sending'[A] = sending[A]
      /\ B # t => sending'[B] = sending[B]
      /\ sending'[n] = sending[n] /\ sending'[t] = x
  BY <1>1
<1> QED BY <1>2 DEF Errand

LEMMA HandStart ==
    ASSUME NetInv, SideInv, LoneInv, [NetNext]_netVars,
           NEW c, NEW A, NEW B, NEW s, NEW n, IsPair(c, A, B, s, n), Lone(A, B)',
           NEW u \in Users, NEW v \in Users, StartCall(u, v)
    PROVE  Handshake(A, B, s, n)'
<1> USE DEF userVars, threadVars
<1>1. A \in Users /\ B \in Users /\ A # B /\ n \notin Users /\ TypeInv BY PairIs
<1>2. ~ (u = A /\ v = B) /\ ~ (u = B /\ v = A)
  <2>1. calls' = [calls EXCEPT ![u] = [calls[u] EXCEPT ![v] = calls[u][v] + 1]]
    BY DEF StartCall
  <2>2. calls \in [Users -> [Users -> Nat]] BY <1>1 DEF TypeInv
  <2>3. calls[u] \in [Users -> Nat] BY <2>2
  <2>4. calls'[u][v] = calls[u][v] + 1 BY <2>1, <2>2, <2>3
  <2>5. /\ calls[A][B] \in Nat /\ calls[B][A] \in Nat /\ calls'[A][B] \in Nat /\ calls'[B][A] \in Nat
        /\ calls[A][B] <= calls'[A][B] /\ calls[B][A] <= calls'[B][A]
        /\ calls'[A][B] + calls'[B][A] <= 1
    <3>1. calls'[A][B] + calls'[B][A] <= 1 BY DEF Lone
    <3> QED BY <1>1, <3>1, CallsGrow
  <2>6. calls[A][B] = 1
    <3>1. c \in 1 .. Len(conns) /\ LoneConn(c) BY DEF IsPair
    <3> QED BY <3>1 DEF IsPair, LoneInv, OneConn
  <2> QED BY <2>4, <2>5, <2>6
<1>3. PICK x : /\ x = Sends(TokenTo(boards'[STARTER], u, v), Len(frames'))
               /\ sending' = [sending EXCEPT ![u] = x]
  BY DEF StartCall
<1>4. x.message.to = v BY <1>3 DEF Sends, TokenTo
<1>5. sending[u].message.to \notin Users
  BY NetworkAssumption DEF StartCall, EventFree, Nothing, EndOfChat
<1>6. /\ sending'[n] = sending[n]
      /\ Errand(A, B)' = Errand(A, B) /\ Errand(B, A)' = Errand(B, A)
  <2>1. u \in Writers /\ u # n BY <1>1, WritersAre
  <2>2. u = A => sending[u].message.to # B /\ x.message.to # B BY <1>1, <1>2, <1>4, <1>5
  <2>3. u = B => sending[u].message.to # A /\ x.message.to # A BY <1>1, <1>2, <1>4, <1>5
  <2>4. A \in Writers /\ B \in Writers /\ n \in Writers BY PairIs
  <2>5. \A d \in Writers : sending'[d] = IF d = u THEN x ELSE sending[d]
    BY <1>1, <1>3 DEF TypeInv
  <2> QED BY <2>1, <2>2, <2>3, <2>4, <2>5 DEF Errand
<1>7. \E w \in Windows : frames' = Append(frames, w)
  <2>1. PICK w : /\ w = [user |-> u, dest |-> v, type |-> STARTER, enabled |-> FALSE, shown |-> TRUE]
                 /\ frames' = Append(frames, w)
    BY DEF StartCall
  <2>2. w \in Windows BY <2>1 DEF Windows
  <2> QED BY <2>1, <2>2
<1>8. UNCHANGED <<countMsg, streams, closed, thread, frame>> BY DEF StartCall
<1> QED BY <1>6, <1>7, <1>8, AsideWindows

LEMMA HandReach ==
    ASSUME NetInv, SideInv, LoneInv, [NetNext]_netVars,
           NEW c, NEW A, NEW B, NEW s, NEW n, IsPair(c, A, B, s, n),
           NEW t \in Writers, Reach(t)
    PROVE  Handshake(A, B, s, n)'
<1> USE DEF userVars, threadVars
<1>1. ~ Between(c, Writer(t), Target(t))
  <2>1. c \in 1 .. Len(conns) /\ LoneConn(c) BY DEF IsPair
  <2> QED BY <2>1, NoSecond
<1>2. sending' = [sending EXCEPT ![t] = sending'[t]] /\ sending'[t].message = sending[t].message
  BY ReachedIs
<1>3. t # n
  <2>1. ASSUME t = n PROVE Between(c, Writer(t), Target(t))
    <3>1. Writer(n) = B /\ sending[n] # Nothing BY <2>1, PairIs DEF Writer, Reach, HasToWrite
    <3>2. Target(n) = A BY <3>1, PairIs DEF NetInv, WriterFits, Target
    <3> QED BY <2>1, <3>1, <3>2 DEF IsPair, Between
  <2> QED BY <1>1, <2>1
<1>4. ASSUME t = A PROVE sending[t].message.to # B
  BY <1>1, <1>4, PairIs DEF IsPair, Between, Writer, Target
<1>5. ASSUME t = B PROVE sending[t].message.to # A
  BY <1>1, <1>5, PairIs DEF IsPair, Between, Writer, Target
<1>6. /\ sending'[n] = sending[n]
      /\ Errand(A, B)' = Errand(A, B) /\ Errand(B, A)' = Errand(B, A)
  BY <1>2, <1>3, <1>4, <1>5, ErrandsStay
<1>7. UNCHANGED <<countMsg, streams, closed, thread, frame, frames>> BY DEF Reach
<1> QED BY <1>6, <1>7, AsideWindows

\* The connection that has just been opened.
LEMMA HandNew ==
    ASSUME NetInv, SideInv, LoneInv, [NetNext]_netVars,
           NEW t \in Writers, Reach(t), NEW c, c = Len(conns) + 1,
           NEW A, NEW B, NEW s, NEW n, A = Writer(t), B = Target(t), s = S(c), n = N(c), Lone(A, B)
    PROVE  Handshake(A, B, s, n)'
<1> USE DEF userVars, threadVars
<1>1. /\ t = A /\ A \in Users /\ B \in Users /\ A # B
      /\ sending[A].message.kind = "token" /\ sending[A].message.to = B
      /\ Errand(B, A) = Nothing
  BY FirstConn
<1>2. TypeInv /\ A \in Writers /\ B \in Writers BY <1>1, WritersAre DEF NetInv
<1>3. /\ s \in Ends /\ n \in Ends /\ s \notin Used /\ n \notin Used /\ n \notin Users /\ n \in Writers
      /\ s[1] = c /\ c # 0
  <2>1. Len(conns) \in Nat /\ Len(conns) < MaxConns BY <1>2, OwnersAre DEF Reach
  <2>2. c \in 1 .. MaxConns /\ c # 0 /\ ~ (c <= Len(conns)) BY <2>1, NetworkAssumption
  <2>3. s \in Ends /\ n \in Ends /\ s[1] = c /\ n[1] = c BY <2>2, EndsOf, EndsAre
  <2> QED BY <2>2, <2>3, EndsAre, WritersAre DEF Used
<1>4. /\ thread[s] = "none" /\ thread[n] = "none" /\ streams[s] = <<>> /\ streams[n] = <<>>
      /\ countMsg[s] = 0 /\ countMsg[n] = 0 /\ frame[s] = 0 /\ frame[n] = 0
      /\ s \notin closed /\ n \notin closed
  BY <1>3 DEF NetInv, EndFits
<1>5. sending[n] = Nothing BY <1>3 DEF NetInv, WriterFits
<1>6. /\ sending' = [sending EXCEPT ![t] = sending'[t]] /\ sending'[t].message = sending[t].message
      /\ sending'[t].reached = c
  <2>1. Len(conns') = c BY ReachAdds
  <2> QED BY <2>1, ReachedIs
<1>7. sending'[n] = Nothing /\ sending'[B] = sending[B]
  BY <1>1, <1>2, <1>3, <1>5, <1>6 DEF TypeInv
<1>8. /\ Errand(A, B)'.message.kind = "token" /\ Errand(A, B)'.reached = c
      /\ Errand(B, A)' = Nothing
  BY <1>1, <1>6, <1>7 DEF Errand
<1>9. UNCHANGED <<countMsg, streams, closed, thread, frame, frames>> BY DEF Reach
<1>10. CallerSide(A, B, s, n)' BY <1>3, <1>4, <1>8, <1>9 DEF CallerSide
<1>11. CalledSide(A, B, s, n)' BY <1>4, <1>7, <1>8, <1>9 DEF CalledSide
<1>12. StreamsFit(s, n)'
  <2>1. Len(streams'[s]) = 0 /\ Len(streams'[n]) = 0 BY <1>4, <1>9, EmptySeq
  <2> QED BY <1>4, <1>9, <2>1 DEF StreamsFit
<1>13. Answered(A, B, s, n)' BY <1>4, <1>9 DEF Answered
<1> QED BY <1>10, <1>11, <1>12, <1>13 DEF Handshake

LEMMA HandJoin ==
    ASSUME NetInv, SideInv, LoneInv, [NetNext]_netVars,
           NEW c, NEW A, NEW B, NEW s, NEW n, IsPair(c, A, B, s, n),
           NEW t \in Writers, Join(t)
    PROVE  Handshake(A, B, s, n)'
<1> USE DEF userVars, threadVars
<1>1. PICK k, e, f : k = sending[t].reached /\ e = <<k, STARTER>> /\ f = sending[t].frame OBVIOUS
<1>2. /\ HasToWrite(t) /\ k # 0 /\ thread[e] = "none"
      /\ frame' = [frame EXCEPT ![e] = f] /\ thread' = [thread EXCEPT ![e] = "reading"]
      /\ countMsg' = [countMsg EXCEPT ![e] = 1]
      /\ UNCHANGED <<frames, streams, closed, conns>>
  BY <1>1 DEF Join
<1>3. /\ k \in 1 .. Len(conns) /\ e = S(k) /\ e \in Ends
      /\ conns[k].from = Writer(t) /\ conns[k].to = Target(t)
  <2>1. /\ k \in 1 .. Len(conns) /\ S(k) \in Used
        /\ conns[k].from = Writer(t) /\ conns[k].to = Target(t)
    BY <1>1, <1>2, WriterIs
  <2> QED BY <1>1, <2>1 DEF S, Used
<1>4. /\ sending' = [sending EXCEPT ![t] = sending'[t]] /\ sending'[t].message = sending[t].message
      /\ sending'[t].frame = sending[t].frame
  BY ReachedIs
<1>5. /\ TypeInv /\ s \in Ends /\ n \in Ends /\ s # n /\ A # B /\ A \in Users /\ B \in Users
      /\ A \in Writers /\ B \in Writers /\ n \in Writers /\ n \notin Users
      /\ c \in 1 .. Len(conns) /\ LoneConn(c) /\ s = S(c) /\ n = N(c)
      /\ conns[c].from = A /\ conns[c].to = B
  BY PairIs DEF IsPair
<1>6. CASE k # c
  <2>1. ~ Between(k, A, B)
    BY <1>3, <1>5, <1>6 DEF LoneInv, OneConn
  <2>2. e # s /\ e # n BY <1>3, <1>5, <1>6, EndsAre
  <2>3. UNCHANGED <<thread[s], thread[n], countMsg[s], countMsg[n], frame[s], frame[n]>>
    BY <1>2, <1>5, <2>2 DEF TypeInv
  <2>4. t # n
    <3>1. ASSUME t = n PROVE FALSE
      <4>1. Writer(n) = B /\ sending[n] # Nothing BY <3>1, PairIs DEF Writer, Join, HasToWrite
      <4>2. Target(n) = A BY <4>1, PairIs DEF NetInv, WriterFits, Target
      <4> QED BY <1>3, <2>1, <3>1, <4>1, <4>2 DEF Between
    <3> QED BY <3>1
  <2>5. ASSUME t = A PROVE sending[t].message.to # B
    BY <1>3, <1>5, <2>1, <2>5 DEF Between, Writer, Target
  <2>6. ASSUME t = B PROVE sending[t].message.to # A
    BY <1>3, <1>5, <2>1, <2>6 DEF Between, Writer, Target
  <2>7. /\ sending'[n] = sending[n]
        /\ Errand(A, B)' = Errand(A, B) /\ Errand(B, A)' = Errand(B, A)
    BY <1>4, <2>4, <2>5, <2>6, ErrandsStay
  <2> QED BY <1>2, <2>3, <2>7, AsideWindows
<1>7. CASE k = c
  <2>1. e = s /\ Writer(t) = A /\ Target(t) = B BY <1>3, <1>5, <1>7
  <2>2. t = A BY <1>2, <1>5, <2>1, LoneChats
  <2>3. Errand(A, B) = sending[A] /\ Handshake(A, B, s, n)
    BY <2>1, <2>2, PairIs DEF Errand, Target
  <2>4. /\ sending[A].message.kind = "token" /\ streams[s] = <<>> /\ streams[n] = <<>>
        /\ countMsg[n] = 0
    <3>1. sending[A].message.kind \in {"token", "cipher"} BY <1>2, <2>2, WriterIs
    <3> QED BY <1>1, <1>2, <2>2, <2>3, <3>1 DEF Handshake, CallerSide
  <2>5. frame[n] = 0 /\ sending[n] = Nothing /\ s \notin closed /\ frame[s] = 0
    BY <1>2, <2>1, <2>4, PairHas, PairIs DEF EndFits
  <2>6. /\ thread'[s] = "reading" /\ countMsg'[s] = 1 /\ frame'[s] = f
        /\ thread'[n] = thread[n] /\ countMsg'[n] = countMsg[n] /\ frame'[n] = frame[n]
    BY <1>2, <1>5, <2>1 DEF TypeInv
  <2>7. /\ f \in 1 .. Len(frames) /\ frames[f].user = A /\ frames[f].dest = B /\ f # 0
    <3>1. WriterFits(t) /\ sending[t] # Nothing /\ f \in Nat \ {0}
      BY <1>1, <1>2, WriterIs DEF NetInv, HasToWrite
    <3> QED BY <1>1, <2>1, <2>2, <3>1 DEF WriterFits, Target
  <2>8. frames[f].type = STARTER
    BY <1>1, <1>2, <1>5, <2>2, <2>4 DEF LoneInv, Occupied, HasToWrite
  <2>9. ~ frames[f].enabled
    <3>1. ASSUME NEW d \in 1 .. Len(conns), frame[S(d)] = f PROVE FALSE
      <4>1. S(d) \in Used /\ S(d) \in Ends /\ Owner(S(d)) = conns[d].from /\ Mate(S(d)) = N(d)
            /\ Owner(N(d)) = conns[d].to
        BY <1>5, OwnersAre, EndsAre
      <4>2. EndFits(S(d)) BY <4>1 DEF NetInv
      <4>3. conns[d].from = A /\ conns[d].to = B BY <2>7, <3>1, <4>1, <4>2 DEF EndFits
      <4>4. d = c BY <1>5, <4>3 DEF LoneInv, OneConn, Between
      <4> QED BY <1>5, <2>5, <2>7, <3>1, <4>4
    <3>2. WindowCalled(f) BY <2>7 DEF LoneInv
    <3> QED BY <2>8, <3>1, <3>2 DEF WindowCalled
  <2>10. /\ sending'[n] = Nothing /\ sending'[B] = sending[B]
         /\ sending'[A].reached = 0 /\ sending'[A].message = sending[A].message
         /\ sending'[A].frame = f /\ sending'[A] # Nothing
    <3>1. sending' = [sending EXCEPT ![t].reached = 0] BY DEF Join
    <3>2. sending[t] \in Errands /\ sending[t] # Nothing BY <1>2, <1>5, <2>2 DEF TypeInv, HasToWrite
    <3>3. sending'[A] = [sending[A] EXCEPT !.reached = 0] BY <1>5, <2>2, <3>1 DEF TypeInv
    <3>4. sending'[A].reached = 0 BY <2>2, <3>2, <3>3 DEF Errands
    <3>5. sending'[n] = Nothing /\ sending'[B] = sending[B]
      BY <1>5, <2>2, <2>5, <3>1 DEF TypeInv
    <3> QED BY <1>1, <1>4, <2>2, <3>4, <3>5, ReachedIs
  <2>11. /\ Errand(A, B)' = sending'[A] /\ Errand(B, A)' = Errand(B, A)
    <3>1. sending[A].message.to = B BY <2>1, <2>2 DEF Target
    <3> QED BY <2>10, <3>1 DEF Errand
  <2>12. CallerSide(A, B, s, n)'
    BY <1>2, <2>4, <2>5, <2>6, <2>8, <2>9, <2>10, <2>11 DEF CallerSide
  <2>13. CalledSide(A, B, s, n)'
    BY <1>2, <2>3, <2>5, <2>6, <2>10, <2>11 DEF CalledSide, Handshake
  <2>14. StreamsFit(s, n)'
    <3>1. Len(streams'[s]) = 0 /\ Len(streams'[n]) = 0 BY <1>2, <2>4, EmptySeq
    <3> QED BY <1>2, <2>4, <2>6, <3>1 DEF StreamsFit
  <2>15. Answered(A, B, s, n)' BY <2>4, <2>6, <2>10, <2>11 DEF Answered
  <2> QED BY <2>12, <2>13, <2>14, <2>15 DEF Handshake
<1> QED BY <1>6, <1>7

LEMMA HandWrite ==
    ASSUME NetInv, SideInv, LoneInv, [NetNext]_netVars,
           NEW c, NEW A, NEW B, NEW s, NEW n, IsPair(c, A, B, s, n),
           NEW t \in Writers, WriteFound(t)
    PROVE  Handshake(A, B, s, n)'
<1> USE DEF userVars, threadVars
<1>1. PICK w, v, a, m : w = Writer(t) /\ v = Target(t) /\ a = Find(w, v) /\ m = sending[t].message
  OBVIOUS
<1>2. /\ HasToWrite(t) /\ sending[t].reached = 0 /\ IsListed(w, v)
      /\ streams' = AfterWriting(a, m) /\ sending' = [sending EXCEPT ![t] = Nothing]
      /\ thread' = IF t \in Users THEN thread ELSE [thread EXCEPT ![t] = "deriving"]
      /\ UNCHANGED <<frames, conns, dest, frame, countMsg, closed>>
  BY <1>1 DEF WriteFound
<1>3. /\ w \in Users /\ v \in Users /\ v # Nobody /\ m \in Messages /\ m.to = v /\ m.from = w
      /\ m.kind \in {"token", "cipher"}
  BY <1>1, <1>2, WriterIs
<1>4. /\ TypeInv /\ s \in Ends /\ n \in Ends /\ s # n /\ A # B /\ A \in Users /\ B \in Users
      /\ s \in Used /\ n \in Used /\ s \notin Writers /\ Mate(s) = n /\ Mate(n) = s
      /\ A \in Writers /\ B \in Writers /\ n \in Writers /\ n \notin Users
      /\ c \in 1 .. Len(conns) /\ LoneConn(c) /\ s = S(c) /\ n = N(c)
      /\ conns[c].from = A /\ conns[c].to = B
  BY PairIs DEF IsPair
<1>5. a \in Ends /\ a \in Used /\ thread[a] # "none"
  <2>1. a \in Ends /\ InList(w, a) BY <1>1, <1>2, <1>3, <1>4, FindFinds
  <2> QED BY <1>3, <2>1 DEF NetInv, ListFits
<1>6. /\ \A d \in Ends : d # Mate(a) => streams'[d] = streams[d]
      /\ streams'[Mate(a)] = IF Mate(a) \in closed \/ thread[Mate(a)] = "ended"
                             THEN streams[Mate(a)] ELSE Append(streams[Mate(a)], m)
  BY <1>2, <1>3, <1>4, <1>5, Writing
<1>7. /\ a = s => w = A /\ v = B
      /\ a = n => w = B /\ v = A
      /\ w = A /\ v = B => t = A /\ a = s
      /\ w = B /\ v = A => a = n /\ (t = B \/ t = n)
  BY <1>1, <1>2, <1>3, <1>4, LoneChats
<1>8. Handshake(A, B, s, n) BY PairIs
<1>9. /\ countMsg[s] \in Nat /\ countMsg[n] \in Nat
      /\ streams[s] \in Seq(Messages) /\ streams[n] \in Seq(Messages)
      /\ thread[s] \in {"none", "reading", "ended"}
      /\ sending[n] # Nothing => /\ thread[n] = "answering" /\ sending[n].message.kind = "token"
                                 /\ countMsg[n] = 1
      /\ Nothing.message.kind = "END" /\ Nothing.frame = 0
  BY PairHas
<1>10. t \in Users => w = t BY <1>1 DEF Writer
<1>11. t = n => w = B /\ v = A
  <2>1. ASSUME t = n PROVE w = B /\ v = A
    <3>1. Writer(n) = B /\ sending[n] # Nothing BY <1>2, <2>1, PairIs DEF Writer, HasToWrite
    <3>2. Target(n) = A BY <3>1, PairIs DEF NetInv, WriterFits, Target
    <3> QED BY <1>1, <2>1, <3>1, <3>2
  <2> QED BY <2>1
<1>12. \A d \in Writers : sending'[d] = IF d = t THEN Nothing ELSE sending[d]
  BY <1>2, <1>4 DEF TypeInv
<1>13. \A d \in Ends : thread'[d] = IF d = t THEN "deriving" ELSE thread[d]
  BY <1>2, <1>4, NetworkAssumption DEF TypeInv
<1>14. Nothing.message.to \notin Users BY NetworkAssumption DEF Nothing, EndOfChat
<1>15. CASE w = A /\ v = B
  <2>1. t = A /\ a = s /\ Errand(A, B) = sending[A] /\ Mate(a) = n
    BY <1>1, <1>3, <1>4, <1>7, <1>15 DEF Errand
  <2>2. /\ Errand(A, B)' = Nothing /\ Errand(B, A)' = Errand(B, A)
        /\ sending'[n] = sending[n] /\ thread'[s] = thread[s] /\ thread'[n] = thread[n]
    BY <1>4, <1>12, <1>13, <1>14, <2>1 DEF Errand
  <2>3. sending[A] # Nothing /\ sending[A].message = m /\ sending[A].reached = 0
    BY <1>1, <1>2, <2>1 DEF HasToWrite
  <2>4. streams'[s] = streams[s] BY <1>4, <1>6, <2>1
  <2>5. streams'[n] = IF n \in closed \/ thread[n] = "ended" THEN streams[n]
                      ELSE Append(streams[n], m)
    BY <1>6, <2>1
  <2>6. thread[s] # "none" /\ s \notin closed
    BY <1>3, <1>8, <2>1, <2>3 DEF Handshake, CallerSide
  <2>7. CallerSide(A, B, s, n)'
    BY <1>2, <1>8, <1>9, <2>2, <2>6 DEF Handshake, CallerSide
  <2>8. CalledSide(A, B, s, n)'
    BY <1>2, <1>8, <2>2, <2>4 DEF Handshake, CalledSide
  <2>9. CASE m.kind = "token"
    <3>1. /\ countMsg[s] = 1 /\ streams[s] = <<>> /\ streams[n] = <<>> /\ countMsg[n] = 0
      BY <1>8, <2>1, <2>3, <2>9 DEF Handshake, CallerSide
    <3>2. CASE n \in closed \/ thread[n] = "ended"
      <4>1. Len(streams'[s]) = 0 /\ Len(streams'[n]) = 0 BY <2>4, <2>5, <3>1, <3>2, EmptySeq
      <4>2. StreamsFit(s, n)' BY <1>2, <2>4, <3>1, <4>1 DEF StreamsFit
      <4>3. Answered(A, B, s, n)' BY <1>2, <2>2, <3>1, <3>2 DEF Answered, Lost
      <4> QED BY <2>7, <2>8, <4>2, <4>3 DEF Handshake
    <3>3. CASE ~ (n \in closed \/ thread[n] = "ended")
      <4>1. streams'[n] = Append(streams[n], m) BY <2>5, <3>3
      <4>2. Len(streams[n]) = 0 /\ Len(streams'[s]) = 0 BY <2>4, <3>1, EmptySeq
      <4>3. Len(streams'[n]) = 1 /\ streams'[n][1] = m BY <1>3, <1>9, <4>1, <4>2, StreamIs
      <4>4. StreamsFit(s, n)' BY <1>2, <2>4, <2>9, <3>1, <4>2, <4>3 DEF StreamsFit
      <4>5. thread[s] = "reading" BY <1>8, <2>6, <3>1, <3>3 DEF Handshake, Answered, Lost
      <4>6. streams'[n] # <<>> BY <4>3, EmptySeq
      <4>7. Answered(A, B, s, n)' BY <1>2, <2>2, <3>1, <4>5, <4>6 DEF Answered
      <4> QED BY <2>7, <2>8, <4>4, <4>7 DEF Handshake
    <3> QED BY <3>2, <3>3
  <2>10. CASE m.kind = "cipher"
    <3>1. countMsg[s] >= 2 /\ countMsg[n] >= 1
      BY <1>8, <2>1, <2>3, <2>10 DEF Handshake, CallerSide, StreamsFit
    <3>2. \A i \in 1 .. Len(streams'[n]) :
             \/ i \in 1 .. Len(streams[n]) /\ streams'[n][i] = streams[n][i]
             \/ streams'[n][i] = m
      <4>1. /\ Len(Append(streams[n], m)) = Len(streams[n]) + 1 /\ Len(streams[n]) \in Nat
            /\ Append(streams[n], m)[Len(streams[n]) + 1] = m
            /\ \A i \in 1 .. Len(streams[n]) : Append(streams[n], m)[i] = streams[n][i]
        BY <1>3, <1>9, StreamIs
      <4> QED BY <2>5, <4>1
    <3>3. StreamsFit(s, n)'
      BY <1>2, <1>8, <1>9, <2>4, <2>10, <3>1, <3>2 DEF Handshake, StreamsFit
    <3>4. Answered(A, B, s, n)' BY <1>2, <1>9, <3>1 DEF Answered
    <3> QED BY <2>7, <2>8, <3>3, <3>4 DEF Handshake
  <2> QED BY <1>3, <2>9, <2>10
<1>16. CASE w = B /\ v = A
  <2>1. a = n /\ Mate(a) = s /\ (t = B \/ t = n) BY <1>4, <1>7, <1>16
  <2>2. streams'[n] = streams[n] BY <1>4, <1>6, <2>1
  <2>3. streams'[s] = IF s \in closed \/ thread[s] = "ended" THEN streams[s]
                      ELSE Append(streams[s], m)
    BY <1>6, <2>1
  <2>4. thread'[s] = thread[s] /\ thread'[n] = (IF t = n THEN "deriving" ELSE thread[n])
    BY <1>4, <1>13
  <2>5. /\ Errand(A, B)' = Errand(A, B)
        /\ sending'[n] = Nothing \/ t # n
        /\ Errand(B, A)' = Nothing \/ (t = n /\ Errand(B, A)' = Errand(B, A))
        /\ t = n \/ sending'[n] = sending[n]
    BY <1>4, <1>12, <1>14, <2>1 DEF Errand
  <2>6. CASE t = B
    <3>1. Errand(B, A) = sending[B] /\ sending[B] # Nothing /\ sending[B].message = m
      BY <1>1, <1>2, <1>3, <1>16, <2>6 DEF Errand, HasToWrite
    <3>2. m.kind = "cipher" /\ sending[B].frame = frame[n]
      BY <1>8, <3>1 DEF Handshake, CalledSide
    <3>3. frames[frame[n]].shown /\ frame[n] # 0
      <4>1. Occupied(B) BY <1>4 DEF LoneInv
      <4>2. sending[B].frame # 0 BY <1>2, <2>6, WriterIs
      <4> QED BY <3>1, <3>2, <4>1, <4>2 DEF Occupied
    <3>4. countMsg[n] >= 2 /\ n \notin closed /\ countMsg[s] >= 2
      BY <1>8, <3>3 DEF Handshake, CalledSide, StreamsFit
    <3>5. t # n /\ Errand(B, A)' = Nothing /\ Errand(A, B)' = Errand(A, B) /\ thread'[n] = thread[n]
          /\ sending'[n] = sending[n]
      BY <1>4, <1>12, <1>14, <2>4, <2>5, <2>6 DEF Errand
    <3>6. \A i \in 1 .. Len(streams'[s]) :
             \/ i \in 1 .. Len(streams[s]) /\ streams'[s][i] = streams[s][i]
             \/ streams'[s][i] = m
      <4>1. /\ Len(Append(streams[s], m)) = Len(streams[s]) + 1 /\ Len(streams[s]) \in Nat
            /\ Append(streams[s], m)[Len(streams[s]) + 1] = m
            /\ \A i \in 1 .. Len(streams[s]) : Append(streams[s], m)[i] = streams[s][i]
        BY <1>3, <1>9, StreamIs
      <4> QED BY <2>3, <4>1
    <3>7. Errand(A, B).message.kind # "token" /\ sending[n] = Nothing
      BY <1>8, <1>9, <3>4 DEF Handshake, CallerSide, CalledSide
    <3>8. CallerSide(A, B, s, n)'
      BY <1>2, <1>8, <2>4, <3>5, <3>7 DEF Handshake, CallerSide
    <3>9. CalledSide(A, B, s, n)'
      BY <1>2, <1>8, <3>5, <3>7 DEF Handshake, CalledSide
    <3>10. StreamsFit(s, n)'
      BY <1>2, <1>8, <1>9, <2>2, <3>2, <3>4, <3>6 DEF Handshake, StreamsFit
    <3>11. Answered(A, B, s, n)' BY <1>2, <1>9, <3>4 DEF Answered
    <3> QED BY <3>8, <3>9, <3>10, <3>11 DEF Handshake
  <2>7. CASE t = n
    <3>1. /\ sending[n] # Nothing /\ m.kind = "token" /\ thread[n] = "answering" /\ countMsg[n] = 1
          /\ countMsg[s] = 1 /\ streams[s] = <<>> /\ n \notin closed
      BY <1>1, <1>2, <1>8, <1>9, <2>7 DEF HasToWrite, Handshake, CalledSide
    <3>2. /\ Errand(A, B)' = Errand(A, B) /\ Errand(B, A)' = Errand(B, A)
          /\ sending'[n] = Nothing /\ thread'[n] = "deriving"
      BY <1>4, <1>12, <2>4, <2>7 DEF Errand
    <3>3. Errand(A, B).message.kind # "token" BY <1>8, <3>1 DEF Handshake, CallerSide
    <3>4. CallerSide(A, B, s, n)'
      BY <1>2, <1>8, <2>4, <3>2, <3>3 DEF Handshake, CallerSide
    <3>5. CalledSide(A, B, s, n)'
      BY <1>2, <1>8, <3>1, <3>2 DEF Handshake, CalledSide
    <3>6. CASE s \in closed \/ thread[s] = "ended"
      <4>1. streams'[s] = streams[s] BY <2>3, <3>6
      <4>2. StreamsFit(s, n)' BY <1>2, <1>8, <2>2, <4>1 DEF Handshake, StreamsFit
      <4>3. s \in closed BY <1>8, <3>1, <3>6 DEF Handshake, Answered, Lost
      <4>4. Answered(A, B, s, n)' BY <1>2, <4>3 DEF Answered
      <4> QED BY <3>4, <3>5, <4>2, <4>4 DEF Handshake
    <3>7. CASE ~ (s \in closed \/ thread[s] = "ended")
      <4>1. streams'[s] = Append(streams[s], m) BY <2>3, <3>7
      <4>2. Len(streams[s]) = 0 BY <3>1, EmptySeq
      <4>3. Len(streams'[s]) = 1 /\ streams'[s][1] = m BY <1>3, <1>9, <4>1, <4>2, StreamIs
      <4>4. streams'[s] # <<>> BY <4>3, EmptySeq
      <4>5. StreamsFit(s, n)'
        BY <1>2, <1>8, <1>9, <2>2, <3>1, <4>3 DEF Handshake, StreamsFit
      <4>6. thread[s] = "reading" \/ thread[s] = "none" BY <1>9, <3>7
      <4>7. Answered(A, B, s, n)' BY <1>2, <2>4, <3>1, <4>4, <4>6 DEF Answered
      <4> QED BY <3>4, <3>5, <4>5, <4>7 DEF Handshake
    <3> QED BY <3>6, <3>7
  <2> QED BY <2>1, <2>6, <2>7
<1>17. CASE ~ (w = A /\ v = B) /\ ~ (w = B /\ v = A)
  <2>1. a # s /\ a # n BY <1>7, <1>17
  <2>2. Mate(a) # s /\ Mate(a) # n BY <1>5, <2>1, PairAlone
  <2>3. streams'[s] = streams[s] /\ streams'[n] = streams[n] BY <1>4, <1>6, <2>2
  <2>4. t # n BY <1>11, <1>17
  <2>5. t # s BY <1>4
  <2>6. thread'[s] = thread[s] /\ thread'[n] = thread[n] BY <1>4, <1>13, <2>4, <2>5
  <2>7. t = A => sending[t].message.to # B /\ Nothing.message.to # B
    BY <1>1, <1>3, <1>4, <1>10, <1>14, <1>17
  <2>8. t = B => sending[t].message.to # A /\ Nothing.message.to # A
    BY <1>1, <1>3, <1>4, <1>10, <1>14, <1>17
  <2>9. /\ sending'[n] = sending[n]
        /\ Errand(A, B)' = Errand(A, B) /\ Errand(B, A)' = Errand(B, A)
    BY <1>4, <1>12, <2>4, <2>7, <2>8 DEF Errand
  <2> QED BY <1>2, <2>3, <2>6, <2>9, AsideWindows
<1> QED BY <1>15, <1>16, <1>17

LEMMA HandFirst ==
    ASSUME NetInv, SideInv, LoneInv, [NetNext]_netVars,
           NEW c, NEW A, NEW B, NEW s, NEW n, IsPair(c, A, B, s, n),
           NEW e \in Ends, ReadFirst(e)
    PROVE  Handshake(A, B, s, n)'
<1> USE DEF userVars, threadVars
<1>1. /\ TypeInv /\ s \in Ends /\ n \in Ends /\ s # n /\ A \in Users /\ B \in Users
      /\ A \in Writers /\ B \in Writers /\ n \in Writers /\ n \notin Users /\ s[2] = STARTER
      /\ s \in Used /\ n \in Used /\ Owner(n) = B /\ Owner(s) = A /\ Mate(n) = s
  BY PairIs
<1>2. Handshake(A, B, s, n) BY PairIs
<1>3. /\ countMsg[s] \in Nat /\ countMsg[n] \in Nat
      /\ streams[s] \in Seq(Messages) /\ streams[n] \in Seq(Messages)
      /\ thread[s] # "none" => countMsg[s] >= 1 /\ frame[s] # 0
      /\ countMsg[n] = 0 <=> frame[n] = 0
      /\ Errand(B, A) = Nothing \/ (Errand(B, A) = sending[B] /\ sending[B] # Nothing)
      /\ Nothing.message.kind = "END" /\ Nothing.frame = 0
  BY PairHas
<1>4. Reads(e) /\ countMsg'[e] = 1 BY DEF ReadFirst
<1>5. /\ streams[e] # <<>> /\ streams[e][1] \in Messages /\ streams[e][1].kind # "END"
      /\ Len(streams[e]) \in Nat /\ Len(streams[e]) >= 1
      /\ Len(streams'[e]) = Len(streams[e]) - 1
      /\ \A i \in 1 .. Len(streams'[e]) : /\ i + 1 \in 1 .. Len(streams[e])
                                          /\ streams'[e][i] = streams[e][i + 1]
      /\ countMsg'[e] = countMsg[e] + 1 /\ thread[e] = "reading" /\ e \notin closed /\ e \in Used
      /\ \A d \in Ends : d # e => streams'[d] = streams[d] /\ countMsg'[d] = countMsg[d]
  BY <1>1, <1>4, Reading
<1>6. countMsg[e] = 0 /\ e[2] = NO_STARTER /\ e # s
  <2>1. countMsg[e] \in Nat BY <1>1 DEF TypeInv
  <2>2. countMsg[e] = 0 BY <1>4, <1>5, <2>1
  <2>3. SideFits(e) /\ e[2] \in {STARTER, NO_STARTER} BY EndIs DEF SideInv
  <2>4. e[2] # STARTER BY <1>5, <2>2, <2>3 DEF SideFits
  <2> QED BY <1>1, <2>2, <2>3, <2>4
<1>7. PICK w, x : /\ w = [user |-> Owner(e), dest |-> Owner(Mate(e)), type |-> NO_STARTER,
                          enabled |-> TRUE, shown |-> FALSE]
                  /\ frames' = Append(frames, w)
                  /\ x = Sends(TokenTo(boards'[NO_STARTER], Owner(e), Owner(Mate(e))), Len(frames'))
                  /\ sending' = [sending EXCEPT ![e] = x]
  BY DEF ReadFirst
<1>8. w \in Windows
  <2>1. Owner(e) \in Users /\ Owner(Mate(e)) \in Users BY <1>1, <1>5, OwnersAre
  <2> QED BY <1>7, <2>1 DEF Windows
<1>9. /\ thread' = [thread EXCEPT ![e] = "answering"] /\ frame' = [frame EXCEPT ![e] = Len(frames')]
      /\ closed' = closed /\ conns' = conns
  BY DEF ReadFirst
<1>10. e \notin Users BY NetworkAssumption
<1>11. Errand(A, B)' = Errand(A, B) /\ Errand(B, A)' = Errand(B, A)
  <2>1. sending'[A] = sending[A] /\ sending'[B] = sending[B] BY <1>1, <1>7, <1>10 DEF TypeInv
  <2> QED BY <2>1 DEF Errand
<1>12. CASE e # n
  <2>1. UNCHANGED <<thread[s], thread[n], frame[s], frame[n], sending[n]>>
    BY <1>1, <1>6, <1>7, <1>9, <1>12 DEF TypeInv
  <2>2. UNCHANGED <<streams[s], streams[n], countMsg[s], countMsg[n]>>
    BY <1>1, <1>5, <1>6, <1>12
  <2> QED BY <1>7, <1>8, <1>9, <1>11, <2>1, <2>2, AsideWindows
<1>13. CASE e = n
  <2>1. /\ thread'[s] = thread[s] /\ thread'[n] = "answering" /\ frame'[s] = frame[s]
        /\ frame'[n] = Len(frames') /\ streams'[s] = streams[s] /\ countMsg'[s] = countMsg[s]
        /\ countMsg'[n] = 1 /\ countMsg[n] = 0 /\ n \notin closed
    BY <1>1, <1>4, <1>5, <1>6, <1>9, <1>13 DEF TypeInv
  <2>2. sending'[n] = x /\ x.reached = 0 BY <1>1, <1>7, <1>13 DEF TypeInv, Sends
  <2>3. thread[s] # "none" /\ countMsg[s] = 1 /\ streams[s] = <<>>
        /\ Errand(A, B).message.kind # "token"
    BY <1>2, <1>3, <1>5, <1>13, <2>1 DEF Handshake, CallerSide, StreamsFit
  <2>4. Errand(B, A) = Nothing
    <3>1. sending[B] # Nothing => sending[B].frame # 0 BY <1>1, ErrandsAre
    <3> QED BY <1>2, <1>3, <2>1, <3>1 DEF Handshake, CalledSide
  <2>5. /\ Len(frames') = Len(frames) + 1 /\ frames'[Len(frames')] = w
        /\ \A f \in 1 .. Len(frames) : frames'[f] = frames[f]
    BY <1>1, <1>7, <1>8, AppendProperties, LenProperties DEF TypeInv
  <2>6. frame[s] \in 1 .. Len(frames) BY <1>3, <2>3, PairIs DEF EndFits
  <2>7. CallerSide(A, B, s, n)'
    BY <1>2, <1>9, <1>11, <2>1, <2>3, <2>5, <2>6 DEF Handshake, CallerSide
  <2>8. CalledSide(A, B, s, n)'
    BY <1>7, <1>9, <1>11, <2>1, <2>2, <2>3, <2>4, <2>5 DEF CalledSide
  <2>9. StreamsFit(s, n)'
    <3>1. ASSUME NEW i \in 1 .. Len(streams'[n])
          PROVE  /\ streams'[n][i].kind # "token"
                 /\ streams'[n][i].kind = "cipher" => countMsg[s] >= 2
                 /\ streams'[n][i].kind = "END" => s \in closed
      <4>1. i \in Nat /\ i >= 1 BY <1>5, <1>13
      <4>2. i + 1 \in 1 .. Len(streams[n]) /\ streams'[n][i] = streams[n][i + 1] /\ i + 1 # 1
        BY <1>5, <1>13, <4>1
      <4> QED BY <1>2, <4>2 DEF Handshake, StreamsFit
    <3>2. Len(streams'[s]) = 0 BY <2>1, <2>3, EmptySeq
    <3> QED BY <1>9, <2>1, <2>3, <3>1, <3>2 DEF StreamsFit
  <2>10. Answered(A, B, s, n)'
    <3>1. s \notin closed => thread[s] = "reading"
      BY <1>2, <1>5, <1>13, <2>1, <2>3 DEF Handshake, Answered, Lost
    <3> QED BY <1>9, <2>1, <3>1 DEF Answered
  <2> QED BY <2>7, <2>8, <2>9, <2>10 DEF Handshake
<1> QED BY <1>12, <1>13

LEMMA HandAnswer ==
    ASSUME NetInv, SideInv, LoneInv, [NetNext]_netVars,
           NEW c, NEW A, NEW B, NEW s, NEW n, IsPair(c, A, B, s, n),
           NEW e \in Ends, ReadAnswer(e)
    PROVE  Handshake(A, B, s, n)'
<1> USE DEF userVars, threadVars
<1>1. /\ TypeInv /\ s \in Ends /\ n \in Ends /\ s # n /\ s \in Used /\ n \in Used
      /\ s[2] = STARTER /\ n[2] = NO_STARTER /\ Handshake(A, B, s, n)
  BY PairIs
<1>2. /\ countMsg[s] \in Nat /\ countMsg[n] \in Nat
      /\ streams[s] \in Seq(Messages) /\ streams[n] \in Seq(Messages)
      /\ thread[s] # "none" => countMsg[s] >= 1 /\ frame[s] # 0
  BY PairHas
<1>3. Reads(e) /\ countMsg'[e] = 2 /\ e[2] = STARTER BY DEF ReadAnswer
<1>4. /\ streams[e] # <<>> /\ Len(streams[e]) \in Nat /\ Len(streams[e]) >= 1
      /\ Len(streams'[e]) = Len(streams[e]) - 1
      /\ countMsg'[e] = countMsg[e] + 1 /\ thread[e] = "reading" /\ e \notin closed /\ e \in Used
      /\ \A d \in Ends : d # e => streams'[d] = streams[d] /\ countMsg'[d] = countMsg[d]
  BY <1>1, <1>3, Reading
<1>5. /\ frames' = [frames EXCEPT ![frame[e]].enabled = TRUE] /\ frame[e] \in Nat
      /\ UNCHANGED <<thread, frame, closed, sending, conns>>
  BY <1>1 DEF ReadAnswer, TypeInv
<1>6. e # n BY <1>1, <1>3 DEF STARTER, NO_STARTER
<1>7. /\ UNCHANGED <<Errand(A, B), Errand(B, A)>> BY <1>5 DEF Errand
<1>8. CASE e # s
  <2>1. frame[e] = 0 \/ (frame[e] # frame[s] /\ frame[e] # frame[n])
    BY <1>4, <1>6, <1>8, PairAlone
  <2>2. UNCHANGED <<streams[s], streams[n], countMsg[s], countMsg[n]>>
    BY <1>1, <1>4, <1>6, <1>8
  <2> QED BY <1>5, <1>7, <2>1, <2>2, AsideWindows
<1>9. CASE e = s
  <2>1. /\ countMsg[s] = 1 /\ countMsg'[s] = 2 /\ streams[s] # <<>> /\ countMsg[n] >= 1
        /\ thread[s] = "reading" /\ s \notin closed
        /\ countMsg'[n] = countMsg[n] /\ streams'[n] = streams[n]
    BY <1>1, <1>2, <1>3, <1>4, <1>6, <1>9 DEF Handshake, StreamsFit
  <2>2. Len(streams[s]) = 1
    <3>1. ~ (Len(streams[s]) >= 2)
      <4> SUFFICES ASSUME Len(streams[s]) >= 2 PROVE FALSE
        OBVIOUS
      <4>1. 2 \in 1 .. Len(streams[s]) BY <1>4, <1>9
      <4> QED BY <1>1, <2>1, <4>1 DEF Handshake, StreamsFit
    <3>2. Len(streams[s]) \in Nat /\ Len(streams[s]) >= 1 BY <1>4, <1>9
    <3>3. \A l \in Nat : l >= 1 /\ ~ (l >= 2) => l = 1 OBVIOUS
    <3> QED BY <3>1, <3>2, <3>3
  <2>3. Len(streams'[s]) = 0 BY <1>4, <1>9, <2>2
  <2>4. /\ Errand(A, B).message.kind # "token" /\ Errand(A, B).message.kind # "cipher"
        /\ sending[n] = Nothing
    BY <1>1, <1>2, <2>1 DEF Handshake, CallerSide, CalledSide
  <2>5. frame[s] \in 1 .. Len(frames) BY <1>2, <2>1, PairIs DEF EndFits
  <2>6. frames'[frame[s]].enabled
    <3>1. [frames EXCEPT ![frame[s]].enabled = TRUE][frame[s]].enabled = TRUE
      BY <1>1, <1>5, <1>9, <2>5, WindowSet
    <3> QED BY <1>5, <1>9, <3>1
  <2>7. frames'[frame[s]].type = frames[frame[s]].type BY <2>5, WindowsKept
  <2>8. frame[n] # 0 => frames'[frame[n]].shown = frames[frame[n]].shown
    <3>1. frame[n] # 0 => frame[n] \in 1 .. Len(frames) BY PairIs DEF EndFits
    <3>2. frame[n] # 0 => [frames EXCEPT ![frame[s]].enabled = TRUE][frame[n]].shown
                          = frames[frame[n]].shown
      BY <1>1, <1>5, <1>9, <3>1, WindowSet
    <3> QED BY <1>5, <1>9, <3>2
  <2>9. CallerSide(A, B, s, n)'
    BY <1>1, <1>5, <1>7, <2>1, <2>4, <2>6, <2>7 DEF Handshake, CallerSide
  <2>10. CalledSide(A, B, s, n)'
    BY <1>1, <1>5, <1>7, <2>1, <2>4, <2>8 DEF Handshake, CalledSide
  <2>11. StreamsFit(s, n)'
    <3>1. ASSUME NEW i \in 1 .. Len(streams[n])
          PROVE  /\ streams[n][i].kind = "token" <=> i = 1 /\ countMsg[n] = 0
                 /\ streams[n][i].kind = "END" => s \in closed
      BY <1>1 DEF Handshake, StreamsFit
    <3>2. streams'[s] = <<>>
      <4>1. streams' \in [Ends -> Seq(Messages)] BY <1>1, <1>3, Reading
      <4> QED BY <1>1, <2>3, <4>1, EmptySeq
    <3> QED BY <1>5, <2>1, <2>3, <3>1, <3>2 DEF StreamsFit
  <2>12. Answered(A, B, s, n)' BY <2>1 DEF Answered
  <2> QED BY <2>9, <2>10, <2>11, <2>12 DEF Handshake
<1> QED BY <1>8, <1>9

LEMMA HandText ==
    ASSUME NetInv, SideInv, LoneInv, [NetNext]_netVars,
           NEW c, NEW A, NEW B, NEW s, NEW n, IsPair(c, A, B, s, n),
           NEW e \in Ends, ReadText(e)
    PROVE  Handshake(A, B, s, n)'
<1> USE DEF userVars, threadVars
<1>1. /\ TypeInv /\ s \in Ends /\ n \in Ends /\ s # n /\ s \in Used /\ n \in Used
      /\ s[2] = STARTER /\ n[2] = NO_STARTER /\ Handshake(A, B, s, n)
  BY PairIs
<1>2. /\ countMsg[s] \in Nat /\ countMsg[n] \in Nat
      /\ streams[s] \in Seq(Messages) /\ streams[n] \in Seq(Messages)
      /\ thread[s] # "none" => countMsg[s] >= 1 /\ frame[s] # 0
      /\ sending[n] # Nothing => thread[n] = "answering"
  BY PairHas
<1>3. /\ Reads(e) /\ countMsg'[e] >= 2 /\ (e[2] = STARTER => countMsg'[e] > 2)
      /\ UNCHANGED <<frame, closed, sending, conns>>
      /\ frames' = frames \/ (e[2] = NO_STARTER /\ frames' = [frames EXCEPT ![frame[e]].shown = TRUE])
      /\ Head(streams[e]).kind # "token" => thread' = thread
      /\ thread' = thread \/ thread' = [thread EXCEPT ![e] = "ended"]
  BY DEF ReadText
<1>4. /\ streams[e] # <<>> /\ Len(streams[e]) \in Nat /\ Len(streams[e]) >= 1
      /\ Head(streams[e]) = streams[e][1] /\ streams[e][1] \in Messages /\ streams[e][1].kind # "END"
      /\ Len(streams'[e]) = Len(streams[e]) - 1
      /\ \A i \in 1 .. Len(streams'[e]) : /\ i + 1 \in 1 .. Len(streams[e])
                                          /\ streams'[e][i] = streams[e][i + 1]
      /\ countMsg'[e] = countMsg[e] + 1 /\ thread[e] = "reading" /\ e \notin closed /\ e \in Used
      /\ \A d \in Ends : d # e => streams'[d] = streams[d] /\ countMsg'[d] = countMsg[d]
  BY <1>1, <1>3, Reading
<1>5. UNCHANGED <<Errand(A, B), Errand(B, A)>> BY <1>3 DEF Errand
<1>6. frame[e] \in Nat BY <1>1 DEF TypeInv
<1>7. CASE e # s /\ e # n
  <2>1. frame[e] = 0 \/ (frame[e] # frame[s] /\ frame[e] # frame[n])
    BY <1>4, <1>7, PairAlone
  <2>2. UNCHANGED <<streams[s], streams[n], countMsg[s], countMsg[n], thread[s], thread[n]>>
    BY <1>1, <1>3, <1>4, <1>7 DEF TypeInv
  <2> QED BY <1>3, <1>5, <1>6, <2>1, <2>2, AsideWindows
<1>8. CASE e = s
  <2>1. /\ countMsg[s] >= 2 /\ countMsg'[s] = countMsg[s] + 1 /\ thread[s] = "reading"
        /\ countMsg'[n] = countMsg[n] /\ streams'[n] = streams[n] /\ frames' = frames
        /\ streams[s] # <<>>
    BY <1>1, <1>2, <1>3, <1>4, <1>8 DEF STARTER, NO_STARTER
  <2>2. 1 \in 1 .. Len(streams[s]) BY <1>4, <1>8
  <2>3. thread' = thread
    <3>1. streams[s][1].kind # "token" BY <1>1, <2>1, <2>2 DEF Handshake, StreamsFit
    <3> QED BY <1>3, <1>4, <1>8, <3>1
  <2>4. Errand(A, B).message.kind # "token" /\ sending[n] = Nothing
    BY <1>1, <1>2, <2>1 DEF Handshake, CallerSide, CalledSide
  <2>5. CallerSide(A, B, s, n)'
    BY <1>1, <1>2, <1>3, <1>5, <2>1, <2>3, <2>4 DEF Handshake, CallerSide
  <2>6. CalledSide(A, B, s, n)'
    BY <1>1, <1>3, <1>5, <2>1, <2>3, <2>4 DEF Handshake, CalledSide
  <2>7. StreamsFit(s, n)'
    <3>1. ASSUME NEW i \in 1 .. Len(streams'[s])
          PROVE  /\ streams'[s][i].kind # "token"
                 /\ streams'[s][i].kind = "END" => n \in closed
      <4>1. i + 1 \in 1 .. Len(streams[s]) /\ streams'[s][i] = streams[s][i + 1] BY <1>4, <1>8
      <4> QED BY <1>1, <2>1, <4>1 DEF Handshake, StreamsFit
    <3>2. ASSUME NEW i \in 1 .. Len(streams[n])
          PROVE  /\ streams[n][i].kind = "token" <=> i = 1 /\ countMsg[n] = 0
                 /\ streams[n][i].kind = "END" => s \in closed
      BY <1>1 DEF Handshake, StreamsFit
    <3>3. countMsg[n] >= 1 /\ countMsg'[s] # 1 /\ countMsg'[s] >= 2
      BY <1>1, <1>2, <2>1 DEF Handshake, StreamsFit
    <3> QED BY <1>3, <2>1, <3>1, <3>2, <3>3 DEF StreamsFit
  <2>8. Answered(A, B, s, n)' BY <1>2, <2>1 DEF Answered
  <2> QED BY <2>5, <2>6, <2>7, <2>8 DEF Handshake
<1>9. CASE e = n
  <2>1. /\ countMsg[n] >= 1 /\ countMsg'[n] = countMsg[n] + 1 /\ thread[n] = "reading"
        /\ countMsg'[s] = countMsg[s] /\ streams'[s] = streams[s] /\ n \notin closed
        /\ streams[n] # <<>> /\ countMsg'[n] >= 2
    BY <1>1, <1>2, <1>3, <1>4, <1>9
  <2>2. 1 \in 1 .. Len(streams[n]) BY <1>4, <1>9
  <2>3. thread' = thread /\ countMsg[s] >= 2
    <3>1. streams[n][1].kind # "token" /\ (streams[n][1].kind = "cipher" => countMsg[s] >= 2)
      BY <1>1, <1>2, <2>1, <2>2 DEF Handshake, StreamsFit
    <3>2. streams[n][1].kind = "cipher" BY <1>4, <1>9, <3>1, MessagesAre
    <3> QED BY <1>3, <1>4, <1>9, <3>1, <3>2
  <2>4. Errand(A, B).message.kind # "token" /\ sending[n] = Nothing
    BY <1>1, <1>2, <2>1 DEF Handshake, CallerSide
  <2>5. frame[s] # 0 => /\ frames'[frame[s]].type = frames[frame[s]].type
                        /\ frames'[frame[s]].enabled = frames[frame[s]].enabled
                        /\ frames'[frame[s]].shown = frames[frame[s]].shown
    <3>1. frame[s] # 0 => frame[s] \in 1 .. Len(frames) /\ frame[s] # frame[n]
      BY PairIs, PairAlone DEF EndFits
    <3>2. frame[s] # 0 => frames'[frame[s]].type = frames[frame[s]].type BY <3>1, WindowsKept
    <3>4. frame[n] \in Nat BY <1>6, <1>9
    <3>3. ASSUME frame[s] # 0
          PROVE  /\ [frames EXCEPT ![frame[n]].shown = TRUE][frame[s]].enabled = frames[frame[s]].enabled
                 /\ [frames EXCEPT ![frame[n]].shown = TRUE][frame[s]].shown = frames[frame[s]].shown
      BY <1>1, <3>1, <3>3, <3>4, OtherWindow
    <3> QED BY <1>3, <1>9, <3>2, <3>3
  <2>6. CallerSide(A, B, s, n)'
    BY <1>1, <1>2, <1>3, <1>5, <2>1, <2>3, <2>4, <2>5 DEF Handshake, CallerSide
  <2>7. CalledSide(A, B, s, n)'
    BY <1>1, <1>3, <1>5, <2>1, <2>3, <2>4 DEF Handshake, CalledSide
  <2>8. StreamsFit(s, n)'
    <3>1. ASSUME NEW i \in 1 .. Len(streams'[n])
          PROVE  /\ streams'[n][i].kind # "token"
                 /\ streams'[n][i].kind = "END" => s \in closed
      <4>1. i + 1 \in 1 .. Len(streams[n]) /\ streams'[n][i] = streams[n][i + 1] BY <1>4, <1>9
      <4> QED BY <1>1, <1>2, <2>1, <4>1 DEF Handshake, StreamsFit
    <3>2. ASSUME NEW i \in 1 .. Len(streams[s])
          PROVE  /\ streams[s][i].kind = "token" <=> countMsg[s] = 1
                 /\ countMsg[s] = 1 => i = 1
                 /\ streams[s][i].kind = "END" => n \in closed
      BY <1>1 DEF Handshake, StreamsFit
    <3>3. countMsg'[n] # 0 /\ countMsg'[n] >= 1 BY <1>2, <2>1
    <3> QED BY <1>3, <2>1, <2>3, <3>1, <3>2, <3>3 DEF StreamsFit
  <2>9. Answered(A, B, s, n)' BY <1>2, <2>1, <2>3 DEF Answered
  <2> QED BY <2>6, <2>7, <2>8, <2>9 DEF Handshake
<1> QED BY <1>7, <1>8, <1>9

LEMMA HandReadClose ==
    ASSUME NetInv, SideInv, LoneInv, [NetNext]_netVars,
           NEW c, NEW A, NEW B, NEW s, NEW n, IsPair(c, A, B, s, n),
           NEW e \in Ends, ReadClose(e)
    PROVE  Handshake(A, B, s, n)'
<1> USE DEF userVars, threadVars
<1>1. /\ TypeInv /\ s \in Ends /\ n \in Ends /\ s # n /\ s \in Used /\ n \in Used
      /\ A \in Users /\ B \in Users /\ A # B /\ Nobody \notin Users
      /\ Owner(s) = A /\ Owner(n) = B /\ Mate(s) = n /\ Mate(n) = s
      /\ s[2] = STARTER /\ n[2] = NO_STARTER /\ Handshake(A, B, s, n)
      /\ c \in 1 .. Len(conns) /\ LoneConn(c) /\ A = conns[c].from /\ B = conns[c].to
      /\ s = S(c) /\ n = N(c)
  BY PairIs, NetworkAssumption DEF IsPair
<1>2. /\ countMsg[s] \in Nat /\ countMsg[n] \in Nat
      /\ streams[s] \in Seq(Messages) /\ streams[n] \in Seq(Messages)
      /\ thread[s] # "none" => countMsg[s] >= 1 /\ frame[s] # 0
      /\ countMsg[n] = 0 <=> frame[n] = 0
      /\ sending[n] # Nothing => thread[n] = "answering" /\ countMsg[n] = 1
      /\ Errand(A, B) = Nothing \/ (Errand(A, B) = sending[A] /\ sending[A] # Nothing)
      /\ Errand(B, A) = Nothing \/ (Errand(B, A) = sending[B] /\ sending[B] # Nothing)
      /\ Nothing.message.kind = "END" /\ Nothing.frame = 0
  BY PairHas
<1>3. PICK u, v, a : u = Owner(e) /\ v = dest[e] /\ a = Find(u, v) OBVIOUS
<1>4. /\ e \in Used /\ thread[e] = "reading" /\ e \notin closed /\ u \in Users
      /\ \A d \in Ends : thread'[d] = IF d = e THEN "ended" ELSE thread[d]
      /\ ~ IsListed(u, v) => UNCHANGED <<closed, streams, chats, frames>>
      /\ IsListed(u, v) =>
            /\ a \in Used /\ a \in Ends /\ Owner(a) = u /\ dest[a] = v
            /\ closed' = closed \cup {a} /\ streams'[a] = <<>>
            /\ \A d \in Ends : d # a => streams'[d] = streams[d]
  BY <1>3, ReadCloses
<1>5. /\ UNCHANGED <<conns, dest, frame, countMsg, sending>>
      /\ frames' = IF IsListed(u, v) /\ frame[a] # 0
                   THEN [frames EXCEPT ![frame[a]].shown = FALSE] ELSE frames
      /\ IsListed(u, v) /\ frame[a] # 0 /\ frames[frame[a]].shown => EventFree(u)
      /\ streams[e] # <<>> /\ Head(streams[e]).kind = "END"
  BY <1>3 DEF ReadClose
<1>6. UNCHANGED <<Errand(A, B), Errand(B, A)>> BY <1>5 DEF Errand
<1>7. streams[e] \in Seq(Messages) /\ streams[e][1].kind = "END" /\ 1 \in 1 .. Len(streams[e])
  <2>1. streams[e] \in Seq(Messages) BY <1>1 DEF TypeInv
  <2>2. Len(streams[e]) \in Nat /\ Len(streams[e]) # 0 /\ Head(streams[e]) = streams[e][1]
    BY <1>5, <2>1, StreamIs
  <2> QED BY <1>5, <2>1, <2>2
<1>8. /\ IsListed(A, B) => Find(A, B) = s
      /\ thread[s] # "none" /\ s \notin closed => IsListed(A, B)
      /\ IsListed(B, A) => Find(B, A) = n
      /\ countMsg[n] # 0 /\ n \notin closed => IsListed(B, A)
      /\ IsListed(u, v) /\ a = s => u = A /\ v = B
      /\ IsListed(u, v) /\ a = n => u = B /\ (v = A \/ (v = Nobody /\ countMsg[n] = 0))
  BY <1>1, <1>3, <1>4, LoneChats
<1>9. v # Nobody => v = Owner(Mate(e)) BY <1>3, <1>4 DEF NetInv, EndFits
<1>10. (u = A /\ v = B => e = s) /\ (u = B /\ v = A => e = n)
  <2>1. /\ \A d \in Used : (Owner(d) = A /\ Owner(Mate(d)) = B) <=> d = s
        /\ \A d \in Used : (Owner(d) = B /\ Owner(Mate(d)) = A) <=> d = n
    BY <1>1, LoneEnds
  <2> QED BY <1>1, <1>3, <1>4, <1>9, <2>1
<1>12. frame[s] # 0 => /\ frame[s] \in 1 .. Len(frames) /\ frame[s] # frame[n]
                       /\ frames'[frame[s]].type = frames[frame[s]].type
  <2>1. frame[s] # 0 => frame[s] \in 1 .. Len(frames) /\ frame[s] # frame[n]
    BY PairIs, PairAlone DEF EndFits
  <2> QED BY <2>1, WindowsKept
<1>13. frame[n] # 0 => frame[n] \in 1 .. Len(frames) BY PairIs DEF EndFits
<1>14. frame[s] \in Nat /\ frame[n] \in Nat BY <1>1 DEF TypeInv
<1>15. CASE e = s
  <2>1. v = B
    <3>1. dest[s] # Nobody BY <1>2, <1>4, <1>15, PairIs DEF SideFits
    <3> QED BY <1>1, <1>3, <1>9, <1>15, <3>1
  <2>2. u = A /\ IsListed(u, v) /\ a = s
    BY <1>1, <1>3, <1>4, <1>8, <1>15, <2>1
  <2>3. /\ streams'[s] = <<>> /\ streams'[n] = streams[n] /\ closed' = closed \cup {s}
        /\ thread'[s] = "ended" /\ thread'[n] = thread[n]
    BY <1>1, <1>4, <1>15, <2>2
  <2>4. frame[s] # 0 /\ frames' = [frames EXCEPT ![frame[s]].shown = FALSE]
    BY <1>2, <1>4, <1>5, <1>15, <2>2
  <2>5. Errand(A, B).message.kind # "token" /\ sending[n] = Nothing
    BY <1>1, <1>5, <1>15 DEF Handshake, CallerSide, CalledSide
  <2>6. Errand(A, B).message.kind # "cipher"
    <3>1. ASSUME Errand(A, B).message.kind = "cipher" PROVE FALSE
      <4>1. Errand(A, B) = sending[A] /\ sending[A] # Nothing BY <1>2, <3>1
      <4>2. frames[sending[A].frame].shown BY <1>1, <4>1 DEF LoneInv, Occupied
      <4>3. sending[A].frame = frame[s] BY <1>1, <1>4, <1>15, <4>1 DEF Handshake, CallerSide
      <4> QED BY <1>5, <2>2, <2>4, <4>1, <4>2, <4>3 DEF EventFree
    <3> QED BY <3>1
  <2>7. /\ ~ frames'[frame[s]].shown /\ frames'[frame[s]].enabled = frames[frame[s]].enabled
        /\ frame[n] # 0 => frames'[frame[n]].shown = frames[frame[n]].shown
    <3>1. /\ [frames EXCEPT ![frame[s]].shown = FALSE][frame[s]].shown = FALSE
          /\ [frames EXCEPT ![frame[s]].shown = FALSE][frame[s]].enabled = frames[frame[s]].enabled
      BY <1>1, <1>12, <1>14, <2>4, WindowSet
    <3>2. ASSUME frame[n] # 0
          PROVE  [frames EXCEPT ![frame[s]].shown = FALSE][frame[n]].shown = frames[frame[n]].shown
      BY <1>1, <1>12, <1>13, <1>14, <2>4, <3>2, OtherWindow
    <3> QED BY <2>4, <3>1, <3>2
  <2>8. CallerSide(A, B, s, n)'
    BY <1>1, <1>4, <1>5, <1>6, <1>12, <1>15, <2>3, <2>4, <2>5, <2>6, <2>7 DEF Handshake, CallerSide
  <2>9. CalledSide(A, B, s, n)'
    BY <1>1, <1>5, <1>6, <2>3, <2>5, <2>7 DEF Handshake, CalledSide
  <2>10. StreamsFit(s, n)'
    <3>1. Len(streams'[s]) = 0 BY <2>3, EmptySeq
    <3> QED BY <1>1, <1>5, <2>3, <3>1 DEF Handshake, StreamsFit
  <2>11. Answered(A, B, s, n)' BY <2>3 DEF Answered
  <2> QED BY <2>8, <2>9, <2>10, <2>11 DEF Handshake
<1>16. CASE e = n
  <2>1. countMsg[n] >= 1
    <3>1. countMsg[n] # 0 BY <1>1, <1>7, <1>16 DEF Handshake, StreamsFit
    <3> QED BY <1>2, <3>1
  <2>2. v = A
    <3>1. dest[n] # Nobody BY <1>1, <1>2, <2>1, PairIs DEF SideFits
    <3> QED BY <1>1, <1>3, <1>9, <1>16, <3>1
  <2>3. u = B /\ IsListed(u, v) /\ a = n
    BY <1>1, <1>2, <1>3, <1>4, <1>8, <1>16, <2>1, <2>2
  <2>4. /\ streams'[n] = <<>> /\ streams'[s] = streams[s] /\ closed' = closed \cup {n}
        /\ thread'[n] = "ended" /\ thread'[s] = thread[s]
    BY <1>1, <1>4, <1>16, <2>3
  <2>5. frame[n] # 0 /\ frames' = [frames EXCEPT ![frame[n]].shown = FALSE]
    BY <1>2, <1>5, <2>1, <2>3
  <2>6. Errand(A, B).message.kind # "token" /\ sending[n] = Nothing
    BY <1>1, <1>2, <1>4, <1>16, <2>1 DEF Handshake, CallerSide
  <2>7. /\ ~ frames'[frame[n]].shown
        /\ frame[s] # 0 => /\ frames'[frame[s]].shown = frames[frame[s]].shown
                           /\ frames'[frame[s]].enabled = frames[frame[s]].enabled
    <3>1. [frames EXCEPT ![frame[n]].shown = FALSE][frame[n]].shown = FALSE
      BY <1>1, <1>13, <1>14, <2>5, WindowSet
    <3>2. ASSUME frame[s] # 0
          PROVE  /\ [frames EXCEPT ![frame[n]].shown = FALSE][frame[s]].shown = frames[frame[s]].shown
                 /\ [frames EXCEPT ![frame[n]].shown = FALSE][frame[s]].enabled = frames[frame[s]].enabled
      BY <1>1, <1>12, <1>14, <3>2, OtherWindow
    <3> QED BY <2>5, <3>1, <3>2
  <2>8. CallerSide(A, B, s, n)'
    BY <1>1, <1>2, <1>5, <1>6, <1>12, <2>4, <2>6, <2>7 DEF Handshake, CallerSide
  <2>9. CalledSide(A, B, s, n)'
    BY <1>1, <1>5, <1>6, <2>4, <2>6, <2>7 DEF Handshake, CalledSide
  <2>10. StreamsFit(s, n)'
    <3>1. Len(streams'[n]) = 0 BY <2>4, EmptySeq
    <3> QED BY <1>1, <1>5, <2>4, <3>1 DEF Handshake, StreamsFit
  <2>11. Answered(A, B, s, n)'
    BY <1>1, <1>4, <1>5, <1>6, <1>16, <2>1, <2>4, <2>6 DEF Handshake, Answered, Lost
  <2> QED BY <2>8, <2>9, <2>10, <2>11 DEF Handshake
<1>17. CASE e # s /\ e # n /\ IsListed(u, v) /\ a = n
  <2>1. countMsg[n] = 0 /\ frame[n] = 0 /\ frames' = frames
    BY <1>2, <1>5, <1>8, <1>10, <1>17
  <2>2. /\ streams'[n] = <<>> /\ streams'[s] = streams[s] /\ closed' = closed \cup {n}
        /\ thread'[n] = thread[n] /\ thread'[s] = thread[s]
    BY <1>1, <1>4, <1>17
  <2>3. sending[n] = Nothing /\ thread[n] \notin {"answering", "deriving"}
    BY <1>1, <1>2, <2>1, PairIs DEF SideFits
  <2>4. CallerSide(A, B, s, n)'
    BY <1>1, <1>5, <1>6, <2>1, <2>2 DEF Handshake, CallerSide
  <2>5. CalledSide(A, B, s, n)'
    BY <1>1, <1>5, <1>6, <2>1, <2>2, <2>3 DEF Handshake, CalledSide
  <2>6. StreamsFit(s, n)'
    <3>1. Len(streams'[n]) = 0 BY <2>2, EmptySeq
    <3> QED BY <1>1, <1>5, <2>2, <3>1 DEF Handshake, StreamsFit
  <2>7. Answered(A, B, s, n)' BY <1>5, <2>1, <2>2 DEF Answered, Lost
  <2> QED BY <2>4, <2>5, <2>6, <2>7 DEF Handshake
<1>18. CASE e # s /\ e # n /\ ~ (IsListed(u, v) /\ a = n)
  <2>1. ~ (IsListed(u, v) /\ a = s) BY <1>8, <1>10, <1>18
  <2>2. thread'[s] = thread[s] /\ thread'[n] = thread[n] BY <1>1, <1>4, <1>18
  <2>3. /\ streams'[s] = streams[s] /\ streams'[n] = streams[n]
        /\ s \in closed' <=> s \in closed
        /\ n \in closed' <=> n \in closed
    BY <1>1, <1>4, <1>18, <2>1
  <2>4. \/ frames' = frames
        \/ \E k \in Nat : frames' = [frames EXCEPT ![k].shown = FALSE]
    <3>1. IsListed(u, v) => frame[a] \in Nat BY <1>1, <1>4 DEF TypeInv
    <3> QED BY <1>5, <3>1
  <2> QED BY <1>5, <1>6, <2>2, <2>3, <2>4, AsideWindows
<1> QED BY <1>15, <1>16, <1>17, <1>18

LEMMA HandSocket ==
    ASSUME NetInv, SideInv, LoneInv, [NetNext]_netVars,
           NEW c, NEW A, NEW B, NEW s, NEW n, IsPair(c, A, B, s, n),
           NEW e \in Ends, SocketEnds(e)
    PROVE  Handshake(A, B, s, n)'
<1> USE DEF userVars, threadVars
<1>1. /\ TypeInv /\ s \in Ends /\ n \in Ends /\ s # n /\ Mate(s) = n /\ Mate(n) = s
      /\ Handshake(A, B, s, n)
  BY PairIs
<1>2. /\ countMsg[s] \in Nat /\ countMsg[n] \in Nat
      /\ streams[s] \in Seq(Messages) /\ streams[n] \in Seq(Messages)
      /\ sending[n] # Nothing => thread[n] = "answering" /\ countMsg[n] = 1
  BY PairHas
<1>3. /\ thread[e] = "reading" /\ (e \in closed \/ (Mate(e) \in closed /\ streams[e] = <<>>))
      /\ thread' = [thread EXCEPT ![e] = "ended"] /\ streams' = [streams EXCEPT ![e] = <<>>]
      /\ UNCHANGED <<conns, frames, frame, countMsg, closed, sending>>
  BY DEF SocketEnds
<1>4. UNCHANGED <<Errand(A, B), Errand(B, A)>> BY <1>3 DEF Errand
<1>5. \A d \in Ends : /\ thread'[d] = IF d = e THEN "ended" ELSE thread[d]
                      /\ streams'[d] = IF d = e THEN <<>> ELSE streams[d]
  BY <1>1, <1>3 DEF TypeInv
<1>6. CASE e # s /\ e # n
  <2>1. UNCHANGED <<thread[s], thread[n], streams[s], streams[n]>> BY <1>1, <1>5, <1>6
  <2> QED BY <1>3, <1>4, <2>1, AsideWindows
<1>7. CASE e = s
  <2>1. /\ thread'[s] = "ended" /\ thread'[n] = thread[n] /\ thread[s] = "reading"
        /\ streams'[s] = <<>> /\ streams'[n] = streams[n]
    BY <1>1, <1>3, <1>5, <1>7
  <2>2. CallerSide(A, B, s, n)' BY <1>1, <1>3, <1>4, <2>1 DEF Handshake, CallerSide
  <2>3. CalledSide(A, B, s, n)' BY <1>1, <1>3, <1>4, <2>1 DEF Handshake, CalledSide
  <2>4. StreamsFit(s, n)'
    <3>1. Len(streams'[s]) = 0 BY <2>1, EmptySeq
    <3> QED BY <1>1, <1>3, <2>1, <3>1 DEF Handshake, StreamsFit
  <2>5. Answered(A, B, s, n)'
    <3>1. ASSUME countMsg[s] = 1, s \notin closed, ~ Lost(n) PROVE FALSE
      <4>1. n \in closed /\ streams[s] = <<>> BY <1>1, <1>3, <1>7, <3>1
      <4>2. countMsg[n] # 0 BY <3>1, <4>1 DEF Lost
      <4>3. thread[n] # "answering" BY <1>1, <4>1 DEF Handshake, CalledSide
      <4>4. Errand(A, B).message.kind # "token" BY <1>1, <4>2 DEF Handshake, CallerSide
      <4> QED BY <1>1, <2>1, <3>1, <4>1, <4>2, <4>3, <4>4 DEF Handshake, Answered
    <3> QED BY <1>3, <2>1, <3>1 DEF Answered, Lost
  <2> QED BY <2>2, <2>3, <2>4, <2>5 DEF Handshake
<1>8. CASE e = n
  <2>1. /\ thread'[n] = "ended" /\ thread'[s] = thread[s] /\ thread[n] = "reading"
        /\ streams'[n] = <<>> /\ streams'[s] = streams[s] /\ sending[n] = Nothing
    BY <1>1, <1>2, <1>3, <1>5, <1>8
  <2>2. CallerSide(A, B, s, n)' BY <1>1, <1>3, <1>4, <2>1 DEF Handshake, CallerSide
  <2>3. CalledSide(A, B, s, n)' BY <1>1, <1>3, <1>4, <2>1 DEF Handshake, CalledSide
  <2>4. StreamsFit(s, n)'
    <3>1. Len(streams'[n]) = 0 BY <2>1, EmptySeq
    <3> QED BY <1>1, <1>3, <2>1, <3>1 DEF Handshake, StreamsFit
  <2>5. Answered(A, B, s, n)'
    <3>1. ASSUME thread[s] # "none", countMsg[s] = 1, s \notin closed, countMsg[n] # 0
          PROVE  thread[s] = "reading" /\ streams[s] # <<>> /\ countMsg[n] >= 1
      <4>1. Errand(A, B).message.kind # "token" BY <1>1, <3>1 DEF Handshake, CallerSide
      <4> QED BY <1>1, <1>2, <2>1, <3>1, <4>1 DEF Handshake, Answered, Lost
    <3> QED BY <1>3, <2>1, <3>1 DEF Answered, Lost
  <2> QED BY <2>2, <2>3, <2>4, <2>5 DEF Handshake
<1> QED BY <1>6, <1>7, <1>8

LEMMA HandSend ==
    ASSUME NetInv, SideInv, LoneInv, [NetNext]_netVars,
           NEW c, NEW A, NEW B, NEW s, NEW n, IsPair(c, A, B, s, n),
           NEW f \in 1 .. Len(frames), PressSend(f)
    PROVE  Handshake(A, B, s, n)'
<1> USE DEF userVars, threadVars
<1>1. /\ TypeInv /\ A \in Users /\ B \in Users /\ A # B /\ n \notin Users
      /\ A \in Writers /\ B \in Writers /\ n \in Writers
      /\ c \in 1 .. Len(conns) /\ LoneConn(c) /\ A = conns[c].from /\ B = conns[c].to
      /\ s = S(c) /\ n = N(c) /\ Handshake(A, B, s, n)
  BY PairIs DEF IsPair
<1>2. PICK u, v, x : /\ u = frames[f].user /\ v = frames[f].dest
                     /\ x = Sends(CipherTo(boards[frames[f].type], u, v), f)
  OBVIOUS
<1>3. /\ frames[f].shown /\ frames[f].enabled /\ sending[u] = Nothing
      /\ sending' = [sending EXCEPT ![u] = x]
      /\ UNCHANGED <<frames, conns, frame, thread, countMsg, streams, closed>>
  BY <1>2 DEF PressSend, EventFree
<1>4. u \in Users /\ v \in Users
  <2>1. frames[f] \in Windows BY <1>1, ElementOfSeq DEF TypeInv
  <2> QED BY <1>2, <2>1 DEF Windows
<1>5. x.message.to = v /\ x.message.kind = "cipher" /\ x.reached = 0 /\ x.frame = f /\ x # Nothing
  BY <1>2, MessagesAre DEF Sends, CipherTo
<1>6. \A d \in Writers : sending'[d] = IF d = u THEN x ELSE sending[d]
  BY <1>1, <1>3 DEF TypeInv
<1>7. sending'[n] = sending[n] BY <1>1, <1>4, <1>6
<1>8. Nothing.message.to \notin Users BY NetworkAssumption DEF Nothing, EndOfChat
<1>9. /\ u = A /\ v = B => f = frame[s] /\ frame[s] # 0
      /\ u = B /\ v = A => f = frame[n] /\ frame[n] # 0
  <2>1. u = A => Errand(A, B) = Nothing BY <1>3 DEF Errand
  <2>2. Nothing.message.kind = "END" BY DEF Nothing, EndOfChat
  <2> QED BY <1>1, <1>2, <2>1, <2>2, LoneWindows
<1>10. CASE u = A /\ v = B
  <2>1. Errand(A, B)' = x /\ Errand(B, A)' = Errand(B, A) BY <1>1, <1>5, <1>6, <1>10 DEF Errand
  <2>2. thread[s] # "none" /\ f = frame[s] BY <1>9, <1>10, PairHas
  <2>3. countMsg[s] >= 2 /\ s \notin closed
    BY <1>1, <1>3, <2>2 DEF Handshake, CallerSide
  <2>4. CallerSide(A, B, s, n)'
    BY <1>1, <1>3, <1>5, <2>1, <2>2, <2>3 DEF Handshake, CallerSide
  <2>5. CalledSide(A, B, s, n)' BY <1>1, <1>3, <1>7, <2>1 DEF Handshake, CalledSide
  <2>6. StreamsFit(s, n)' BY <1>1, <1>3 DEF Handshake, StreamsFit
  <2>7. countMsg[s] # 1 BY <2>3, PairHas
  <2>8. Answered(A, B, s, n)' BY <1>3, <2>7 DEF Answered
  <2> QED BY <2>4, <2>5, <2>6, <2>8 DEF Handshake
<1>11. CASE u = B /\ v = A
  <2>1. Errand(B, A)' = x /\ Errand(A, B)' = Errand(A, B) BY <1>1, <1>5, <1>6, <1>11 DEF Errand
  <2>2. f = frame[n] BY <1>9, <1>11
  <2>3. CallerSide(A, B, s, n)' BY <1>1, <1>3, <2>1 DEF Handshake, CallerSide
  <2>4. CalledSide(A, B, s, n)' BY <1>1, <1>3, <1>5, <1>7, <2>1, <2>2 DEF Handshake, CalledSide
  <2>5. StreamsFit(s, n)' BY <1>1, <1>3 DEF Handshake, StreamsFit
  <2>6. Answered(A, B, s, n)' BY <1>1, <1>3, <2>1 DEF Handshake, Answered, Lost
  <2> QED BY <2>3, <2>4, <2>5, <2>6 DEF Handshake
<1>12. CASE ~ (u = A /\ v = B) /\ ~ (u = B /\ v = A)
  <2>1. Errand(A, B)' = Errand(A, B) BY <1>1, <1>3, <1>5, <1>6, <1>8, <1>12 DEF Errand
  <2>2. Errand(B, A)' = Errand(B, A) BY <1>1, <1>3, <1>5, <1>6, <1>8, <1>12 DEF Errand
  <2> QED BY <1>3, <1>7, <2>1, <2>2, AsideWindows
<1> QED BY <1>10, <1>11, <1>12

LEMMA HandPressClose ==
    ASSUME NetInv, SideInv, LoneInv, [NetNext]_netVars,
           NEW c, NEW A, NEW B, NEW s, NEW n, IsPair(c, A, B, s, n),
           NEW f \in 1 .. Len(frames), PressClose(f)
    PROVE  Handshake(A, B, s, n)'
<1> USE DEF userVars, threadVars
<1>1. /\ TypeInv /\ s \in Ends /\ n \in Ends /\ s # n /\ s \in Used /\ n \in Used
      /\ A \in Users /\ B \in Users /\ A # B /\ Mate(s) = n /\ Mate(n) = s
      /\ s[2] = STARTER /\ n[2] = NO_STARTER /\ Handshake(A, B, s, n)
      /\ c \in 1 .. Len(conns) /\ LoneConn(c) /\ A = conns[c].from /\ B = conns[c].to
      /\ s = S(c) /\ n = N(c) /\ Nobody \notin Users
  BY PairIs, NetworkAssumption DEF IsPair
<1>2. /\ countMsg[s] \in Nat /\ countMsg[n] \in Nat
      /\ streams[s] \in Seq(Messages) /\ streams[n] \in Seq(Messages)
      /\ thread[s] # "none" => countMsg[s] >= 1 /\ frame[s] # 0
      /\ frame[s] # 0 => thread[s] # "none"
      /\ countMsg[n] = 0 <=> frame[n] = 0
      /\ sending[n] # Nothing => thread[n] = "answering" /\ countMsg[n] = 1
      /\ Nothing.message.kind = "END"
  BY PairHas
<1>3. PICK u, v, a : u = frames[f].user /\ v = frames[f].dest /\ a = Find(u, v) OBVIOUS
<1>4. /\ u \in Users /\ v \in Users
      /\ ~ IsListed(u, v) => UNCHANGED <<closed, streams, chats>>
      /\ IsListed(u, v) =>
            /\ a \in Used /\ a \in Ends /\ Owner(a) = u /\ dest[a] = v
            /\ Mate(a) \in Used /\ Mate(a) \in Ends /\ Mate(a) # a
            /\ thread[a] # "none" /\ (a \in closed => frame[a] = 0)
            /\ closed' = closed \cup {a} /\ streams'[a] = <<>>
            /\ \A d \in Ends : d # a /\ d # Mate(a) => streams'[d] = streams[d]
            /\ streams'[Mate(a)] =
                  IF Mate(a) \in closed \/ thread[Mate(a)] = "ended" THEN streams[Mate(a)]
                  ELSE Append(streams[Mate(a)], EndOfChat)
  BY <1>3, PressCloses
<1>5. /\ frames[f].shown /\ sending[u] = Nothing /\ f \in Nat
      /\ frames' = [frames EXCEPT ![f].shown = FALSE]
      /\ UNCHANGED <<conns, dest, frame, thread, countMsg, sending>>
  BY <1>1, <1>3, LenProperties DEF PressClose, EventFree, TypeInv
<1>6. UNCHANGED <<Errand(A, B), Errand(B, A)>> BY <1>5 DEF Errand
<1>7. /\ IsListed(A, B) => Find(A, B) = s
      /\ IsListed(B, A) => Find(B, A) = n
      /\ countMsg[n] # 0 /\ n \notin closed => IsListed(B, A)
      /\ IsListed(u, v) /\ a = s => u = A /\ v = B
      /\ IsListed(u, v) /\ a = n => u = B /\ v = A
  BY <1>1, <1>3, <1>4, LoneChats
<1>8. frame[s] # 0 => /\ frame[s] \in 1 .. Len(frames) /\ frame[s] # frame[n]
                      /\ frames'[frame[s]].type = frames[frame[s]].type
  <2>1. frame[s] # 0 => frame[s] \in 1 .. Len(frames) /\ frame[s] # frame[n]
    BY PairIs, PairAlone DEF EndFits
  <2> QED BY <2>1, WindowsKept
<1>9. frame[n] # 0 => frame[n] \in 1 .. Len(frames) BY PairIs DEF EndFits
<1>10. /\ u = A /\ v = B => f = frame[s] /\ frame[s] # 0
       /\ u = B /\ v = A => f = frame[n] /\ frame[n] # 0
  <2>1. u = A => Errand(A, B) = Nothing BY <1>5 DEF Errand
  <2> QED BY <1>1, <1>2, <1>3, <2>1, LoneWindows
<1>11. /\ EndOfChat \in Messages /\ EndOfChat.kind = "END"
       /\ Len(streams[s]) \in Nat /\ Len(streams[n]) \in Nat
       /\ Len(Append(streams[s], EndOfChat)) = Len(streams[s]) + 1
       /\ Len(Append(streams[n], EndOfChat)) = Len(streams[n]) + 1
       /\ \A i \in 1 .. Len(streams[s]) : Append(streams[s], EndOfChat)[i] = streams[s][i]
       /\ \A i \in 1 .. Len(streams[n]) : Append(streams[n], EndOfChat)[i] = streams[n][i]
       /\ Append(streams[s], EndOfChat)[Len(streams[s]) + 1] = EndOfChat
       /\ Append(streams[n], EndOfChat)[Len(streams[n]) + 1] = EndOfChat
       /\ Len(streams[n]) = 0 => streams[n] = <<>>
  <2>1. EndOfChat \in Messages /\ EndOfChat.kind = "END" BY MessagesAre DEF EndOfChat
  <2> QED BY <1>2, <2>1, AppendProperties, LenProperties, EmptySeq
<1>12. CASE ~ IsListed(u, v)
  BY <1>4, <1>5, <1>6, <1>12, AsideWindows
<1>13. CASE IsListed(u, v) /\ u = A /\ v = B
  <2>1. a = s /\ f = frame[s] /\ frame[s] # 0 /\ s \notin closed /\ thread[s] # "none"
        /\ Errand(A, B) = Nothing
    BY <1>2, <1>3, <1>4, <1>5, <1>7, <1>10, <1>13 DEF Errand
  <2>2. /\ streams'[s] = <<>> /\ closed' = closed \cup {s}
        /\ streams'[n] = streams[n] \/ (streams'[n] = Append(streams[n], EndOfChat) /\ ~ Lost(n))
    BY <1>1, <1>4, <1>13, <2>1 DEF Lost
  <2>3. ~ Lost(n) /\ countMsg[n] = 0 => Len(streams[n]) # 0
    <3>1. countMsg[s] >= 2 => countMsg[n] >= 1 BY <1>1 DEF Handshake, StreamsFit
    <3>2. Errand(A, B).message.kind # "token" BY <1>2, <2>1
    <3>3. thread[n] = "answering" => countMsg[n] = 1 BY <1>1, PairIs DEF SideFits
    <3> QED BY <1>1, <1>2, <1>11, <2>1, <3>1, <3>2, <3>3 DEF Handshake, Answered
  <2>4. /\ ~ frames'[frame[s]].shown /\ frames'[frame[s]].enabled = frames[frame[s]].enabled
        /\ frame[n] # 0 => frames'[frame[n]].shown = frames[frame[n]].shown
    <3>1. /\ [frames EXCEPT ![f].shown = FALSE][f].shown = FALSE
          /\ [frames EXCEPT ![f].shown = FALSE][f].enabled = frames[f].enabled
      BY <1>1, <1>5, WindowSet
    <3>2. ASSUME frame[n] # 0
          PROVE  [frames EXCEPT ![f].shown = FALSE][frame[n]].shown = frames[frame[n]].shown
      BY <1>1, <1>5, <1>8, <1>9, <2>1, <3>2, OtherWindow
    <3> QED BY <1>5, <2>1, <3>1, <3>2
  <2>5. CallerSide(A, B, s, n)'
    BY <1>1, <1>2, <1>5, <1>6, <1>8, <2>1, <2>2, <2>4 DEF Handshake, CallerSide
  <2>6. CalledSide(A, B, s, n)'
    <3>1. n \in closed' <=> n \in closed BY <1>1, <2>2
    <3> QED BY <1>1, <1>5, <1>6, <2>2, <2>4, <3>1 DEF Handshake, CalledSide
  <2>7. StreamsFit(s, n)'
    <3>1. Len(streams'[s]) = 0 BY <2>2, EmptySeq
    <3>2. CASE streams'[n] = streams[n]
      BY <1>1, <1>5, <2>2, <3>1, <3>2 DEF Handshake, StreamsFit
    <3>3. CASE streams'[n] = Append(streams[n], EndOfChat) /\ ~ Lost(n)
      <4>1. ASSUME NEW i \in 1 .. Len(streams'[n])
            PROVE  /\ streams'[n][i].kind = "token" <=> i = 1 /\ countMsg'[n] = 0
                   /\ streams'[n][i].kind = "cipher" => countMsg'[s] >= 2
                   /\ streams'[n][i].kind = "END" => s \in closed'
        <5>1. CASE i \in 1 .. Len(streams[n])
          <6>1. streams'[n][i] = streams[n][i] BY <1>11, <3>3, <5>1
          <6> QED BY <1>1, <1>5, <2>2, <5>1, <6>1 DEF Handshake, StreamsFit
        <5>2. CASE i = Len(streams[n]) + 1
          <6>1. streams'[n][i].kind = "END" BY <1>11, <3>3, <5>2
          <6>2. ~ (i = 1 /\ countMsg[n] = 0) BY <1>11, <2>3, <3>3, <5>2
          <6> QED BY <1>5, <2>2, <6>1, <6>2
        <5> QED BY <1>11, <3>3, <5>1, <5>2
      <4> QED BY <1>1, <1>5, <2>2, <3>1, <4>1 DEF Handshake, StreamsFit
    <3> QED BY <2>2, <3>2, <3>3
  <2>8. Answered(A, B, s, n)' BY <2>2 DEF Answered
  <2> QED BY <2>5, <2>6, <2>7, <2>8 DEF Handshake
<1>14. CASE IsListed(u, v) /\ u = B /\ v = A
  <2>1. f = frame[n] /\ frame[n] # 0 /\ a = n /\ Errand(B, A) = Nothing
    BY <1>3, <1>5, <1>7, <1>10, <1>14 DEF Errand
  <2>2. countMsg[n] >= 2 /\ countMsg[s] >= 2
    BY <1>1, <1>5, <2>1 DEF Handshake, CalledSide, StreamsFit
  <2>3. countMsg[n] # 0 /\ countMsg[n] # 1 /\ countMsg[s] # 1 BY <1>2, <2>2
  <2>4. /\ sending[n] = Nothing /\ thread[n] \notin {"answering", "deriving"}
        /\ Errand(A, B).message.kind # "token" /\ thread[s] # "none"
    BY <1>1, <1>2, <2>3, PairIs DEF SideFits, Handshake, CallerSide
  <2>5. /\ streams'[n] = <<>> /\ closed' = closed \cup {n}
        /\ streams'[s] = streams[s] \/ streams'[s] = Append(streams[s], EndOfChat)
    BY <1>1, <1>4, <1>14, <2>1
  <2>6. /\ ~ frames'[frame[n]].shown
        /\ frame[s] # 0 => /\ frames'[frame[s]].shown = frames[frame[s]].shown
                           /\ frames'[frame[s]].enabled = frames[frame[s]].enabled
    <3>1. [frames EXCEPT ![f].shown = FALSE][f].shown = FALSE
      BY <1>1, <1>5, WindowSet
    <3>2. ASSUME frame[s] # 0
          PROVE  /\ [frames EXCEPT ![f].shown = FALSE][frame[s]].shown = frames[frame[s]].shown
                 /\ [frames EXCEPT ![f].shown = FALSE][frame[s]].enabled = frames[frame[s]].enabled
      BY <1>1, <1>5, <1>8, <2>1, <3>2, OtherWindow
    <3> QED BY <1>5, <2>1, <3>1, <3>2
  <2>7. s \in closed' <=> s \in closed BY <1>1, <2>5
  <2>8. CallerSide(A, B, s, n)'
    BY <1>1, <1>2, <1>5, <1>6, <1>8, <2>4, <2>6, <2>7 DEF Handshake, CallerSide
  <2>9. CalledSide(A, B, s, n)'
    BY <1>5, <1>6, <2>1, <2>4, <2>6 DEF CalledSide
  <2>10. StreamsFit(s, n)'
    <3>1. Len(streams'[n]) = 0 BY <2>5, EmptySeq
    <3>2. CASE streams'[s] = streams[s]
      BY <1>1, <1>5, <2>5, <3>1, <3>2 DEF Handshake, StreamsFit
    <3>3. CASE streams'[s] = Append(streams[s], EndOfChat)
      <4>1. ASSUME NEW i \in 1 .. Len(streams'[s])
            PROVE  /\ streams'[s][i].kind = "token" <=> countMsg'[s] = 1
                   /\ countMsg'[s] = 1 => i = 1
                   /\ streams'[s][i].kind = "END" => n \in closed'
        <5>1. CASE i \in 1 .. Len(streams[s])
          <6>1. streams'[s][i] = streams[s][i] BY <1>11, <3>3, <5>1
          <6> QED BY <1>1, <1>5, <2>5, <5>1, <6>1 DEF Handshake, StreamsFit
        <5>2. CASE i = Len(streams[s]) + 1
          <6>1. streams'[s][i].kind = "END" BY <1>11, <3>3, <5>2
          <6> QED BY <1>5, <2>3, <2>5, <6>1
        <5> QED BY <1>11, <3>3, <5>1, <5>2
      <4>2. countMsg[n] >= 1 BY <1>2, <2>2
      <4> QED BY <1>1, <1>5, <2>2, <3>1, <4>1, <4>2 DEF Handshake, StreamsFit
    <3> QED BY <2>5, <3>2, <3>3
  <2>11. Answered(A, B, s, n)' BY <1>5, <2>3 DEF Answered
  <2> QED BY <2>8, <2>9, <2>10, <2>11 DEF Handshake
<1>15. CASE IsListed(u, v) /\ ~ (u = A /\ v = B) /\ ~ (u = B /\ v = A)
  <2>1. a # s /\ a # n BY <1>7, <1>15
  <2>2. Mate(a) # s /\ Mate(a) # n BY <1>4, <1>15, <2>1, PairAlone
  <2>3. /\ streams'[s] = streams[s] /\ streams'[n] = streams[n]
        /\ s \in closed' <=> s \in closed
        /\ n \in closed' <=> n \in closed
    BY <1>1, <1>4, <1>15, <2>1, <2>2
  <2> QED BY <1>5, <1>6, <2>3, AsideWindows
<1> QED BY <1>12, <1>13, <1>14, <1>15

\* What no handshake notices.
LEMMA HandRest ==
    ASSUME NetInv, SideInv, LoneInv, [NetNext]_netVars,
           NEW c, NEW A, NEW B, NEW s, NEW n, IsPair(c, A, B, s, n),
           \/ \E u \in Users : OpenContacts(u)
           \/ \E k \in 1 .. MaxConns : TakeCall(k)
           \/ \E e \in Ends : Derive(e)
           \/ UNCHANGED netVars
    PROVE  Handshake(A, B, s, n)'
<1> USE DEF userVars, threadVars
<1>1. /\ TypeInv /\ s \in Ends /\ n \in Ends /\ s # n /\ s[2] = STARTER /\ n[2] = NO_STARTER
      /\ thread[s] \in {"none", "reading", "ended"}
  BY PairIs, PairHas
<1>2. UNCHANGED <<frames, frame, countMsg, streams, closed, sending>>
  BY DEF OpenContacts, TakeCall, Derive, netVars
<1>3. UNCHANGED <<Errand(A, B), Errand(B, A)>> BY <1>2 DEF Errand
<1>4. \/ thread' = thread
      \/ \E e \in Ends : /\ e # s /\ thread[e] \in {"none", "deriving"}
                         /\ thread' = [thread EXCEPT ![e] = "reading"]
  <2>1. ASSUME NEW k \in 1 .. MaxConns, TakeCall(k)
        PROVE  \E e \in Ends : /\ e # s /\ thread[e] \in {"none", "deriving"}
                               /\ thread' = [thread EXCEPT ![e] = "reading"]
    <3>1. PICK e : e = <<k, NO_STARTER>> OBVIOUS
    <3>2. e = N(k) /\ e \in Ends /\ e # s
      BY <1>1, <3>1, EndsOf, EndsAre DEF N, STARTER, NO_STARTER
    <3>3. thread[e] = "none" /\ thread' = [thread EXCEPT ![e] = "reading"]
      BY <2>1, <3>1 DEF TakeCall
    <3> QED BY <3>2, <3>3
  <2>2. ASSUME NEW e \in Ends, Derive(e)
        PROVE  e # s /\ thread[e] = "deriving" /\ thread' = [thread EXCEPT ![e] = "reading"]
    BY <1>1, <2>2 DEF Derive
  <2>3. (\E u \in Users : OpenContacts(u)) \/ UNCHANGED netVars => thread' = thread
    BY DEF OpenContacts, netVars
  <2> QED BY <2>1, <2>2, <2>3
<1>5. /\ thread'[s] = thread[s]
      /\ thread'[n] = thread[n] \/ (thread'[n] = "reading" /\ thread[n] \in {"none", "deriving"})
  <2>1. ASSUME NEW e \in Ends, e # s, thread[e] \in {"none", "deriving"},
               thread' = [thread EXCEPT ![e] = "reading"]
        PROVE  /\ thread'[s] = thread[s]
               /\ thread'[n] = thread[n]
                  \/ (thread'[n] = "reading" /\ thread[n] \in {"none", "deriving"})
    BY <1>1, <2>1 DEF TypeInv
  <2> QED BY <1>4, <2>1
<1> QED BY <1>2, <1>3, <1>5, AsideWindows

LEMMA HandshakesFit ==
    ASSUME NetInv, SideInv, LoneInv, [NetNext]_netVars, NEW c \in 1 .. Len(conns')
    PROVE  HandshakeFits(c)'
<1>1. TypeInv BY DEF NetInv
<1>2. ASSUME NEW A, NEW B, NEW s, NEW n, IsPair(c, A, B, s, n), Lone(A, B)'
      PROVE  Handshake(A, B, s, n)'
  <2>1. CASE \E u \in Users : \E v \in Users : StartCall(u, v) BY <1>2, <2>1, HandStart
  <2>2. CASE \E t \in Writers : Reach(t) \/ Join(t) \/ WriteFound(t)
    BY <1>2, <2>2, HandReach, HandJoin, HandWrite
  <2>3. CASE \E e \in Ends : ReadFirst(e) \/ ReadAnswer(e) \/ ReadText(e)
    BY <1>2, <2>3, HandFirst, HandAnswer, HandText
  <2>4. CASE \E e \in Ends : ReadClose(e) \/ SocketEnds(e)
    BY <1>2, <2>4, HandReadClose, HandSocket
  <2>5. CASE \E f \in 1 .. Len(frames) : PressSend(f) \/ PressClose(f)
    BY <1>2, <2>5, HandSend, HandPressClose
  <2>6. CASE \/ \E u \in Users : OpenContacts(u)
             \/ \E k \in 1 .. MaxConns : TakeCall(k)
             \/ \E e \in Ends : Derive(e)
             \/ UNCHANGED netVars
    BY <1>2, <2>6, HandRest
  <2> QED BY <2>1, <2>2, <2>3, <2>4, <2>5, <2>6 DEF NetNext
<1>3. ASSUME c \in 1 .. Len(conns), LoneConn(c)'
      PROVE  HandshakeFits(c)'
  <2>1. PICK A, B, s, n : A = conns[c].from /\ B = conns[c].to /\ s = S(c) /\ n = N(c) OBVIOUS
  <2>2. conns'[c] = conns[c] /\ A \in Users /\ B \in Users
    BY <1>1, <1>3, <2>1, ConnsKept, OwnersAre
  <2>3. Lone(A, B)' BY <1>3, <2>1, <2>2 DEF LoneConn
  <2>4. IsPair(c, A, B, s, n)
    <3>1. Lone(A, B) BY <2>2, <2>3, LoneKept
    <3> QED BY <1>3, <2>1, <3>1 DEF IsPair, LoneConn
  <2>5. Handshake(A, B, s, n)' BY <1>2, <2>3, <2>4
  <2> QED BY <2>1, <2>2, <2>5
          DEF HandshakeFits, Handshake, CallerSide, CalledSide, StreamsFit, Answered, Lost, Errand
<1>4. ASSUME c \notin 1 .. Len(conns), LoneConn(c)'
      PROVE  HandshakeFits(c)'
  <2>1. PICK t \in Writers : Reach(t) BY <1>4, ConnsKept
  <2>2. PICK A, B, s, n : A = Writer(t) /\ B = Target(t) /\ s = S(c) /\ n = N(c) OBVIOUS
  <2>3. c = Len(conns) + 1 /\ conns'[c].from = A /\ conns'[c].to = B
    BY <1>4, <2>1, <2>2, ReachAdds
  <2>4. Lone(A, B)
    <3>1. Lone(A, B)' BY <1>4, <2>3 DEF LoneConn
    <3> QED BY <2>1, <3>1 DEF Lone, Reach, userVars
  <2>5. Handshake(A, B, s, n)' BY <2>1, <2>2, <2>3, <2>4, HandNew
  <2> QED BY <2>2, <2>3, <2>5
          DEF HandshakeFits, Handshake, CallerSide, CalledSide, StreamsFit, Answered, Lost, Errand
<1> QED BY <1>3, <1>4 DEF HandshakeFits

-------------------------------------------------------------------------------
(******************* The first message does not get lost *******************)

\* Sockets are closed by an END that is read or a window that is closed.
LEMMA ClosedBy ==
    ASSUME NetInv, [NetNext]_netVars
    PROVE  /\ closed \subseteq closed'
           /\ \/ closed' = closed
              \/ \E e \in Ends : ReadClose(e)
              \/ \E f \in 1 .. Len(frames) : PressClose(f)
<1>1. \/ closed' = closed
      \/ \E e \in Ends : ReadClose(e)
      \/ \E f \in 1 .. Len(frames) : PressClose(f)
  BY DEF NetNext, netVars, OpenContacts, StartCall, Reach, Join, WriteFound, TakeCall, ReadFirst,
         Derive, ReadAnswer, ReadText, SocketEnds, PressSend, userVars, threadVars
<1>2. ASSUME NEW e \in Ends, ReadClose(e) PROVE closed \subseteq closed'
  <2>1. PICK u, v, a : u = Owner(e) /\ v = dest[e] /\ a = Find(u, v) OBVIOUS
  <2>2. closed' = closed \/ closed' = closed \cup {a} BY <1>2, <2>1, ReadCloses
  <2> QED BY <2>2
<1>3. ASSUME NEW f \in 1 .. Len(frames), PressClose(f) PROVE closed \subseteq closed'
  <2>1. PICK u, v, a : u = frames[f].user /\ v = frames[f].dest /\ a = Find(u, v) OBVIOUS
  <2>2. closed' = closed \/ closed' = closed \cup {a} BY <1>3, <2>1, PressCloses
  <2> QED BY <2>2
<1> QED BY <1>1, <1>2, <1>3

\* A thread ends when it reads a text that is none or an END, or its socket ends.
LEMMA EndedBy ==
    ASSUME NetInv, [NetNext]_netVars, NEW d \in Ends, thread'[d] = "ended"
    PROVE  thread[d] = "ended" \/ ReadText(d) \/ ReadClose(d) \/ SocketEnds(d)
<1> USE DEF userVars, threadVars
<1>1. thread \in [Ends -> Threads] BY DEF NetInv, TypeInv
<1>2. ASSUME NEW e \in Ends, e # d \/ thread' = thread,
             ReadFirst(e) \/ Derive(e) \/ ReadAnswer(e) \/ ReadText(e) \/ ReadClose(e) \/ SocketEnds(e)
      PROVE  thread[d] = "ended"
  BY <1>1, <1>2 DEF ReadFirst, Derive, ReadAnswer, ReadText, ReadClose, SocketEnds
<1>3. ASSUME ReadFirst(d) \/ Derive(d) PROVE FALSE
  BY <1>1, <1>3 DEF ReadFirst, Derive
<1>4. ASSUME NEW t \in Writers, Join(t) \/ WriteFound(t) \/ Reach(t) PROVE thread[d] = "ended"
  BY <1>1, <1>4 DEF Join, WriteFound, Reach
<1>5. ASSUME NEW k \in 1 .. MaxConns, TakeCall(k) PROVE thread[d] = "ended"
  BY <1>1, <1>5 DEF TakeCall
<1>6. ASSUME thread' = thread PROVE thread[d] = "ended" BY <1>6
<1>7. ASSUME ReadAnswer(d) PROVE thread' = thread BY <1>7 DEF ReadAnswer
<1>8. ASSUME NEW u \in Users, OpenContacts(u) \/ \E v \in Users : StartCall(u, v)
      PROVE  thread' = thread
  BY <1>8 DEF OpenContacts, StartCall
<1>9. ASSUME NEW f \in 1 .. Len(frames), PressSend(f) \/ PressClose(f) PROVE thread' = thread
  BY <1>9 DEF PressSend, PressClose
<1>10. UNCHANGED netVars => thread' = thread BY DEF netVars
<1> QED BY <1>2, <1>3, <1>4, <1>5, <1>6, <1>7, <1>8, <1>9, <1>10 DEF NetNext

\* An end that has not been read is closed by nobody while everybody has one
\* call at most with its user: END goes along a chat whose number is known.
LEMMA NotClosed ==
    ASSUME NetInv, SideInv, LoneInv, NEW c, NEW A, NEW B, NEW s, NEW n, IsPair(c, A, B, s, n),
           Quiet(B), countMsg[n] = 0, n \notin closed, NEW e \in Ends, ReadClose(e)
    PROVE  e # n /\ n \notin closed'
<1>1. /\ TypeInv /\ n \in Ends /\ A \in Users /\ B \in Users /\ Handshake(A, B, s, n)
      /\ c \in 1 .. Len(conns) /\ LoneConn(c) /\ A = conns[c].from /\ B = conns[c].to
      /\ s = S(c) /\ n = N(c) /\ n \in Used
  BY PairIs DEF IsPair
<1>2. PICK u, v, a : u = Owner(e) /\ v = dest[e] /\ a = Find(u, v) OBVIOUS
<1>3. /\ e \in Used /\ thread[e] = "reading" /\ u \in Users
      /\ ~ IsListed(u, v) => closed' = closed
      /\ IsListed(u, v) => closed' = closed \cup {a}
  BY <1>2, ReadCloses
<1>4. streams[e][1].kind = "END" /\ 1 \in 1 .. Len(streams[e])
  <2>1. streams[e] \in Seq(Messages) BY <1>1 DEF TypeInv
  <2>2. streams[e] # <<>> /\ Head(streams[e]).kind = "END" BY DEF ReadClose
  <2>3. Len(streams[e]) \in Nat /\ Len(streams[e]) # 0 /\ Head(streams[e]) = streams[e][1]
    BY <2>1, <2>2, StreamIs
  <2> QED BY <2>2, <2>3
<1>5. e # n BY <1>1, <1>4 DEF Handshake, StreamsFit
<1>6. ASSUME IsListed(u, v), a = n PROVE FALSE
  <2>1. u = B /\ (v = A \/ v = Nobody)
    <3>1. \A w \in Users : \A x : IsListed(w, x) /\ Find(w, x) = n =>
             w = B /\ (x = A \/ (x = Nobody /\ countMsg[n] = 0))
      BY <1>1, LoneChats
    <3> QED BY <1>2, <1>3, <1>6, <3>1
  <2>2. CASE v = A
    <3>1. \A d \in Used : (Owner(d) = B /\ Owner(Mate(d)) = A) <=> d = n BY <1>1, LoneEnds
    <3>2. v # Nobody BY <1>1, <2>2, NetworkAssumption
    <3>3. Owner(Mate(e)) = A BY <1>2, <1>3, <2>2, <3>2 DEF NetInv, EndFits
    <3> QED BY <1>2, <1>3, <1>5, <2>1, <3>1, <3>3
  <2>3. CASE v = Nobody
    <3>1. PICK k : k = e[1] OBVIOUS
    <3>2. k \in 1 .. Len(conns) /\ (e = S(k) \/ e = N(k)) BY <1>1, <1>3, <3>1, OwnersAre, EndIs
    <3>3. SideFits(e) /\ frame[e] = 0 BY <1>2, <2>3 DEF SideInv, SideFits
    <3>4. e = N(k) /\ countMsg[e] = 0
      BY <1>3, <3>2, <3>3, EndsAre DEF SideFits
    <3>5. conns[k].to = B /\ conns[k].from \in Users
      BY <1>1, <1>2, <2>1, <3>2, <3>4, OwnersAre
    <3>6. HandshakeFits(k) /\ LoneConn(k) BY <3>2, <3>5 DEF LoneInv, Quiet, LoneConn
    <3>7. StreamsFit(S(k), N(k)) BY <3>6 DEF HandshakeFits, Handshake
    <3> QED BY <1>4, <3>4, <3>7 DEF StreamsFit
  <2> QED BY <2>1, <2>2, <2>3
<1> QED BY <1>3, <1>5, <1>6

LEMMA KeptFits ==
    ASSUME NetInv, SideInv, LoneInv, [NetNext]_netVars, NEW c \in 1 .. Len(conns')
    PROVE  Kept(c)'
<1>1. TypeInv BY DEF NetInv
<1>2. ASSUME NEW A, NEW B, NEW s, NEW n, IsPair(c, A, B, s, n), Quiet(B), Lost(n)'
      PROVE  s \in closed'
  <2>1. /\ s \in Ends /\ n \in Ends /\ s \in Used /\ n \in Used /\ Mate(n) = s
        /\ A \in Users /\ B \in Users /\ A # B /\ n[2] = NO_STARTER
        /\ c \in 1 .. Len(conns) /\ LoneConn(c) /\ A = conns[c].from /\ B = conns[c].to
        /\ s = S(c) /\ n = N(c)
    BY <1>2, PairIs DEF IsPair
  <2>2. countMsg[n] = 0 /\ frame[n] = 0
    <3>1. countMsg[n] \in Nat /\ countMsg'[n] = 0 /\ countMsg[n] <= countMsg'[n]
      BY <1>2, <2>1, FrameKept DEF Lost
    <3>2. countMsg[n] = 0 BY <3>1
    <3> QED BY <1>2, <3>2, PairHas
  <2>3. CASE Lost(n)
    <3>1. s \in closed BY <1>2, <2>1, <2>3 DEF LoneInv, Kept
    <3> QED BY <3>1, ClosedBy
  <2>4. CASE ~ Lost(n)
    <3>1. n \notin closed /\ thread[n] # "ended" BY <2>2, <2>4 DEF Lost
    <3>2. n \notin closed'
      <4>1. ASSUME NEW f \in 1 .. Len(frames), PressClose(f) PROVE n \notin closed'
        <5>1. PICK u, v, a : u = frames[f].user /\ v = frames[f].dest /\ a = Find(u, v) OBVIOUS
        <5>2. /\ u \in Users /\ v \in Users
              /\ ~ IsListed(u, v) => closed' = closed
              /\ IsListed(u, v) => closed' = closed \cup {a}
          BY <4>1, <5>1, PressCloses
        <5>3. ASSUME IsListed(u, v), a = n PROVE FALSE
          <6>1. \A w \in Users : \A x : IsListed(w, x) /\ Find(w, x) = n =>
                   w = B /\ (x = A \/ (x = Nobody /\ countMsg[n] = 0))
            BY <2>1, LoneChats
          <6>2. u = B /\ v = A BY <5>1, <5>2, <5>3, <6>1, NetworkAssumption
          <6>3. \A g \in 1 .. Len(frames) :
                   frames[g].user = B /\ frames[g].dest = A =>
                       frames[g].type = NO_STARTER /\ g = frame[n] /\ frame[n] # 0
            BY <2>1, LoneWindows
          <6> QED BY <2>2, <5>1, <6>2, <6>3
        <5> QED BY <3>1, <5>2, <5>3
      <4>2. ASSUME NEW e \in Ends, ReadClose(e) PROVE n \notin closed'
        BY <1>2, <2>2, <3>1, <4>2, NotClosed
      <4> QED BY <3>1, <4>1, <4>2, ClosedBy
    <3>3. thread'[n] = "ended" BY <1>2, <3>2 DEF Lost
    <3>4. ~ ReadClose(n) BY <1>2, <2>1, <2>2, <3>1, NotClosed
    <3>5. ~ ReadText(n)
      <4>1. ASSUME ReadText(n) PROVE FALSE
        <5>1. countMsg'[n] >= 2 BY <4>1 DEF ReadText
        <5>2. countMsg'[n] = 0 BY <1>2 DEF Lost
        <5> QED BY <5>1, <5>2
      <4> QED BY <4>1
    <3>6. SocketEnds(n) BY <2>1, <3>1, <3>3, <3>4, <3>5, EndedBy
    <3>7. s \in closed BY <2>1, <3>1, <3>6 DEF SocketEnds
    <3> QED BY <3>7, ClosedBy
  <2> QED BY <2>3, <2>4
<1>3. ASSUME c \in 1 .. Len(conns) PROVE Kept(c)'
  <2>1. PICK A, B, s, n : A = conns[c].from /\ B = conns[c].to /\ s = S(c) /\ n = N(c) OBVIOUS
  <2>2. conns'[c] = conns[c] /\ A \in Users /\ B \in Users
    BY <1>1, <1>3, <2>1, ConnsKept, OwnersAre
  <2>3. ASSUME Quiet(B)', Lost(n)' PROVE s \in closed'
    <3>1. Quiet(B) BY <2>2, <2>3, QuietKept
    <3>2. IsPair(c, A, B, s, n) BY <1>3, <2>1, <2>2, <3>1 DEF IsPair, LoneConn, Quiet
    <3> QED BY <1>2, <2>3, <3>1, <3>2
  <2> QED BY <2>1, <2>2, <2>3 DEF Kept, Quiet, Lone
<1>4. ASSUME c \notin 1 .. Len(conns) PROVE ~ Lost(N(c))'
  <2>1. PICK t \in Writers : Reach(t) BY <1>4, ConnsKept
  <2>2. c = Len(conns) + 1 BY <1>4, <2>1, ReachAdds
  <2>3. UNCHANGED <<thread, closed, countMsg>> BY <2>1 DEF Reach, threadVars
  <2>4. thread[N(c)] = "none" /\ N(c) \notin closed
    <3>1. Len(conns) \in Nat /\ Len(conns) < MaxConns BY <1>1, <2>1, OwnersAre DEF Reach
    <3>2. c \in 1 .. MaxConns /\ ~ (c <= Len(conns)) BY <2>2, <3>1, NetworkAssumption
    <3>3. N(c) \in Ends /\ N(c)[1] = c BY <3>2, EndsOf, EndsAre
    <3> QED BY <3>2, <3>3 DEF Used, NetInv, EndFits
  <2> QED BY <2>3, <2>4 DEF Lost
<1> QED BY <1>3, <1>4 DEF Kept

LEMMA NetInit_LoneInv == NetInit => LoneInv
<1> SUFFICES ASSUME NetInit PROVE LoneInv
  OBVIOUS
<1>1. Len(conns) = 0 /\ Len(frames) = 0 BY EmptySeq DEF NetInit
<1>2. \A u \in Users : sending[u] = Nothing BY WritersAre DEF NetInit
<1> QED BY <1>1, <1>2 DEF LoneInv, Occupied

LEMMA LoneInvKept == NetInv /\ SideInv /\ LoneInv /\ [NetNext]_netVars => LoneInv'
<1> SUFFICES ASSUME NetInv, SideInv, LoneInv, [NetNext]_netVars PROVE LoneInv'
  OBVIOUS
<1>1. \A f \in 1 .. Len(frames') : WindowCalled(f)' /\ OneWindow(f)' BY WindowsCalled, WindowsOnce
<1>2. \A u \in Users : Occupied(u)' BY UsersOccupied
<1>3. \A c \in 1 .. Len(conns') : ConnCalled(c)' /\ OneConn(c)' /\ HandshakeFits(c)' /\ Kept(c)'
  BY ConnsFit, HandshakesFit, KeptFits
<1> QED BY <1>1, <1>2, <1>3 DEF LoneInv

LEMMA CallsInvHolds == NetSpec => [](NetInv /\ SideInv /\ LoneInv)
<1>1. NetInit => NetInv /\ SideInv /\ LoneInv BY NetInit_NetInv, NetInit_SideInv, NetInit_LoneInv
<1>2. NetInv /\ SideInv /\ LoneInv /\ [NetNext]_netVars => (NetInv /\ SideInv /\ LoneInv)'
  BY NetInvKept, SideInvKept, LoneInvKept
<1> QED BY <1>1, <1>2, PTL DEF NetSpec

(* A token or a text is met where the count of its reader expects one, while
   the two have called each other once at most: the counts decide what a
   message is taken for. *)
THEOREM MessagesFit == NetSpec => []MessagesFitTheirCount
<1>1. NetInv /\ SideInv /\ LoneInv => MessagesFitTheirCount
  <2> SUFFICES ASSUME NetInv, SideInv, LoneInv, NEW e \in Used,
                      Lone(Owner(e), Owner(Mate(e))), streams[e] # <<>>, NEW m, m = Head(streams[e])
               PROVE  /\ m.kind = "token" => countMsg[e] = IF e[2] = STARTER THEN 1 ELSE 0
                      /\ m.kind = "cipher" => countMsg[e] >= IF e[2] = STARTER THEN 2 ELSE 1
    BY DEF MessagesFitTheirCount
  <2>1. PICK c, A, B, s, n : c = e[1] /\ A = conns[c].from /\ B = conns[c].to /\ s = S(c) /\ n = N(c)
    OBVIOUS
  <2>2. TypeInv /\ e \in Ends BY DEF NetInv, Used
  <2>3. /\ c \in 1 .. Len(conns) /\ A \in Users /\ B \in Users /\ (e = s \/ e = n)
        /\ Owner(s) = A /\ Owner(n) = B /\ Mate(s) = n /\ Mate(n) = s
    BY <2>1, <2>2, OwnersAre, EndIs, EndsAre
  <2>4. calls[A][B] \in Nat /\ calls[B][A] \in Nat BY <2>2, <2>3 DEF TypeInv
  <2>5. Lone(A, B) BY <2>3, <2>4 DEF Lone
  <2>6. IsPair(c, A, B, s, n) BY <2>1, <2>3, <2>5 DEF IsPair, LoneConn
  <2>7. m = streams[e][1] /\ 1 \in 1 .. Len(streams[e])
    <3>1. streams[e] \in Seq(Messages) BY <2>2 DEF TypeInv
    <3>2. Len(streams[e]) \in Nat /\ Len(streams[e]) # 0 /\ Head(streams[e]) = streams[e][1]
      BY <3>1, StreamIs
    <3> QED BY <3>2
  <2>8. /\ CallerSide(A, B, s, n) /\ StreamsFit(s, n) /\ s[2] = STARTER /\ n[2] = NO_STARTER
        /\ countMsg[s] \in Nat /\ countMsg[n] \in Nat
        /\ thread[s] # "none" => countMsg[s] >= 1
    BY <2>6, PairIs, PairHas DEF Handshake
  <2>9. CASE e = s
    <3>1. m.kind = "token" <=> countMsg[s] = 1 BY <2>7, <2>8, <2>9 DEF StreamsFit
    <3>2. countMsg[n] >= 1 BY <2>8, <2>9 DEF StreamsFit
    <3>3. countMsg[n] # 0 BY <2>8, <3>2
    <3>4. countMsg[s] >= 1 BY <2>8, <3>3 DEF CallerSide
    <3>5. m.kind = "cipher" => countMsg[s] >= 2 BY <2>8, <3>1, <3>4
    <3> QED BY <2>8, <2>9, <3>1, <3>5
  <2>10. CASE e = n
    <3>1. m.kind = "token" <=> countMsg[n] = 0 BY <2>7, <2>8, <2>10 DEF StreamsFit
    <3>2. m.kind = "cipher" => countMsg[n] >= 1 BY <2>8, <3>1
    <3> QED BY <2>8, <2>10, <3>1, <3>2 DEF STARTER, NO_STARTER
  <2> QED BY <2>3, <2>9, <2>10
<1> QED BY <1>1, CallsInvHolds, PTL

(* A call is never forgotten while its window waits, if everybody has called,
   or been called by, the called user once at most. *)
THEOREM Answers == NetSpec => []CallsAreAnswered
<1>1. NetInv /\ SideInv /\ LoneInv => CallsAreAnswered
  <2> SUFFICES ASSUME NetInv, SideInv, LoneInv, NEW f \in DOMAIN frames,
                      frames[f].type = STARTER, frames[f].shown, ~ frames[f].enabled,
                      Quiet(frames[f].dest)
               PROVE  UnderWay(f)
    BY DEF CallsAreAnswered
  <2>1. TypeInv /\ f \in 1 .. Len(frames) /\ f # 0 BY LenProperties DEF NetInv, TypeInv
  <2>2. frames[f].user \in Users
    <3>1. frames[f] \in Windows BY <2>1, ElementOfSeq DEF TypeInv
    <3> QED BY <3>1 DEF Windows
  <2>3. \/ sending[frames[f].user].frame = f
        \/ \E c \in 1 .. Len(conns) : frame[S(c)] = f
    BY <2>1, <2>2 DEF LoneInv, OneWindow, Quiet
  <2>4. ASSUME NEW c \in 1 .. Len(conns), frame[S(c)] = f PROVE UnderWay(f)
    <3>1. PICK A, B, s, n : A = conns[c].from /\ B = conns[c].to /\ s = S(c) /\ n = N(c) OBVIOUS
    <3>2. /\ A = frames[f].user /\ B = frames[f].dest /\ Quiet(B)
      <4>1. /\ s \in Used /\ Owner(s) = A /\ Owner(Mate(s)) = B
        BY <2>1, <3>1, OwnersAre, EndsAre
      <4> QED BY <2>1, <2>4, <3>1, <4>1 DEF NetInv, EndFits, Used
    <3>3. IsPair(c, A, B, s, n) BY <2>2, <3>1, <3>2 DEF IsPair, LoneConn, Quiet
    <3>4. /\ s \in Used /\ s[2] = STARTER /\ Mate(s) = n /\ n[2] = NO_STARTER
          /\ CallerSide(A, B, s, n) /\ Answered(A, B, s, n) /\ SideFits(n)
          /\ n \in Ends /\ TypeInv
      BY <3>3, PairIs DEF Handshake
    <3>5. /\ thread[s] # "none" /\ countMsg[s] >= 1 /\ countMsg[s] \in Nat /\ frame[s] = f
      BY <2>1, <2>4, <3>1, <3>3, PairHas
    <3>6. countMsg[s] = 1 /\ s \notin closed
      <4>1. ~ (countMsg[s] >= 2) /\ s \notin closed BY <3>4, <3>5 DEF CallerSide
      <4> QED BY <3>5, <4>1
    <3>7. ~ Lost(n) BY <3>1, <3>2, <3>6 DEF LoneInv, Kept
    <3>8. /\ thread[s] = "reading"
          /\ \/ Errand(A, B).message.kind = "token"
             \/ countMsg[n] = 0 /\ streams[n] # <<>>
             \/ thread[n] = "answering"
             \/ streams[s] # <<>>
      BY <3>4, <3>5, <3>6, <3>7 DEF Answered
    <3>9. CASE Errand(A, B).message.kind = "token"
      <4>1. Errand(A, B) # Nothing /\ Errand(A, B) = sending[A] BY <3>3, <3>9, PairHas
      <4>2. sending[A].frame = f BY <3>4, <3>5, <4>1 DEF CallerSide
      <4> QED BY <3>2, <4>2 DEF UnderWay
    <3>10. CASE countMsg[n] = 0 /\ streams[n] # <<>>
      <4>1. thread[n] \in {"none", "reading"}
        <5>1. thread[n] \in Threads /\ thread[n] # "ended" BY <3>4, <3>7, <3>10 DEF TypeInv, Lost
        <5> QED BY <3>4, <3>10, <5>1 DEF Threads, SideFits
      <4> QED BY <3>4, <3>5, <3>6, <3>8, <3>10, <4>1 DEF UnderWay
    <3>11. CASE thread[n] = "answering" BY <3>4, <3>5, <3>6, <3>8, <3>11 DEF UnderWay
    <3>12. CASE streams[s] # <<>> BY <3>4, <3>5, <3>6, <3>8, <3>12 DEF UnderWay
    <3> QED BY <3>8, <3>9, <3>10, <3>11, <3>12
  <2> QED BY <2>3, <2>4 DEF UnderWay
<1> QED BY <1>1, CallsInvHolds, PTL

-------------------------------------------------------------------------------
(********************** The boards of those who call ***********************)

(* A handshake is over when both ends have derived their keys.  Until then the
   boards are where its messages say, and no other handshake is open: whoever
   starts one does so when all are over, or calm is gone. *)
AllLone    == \A u, v \in Users : Lone(u, v)
Dials(u)   == sending[u].message.kind = "token"
Exchanging(n) == thread[n] \in {"answering", "deriving"}
IsOver(c)  == countMsg[S(c)] >= 2 /\ countMsg[N(c)] >= 1 /\ ~ Exchanging(N(c))

KeysFit(s, n) ==
    LET b == boards[STARTER]
        d == boards[NO_STARTER]
    IN
    /\ countMsg[s] <= 1 => b.my_k = b.my_f /\ b.my_f # {} /\ s \notin closed
    /\ countMsg[n] = 0 /\ streams[n] # <<>> => streams[n][1].key = b.my_k
    /\ countMsg[n] >= 1 /\ countMsg[s] = 1 => firstToken[n] = b.my_f
    /\ Exchanging(n) => d.my_k = d.my_f /\ d.my_f # {}
    /\ thread[n] = "answering" => sending[n].message.key = d.my_k
    /\ countMsg[s] = 1 /\ thread[n] = "deriving" => streams[s][1].key = d.my_k
    /\ countMsg[s] = 1 /\ countMsg[n] >= 1 /\ ~ Exchanging(n) =>
          d.my_k = b.my_f \cup streams[s][1].key
    /\ countMsg[s] >= 2 /\ thread[n] = "deriving" => b.my_k = firstToken[n] \cup d.my_f

DialFits(u) ==
    LET b == boards[STARTER]
        m == sending[u].message
    IN
    Dials(u) =>
        /\ m.key = b.my_k /\ b.my_k = b.my_f /\ b.my_f # {}
        /\ \A c \in 1 .. Len(conns) : ~ IsOver(c) => conns[c].from = u /\ conns[c].to = m.to

OneOpen == /\ \A c, d \in 1 .. Len(conns) : ~ IsOver(c) /\ ~ IsOver(d) => c = d
           /\ \A u, v \in Users : Dials(u) /\ Dials(v) => u = v
AllOver == (\A u \in Users : ~ Dials(u)) /\ (\A c \in 1 .. Len(conns) : IsOver(c))
BoardsFit ==
    /\ OneOpen
    /\ \A u \in Users : DialFits(u)
    /\ \A c \in 1 .. Len(conns) : ~ IsOver(c) => KeysFit(S(c), N(c))
    /\ AllOver => boards[STARTER].my_k = boards[NO_STARTER].my_k
BoardInv == calm /\ AllLone => BoardsFit

LEMMA CalmKept ==
    ASSUME NetInv, [NetNext]_netVars, calm', AllLone'
    PROVE  calm /\ AllLone
<1> USE DEF userVars, threadVars
<1>1. AllLone BY LoneKept DEF AllLone
<1>2. calm \in BOOLEAN BY DEF NetInv, TypeInv
<1>3. calm
  BY <1>2 DEF NetNext, netVars, OpenContacts, StartCall, Reach, Join, WriteFound, TakeCall,
              ReadFirst, Derive, ReadAnswer, ReadText, ReadClose, SocketEnds, PressSend, PressClose
<1> QED BY <1>1, <1>3

LEMMA PairsAre ==
    ASSUME NetInv, AllLone, NEW c \in 1 .. Len(conns)
    PROVE  /\ IsPair(c, conns[c].from, conns[c].to, S(c), N(c))
           /\ conns[c].to \in Users /\ Quiet(conns[c].to)
<1>1. TypeInv BY DEF NetInv
<1>2. conns[c].from \in Users /\ conns[c].to \in Users BY <1>1, OwnersAre
<1> QED BY <1>2 DEF IsPair, LoneConn, AllLone, Quiet

\* What is open while a handshake goes on.
LEMMA OpenIs ==
    ASSUME NetInv, SideInv, LoneInv, AllLone, BoardsFit,
           NEW c, NEW A, NEW B, NEW s, NEW n, IsPair(c, A, B, s, n)
    PROVE  /\ c \in 1 .. Len(conns) /\ s = S(c) /\ n = N(c)
           /\ countMsg[s] \in Nat /\ countMsg[n] \in Nat
           /\ ~ IsOver(c) <=> countMsg[s] <= 1 \/ Exchanging(n)
           /\ ~ IsOver(c) => KeysFit(s, n)
           /\ Exchanging(n) => countMsg[n] = 1 /\ n \notin closed
           /\ countMsg[s] = 1 => s \notin closed /\ ~ Lost(n) /\ thread[s] = "reading"
           /\ ~ IsOver(c) => \A d \in 1 .. Len(conns) : d # c => IsOver(d)
<1>1. c \in 1 .. Len(conns) /\ s = S(c) /\ n = N(c) /\ A = conns[c].from /\ B = conns[c].to
  BY DEF IsPair
<1>2. /\ countMsg[s] \in Nat /\ countMsg[n] \in Nat /\ Handshake(A, B, s, n)
      /\ SideFits(n) /\ EndFits(s) /\ n[2] = NO_STARTER
  BY PairHas, PairIs
<1>3. ~ IsOver(c) <=> countMsg[s] <= 1 \/ Exchanging(n)
  <2>1. countMsg[s] >= 2 => countMsg[n] >= 1 BY <1>2 DEF Handshake, StreamsFit
  <2> QED BY <1>1, <1>2, <2>1 DEF IsOver
<1>4. ~ IsOver(c) => KeysFit(s, n) BY <1>1 DEF BoardsFit
<1>5. Exchanging(n) => countMsg[n] = 1 /\ n \notin closed
  BY <1>2 DEF Exchanging, SideFits, Handshake, CalledSide
<1>6. ASSUME countMsg[s] = 1 PROVE s \notin closed /\ ~ Lost(n) /\ thread[s] = "reading"
  <2>1. countMsg[s] <= 1 /\ countMsg[s] # 0 BY <1>6
  <2>2. s \notin closed BY <1>3, <1>4, <2>1 DEF KeysFit
  <2>3. Kept(c) /\ Quiet(B) BY <1>1, PairsAre DEF LoneInv
  <2>4. ~ Lost(n) BY <1>1, <2>2, <2>3 DEF Kept
  <2>5. thread[s] # "none"
    <3>1. EndFits(s) => (thread[s] = "none" => countMsg[s] = 0) BY DEF EndFits
    <3> QED BY <1>2, <2>1, <3>1
  <2> QED BY <1>2, <1>6, <2>2, <2>4, <2>5 DEF Handshake, Answered
<1>7. ~ IsOver(c) => \A d \in 1 .. Len(conns) : d # c => IsOver(d)
  BY <1>1 DEF BoardsFit, OneOpen
<1> QED BY <1>1, <1>2, <1>3, <1>4, <1>5, <1>6, <1>7

\* When nothing shakes, everything is over.
LEMMA RestIsOver ==
    ASSUME NetInv, SideInv, LoneInv, AllLone, BoardsFit, ~ Shaking
    PROVE  AllOver
<1>1. \A t \in Writers : sending[t].message.kind # "token" BY DEF Shaking
<1>2. \A u \in Users : ~ Dials(u) BY <1>1, WritersAre DEF Dials
<1>3. ASSUME NEW c \in 1 .. Len(conns), ~ IsOver(c) PROVE FALSE
  <2>1. PICK A, B, s, n : IsPair(c, A, B, s, n) BY PairsAre
  <2>2. /\ s \in Used /\ n \in Used /\ n \in Writers /\ s[2] = STARTER /\ n[2] = NO_STARTER
        /\ A \in Writers /\ SideFits(n) /\ SideFits(s) /\ Handshake(A, B, s, n)
    BY <2>1, PairIs
  <2>3. /\ countMsg[s] \in Nat
        /\ countMsg[s] <= 1 \/ Exchanging(n)
        /\ Exchanging(n) => n \notin closed
        /\ countMsg[s] = 1 => s \notin closed /\ thread[s] = "reading"
    BY <1>3, <2>1, OpenIs
  <2>4. thread[n] # "deriving"
    BY <2>2, <2>3 DEF Shaking, Exchanging
  <2>5. thread[n] # "answering"
    <3>1. thread[n] = "answering" => sending[n] # Nothing BY <2>2 DEF SideFits
    <3>2. sending[n] # Nothing => sending[n].message.kind = "token" BY <2>1, PairHas
    <3> QED BY <1>1, <2>2, <3>1, <3>2
  <2>6. countMsg[s] # 1 BY <2>2, <2>3 DEF Shaking
  <2>7. countMsg[s] = 0 BY <2>3, <2>4, <2>5, <2>6 DEF Exchanging
  <2>8. thread[s] = "none" BY <2>2, <2>7 DEF SideFits
  <2>9. Errand(A, B).message.kind = "token" BY <2>2, <2>8 DEF Handshake, CallerSide
  <2>10. Errand(A, B) = sending[A] \/ Errand(A, B) = Nothing BY DEF Errand
  <2>11. Nothing.message.kind # "token" BY MessagesAre
  <2> QED BY <1>1, <2>2, <2>9, <2>10, <2>11
<1> QED BY <1>2, <1>3 DEF AllOver

-------------------------------------------------------------------------------
(************************ Steps that leave the keys ************************)

Holds(c) == /\ IsOver(c)' <=> IsOver(c)
            /\ ~ IsOver(c) => KeysFit(S(c), N(c))'

\* Nobody starts a handshake, and none gets through.
LEMMA Steady ==
    ASSUME NetInv, SideInv, LoneInv, [NetNext]_netVars, BoardsFit, conns' = conns,
           boards'[STARTER] = boards[STARTER],
           boards' = boards \/ \E c \in 1 .. Len(conns) : ~ IsOver(c),
           \A u \in Users : \/ sending'[u].message = sending[u].message
                            \/ /\ sending'[u].message.kind # "token"
                               /\ Dials(u) => \E c \in 1 .. Len(conns) : ~ IsOver(c),
           \A c \in 1 .. Len(conns) : Holds(c)
    PROVE  BoardsFit'
<1>1. \A c \in 1 .. Len(conns) : IsOver(c)' <=> IsOver(c) BY DEF Holds
<1>2. \A u \in Users : Dials(u)' => Dials(u) /\ sending'[u].message = sending[u].message
  BY DEF Dials
<1>3. OneOpen' BY <1>1, <1>2 DEF BoardsFit, OneOpen
<1>4. ASSUME NEW u \in Users PROVE DialFits(u)'
  <2>1. DialFits(u) BY DEF BoardsFit
  <2> QED BY <1>1, <1>2, <2>1 DEF DialFits
<1>5. \A c \in 1 .. Len(conns) : ~ IsOver(c)' => KeysFit(S(c), N(c))' BY <1>1 DEF Holds
<1>6. AllOver' => AllOver /\ boards' = boards
  <2>1. AllOver' => \A c \in 1 .. Len(conns) : IsOver(c) BY <1>1 DEF AllOver
  <2>2. AllOver' => \A u \in Users : ~ Dials(u) BY <2>1 DEF AllOver, Dials
  <2> QED BY <2>1, <2>2 DEF AllOver
<1>7. AllOver' => boards'[STARTER].my_k = boards'[NO_STARTER].my_k
  BY <1>6 DEF BoardsFit
<1> QED BY <1>3, <1>4, <1>5, <1>7 DEF BoardsFit

\* Nothing that a pair's keys depend on has changed.
LEMMA KeysAside ==
    ASSUME NetInv, SideInv, LoneInv, AllLone, BoardsFit,
           NEW c, NEW A, NEW B, NEW s, NEW n, IsPair(c, A, B, s, n),
           boards' = boards, firstToken'[n] = firstToken[n], sending'[n] = sending[n],
           countMsg'[s] \in Nat, countMsg'[n] \in Nat,
           countMsg'[n] = 0 <=> countMsg[n] = 0, countMsg'[s] >= 2 <=> countMsg[s] >= 2,
           countMsg[n] # 0 /\ countMsg[s] <= 1 => countMsg'[s] = countMsg[s],
           \/ thread'[n] = thread[n]
           \/ ~ Exchanging(n) /\ thread'[n] \notin {"answering", "deriving"},
           countMsg[s] <= 1 /\ s \in closed' => s \in closed,
           countMsg[s] = 1 => streams'[s] = streams[s],
           countMsg[n] = 0 => streams'[n] = streams[n] \/ streams'[n] = <<>>
    PROVE  Holds(c)
<1>1. /\ s = S(c) /\ n = N(c) /\ countMsg[s] \in Nat /\ countMsg[n] \in Nat
      /\ ~ IsOver(c) => KeysFit(s, n)
      /\ Exchanging(n) => countMsg[n] = 1
  BY OpenIs
<1>2. Exchanging(n)' <=> Exchanging(n) BY DEF Exchanging
<1>3. countMsg'[n] >= 1 <=> countMsg[n] >= 1 BY <1>1
<1>4. IsOver(c)' <=> IsOver(c) BY <1>1, <1>2, <1>3 DEF IsOver
<1>5. /\ countMsg'[s] <= 1 <=> countMsg[s] <= 1
      /\ countMsg[n] # 0 /\ countMsg'[s] = 1 => countMsg[s] = 1
  BY <1>1
<1>6. thread'[n] \in {"answering", "deriving"} => thread'[n] = thread[n] /\ countMsg[n] # 0
  BY <1>1, <1>2 DEF Exchanging
<1>7. ASSUME KeysFit(s, n) PROVE KeysFit(s, n)'
  <2>1. countMsg'[s] <= 1 => /\ boards'[STARTER].my_k = boards'[STARTER].my_f
                             /\ boards'[STARTER].my_f # {} /\ s \notin closed'
    BY <1>5, <1>7 DEF KeysFit
  <2>2. countMsg'[n] = 0 /\ streams'[n] # <<>> => streams'[n][1].key = boards'[STARTER].my_k
    BY <1>7 DEF KeysFit
  <2>3. countMsg'[n] >= 1 /\ countMsg'[s] = 1 => firstToken'[n] = boards'[STARTER].my_f
    BY <1>1, <1>3, <1>5, <1>7 DEF KeysFit
  <2>4. Exchanging(n)' => /\ boards'[NO_STARTER].my_k = boards'[NO_STARTER].my_f
                          /\ boards'[NO_STARTER].my_f # {}
    BY <1>2, <1>7 DEF KeysFit
  <2>5. thread'[n] = "answering" => sending'[n].message.key = boards'[NO_STARTER].my_k
    BY <1>6, <1>7 DEF KeysFit
  <2>6. countMsg'[s] = 1 /\ thread'[n] = "deriving" =>
           streams'[s][1].key = boards'[NO_STARTER].my_k
    BY <1>5, <1>6, <1>7 DEF KeysFit
  <2>7. countMsg'[s] = 1 /\ countMsg'[n] >= 1 /\ ~ Exchanging(n)' =>
           boards'[NO_STARTER].my_k = boards'[STARTER].my_f \cup streams'[s][1].key
    BY <1>1, <1>2, <1>3, <1>5, <1>7 DEF KeysFit
  <2>8. countMsg'[s] >= 2 /\ thread'[n] = "deriving" =>
           boards'[STARTER].my_k = firstToken'[n] \cup boards'[NO_STARTER].my_f
    BY <1>6, <1>7 DEF KeysFit
  <2> QED BY <2>1, <2>2, <2>3, <2>4, <2>5, <2>6, <2>7, <2>8 DEF KeysFit
<1> QED BY <1>1, <1>4, <1>7 DEF Holds

\* What a message written leaves at the two ends of a pair.
LEMMA PairWritten ==
    ASSUME NetInv, SideInv, LoneInv,
           NEW c, NEW A, NEW B, NEW s, NEW n, IsPair(c, A, B, s, n),
           NEW t \in Writers, WriteFound(t), NEW m, m = sending[t].message
    PROVE  /\ m \in Messages /\ m.kind \in {"token", "cipher"} /\ sending[t].reached = 0
           /\ streams'[n] = IF ~ (t = A /\ m.to = B) \/ n \in closed \/ thread[n] = "ended"
                            THEN streams[n] ELSE Append(streams[n], m)
           /\ streams'[s] = IF ~ (t = n \/ (t = B /\ m.to = A)) \/ s \in closed \/ thread[s] = "ended"
                            THEN streams[s] ELSE Append(streams[s], m)
           /\ thread'[n] = IF t = n THEN "deriving" ELSE thread[n]
           /\ \A d \in Writers : sending'[d] = IF d = t THEN Nothing ELSE sending[d]
           /\ UNCHANGED <<countMsg, firstToken, closed, boards, conns>>
<1> USE DEF userVars, threadVars
<1>1. PICK w, v, a : w = Writer(t) /\ v = Target(t) /\ a = Find(w, v) OBVIOUS
<1>2. /\ HasToWrite(t) /\ sending[t].reached = 0 /\ IsListed(w, v)
      /\ streams' = AfterWriting(a, m) /\ sending' = [sending EXCEPT ![t] = Nothing]
      /\ thread' = IF t \in Users THEN thread ELSE [thread EXCEPT ![t] = "deriving"]
      /\ UNCHANGED <<countMsg, firstToken, closed, boards, conns>>
  BY <1>1 DEF WriteFound
<1>3. /\ w \in Users /\ v \in Users /\ v # Nobody /\ m \in Messages /\ m.to = v /\ m.from = w
      /\ m.kind \in {"token", "cipher"}
  BY <1>1, <1>2, WriterIs
<1>4. /\ TypeInv /\ s \in Ends /\ n \in Ends /\ s # n /\ A # B /\ A \in Users /\ B \in Users
      /\ s \notin Writers /\ Mate(s) = n /\ Mate(n) = s
      /\ A \in Writers /\ B \in Writers /\ n \in Writers /\ n \notin Users
      /\ c \in 1 .. Len(conns) /\ LoneConn(c) /\ s = S(c) /\ n = N(c)
      /\ conns[c].from = A /\ conns[c].to = B
  BY PairIs DEF IsPair
<1>5. a \in Ends /\ a \in Used
  <2>1. a \in Ends /\ InList(w, a) BY <1>1, <1>2, <1>3, <1>4, FindFinds
  <2> QED BY <1>3, <2>1 DEF NetInv, ListFits
<1>6. /\ \A d \in Ends : d # Mate(a) => streams'[d] = streams[d]
      /\ streams'[Mate(a)] = IF Mate(a) \in closed \/ thread[Mate(a)] = "ended"
                             THEN streams[Mate(a)] ELSE Append(streams[Mate(a)], m)
  BY <1>2, <1>3, <1>4, <1>5, Writing
<1>7. /\ a = s => w = A /\ v = B
      /\ a = n => w = B /\ v = A
      /\ w = A /\ v = B => t = A /\ a = s
      /\ w = B /\ v = A => a = n /\ (t = B \/ t = n)
  BY <1>1, <1>2, <1>3, <1>4, LoneChats
<1>8. t \in Users => w = t BY <1>1 DEF Writer
<1>9. t = n => w = B /\ v = A
  <2>1. ASSUME t = n PROVE w = B /\ v = A
    <3>1. Writer(n) = B /\ sending[n] # Nothing BY <1>2, <2>1, PairIs DEF Writer, HasToWrite
    <3>2. Target(n) = A BY <3>1, PairIs DEF NetInv, WriterFits, Target
    <3> QED BY <1>1, <2>1, <3>1, <3>2
  <2> QED BY <2>1
<1>10. /\ a = s <=> t = A /\ m.to = B
       /\ a = n <=> t = n \/ (t = B /\ m.to = A)
  BY <1>3, <1>4, <1>7, <1>8, <1>9
<1>11. (Mate(a) = n <=> a = s) /\ (Mate(a) = s <=> a = n) BY <1>4, <1>5, PairAlone
<1>12. \A d \in Writers : sending'[d] = IF d = t THEN Nothing ELSE sending[d]
  BY <1>2, <1>4 DEF TypeInv
<1>13. thread'[n] = IF t = n THEN "deriving" ELSE thread[n]
  BY <1>2, <1>4, NetworkAssumption DEF TypeInv
<1> QED BY <1>2, <1>3, <1>4, <1>6, <1>10, <1>11, <1>12, <1>13

LEMMA KeysWrite ==
    ASSUME NetInv, SideInv, LoneInv, AllLone, BoardsFit,
           NEW c, NEW A, NEW B, NEW s, NEW n, IsPair(c, A, B, s, n),
           NEW t \in Writers, WriteFound(t)
    PROVE  Holds(c)
<1>1. PICK m : m = sending[t].message OBVIOUS
<1>2. /\ m \in Messages /\ m.kind \in {"token", "cipher"} /\ sending[t].reached = 0
      /\ streams'[n] = IF ~ (t = A /\ m.to = B) \/ n \in closed \/ thread[n] = "ended"
                       THEN streams[n] ELSE Append(streams[n], m)
      /\ streams'[s] = IF ~ (t = n \/ (t = B /\ m.to = A)) \/ s \in closed \/ thread[s] = "ended"
                       THEN streams[s] ELSE Append(streams[s], m)
      /\ thread'[n] = IF t = n THEN "deriving" ELSE thread[n]
      /\ \A d \in Writers : sending'[d] = IF d = t THEN Nothing ELSE sending[d]
      /\ UNCHANGED <<countMsg, firstToken, closed, boards, conns>>
  BY <1>1, PairWritten
<1>3. /\ Handshake(A, B, s, n) /\ n \in Writers /\ n \notin Users /\ A \in Users /\ B \in Users
      /\ A \in Writers /\ A # B
  BY PairIs
<1>4. /\ s = S(c) /\ n = N(c) /\ countMsg[s] \in Nat /\ countMsg[n] \in Nat
      /\ ~ IsOver(c) <=> countMsg[s] <= 1 \/ Exchanging(n)
      /\ ~ IsOver(c) => KeysFit(s, n)
      /\ Exchanging(n) => countMsg[n] = 1 /\ n \notin closed
      /\ countMsg[s] = 1 => s \notin closed /\ ~ Lost(n) /\ thread[s] = "reading"
  BY OpenIs
<1>5. streams[s] \in Seq(Messages) /\ streams[n] \in Seq(Messages) BY PairHas
<1>6. ASSUME NEW x \in Seq(Messages), x = <<>> PROVE Append(x, m)[1] = m
  BY <1>2, <1>6
<1>7. CASE t = A /\ m.to = B /\ m.kind = "token"
  <2>1. Errand(A, B) = sending[A] BY <1>1, <1>7 DEF Errand
  <2>2. countMsg[s] = 1 /\ streams[n] = <<>> /\ countMsg[n] = 0
    BY <1>1, <1>2, <1>3, <1>7, <2>1 DEF Handshake, CallerSide
  <2>3. m.key = boards[STARTER].my_k BY <1>1, <1>3, <1>7 DEF BoardsFit, DialFits, Dials
  <2>4. t # n /\ t # B BY <1>3, <1>7
  <2>5. thread'[n] = thread[n] /\ streams'[s] = streams[s] /\ sending'[n] = sending[n]
    BY <1>2, <1>3, <2>4
  <2>6. ~ Exchanging(n) /\ thread[n] \notin {"answering", "deriving"} BY <1>4, <2>2 DEF Exchanging
  <2>7. streams'[n] # <<>> => streams'[n][1] = m BY <1>2, <1>5, <1>6, <2>2
  <2>8. IsOver(c)' <=> IsOver(c) BY <1>2, <1>4, <2>5 DEF IsOver, Exchanging
  <2>9. KeysFit(s, n)'
    BY <1>2, <1>4, <2>2, <2>3, <2>5, <2>6, <2>7 DEF KeysFit, Exchanging
  <2> QED BY <1>4, <2>8, <2>9 DEF Holds
<1>8. CASE t = n
  <2>1. /\ thread[n] = "answering" /\ countMsg[s] = 1 /\ streams[s] = <<>> /\ countMsg[n] = 1
    <3>1. WriterFits(n) /\ sending[n] # Nothing
      BY <1>2, <1>3, <1>8 DEF NetInv, WriteFound, HasToWrite
    <3> QED BY <1>3, <1>4, <3>1 DEF WriterFits, Handshake, CalledSide, Exchanging
  <2>2. Exchanging(n) /\ KeysFit(s, n) BY <1>4, <2>1 DEF Exchanging
  <2>3. m.key = boards[NO_STARTER].my_k BY <1>1, <1>8, <2>1, <2>2 DEF KeysFit
  <2>4. thread'[n] = "deriving" BY <1>2, <1>8
  <2>5. streams'[s][1] = m BY <1>2, <1>4, <1>5, <1>6, <1>8, <2>1
  <2>6. IsOver(c)' <=> IsOver(c) BY <1>2, <1>4, <2>2, <2>4 DEF IsOver, Exchanging
  <2>7. KeysFit(s, n)'
    BY <1>2, <2>1, <2>2, <2>3, <2>4, <2>5 DEF KeysFit, Exchanging
  <2> QED BY <1>4, <2>6, <2>7 DEF Holds
<1>9. CASE t # n /\ ~ (t = A /\ m.to = B /\ m.kind = "token")
  <2>1. countMsg[n] = 0 => streams'[n] = streams[n]
    <3>1. ASSUME t = A, m.to = B PROVE countMsg[n] # 0
      <4>1. Errand(A, B) = sending[A] /\ m.kind = "cipher" BY <1>1, <1>2, <1>9, <3>1 DEF Errand
      <4>2. countMsg[n] >= 1
        BY <1>1, <1>3, <3>1, <4>1 DEF Handshake, CallerSide, StreamsFit
      <4> QED BY <1>4, <4>2
    <3> QED BY <1>2, <3>1
  <2>2. countMsg[s] = 1 => streams'[s] = streams[s]
    <3>1. ASSUME t = B, m.to = A PROVE countMsg[s] # 1
      <4>1. Errand(B, A) = sending[B] /\ sending[B] # Nothing /\ sending[B].frame # 0
        BY <1>1, <3>1, WriterIs DEF Errand, WriteFound, HasToWrite
      <4>2. sending[B].frame = frame[n] BY <1>3, <4>1 DEF Handshake, CalledSide
      <4>3. frames[frame[n]].shown BY <1>3, <4>1, <4>2 DEF LoneInv, Occupied
      <4>4. countMsg[s] >= 2
        BY <1>3, <4>1, <4>2, <4>3 DEF Handshake, CalledSide, StreamsFit
      <4> QED BY <1>4, <4>4
    <3> QED BY <1>2, <1>9, <3>1
  <2>3. thread'[n] = thread[n] /\ sending'[n] = sending[n] BY <1>2, <1>3, <1>9
  <2> QED BY <1>2, <1>4, <2>1, <2>2, <2>3, KeysAside
<1> QED BY <1>7, <1>8, <1>9

LEMMA KeysJoin ==
    ASSUME NetInv, SideInv, LoneInv, AllLone, BoardsFit,
           NEW c, NEW A, NEW B, NEW s, NEW n, IsPair(c, A, B, s, n),
           NEW t \in Writers, Join(t)
    PROVE  Holds(c)
<1> USE DEF userVars, threadVars
<1>1. PICK e : e = <<sending[t].reached, STARTER>> OBVIOUS
<1>2. /\ HasToWrite(t) /\ sending[t].reached # 0 /\ thread[e] = "none"
      /\ thread' = [thread EXCEPT ![e] = "reading"] /\ countMsg' = [countMsg EXCEPT ![e] = 1]
      /\ sending' = [sending EXCEPT ![t].reached = 0]
      /\ UNCHANGED <<streams, boards, firstToken, closed>>
  BY <1>1 DEF Join
<1>3. /\ TypeInv /\ s \in Ends /\ n \in Ends /\ n \in Writers /\ n # e /\ EndFits(s)
      /\ Handshake(A, B, s, n)
  BY <1>1, PairIs DEF STARTER, NO_STARTER
<1>4. countMsg[s] \in Nat /\ countMsg[n] \in Nat BY PairHas
<1>5. t # n BY <1>2, <1>3 DEF HasToWrite, Handshake, CalledSide
<1>6. /\ sending'[n] = sending[n] /\ thread'[n] = thread[n] /\ countMsg'[n] = countMsg[n]
      /\ countMsg'[s] = IF s = e THEN 1 ELSE countMsg[s]
  BY <1>2, <1>3, <1>5 DEF TypeInv
<1>7. s = e => countMsg[s] = 0 /\ countMsg[n] = 0
  <2>1. Nothing.message.kind # "token" BY MessagesAre
  <2> QED BY <1>2, <1>3, <2>1 DEF EndFits, Handshake, CallerSide
<1>8. countMsg'[s] >= 2 <=> countMsg[s] >= 2 BY <1>4, <1>6, <1>7
<1> QED BY <1>2, <1>4, <1>6, <1>7, <1>8, KeysAside

LEMMA KeysText ==
    ASSUME NetInv, SideInv, LoneInv, AllLone, BoardsFit,
           NEW c, NEW A, NEW B, NEW s, NEW n, IsPair(c, A, B, s, n),
           NEW e \in Ends, ReadText(e)
    PROVE  Holds(c)
<1> USE DEF userVars, threadVars
<1>1. /\ TypeInv /\ s \in Ends /\ n \in Ends /\ s # n /\ s[2] = STARTER
  BY PairIs
<1>2. countMsg[s] \in Nat /\ countMsg[n] \in Nat BY PairHas
<1>3. /\ Reads(e) /\ countMsg'[e] >= 2 /\ (e[2] = STARTER => countMsg'[e] > 2)
      /\ thread' = thread \/ thread' = [thread EXCEPT ![e] = "ended"]
      /\ UNCHANGED <<boards, firstToken, closed, sending>>
  BY DEF ReadText
<1>4. /\ thread[e] = "reading" /\ countMsg'[e] = countMsg[e] + 1
      /\ \A d \in Ends : d # e => streams'[d] = streams[d] /\ countMsg'[d] = countMsg[d]
  BY <1>1, <1>3, Reading
<1>5. /\ e # n => thread'[n] = thread[n]
      /\ e = n => ~ Exchanging(n) /\ thread'[n] \notin {"answering", "deriving"}
  BY <1>1, <1>3, <1>4 DEF TypeInv, Exchanging
<1>6. CASE e = s
  <2>1. countMsg'[s] = countMsg[s] + 1 /\ countMsg'[s] > 2 BY <1>1, <1>3, <1>4, <1>6
  <2>2. /\ countMsg'[s] >= 2 /\ countMsg[s] >= 2 /\ countMsg'[s] \in Nat
        /\ ~ (countMsg[s] <= 1) /\ countMsg[s] # 1
    BY <1>2, <2>1
  <2>3. countMsg'[n] = countMsg[n] /\ streams'[n] = streams[n] BY <1>1, <1>4, <1>6
  <2> QED BY <1>1, <1>2, <1>3, <1>5, <1>6, <2>2, <2>3, KeysAside
<1>7. CASE e = n
  <2>1. countMsg'[n] = countMsg[n] + 1 /\ countMsg'[n] >= 2 BY <1>3, <1>4, <1>7
  <2>2. countMsg'[n] \in Nat /\ countMsg'[n] # 0 /\ countMsg[n] # 0 BY <1>2, <2>1
  <2>3. countMsg'[s] = countMsg[s] /\ streams'[s] = streams[s] BY <1>1, <1>4, <1>7
  <2> QED BY <1>2, <1>3, <1>5, <1>7, <2>2, <2>3, KeysAside
<1>8. CASE e # s /\ e # n
  <2>1. /\ countMsg'[s] = countMsg[s] /\ streams'[s] = streams[s]
        /\ countMsg'[n] = countMsg[n] /\ streams'[n] = streams[n]
    BY <1>1, <1>4, <1>8
  <2> QED BY <1>2, <1>3, <1>5, <1>8, <2>1, KeysAside
<1> QED BY <1>6, <1>7, <1>8

LEMMA KeysReadClose ==
    ASSUME NetInv, SideInv, LoneInv, AllLone, BoardsFit,
           NEW c, NEW A, NEW B, NEW s, NEW n, IsPair(c, A, B, s, n),
           NEW e \in Ends, ReadClose(e)
    PROVE  Holds(c)
<1> USE DEF userVars, threadVars
<1>1. /\ TypeInv /\ s \in Ends /\ n \in Ends /\ s # n /\ s \in Used
      /\ A \in Users /\ B \in Users /\ Nobody \notin Users
      /\ Owner(s) = A /\ Mate(s) = n /\ Owner(n) = B /\ Handshake(A, B, s, n) /\ SideFits(s)
      /\ c \in 1 .. Len(conns) /\ LoneConn(c) /\ A = conns[c].from /\ B = conns[c].to
      /\ s = S(c) /\ n = N(c) /\ s[2] = STARTER
  BY PairIs, NetworkAssumption DEF IsPair
<1>2. /\ countMsg[s] \in Nat /\ countMsg[n] \in Nat /\ streams[s] \in Seq(Messages)
      /\ thread[s] # "none" => countMsg[s] >= 1
  BY PairHas
<1>3. PICK u, v, a : u = Owner(e) /\ v = dest[e] /\ a = Find(u, v) OBVIOUS
<1>4. /\ e \in Used /\ thread[e] = "reading" /\ u \in Users
      /\ \A d \in Ends : thread'[d] = IF d = e THEN "ended" ELSE thread[d]
      /\ ~ IsListed(u, v) => UNCHANGED <<closed, streams>>
      /\ IsListed(u, v) =>
            /\ a \in Used /\ a \in Ends
            /\ closed' = closed \cup {a} /\ streams'[a] = <<>>
            /\ \A d \in Ends : d # a => streams'[d] = streams[d]
  BY <1>3, ReadCloses
<1>5. /\ UNCHANGED <<countMsg, sending, boards, firstToken>>
      /\ streams[e] # <<>> /\ Head(streams[e]).kind = "END"
  BY DEF ReadClose
<1>6. \/ thread'[n] = thread[n]
      \/ ~ Exchanging(n) /\ thread'[n] \notin {"answering", "deriving"}
  BY <1>1, <1>4 DEF Exchanging
<1>7. ASSUME IsListed(u, v), a = s PROVE countMsg[s] # 1 /\ countMsg[s] >= 2
  <2>1. u = A /\ v = B
    <3>1. \A x \in Users : \A y : IsListed(x, y) /\ Find(x, y) = s => x = A /\ y = B
      BY <1>1, LoneChats
    <3> QED BY <1>3, <1>4, <1>7, <3>1
  <2>2. v = Owner(Mate(e))
    <3>1. v # Nobody => v = Owner(Mate(e)) BY <1>3, <1>4 DEF NetInv, EndFits
    <3> QED BY <1>1, <2>1, <3>1
  <2>3. \A d \in Used : (Owner(d) = A /\ Owner(Mate(d)) = B) <=> d = s BY <1>1, LoneEnds
  <2>4. e = s BY <1>3, <1>4, <2>1, <2>2, <2>3
  <2>5. 1 \in 1 .. Len(streams[s]) /\ streams[s][1].kind = "END"
    <3>1. Len(streams[s]) \in Nat /\ Len(streams[s]) # 0 /\ Head(streams[s]) = streams[s][1]
      BY <1>2, <1>5, <2>4, StreamIs
    <3> QED BY <1>5, <2>4, <3>1
  <2>6. countMsg[s] # 1 BY <1>1, <2>5 DEF Handshake, StreamsFit
  <2>7. countMsg[s] >= 1 BY <1>2, <1>4, <2>4
  <2> QED BY <1>2, <2>6, <2>7
<1>8. /\ countMsg[s] <= 1 /\ s \in closed' => s \in closed
      /\ countMsg[s] = 1 => streams'[s] = streams[s]
      /\ streams'[n] = streams[n] \/ streams'[n] = <<>>
  <2>1. IsListed(u, v) /\ a = s => ~ (countMsg[s] <= 1) /\ countMsg[s] # 1 BY <1>2, <1>7
  <2> QED BY <1>1, <1>4, <2>1
<1> QED BY <1>2, <1>5, <1>6, <1>8, KeysAside

LEMMA KeysSocket ==
    ASSUME NetInv, SideInv, LoneInv, AllLone, BoardsFit,
           NEW c, NEW A, NEW B, NEW s, NEW n, IsPair(c, A, B, s, n),
           NEW e \in Ends, SocketEnds(e)
    PROVE  Holds(c)
<1> USE DEF userVars, threadVars
<1>1. TypeInv /\ s \in Ends /\ n \in Ends BY PairIs
<1>2. /\ thread[e] = "reading"
      /\ e \in closed \/ streams[e] = <<>>
      /\ thread' = [thread EXCEPT ![e] = "ended"] /\ streams' = [streams EXCEPT ![e] = <<>>]
      /\ UNCHANGED <<countMsg, firstToken, closed, sending, boards>>
  BY DEF SocketEnds
<1>3. /\ \A d \in Ends : /\ thread'[d] = IF d = e THEN "ended" ELSE thread[d]
                         /\ streams'[d] = IF d = e THEN <<>> ELSE streams[d]
  BY <1>1, <1>2 DEF TypeInv
<1>4. \/ thread'[n] = thread[n]
      \/ ~ Exchanging(n) /\ thread'[n] \notin {"answering", "deriving"}
  BY <1>1, <1>2, <1>3 DEF Exchanging
<1>5. countMsg[s] = 1 => s \notin closed BY OpenIs
<1>6. countMsg[s] = 1 => streams'[s] = streams[s] BY <1>1, <1>2, <1>3, <1>5
<1>7. countMsg[s] \in Nat /\ countMsg[n] \in Nat BY PairHas
<1> QED BY <1>1, <1>2, <1>3, <1>4, <1>6, <1>7, KeysAside

LEMMA KeysPress ==
    ASSUME NetInv, SideInv, LoneInv, AllLone, BoardsFit, calm',
           NEW c, NEW A, NEW B, NEW s, NEW n, IsPair(c, A, B, s, n),
           NEW f \in 1 .. Len(frames), PressClose(f)
    PROVE  Holds(c)
<1> USE DEF userVars, threadVars
<1>1. /\ TypeInv /\ s \in Ends /\ n \in Ends /\ s # n /\ s \in Used /\ n \in Used
      /\ A \in Users /\ B \in Users /\ Handshake(A, B, s, n)
      /\ c \in 1 .. Len(conns) /\ LoneConn(c) /\ A = conns[c].from /\ B = conns[c].to
      /\ s = S(c) /\ n = N(c)
  BY PairIs DEF IsPair
<1>2. /\ countMsg[s] \in Nat /\ countMsg[n] \in Nat
      /\ frame[s] # 0 => thread[s] # "none"
      /\ Nothing.message.kind # "token"
  BY PairHas
<1>3. PICK u, v, a : u = frames[f].user /\ v = frames[f].dest /\ a = Find(u, v) OBVIOUS
<1>4. /\ u \in Users /\ v \in Users
      /\ ~ IsListed(u, v) => UNCHANGED <<closed, streams>>
      /\ IsListed(u, v) =>
            /\ a \in Used /\ Mate(a) \in Ends
            /\ closed' = closed \cup {a} /\ streams'[a] = <<>>
            /\ \A d \in Ends : d # a /\ d # Mate(a) => streams'[d] = streams[d]
  BY <1>3, PressCloses
<1>5. /\ frames[f].shown /\ sending[u] = Nothing /\ frames[f].enabled
      /\ UNCHANGED <<thread, countMsg, sending, boards, firstToken>>
  BY <1>3 DEF PressClose, EventFree
<1>6. IsListed(u, v) => (a = s => u = A /\ v = B) /\ (a = n => u = B /\ v = A)
  <2>1. Nobody \notin Users BY NetworkAssumption
  <2> QED BY <1>1, <1>3, <1>4, <2>1, LoneChats
<1>7. \A g \in 1 .. Len(frames) :
          /\ frames[g].user = A /\ frames[g].dest = B =>
                (g = frame[s] /\ frame[s] # 0) \/ Errand(A, B).message.kind = "token"
          /\ frames[g].user = B /\ frames[g].dest = A => g = frame[n] /\ frame[n] # 0
  BY <1>1, LoneWindows
<1>8. ASSUME u = A, v = B PROVE countMsg[s] >= 2 /\ countMsg[n] >= 1
  <2>1. Errand(A, B) = Nothing BY <1>5, <1>8 DEF Errand
  <2>2. f = frame[s] /\ frame[s] # 0 BY <1>2, <1>3, <1>8, <1>7, <2>1
  <2> QED BY <1>1, <1>2, <1>5, <2>2 DEF Handshake, CallerSide, StreamsFit
<1>9. ASSUME u = B, v = A PROVE countMsg[n] >= 2 /\ countMsg[s] >= 2
  <2>1. f = frame[n] /\ frame[n] # 0 BY <1>3, <1>9, <1>7
  <2> QED BY <1>1, <1>5, <2>1 DEF Handshake, CalledSide, StreamsFit
<1>10. IsListed(u, v) /\ (a = s \/ a = n) => countMsg[s] >= 2 /\ countMsg[n] >= 1
  BY <1>2, <1>6, <1>8, <1>9
<1>11. IsListed(u, v) /\ (a = s \/ a = n) =>
          countMsg[s] # 1 /\ ~ (countMsg[s] <= 1) /\ countMsg[n] # 0
  BY <1>2, <1>10
<1>12. /\ countMsg[s] <= 1 /\ s \in closed' => s \in closed
       /\ countMsg[s] = 1 => streams'[s] = streams[s]
       /\ countMsg[n] = 0 => streams'[n] = streams[n]
  <2>1. CASE ~ IsListed(u, v) BY <1>4, <2>1
  <2>2. CASE IsListed(u, v) /\ (a = s \/ a = n) BY <1>11, <2>2
  <2>3. CASE IsListed(u, v) /\ a # s /\ a # n
    <3>1. Mate(a) # s /\ Mate(a) # n BY <1>4, <2>3, PairAlone
    <3> QED BY <1>1, <1>4, <2>3, <3>1
  <2> QED BY <2>1, <2>2, <2>3
<1> QED BY <1>2, <1>5, <1>12, KeysAside

LEMMA KeysTake ==
    ASSUME NetInv, SideInv, LoneInv, AllLone, BoardsFit,
           NEW c, NEW A, NEW B, NEW s, NEW n, IsPair(c, A, B, s, n),
           NEW k \in 1 .. MaxConns, TakeCall(k)
    PROVE  Holds(c)
<1> USE DEF userVars, threadVars
<1>1. TypeInv /\ n \in Ends BY PairIs
<1>2. PICK e : e = <<k, NO_STARTER>> OBVIOUS
<1>3. /\ thread[e] = "none" /\ thread' = [thread EXCEPT ![e] = "reading"]
      /\ UNCHANGED <<countMsg, firstToken, streams, closed, sending, boards>>
  BY <1>2 DEF TakeCall
<1>4. \/ thread'[n] = thread[n]
      \/ ~ Exchanging(n) /\ thread'[n] \notin {"answering", "deriving"}
  BY <1>1, <1>3 DEF TypeInv, Exchanging
<1>5. countMsg[s] \in Nat /\ countMsg[n] \in Nat BY PairHas
<1> QED BY <1>3, <1>4, <1>5, KeysAside

\* The steps after which all keys are as they were.
LEMMA BoardsRest ==
    ASSUME NetInv, SideInv, LoneInv, [NetNext]_netVars, AllLone, BoardsFit, calm',
           \/ \E u \in Users : OpenContacts(u)
           \/ \E t \in Writers : Join(t)
           \/ \E k \in 1 .. MaxConns : TakeCall(k)
           \/ \E e \in Ends : ReadText(e) \/ ReadClose(e) \/ SocketEnds(e)
           \/ \E f \in 1 .. Len(frames) : PressSend(f) \/ PressClose(f)
           \/ UNCHANGED netVars
    PROVE  BoardsFit'
<1> USE DEF userVars, threadVars
<1>1. conns' = conns /\ boards' = boards
  BY DEF netVars, OpenContacts, Join, TakeCall, ReadText, ReadClose, SocketEnds, PressSend, PressClose
<1>2. TypeInv BY DEF NetInv
<1>3. ASSUME NEW u \in Users
      PROVE  \/ sending'[u].message = sending[u].message
             \/ sending'[u].message.kind # "token" /\ ~ Dials(u)
  <2>1. u \in Writers BY WritersAre
  <2>2. ASSUME NEW t \in Writers, Join(t) PROVE sending'[u].message = sending[u].message
    <3>1. /\ sending' = [sending EXCEPT ![t] = sending'[t]]
          /\ sending'[t].message = sending[t].message
      BY <2>2, ReachedIs
    <3>2. u # t => sending'[u] = sending[u] BY <1>2, <2>1, <3>1 DEF TypeInv
    <3> QED BY <3>1, <3>2
  <2>3. ASSUME NEW f \in 1 .. Len(frames), PressSend(f)
        PROVE  \/ sending'[u] = sending[u]
               \/ sending'[u].message.kind # "token" /\ ~ Dials(u)
    <3>1. PICK x : /\ sending' = [sending EXCEPT ![frames[f].user] = x]
                   /\ x.message.kind # "token"
      <4>1. Sends(CipherTo(boards[frames[f].type], frames[f].user, frames[f].dest), f).message.kind
              = "cipher"
        BY DEF Sends, CipherTo
      <4> QED BY <2>3, <4>1 DEF PressSend
    <3>2. sending[frames[f].user].message.kind # "token"
      BY <2>3, MessagesAre DEF PressSend, EventFree
    <3> QED BY <1>2, <2>1, <3>1, <3>2 DEF TypeInv, Dials
  <2>4. \/ sending' = sending \/ \E t \in Writers : Join(t)
        \/ \E f \in 1 .. Len(frames) : PressSend(f)
    BY DEF netVars, OpenContacts, TakeCall, ReadText, ReadClose, SocketEnds, PressClose
  <2> QED BY <2>2, <2>3, <2>4
<1>4. ASSUME NEW c \in 1 .. Len(conns) PROVE Holds(c)
  <2>1. PICK A, B, s, n : IsPair(c, A, B, s, n) BY PairsAre
  <2>2. ASSUME \/ \E u \in Users : OpenContacts(u)
               \/ \E f \in 1 .. Len(frames) : PressSend(f)
               \/ UNCHANGED netVars
        PROVE  Holds(c)
    <3>1. UNCHANGED <<countMsg, firstToken, streams, closed, thread, boards>>
      BY <2>2 DEF netVars, OpenContacts, PressSend
    <3>2. n \in Writers /\ n \notin Users /\ TypeInv BY <2>1, PairIs
    <3>3. sending'[n] = sending[n]
      <4>1. ASSUME NEW f \in 1 .. Len(frames), PressSend(f) PROVE sending'[n] = sending[n]
        <5>1. frames[f].user \in Users
          <6>1. frames[f] \in Windows BY <1>2, ElementOfSeq DEF TypeInv
          <6> QED BY <6>1 DEF Windows
        <5> QED BY <3>2, <4>1, <5>1 DEF PressSend, TypeInv
      <4> QED BY <2>2, <4>1 DEF netVars, OpenContacts
    <3>4. countMsg[s] \in Nat /\ countMsg[n] \in Nat BY <2>1, PairHas
    <3> QED BY <2>1, <3>1, <3>3, <3>4, KeysAside
  <2> QED BY <2>1, <2>2, KeysJoin, KeysTake, KeysText, KeysReadClose, KeysSocket, KeysPress
<1> QED BY <1>1, <1>3, <1>4, Steady DEF Dials

-------------------------------------------------------------------------------
(*********************** Steps of the key exchange *************************)

LEMMA BoardsWrite ==
    ASSUME NetInv, SideInv, LoneInv, [NetNext]_netVars, AllLone, BoardsFit,
           NEW t \in Writers, WriteFound(t)
    PROVE  BoardsFit'
<1> USE DEF userVars, threadVars
<1>1. conns' = conns /\ boards' = boards /\ sending' = [sending EXCEPT ![t] = Nothing]
  BY DEF WriteFound
<1>2. TypeInv BY DEF NetInv
<1>3. \A c \in 1 .. Len(conns) : Holds(c) BY PairsAre, KeysWrite
<1>4. ASSUME t \in Users, Dials(t) PROVE \E c \in 1 .. Len(conns) : ~ IsOver(c)
  <2>1. PICK v, a : v = Target(t) /\ a = Find(t, v) OBVIOUS
  <2>2. /\ IsListed(t, v) /\ sending[t].reached = 0 /\ v \in Users /\ Nobody \notin Users
    BY <1>4, <2>1, WriterIs, NetworkAssumption DEF WriteFound, Writer
  <2>3. a \in Used /\ a \in Ends /\ Owner(a) = t /\ dest[a] = v
    <3>1. a \in Ends /\ InList(t, a) /\ dest[a] = v BY <1>2, <1>4, <2>1, <2>2, FindFinds
    <3> QED BY <1>4, <3>1 DEF NetInv, ListFits
  <2>4. Owner(Mate(a)) = v
    <3>1. EndFits(a) BY <2>3 DEF NetInv
    <3> QED BY <2>2, <2>3, <3>1 DEF EndFits
  <2>5. PICK c, A, B, s, n : /\ c = a[1] /\ A = conns[c].from /\ B = conns[c].to
                             /\ s = S(c) /\ n = N(c)
    OBVIOUS
  <2>6. c \in 1 .. Len(conns) /\ (a = s \/ a = n) BY <1>2, <2>3, <2>5, OwnersAre, EndIs
  <2>7. IsPair(c, A, B, s, n) BY <2>5, <2>6, PairsAre
  <2>8. Handshake(A, B, s, n) /\ Owner(s) = A /\ Owner(n) = B /\ Mate(s) = n /\ Mate(n) = s
    BY <2>7, PairIs
  <2>9. sending[t].message.to = v /\ sending[t].message.kind = "token"
    BY <1>4, <2>1 DEF Target, Dials
  <2>10. CASE a = s
    <3>1. Errand(A, B) = sending[t] BY <2>3, <2>4, <2>8, <2>9, <2>10 DEF Errand
    <3>2. countMsg[s] = 1 BY <2>2, <2>8, <2>9, <3>1 DEF Handshake, CallerSide
    <3> QED BY <2>5, <2>6, <3>2 DEF IsOver
  <2>11. CASE a = n
    <3>1. Errand(B, A) = sending[t] BY <2>3, <2>4, <2>8, <2>9, <2>11 DEF Errand
    <3>2. Errand(B, A) # Nothing BY <2>9, <3>1, MessagesAre
    <3> QED BY <2>8, <2>9, <3>1, <3>2 DEF Handshake, CalledSide
  <2> QED BY <2>6, <2>10, <2>11
<1>5. ASSUME NEW u \in Users
      PROVE  \/ sending'[u].message = sending[u].message
             \/ /\ sending'[u].message.kind # "token"
                /\ Dials(u) => \E c \in 1 .. Len(conns) : ~ IsOver(c)
  <2>1. sending'[u] = IF u = t THEN Nothing ELSE sending[u]
    BY <1>1, <1>2, WritersAre DEF TypeInv
  <2> QED BY <1>4, <2>1, MessagesAre
<1> QED BY <1>1, <1>3, <1>5, Steady

\* Whoever starts a handshake does so when all others are over.
LEMMA BoardsStart ==
    ASSUME NetInv, SideInv, LoneInv, [NetNext]_netVars, AllLone, BoardsFit, calm',
           NEW u \in Users, NEW v \in Users, StartCall(u, v)
    PROVE  BoardsFit'
<1> USE DEF userVars, threadVars
<1>1. TypeInv /\ u \in Writers BY WritersAre DEF NetInv
<1>2. AllOver BY RestIsOver DEF StartCall
<1>3. PICK x : /\ x = Sends(TokenTo(boards'[STARTER], u, v), Len(frames'))
               /\ sending' = [sending EXCEPT ![u] = x]
  BY DEF StartCall
<1>4. x.message.kind = "token" /\ x.message.key = boards'[STARTER].my_k
  BY <1>3 DEF Sends, TokenTo
<1>5. \A w \in Users : sending'[w] = IF w = u THEN x ELSE sending[w]
  BY <1>1, <1>3, WritersAre DEF TypeInv
<1>6. boards'[STARTER].my_k = {draws'} /\ boards'[STARTER].my_f = {draws'}
  <2>1. boards' = [boards EXCEPT ![STARTER] = SendTokenShared(boards[STARTER], STARTER, draws')]
        /\ draws' \in Nat
    BY <1>1 DEF StartCall, TypeInv
  <2>2. boards'[STARTER] = SendTokenShared(boards[STARTER], STARTER, draws')
    BY <1>1, <2>1, BoardsAre
  <2> QED BY <1>1, <2>1, <2>2, BoardsAre
<1>7. conns' = conns /\ \A c \in 1 .. Len(conns) : IsOver(c)'
  BY <1>2 DEF StartCall, AllOver, IsOver, Exchanging
<1>8. \A w \in Users : Dials(w)' => w = u BY <1>2, <1>5 DEF AllOver, Dials
<1>9. DialFits(u)' BY <1>4, <1>5, <1>6, <1>7 DEF DialFits
<1>10. \A w \in Users : DialFits(w)' BY <1>8, <1>9 DEF DialFits
<1>11. OneOpen' BY <1>7, <1>8 DEF OneOpen
<1>12. ~ AllOver' BY <1>4, <1>5 DEF AllOver, Dials
<1> QED BY <1>7, <1>10, <1>11, <1>12 DEF BoardsFit

\* Who connects is the one who dials.
LEMMA BoardsReach ==
    ASSUME NetInv, SideInv, LoneInv, [NetNext]_netVars, AllLone, BoardsFit,
           NEW t \in Writers, Reach(t)
    PROVE  BoardsFit'
<1> USE DEF userVars, threadVars
<1>1. PICK u, v, k, s, n : /\ u = Writer(t) /\ v = Target(t) /\ k = Len(conns) + 1
                           /\ s = S(k) /\ n = N(k)
  OBVIOUS
<1>2. TypeInv /\ u \in Users /\ v \in Users /\ HasToWrite(t)
  BY <1>1, WriterIs DEF Reach, NetInv
<1>3. /\ t = u /\ Dials(u) /\ sending[u].message.to = v
      /\ \A d \in 1 .. Len(conns) : ~ Between(d, u, v)
  BY <1>1, <1>2, FirstConn DEF AllLone, Dials
<1>4. /\ Len(conns') = k /\ Len(conns) \in Nat /\ k \in 1 .. MaxConns
      /\ \A c \in 1 .. Len(conns) : conns'[c] = conns[c]
      /\ conns'[k].from = u /\ conns'[k].to = v
  <2>1. /\ Len(conns') = k /\ Len(conns) \in Nat
        /\ \A c \in 1 .. Len(conns) : conns'[c] = conns[c]
        /\ conns'[k].from = u /\ conns'[k].to = v
    BY <1>1, ReachAdds
  <2>2. k \in 1 .. MaxConns BY <1>1, <2>1, NetworkAssumption DEF Reach
  <2> QED BY <2>1, <2>2
<1>5. \A w \in Users : sending'[w].message = sending[w].message
  <2>1. sending' = [sending EXCEPT ![t] = sending'[t]] /\ sending'[t].message = sending[t].message
    BY ReachedIs
  <2>2. \A w \in Users : w # t => sending'[w] = sending[w] BY <1>2, <2>1, WritersAre DEF TypeInv
  <2> QED BY <2>1, <2>2
<1>6. UNCHANGED <<boards, thread, countMsg, firstToken, streams, closed>> BY DEF Reach
<1>7. /\ countMsg[s] = 0 /\ countMsg[n] = 0 /\ s \notin closed /\ streams[n] = <<>>
      /\ thread[n] = "none"
  <2>1. s \in Ends /\ n \in Ends BY <1>1, <1>4, EndsOf
  <2>2. s \notin Used /\ n \notin Used BY <1>1, <1>4, EndsAre DEF Used
  <2> QED BY <2>1, <2>2 DEF NetInv, EndFits
<1>8. DialFits(u) /\ OneOpen /\ \A w \in Users : Dials(w) => w = u
  BY <1>2, <1>3 DEF BoardsFit, OneOpen
<1>9. \A c \in 1 .. Len(conns) : IsOver(c)
  BY <1>3, <1>8 DEF DialFits, Between
<1>10. \A c \in 1 .. Len(conns) : IsOver(c)' BY <1>6, <1>9 DEF IsOver, Exchanging
<1>11. \A c \in 1 .. Len(conns') : ~ IsOver(c)' => c = k BY <1>1, <1>4, <1>10
<1>12. \A w \in Users : Dials(w)' <=> Dials(w) BY <1>5 DEF Dials
<1>13. OneOpen' BY <1>8, <1>11, <1>12 DEF OneOpen
<1>14. DialFits(u)'
  <2>1. \A c \in 1 .. Len(conns') : ~ IsOver(c)' =>
           conns'[c].from = u /\ conns'[c].to = sending'[u].message.to
    BY <1>2, <1>3, <1>4, <1>5, <1>11
  <2>2. /\ sending'[u].message.key = boards'[STARTER].my_k
        /\ boards'[STARTER].my_k = boards'[STARTER].my_f /\ boards'[STARTER].my_f # {}
    BY <1>2, <1>3, <1>5, <1>6, <1>8 DEF DialFits
  <2> QED BY <2>1, <2>2 DEF DialFits
<1>15. \A w \in Users : DialFits(w)' BY <1>8, <1>12, <1>14 DEF DialFits
<1>16. KeysFit(s, n)'
  BY <1>3, <1>6, <1>7, <1>8 DEF KeysFit, DialFits, Exchanging
<1>17. ~ AllOver' BY <1>2, <1>3, <1>12 DEF AllOver
<1> QED BY <1>1, <1>11, <1>13, <1>15, <1>16, <1>17 DEF BoardsFit

\* The called board draws its token when the caller's has been read.
LEMMA BoardsFirst ==
    ASSUME NetInv, SideInv, LoneInv, [NetNext]_netVars, AllLone, BoardsFit,
           NEW e \in Ends, ReadFirst(e)
    PROVE  BoardsFit'
<1> USE DEF userVars, threadVars
<1>1. TypeInv BY DEF NetInv
<1>2. /\ Reads(e) /\ countMsg'[e] = 1 /\ conns' = conns /\ closed' = closed
      /\ firstToken' = [firstToken EXCEPT ![e] = AsToken(Head(streams[e]))]
      /\ thread' = [thread EXCEPT ![e] = "answering"]
  BY DEF ReadFirst
<1>3. /\ e \in Used /\ thread[e] = "reading" /\ streams[e] # <<>>
      /\ Head(streams[e]) = streams[e][1] /\ Len(streams[e]) \in Nat /\ Len(streams[e]) >= 1
      /\ countMsg'[e] = countMsg[e] + 1 /\ countMsg[e] \in Nat
      /\ \A d \in Ends : d # e => streams'[d] = streams[d] /\ countMsg'[d] = countMsg[d]
  BY <1>1, <1>2, Reading DEF TypeInv
<1>4. PICK c : c \in 1 .. Len(conns) /\ (e = S(c) \/ e = N(c))
  BY <1>1, <1>3, OwnersAre, EndIs
<1>5. PICK A, B, s, n : IsPair(c, A, B, s, n) BY <1>4, PairsAre
<1>6. /\ s = S(c) /\ n = N(c) /\ countMsg[s] \in Nat /\ countMsg[n] \in Nat
      /\ ~ IsOver(c) <=> countMsg[s] <= 1 \/ Exchanging(n)
      /\ ~ IsOver(c) => KeysFit(s, n)
      /\ ~ IsOver(c) => \A d \in 1 .. Len(conns) : d # c => IsOver(d)
  BY <1>5, OpenIs
<1>7. /\ s \in Ends /\ n \in Ends /\ s # n /\ n \in Writers /\ n \notin Users
      /\ Handshake(A, B, s, n) /\ SideFits(s) /\ s[2] = STARTER
  BY <1>5, PairIs
<1>8. countMsg[e] = 0 BY <1>2, <1>3
<1>9. e = n /\ e # s
  <2>1. countMsg[s] >= 1 \/ thread[s] # "reading" BY <1>7 DEF SideFits
  <2>2. e # s BY <1>3, <1>8, <2>1
  <2> QED BY <1>4, <1>6, <2>2
<1>10. ~ IsOver(c) /\ countMsg[s] <= 1 /\ KeysFit(s, n)
  <2>1. ~ (countMsg[n] >= 1) BY <1>8, <1>9
  <2>2. ~ IsOver(c) BY <1>6, <2>1 DEF IsOver
  <2>3. ~ (countMsg[s] >= 2) BY <1>7, <2>1 DEF Handshake, StreamsFit
  <2> QED BY <1>6, <2>2, <2>3
<1>11. /\ boards'[STARTER] = boards[STARTER]
       /\ boards'[NO_STARTER].my_k = {draws'} /\ boards'[NO_STARTER].my_f = {draws'}
  <2>1. boards' = [boards EXCEPT ![NO_STARTER] =
                      SendTokenShared(boards[NO_STARTER], NO_STARTER, draws')]
        /\ draws' \in Nat
    BY <1>1 DEF ReadFirst, TypeInv
  <2>2. boards'[NO_STARTER] = SendTokenShared(boards[NO_STARTER], NO_STARTER, draws')
    BY <1>1, <2>1, BoardsAre
  <2>3. boards'[STARTER] = boards[STARTER]
    BY <1>1, <2>1 DEF TypeInv, STARTER, NO_STARTER
  <2> QED BY <1>1, <2>1, <2>2, <2>3, BoardsAre
<1>12. PICK x : /\ x = Sends(TokenTo(boards'[NO_STARTER], Owner(e), Owner(Mate(e))), Len(frames'))
                /\ sending' = [sending EXCEPT ![e] = x]
  BY DEF ReadFirst
<1>13. /\ x.message.key = boards'[NO_STARTER].my_k /\ sending'[n] = x
       /\ \A u \in Users : sending'[u] = sending[u]
  BY <1>1, <1>7, <1>9, <1>12, WritersAre DEF TypeInv, Sends, TokenTo
<1>14. /\ thread'[n] = "answering" /\ countMsg'[n] = 1 /\ countMsg'[s] = countMsg[s]
       /\ firstToken'[n] = streams[n][1].key
  <2>1. streams[n][1].kind = "token"
    <3>1. 1 \in 1 .. Len(streams[n]) BY <1>3, <1>9
    <3> QED BY <1>7, <1>8, <1>9, <3>1 DEF Handshake, StreamsFit
  <2> QED BY <1>1, <1>2, <1>3, <1>7, <1>9, <2>1 DEF TypeInv, AsToken
<1>15. countMsg[s] <= 1 => firstToken'[n] = boards[STARTER].my_f
  BY <1>3, <1>8, <1>9, <1>10, <1>14 DEF KeysFit
<1>16. KeysFit(s, n)'
  BY <1>2, <1>10, <1>11, <1>13, <1>14, <1>15 DEF KeysFit, Exchanging
<1>17. ~ IsOver(c)' BY <1>6, <1>10, <1>14 DEF IsOver, Exchanging
<1>18. ASSUME NEW d \in 1 .. Len(conns) PROVE Holds(d)
  <2>1. CASE d = c BY <1>6, <1>10, <1>16, <1>17, <2>1 DEF Holds
  <2>2. CASE d # c
    <3>1. IsOver(d) BY <1>6, <1>10, <2>2
    <3>2. S(d) \in Ends /\ N(d) \in Ends /\ S(d) # n /\ N(d) # n
      BY <1>1, <1>6, <2>2, OwnersAre, EndsAre
    <3>3. IsOver(d)' BY <1>1, <1>2, <1>3, <1>9, <3>1, <3>2 DEF IsOver, Exchanging, TypeInv
    <3> QED BY <3>1, <3>3 DEF Holds
  <2> QED BY <2>1, <2>2
<1> QED BY <1>2, <1>4, <1>10, <1>11, <1>13, <1>18, Steady

\* The called board derives the key: from the token the caller's board has
\* sent, whether that board has derived its own yet or not.
LEMMA BoardsDerive ==
    ASSUME NetInv, SideInv, LoneInv, [NetNext]_netVars, AllLone, BoardsFit,
           NEW e \in Ends, Derive(e)
    PROVE  BoardsFit'
<1> USE DEF userVars, threadVars
<1>1. TypeInv BY DEF NetInv
<1>2. /\ thread[e] = "deriving" /\ thread' = [thread EXCEPT ![e] = "reading"]
      /\ boards' = [boards EXCEPT ![NO_STARTER] =
                       ReceivedTokenShared(boards[NO_STARTER], firstToken[e])]
      /\ UNCHANGED <<conns, countMsg, firstToken, streams, closed, sending>>
  BY DEF Derive
<1>3. e \in Used BY <1>2 DEF NetInv, EndFits
<1>4. PICK c : c \in 1 .. Len(conns) /\ (e = S(c) \/ e = N(c))
  BY <1>1, <1>3, OwnersAre, EndIs
<1>5. PICK A, B, s, n : IsPair(c, A, B, s, n) BY <1>4, PairsAre
<1>6. /\ s = S(c) /\ n = N(c) /\ countMsg[s] \in Nat /\ countMsg[n] \in Nat
      /\ ~ IsOver(c) <=> countMsg[s] <= 1 \/ Exchanging(n)
      /\ ~ IsOver(c) => KeysFit(s, n)
      /\ Exchanging(n) => countMsg[n] = 1
      /\ ~ IsOver(c) => \A d \in 1 .. Len(conns) : d # c => IsOver(d)
  BY <1>5, OpenIs
<1>7. s \in Ends /\ n \in Ends /\ s # n /\ thread[s] \in {"none", "reading", "ended"}
  BY <1>5, PairIs, PairHas
<1>8. e = n BY <1>2, <1>4, <1>6, <1>7
<1>9. /\ Exchanging(n) /\ ~ IsOver(c) /\ KeysFit(s, n) /\ countMsg[n] = 1
  BY <1>2, <1>6, <1>8 DEF Exchanging
<1>10. /\ boards'[STARTER] = boards[STARTER]
       /\ boards'[NO_STARTER].my_k = firstToken[n] \cup boards[NO_STARTER].my_f
  <2>1. boards'[STARTER] = boards[STARTER]
    BY <1>1, <1>2 DEF TypeInv, STARTER, NO_STARTER
  <2>2. boards'[NO_STARTER] = ReceivedTokenShared(boards[NO_STARTER], firstToken[n])
    BY <1>1, <1>2, <1>8 DEF TypeInv
  <2>3. firstToken[n] \in Tokens BY <1>1, <1>7 DEF TypeInv
  <2>4. boards[NO_STARTER].my_f # {} BY <1>9 DEF KeysFit
  <2>5. boards'[NO_STARTER].my_k = DerivedKey(boards[NO_STARTER], firstToken[n])
    BY <1>1, <2>2, <2>3, BoardsAre
  <2> QED BY <2>1, <2>4, <2>5 DEF DerivedKey
<1>11. thread'[n] = "reading" /\ \A d \in Ends : d # n => thread'[d] = thread[d]
  BY <1>1, <1>2, <1>7, <1>8 DEF TypeInv
<1>12. ASSUME NEW d \in 1 .. Len(conns), d # c PROVE IsOver(d)'
  <2>1. IsOver(d) BY <1>6, <1>9, <1>12
  <2>2. N(d) \in Ends /\ N(d) # n BY <1>1, <1>6, <1>12, OwnersAre, EndsAre
  <2> QED BY <1>2, <1>11, <2>1, <2>2 DEF IsOver, Exchanging
<1>13. IsOver(c)' <=> countMsg[s] >= 2
  BY <1>2, <1>6, <1>9, <1>11 DEF IsOver, Exchanging
<1>14. countMsg[s] >= 2 => boards'[STARTER].my_k = boards'[NO_STARTER].my_k
  BY <1>2, <1>8, <1>9, <1>10 DEF KeysFit
<1>15. ~ IsOver(c)' => KeysFit(s, n)'
  <2> SUFFICES ASSUME countMsg[s] <= 1 PROVE KeysFit(s, n)'
    BY <1>6, <1>13
  <2>1. countMsg[s] = 1 =>
           boards'[NO_STARTER].my_k = boards'[STARTER].my_f \cup streams'[s][1].key
    BY <1>2, <1>8, <1>9, <1>10 DEF KeysFit
  <2>2. ~ (countMsg[s] >= 2) BY <1>6
  <2> QED BY <1>2, <1>9, <1>10, <1>11, <2>1, <2>2 DEF KeysFit, Exchanging
<1>16. OneOpen' BY <1>2, <1>4, <1>12 DEF BoardsFit, OneOpen, Dials
<1>17. ASSUME NEW u \in Users PROVE DialFits(u)'
  <2>1. DialFits(u) BY DEF BoardsFit
  <2>2. \A d \in 1 .. Len(conns) : ~ IsOver(d)' => ~ IsOver(d) BY <1>9, <1>12
  <2> QED BY <1>2, <1>10, <2>1, <2>2 DEF DialFits, Dials
<1>18. AllOver' => IsOver(c)' BY <1>2, <1>4 DEF AllOver
<1> QED BY <1>2, <1>6, <1>12, <1>13, <1>14, <1>15, <1>16, <1>17, <1>18 DEF BoardsFit

\* The caller's board derives the key: from the token of the called board,
\* whether that board has derived its own yet or not.
LEMMA BoardsAnswer ==
    ASSUME NetInv, SideInv, LoneInv, [NetNext]_netVars, AllLone, BoardsFit,
           NEW e \in Ends, ReadAnswer(e)
    PROVE  BoardsFit'
<1> USE DEF userVars, threadVars
<1>1. TypeInv BY DEF NetInv
<1>2. /\ Reads(e) /\ countMsg'[e] = 2 /\ e[2] = STARTER
      /\ boards' = [boards EXCEPT ![STARTER] =
                       ReceivedTokenShared(boards[STARTER], AsToken(Head(streams[e])))]
      /\ UNCHANGED <<conns, thread, firstToken, closed, sending>>
  BY DEF ReadAnswer
<1>3. /\ e \in Used /\ streams[e] # <<>> /\ Head(streams[e]) = streams[e][1]
      /\ Len(streams[e]) \in Nat /\ Len(streams[e]) >= 1
      /\ countMsg'[e] = countMsg[e] + 1 /\ countMsg[e] \in Nat
      /\ \A d \in Ends : d # e => streams'[d] = streams[d] /\ countMsg'[d] = countMsg[d]
  BY <1>1, <1>2, Reading DEF TypeInv
<1>4. PICK c : c \in 1 .. Len(conns) /\ e = S(c)
  BY <1>1, <1>2, <1>3, OwnersAre, EndIs
<1>5. PICK A, B, s, n : IsPair(c, A, B, s, n) BY <1>4, PairsAre
<1>6. /\ s = S(c) /\ n = N(c) /\ countMsg[s] \in Nat /\ countMsg[n] \in Nat
      /\ ~ IsOver(c) <=> countMsg[s] <= 1 \/ Exchanging(n)
      /\ ~ IsOver(c) => KeysFit(s, n)
      /\ ~ IsOver(c) => \A d \in 1 .. Len(conns) : d # c => IsOver(d)
  BY <1>5, OpenIs
<1>7. /\ s \in Ends /\ n \in Ends /\ s # n /\ Handshake(A, B, s, n)
      /\ A = conns[c].from /\ B = conns[c].to
  BY <1>5, PairIs DEF IsPair
<1>8. e = s /\ countMsg[s] = 1 /\ countMsg[s] <= 1 /\ countMsg'[s] = 2
  BY <1>2, <1>3, <1>4, <1>6
<1>9. ~ IsOver(c) /\ KeysFit(s, n) BY <1>6, <1>8
<1>10. /\ countMsg[n] >= 1 /\ streams[s][1].kind = "token"
       /\ Errand(A, B).message.kind # "token" /\ thread[n] # "answering"
  <2>1. 1 \in 1 .. Len(streams[s]) BY <1>3, <1>8
  <2>2. sending[n] # Nothing \/ thread[n] # "answering" BY <1>5, PairIs DEF SideFits
  <2> QED BY <1>3, <1>7, <1>8, <2>1, <2>2 DEF Handshake, CallerSide, CalledSide, StreamsFit
<1>11. /\ boards'[NO_STARTER] = boards[NO_STARTER]
       /\ boards'[STARTER].my_k = streams[s][1].key \cup boards[STARTER].my_f
  <2>1. boards'[NO_STARTER] = boards[NO_STARTER]
    BY <1>1, <1>2 DEF TypeInv, STARTER, NO_STARTER
  <2>2. boards'[STARTER] = ReceivedTokenShared(boards[STARTER], streams[s][1].key)
    BY <1>1, <1>2, <1>3, <1>8, <1>10 DEF TypeInv, AsToken
  <2>3. boards[STARTER].my_f # {} BY <1>8, <1>9 DEF KeysFit
  <2>4. boards'[STARTER].my_k = DerivedKey(boards[STARTER], streams[s][1].key)
    BY <1>1, <2>2 DEF ReceivedTokenShared, TypeInv, BoardStates
  <2> QED BY <2>1, <2>3, <2>4 DEF DerivedKey
<1>12. countMsg'[n] = countMsg[n] BY <1>3, <1>7, <1>8
<1>13. ASSUME NEW d \in 1 .. Len(conns), d # c PROVE IsOver(d)'
  <2>1. IsOver(d) BY <1>6, <1>9, <1>13
  <2>2. S(d) \in Ends /\ N(d) \in Ends /\ S(d) # s /\ N(d) # s
    BY <1>1, <1>6, <1>13, OwnersAre, EndsAre
  <2> QED BY <1>2, <1>3, <1>8, <2>1, <2>2 DEF IsOver, Exchanging
<1>14. IsOver(c)' <=> ~ Exchanging(n)
  BY <1>2, <1>6, <1>8, <1>10, <1>12 DEF IsOver, Exchanging
<1>15. ~ Exchanging(n) => boards'[STARTER].my_k = boards'[NO_STARTER].my_k
  BY <1>8, <1>9, <1>10, <1>11 DEF KeysFit
<1>16. ASSUME Exchanging(n) PROVE KeysFit(s, n)'
  <2>1. thread[n] = "deriving" BY <1>10, <1>16 DEF Exchanging
  <2>2. boards'[STARTER].my_k = firstToken'[n] \cup boards'[NO_STARTER].my_f
    BY <1>2, <1>8, <1>9, <1>10, <1>11, <1>16, <2>1 DEF KeysFit
  <2>3. countMsg'[n] # 0 BY <1>6, <1>10, <1>12
  <2>4. ~ (countMsg'[s] <= 1) /\ countMsg'[s] # 1 BY <1>8
  <2>5. /\ boards'[NO_STARTER].my_k = boards'[NO_STARTER].my_f
        /\ boards'[NO_STARTER].my_f # {}
    BY <1>9, <1>11, <1>16 DEF KeysFit
  <2> QED BY <1>2, <2>1, <2>2, <2>3, <2>4, <2>5 DEF KeysFit, Exchanging
<1>17. \A u \in Users : ~ Dials(u)
  <2> SUFFICES ASSUME NEW u \in Users, Dials(u) PROVE FALSE
    OBVIOUS
  <2>1. A = u /\ B = sending[u].message.to
    BY <1>4, <1>7, <1>9 DEF BoardsFit, DialFits
  <2> QED BY <1>10, <2>1 DEF Errand, Dials
<1>18. \A u \in Users : ~ Dials(u)' BY <1>2, <1>17 DEF Dials
<1>19. OneOpen' BY <1>2, <1>13, <1>18 DEF OneOpen
<1>20. \A u \in Users : DialFits(u)' BY <1>18 DEF DialFits
<1>21. AllOver' => IsOver(c)' BY <1>2, <1>4 DEF AllOver
<1> QED BY <1>2, <1>6, <1>13, <1>14, <1>15, <1>16, <1>19, <1>20, <1>21 DEF BoardsFit

-------------------------------------------------------------------------------
(************************** The boards hold one key ************************)

LEMMA NetInit_BoardInv == NetInit => BoardInv
<1> SUFFICES ASSUME NetInit PROVE BoardsFit
  BY DEF BoardInv
<1>1. \A u \in Users : ~ Dials(u)
  BY WritersAre, MessagesAre DEF NetInit, Dials
<1>2. Len(conns) = 0 BY EmptySeq DEF NetInit
<1>3. boards[STARTER] = boards[NO_STARTER] BY DEF NetInit
<1> QED BY <1>1, <1>2, <1>3 DEF BoardsFit, OneOpen, DialFits

LEMMA BoardInvKept ==
    NetInv /\ SideInv /\ LoneInv /\ BoardInv /\ [NetNext]_netVars => BoardInv'
<1> SUFFICES ASSUME NetInv, SideInv, LoneInv, BoardInv, [NetNext]_netVars, calm', AllLone'
             PROVE  BoardsFit'
  BY DEF BoardInv
<1>1. AllLone /\ BoardsFit BY CalmKept DEF BoardInv
<1>2. ASSUME NEW u \in Users, NEW v \in Users, StartCall(u, v) PROVE BoardsFit'
  BY <1>1, <1>2, BoardsStart
<1>3. ASSUME NEW t \in Writers, Reach(t) \/ WriteFound(t) PROVE BoardsFit'
  BY <1>1, <1>3, BoardsReach, BoardsWrite
<1>4. ASSUME NEW e \in Ends, ReadFirst(e) \/ Derive(e) \/ ReadAnswer(e) PROVE BoardsFit'
  BY <1>1, <1>4, BoardsFirst, BoardsDerive, BoardsAnswer
<1>5. CASE \/ \E u \in Users : OpenContacts(u)
           \/ \E t \in Writers : Join(t)
           \/ \E k \in 1 .. MaxConns : TakeCall(k)
           \/ \E e \in Ends : ReadText(e) \/ ReadClose(e) \/ SocketEnds(e)
           \/ \E f \in 1 .. Len(frames) : PressSend(f) \/ PressClose(f)
           \/ UNCHANGED netVars
  BY <1>1, <1>5, BoardsRest
<1> QED BY <1>2, <1>3, <1>4, <1>5 DEF NetNext

(* Once no handshake is going on, the board of those who call and that of those
   who are called hold one key, though every call resets them under the other
   chats: unless two calls overlapped, one was given up, or two users called
   each other twice. *)
THEOREM BoardsPaired == NetSpec => []BoardsStayPaired
<1>1. NetInit => NetInv /\ SideInv /\ LoneInv /\ BoardInv
  BY NetInit_NetInv, NetInit_SideInv, NetInit_LoneInv, NetInit_BoardInv
<1>2. /\ NetInv /\ SideInv /\ LoneInv /\ BoardInv /\ [NetNext]_netVars
      => (NetInv /\ SideInv /\ LoneInv /\ BoardInv)'
  BY NetInvKept, SideInvKept, LoneInvKept, BoardInvKept
<1>3. NetInv /\ SideInv /\ LoneInv /\ BoardInv => BoardsStayPaired
  <2> SUFFICES ASSUME NetInv, SideInv, LoneInv, BoardInv, calm, ~ Shaking, AllLone
               PROVE  boards[STARTER].my_k = boards[NO_STARTER].my_k
    BY DEF BoardsStayPaired, AllLone
  <2>1. BoardsFit BY DEF BoardInv
  <2>2. AllOver BY <2>1, RestIsOver
  <2> QED BY <2>1, <2>2 DEF BoardsFit
<1> QED BY <1>1, <1>2, <1>3, PTL DEF NetSpec
====
