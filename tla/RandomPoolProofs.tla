--------------------------- MODULE RandomPoolProofs ---------------------------
(***************************************************************************)
(* Theorems about RandomPool, for any number of calls and power cuts, any  *)
(* lengths and any size of the pool.                                       *)
(***************************************************************************)
EXTENDS RandomPool, SequenceTheorems, TLAPS

Names == Seq(Nat)

(* s is a beginning of t, stated element by element; neither is of the other. *)
Leads(s, t) == Len(s) <= Len(t) /\ \A i \in 1 .. Len(s) : s[i] = t[i]
Apart(s, t) == ~ Leads(s, t) /\ ~ Leads(t, s)

-------------------------------------------------------------------------------
(****************************** About names ********************************)

LEMMA PrefixIsLeads ==
    ASSUME NEW s \in Names, NEW t \in Names
    PROVE  IsPrefix(s, t) <=> Leads(s, t)
<1> USE DEF Names
<1>1. CASE Len(s) <= Len(t)
  <2>1. /\ SubSeq(s, 1, Len(s)) \in Names /\ SubSeq(t, 1, Len(s)) \in Names
        /\ Len(SubSeq(s, 1, Len(s))) = Len(s) /\ Len(SubSeq(t, 1, Len(s))) = Len(s)
        /\ \A i \in 1 .. Len(s) : /\ SubSeq(s, 1, Len(s))[i] = s[i]
                                  /\ SubSeq(t, 1, Len(s))[i] = t[i]
    BY <1>1
  <2>2. SubSeq(s, 1, Len(s)) = SubSeq(t, 1, Len(s)) <=> \A i \in 1 .. Len(s) : s[i] = t[i]
    <3>1. ASSUME \A i \in 1 .. Len(s) : s[i] = t[i]
          PROVE  SubSeq(s, 1, Len(s)) = SubSeq(t, 1, Len(s))
      BY <1>1, <2>1, <3>1, SeqEqual
    <3> QED BY <2>1, <3>1
  <2> QED BY <1>1, <2>2 DEF IsPrefix, Leads
<1>2. CASE ~ Len(s) <= Len(t) BY <1>2 DEF IsPrefix, Leads
<1> QED BY <1>1, <1>2

(* What follows a name does not change what it begins with. *)
LEMMA Longer ==
    ASSUME NEW s \in Names, NEW t \in Names, NEW u \in Names
    PROVE  /\ s \o u \in Names
           /\ Leads(s, s \o u)
           /\ ~ Leads(s, t) => ~ Leads(s \o u, t)
           /\ Apart(t, s) => Apart(t, s \o u)
<1> USE DEF Names
<1>1. /\ s \o u \in Names /\ Len(s \o u) = Len(s) + Len(u)
      /\ \A i \in 1 .. Len(s) : (s \o u)[i] = s[i]
  OBVIOUS
<1>2. Len(s) \in Nat /\ Len(u) \in Nat /\ Len(t) \in Nat OBVIOUS
<1>3. Leads(s, s \o u) BY <1>1, <1>2 DEF Leads
<1>4. ASSUME ~ Leads(s, t) PROVE ~ Leads(s \o u, t)
  <2>1. SUFFICES ASSUME Leads(s \o u, t) PROVE FALSE OBVIOUS
  <2>2. \A i \in 1 .. Len(s) : i \in 1 .. Len(s \o u) BY <1>1, <1>2
  <2>3. \A i \in 1 .. Len(s) : s[i] = t[i] BY <1>1, <2>1, <2>2 DEF Leads
  <2>4. Len(s) <= Len(t) BY <1>1, <1>2, <2>1 DEF Leads
  <2> QED BY <1>4, <2>3, <2>4 DEF Leads
<1>5. ASSUME Apart(t, s) PROVE ~ Leads(t, s \o u)
  <2>1. SUFFICES ASSUME Leads(t, s \o u) PROVE FALSE OBVIOUS
  <2>2. CASE Len(t) <= Len(s)
    <3>1. \A i \in 1 .. Len(t) : i \in 1 .. Len(s) BY <1>2, <2>2
    <3>2. \A i \in 1 .. Len(t) : t[i] = s[i] BY <1>1, <2>1, <3>1 DEF Leads
    <3> QED BY <1>5, <2>2, <3>2 DEF Apart, Leads
  <2>3. CASE ~ Len(t) <= Len(s)
    <3>1. \A i \in 1 .. Len(s) : i \in 1 .. Len(t) BY <1>2, <2>3
    <3>2. \A i \in 1 .. Len(s) : s[i] = t[i] BY <1>1, <2>1, <3>1 DEF Leads
    <3> QED BY <1>2, <1>5, <2>3, <3>2 DEF Apart, Leads
  <2> QED BY <2>2, <2>3
<1>6. Apart(t, s) => Apart(t, s \o u) BY <1>4, <1>5 DEF Apart
<1> QED BY <1>1, <1>3, <1>4, <1>6

LEMMA Associates ==
    ASSUME NEW s \in Names, NEW t \in Names, NEW u \in Names
    PROVE  (s \o t) \o u = s \o (t \o u)
<1>1. s \in Seq(Nat) /\ t \in Seq(Nat) /\ u \in Seq(Nat) BY DEF Names
<1> QED BY <1>1, ConcatAssociative

LEMMA AppendIsLonger ==
    ASSUME NEW s \in Names, NEW k \in Nat
    PROVE  Append(s, k) = s \o <<k>> /\ <<k>> \in Names /\ Append(s, k) \in Names
<1>1. <<k>> \in Names /\ Append(s, k) \in Names BY DEF Names
<1>2. Append(s, k) = s \o <<k>> BY DEF Names
<1> QED BY <1>1, <1>2

(* Two outputs of one pool. *)
LEMMA Siblings ==
    ASSUME NEW s \in Names, NEW j \in Nat, NEW k \in Nat, j # k
    PROVE  Apart(Append(s, j), Append(s, k))
<1>1. /\ Len(Append(s, j)) = Len(s) + 1 /\ Append(s, j)[Len(s) + 1] = j
      /\ Len(Append(s, k)) = Len(s) + 1 /\ Append(s, k)[Len(s) + 1] = k
      /\ Len(s) \in Nat
  BY DEF Names
<1> QED BY <1>1 DEF Apart, Leads

-------------------------------------------------------------------------------
(****************************** About rand() *******************************)

LEMMA DivMod ==
    ASSUME NEW a \in Nat, NEW R \in Nat \ {0}
    PROVE  /\ a \div R \in Nat /\ a % R \in 0 .. R - 1
           /\ a = R * (a \div R) + (a % R)
OBVIOUS

LEMMA DivGrows ==
    ASSUME NEW a \in Nat, NEW b \in Nat, NEW R \in Nat \ {0}, a <= b
    PROVE  a \div R <= b \div R
<1> DEFINE p == a \div R
           q == b \div R
<1>1. /\ p \in Nat /\ q \in Nat /\ a % R \in 0 .. R - 1 /\ b % R \in 0 .. R - 1
      /\ a = R * p + (a % R) /\ b = R * q + (b % R)
  BY DivMod
<1> HIDE DEF p, q
<1>2. SUFFICES ASSUME q + 1 <= p PROVE FALSE BY <1>1 DEF p, q
<1>3. R * (q + 1) <= R * p BY <1>1, <1>2
<1>4. R * (q + 1) = R * q + R BY <1>1
<1>5. b < R * q + R BY <1>1
<1>6. R * p <= a BY <1>1
<1>7. R * q \in Nat /\ R * p \in Nat BY <1>1
<1> QED BY <1>3, <1>4, <1>5, <1>6, <1>7

LEMMA Repeated ==
    ASSUME NEW n \in Nat, NEW k \in Nat
    PROVE  [j \in 1 .. n |-> k] \in Names /\ Len([j \in 1 .. n |-> k]) = n
BY DEF Names

(* The outputs of a request, one by one: each is an output of a pool that
   comes from b, with its length and its last number. *)
LEMMA OutputFacts ==
    ASSUME NEW b \in Names, NEW i \in Nat \ {0}
    PROVE  /\ Place(i) \in 1 .. RNG_REKEY_BLOCKS
           /\ (i - 1) \div RNG_REKEY_BLOCKS \in Nat
           /\ i = RNG_REKEY_BLOCKS * ((i - 1) \div RNG_REKEY_BLOCKS) + Place(i)
           /\ Segment(b, i) \in Names
           /\ Len(Segment(b, i)) = Len(b) + (i - 1) \div RNG_REKEY_BLOCKS
           /\ \E u \in Names : Segment(b, i) = b \o u
<1> DEFINE q == (i - 1) \div RNG_REKEY_BLOCKS
           r == (i - 1) % RNG_REKEY_BLOCKS
           u == [j \in 1 .. q |-> RNG_REKEY_BLOCKS + 1]
<1>1. RNG_REKEY_BLOCKS \in Nat \ {0} BY PoolAssumption
<1>2. q \in Nat /\ r \in 0 .. RNG_REKEY_BLOCKS - 1 /\ i - 1 = RNG_REKEY_BLOCKS * q + r
  <2>1. i - 1 \in Nat OBVIOUS
  <2>2. /\ q \in Nat /\ r \in 0 .. RNG_REKEY_BLOCKS - 1
        /\ i - 1 = RNG_REKEY_BLOCKS * q + r
    BY <1>1, <2>1, DivMod
  <2> QED BY <2>2
<1>3. Place(i) = 1 + r /\ Segment(b, i) = b \o u BY DEF Place, Segment
<1> HIDE DEF q, r
<1>4. u \in Names /\ Len(u) = q
  <2>1. RNG_REKEY_BLOCKS + 1 \in Nat BY <1>1
  <2> QED BY <1>2, <2>1, Repeated
<1> HIDE DEF u
<1>5. Segment(b, i) \in Names /\ Len(Segment(b, i)) = Len(b) + q
  <2>1. b \o u \in Names /\ Len(b \o u) = Len(b) + Len(u) BY <1>4 DEF Names
  <2> QED BY <1>3, <1>4, <2>1
<1>6. Place(i) \in 1 .. RNG_REKEY_BLOCKS BY <1>1, <1>2, <1>3
<1>7. RNG_REKEY_BLOCKS * q \in Nat BY <1>1, <1>2
<1>8. i = RNG_REKEY_BLOCKS * q + Place(i) BY <1>2, <1>3, <1>7
<1> QED BY <1>2, <1>3, <1>4, <1>5, <1>6, <1>8 DEF q

(* Equal numbers of rekeys make equal segments. *)
LEMMA SameSegment ==
    ASSUME NEW b, NEW i, NEW j,
           (i - 1) \div RNG_REKEY_BLOCKS = (j - 1) \div RNG_REKEY_BLOCKS
    PROVE  Segment(b, i) = Segment(b, j)
BY DEF Segment

(* No two outputs of a request have one name, all come from b, and the pool
   that is left comes from b and leads to none of them. *)
LEMMA RandFacts ==
    ASSUME NEW b \in Names, NEW n \in Nat
    PROVE  /\ Outputs(b, n) \in Seq(Names) /\ Len(Outputs(b, n)) = n
           /\ \A i \in 1 .. n : \E u \in Names : Outputs(b, n)[i] = b \o u
           /\ \A i, j \in 1 .. n : Outputs(b, n)[i] = Outputs(b, n)[j] => i = j
           /\ \E u \in Names : PoolAfter(b, n) = b \o u
           /\ \A i \in 1 .. n : ~ Leads(PoolAfter(b, n), Outputs(b, n)[i])
<1> DEFINE R == RNG_REKEY_BLOCKS
           q(i) == (i - 1) \div R
<1>1. R \in Nat \ {0} BY PoolAssumption
<1>2. \A i \in 1 .. n : i \in Nat \ {0} OBVIOUS
<1>3. \A i \in 1 .. n : /\ Place(i) \in 1 .. R /\ q(i) \in Nat
                        /\ i = R * q(i) + Place(i)
                        /\ Segment(b, i) \in Names
                        /\ Len(Segment(b, i)) = Len(b) + q(i)
                        /\ \E u \in Names : Segment(b, i) = b \o u
  BY <1>2, OutputFacts
<1>a. Len(b) \in Nat BY DEF Names
<1>b. \A i \in 1 .. n : q(i) \in Nat BY <1>3
<1>4. \A i \in 1 .. n : Outputs(b, n)[i] = Append(Segment(b, i), Place(i))
  BY DEF Outputs
<1>5. \A i \in 1 .. n : Place(i) \in Nat BY <1>1, <1>3
<1>6. \A i \in 1 .. n : Outputs(b, n)[i] \in Names BY <1>3, <1>4, <1>5, AppendIsLonger
<1>7. Outputs(b, n) \in Seq(Names) /\ Len(Outputs(b, n)) = n
  BY <1>6 DEF Outputs
<1>8. ASSUME NEW i \in 1 .. n, NEW k \in Nat
      PROVE  \E u \in Names : Append(Segment(b, i), k) = b \o u
  <2>1. PICK u \in Names : Segment(b, i) = b \o u BY <1>3
  <2>2. Append(Segment(b, i), k) = (b \o u) \o <<k>> /\ <<k>> \in Names
    BY <1>3, <2>1, AppendIsLonger
  <2>3. (b \o u) \o <<k>> = b \o (u \o <<k>>) BY <2>2, ConcatAssociative DEF Names
  <2>4. u \o <<k>> \in Names BY <2>2 DEF Names
  <2> QED BY <2>2, <2>3, <2>4
<1>9. \A i \in 1 .. n : \E u \in Names : Outputs(b, n)[i] = b \o u
  BY <1>4, <1>5, <1>8
<1>10. \A i \in 1 .. n : \A k \in Nat :
          /\ Len(Append(Segment(b, i), k)) = Len(b) + q(i) + 1
          /\ Append(Segment(b, i), k)[Len(b) + q(i) + 1] = k
  <2> TAKE i \in 1 .. n
  <2> TAKE k \in Nat
  <2>1. Segment(b, i) \in Names /\ Len(Segment(b, i)) = Len(b) + q(i) BY <1>3
  <2>2. Len(b) \in Nat /\ q(i) \in Nat BY <1>a, <1>b
  <2> HIDE DEF q
  <2> QED BY <2>1, <2>2 DEF Names
<1>11. ASSUME NEW i \in 1 .. n, NEW j \in 1 .. n, Outputs(b, n)[i] = Outputs(b, n)[j]
       PROVE  i = j
  <2>1. Append(Segment(b, i), Place(i)) = Append(Segment(b, j), Place(j)) BY <1>4, <1>11
  <2>2. Len(b) + q(i) + 1 = Len(b) + q(j) + 1 BY <2>1, <1>5, <1>10
  <2>3. Len(b) \in Nat /\ q(i) \in Nat /\ q(j) \in Nat BY <1>a, <1>b
  <2> HIDE DEF q
  <2>4. q(i) = q(j) BY <2>2, <2>3
  <2>5. Place(i) = Place(j) BY <2>1, <2>4, <1>5, <1>10
  <2> QED BY <2>4, <2>5, <1>3
<1>12. CASE n = 0
  <2>1. PoolAfter(b, n) = b \o <<1>> /\ <<1>> \in Names
    BY <1>12, AppendIsLonger DEF PoolAfter, rekey
  <2>2. 1 .. n = {} BY <1>12
  <2>3. \E u \in Names : PoolAfter(b, n) = b \o u BY <2>1
  <2> QED BY <1>7, <2>2, <2>3
<1>13. CASE n # 0
  <2>1. n \in 1 .. n /\ Place(n) + 1 \in Nat BY <1>5, <1>13
  <2>2. PoolAfter(b, n) = Append(Segment(b, n), Place(n) + 1)
    BY <1>13 DEF PoolAfter, rekey
  <2>3. ASSUME NEW i \in 1 .. n PROVE ~ Leads(PoolAfter(b, n), Outputs(b, n)[i])
    <3>1. q(i) <= q(n)
      <4>1. i - 1 \in Nat /\ n - 1 \in Nat /\ i - 1 <= n - 1 BY <2>1
      <4> QED BY <4>1, <1>1, DivGrows
    <3>2. /\ Len(PoolAfter(b, n)) = Len(b) + q(n) + 1
          /\ PoolAfter(b, n)[Len(b) + q(n) + 1] = Place(n) + 1
      BY <1>10, <2>1, <2>2
    <3>3. /\ Len(Outputs(b, n)[i]) = Len(b) + q(i) + 1
          /\ Outputs(b, n)[i][Len(b) + q(i) + 1] = Place(i)
      BY <1>4, <1>5, <1>10
    <3>4. Len(b) \in Nat /\ q(i) \in Nat /\ q(n) \in Nat BY <1>a, <1>b, <2>1
    <3>5. i = R * q(i) + Place(i) /\ n = R * q(n) + Place(n) /\ i <= n BY <1>3, <2>1
    <3>6. Place(i) \in Nat /\ Place(n) \in Nat /\ R * q(n) \in Nat
      BY <1>1, <1>5, <2>1, <3>4
    <3> HIDE DEF q, R
    <3>7. CASE q(i) = q(n)
      <4>1. Place(i) # Place(n) + 1 BY <3>5, <3>6, <3>7
      <4>2. Len(b) + q(n) + 1 \in 1 .. Len(PoolAfter(b, n)) BY <3>2, <3>4
      <4> QED BY <3>2, <3>3, <3>7, <4>1, <4>2 DEF Leads
    <3>8. CASE q(i) # q(n)
      <4>1. Len(PoolAfter(b, n)) > Len(Outputs(b, n)[i]) BY <3>1, <3>2, <3>3, <3>4, <3>8
      <4> QED BY <3>2, <3>3, <3>4, <4>1 DEF Leads
    <3> QED BY <3>7, <3>8
  <2> QED BY <1>7, <1>8, <1>9, <1>11, <2>1, <2>2, <2>3
<1> QED BY <1>12, <1>13, <1>7, <1>9, <1>11

-------------------------------------------------------------------------------
(****************************** Type correct *******************************)

Stages == {"off", "ready", "writing", "torn", "mark"}

TypeInv ==
    /\ stage \in Stages
    /\ block \in Names /\ seed \in Names
    /\ handed \in Seq(Names)
    /\ marked \in BOOLEAN /\ destroyed \in BOOLEAN /\ firstSave \in BOOLEAN
    /\ trngPosn \in Nat /\ steps \in Nat

(* How long the names of the pools are that follow b. *)
LEMMA RekeysFacts ==
    ASSUME NEW b \in Names, NEW n \in Nat
    PROVE  \E u \in Names : Rekeys(b, n) = b \o u
<1>1. [i \in 1 .. n |-> 1] \in Names BY Repeated
<1> QED BY <1>1 DEF Rekeys

LEMMA PiecesInNat ==
    /\ \A len \in Nat : Pieces(len, BLOCK) \in Nat
    /\ \A len \in Nat : Pieces(len, CHUNK) \in Nat
BY DEF Pieces, BLOCK, CHUNK

LEMMA FromBlock ==
    ASSUME TypeInv, NEW len \in Nat, NEW credit \in Nat, Stirs(len, credit)
    PROVE  \E u \in Names : block' = block \o u
<1>1. PICK n \in Nat : block' = Rekeys(block, n)
  BY PiecesInNat DEF Stirs
<1> QED BY <1>1, RekeysFacts DEF TypeInv

-------------------------------------------------------------------------------
(********************** Nothing twice, the past is safe ********************)

(* The outputs handed out have names of their own, and neither the pool nor
   a seed that would be used leads to one. *)
Distinct == \A i, j \in DOMAIN handed : handed[i] = handed[j] => i = j
LeadsToNone(s) == \A i \in DOMAIN handed : ~ Leads(s, handed[i])

(* Without a seed nothing has been handed out; a pool in use has a seed that
   does not lead to it; and a seed not yet marked is an output of the pool. *)
SeedInv ==
    /\ ~ marked => handed = <<>>
    /\ stage = "ready" => marked /\ Apart(seed, block)
    /\ stage = "mark" => seed = Append(block, 1)

FreshInv ==
    /\ Distinct
    /\ stage # "off" => LeadsToNone(block)
    /\ marked => LeadsToNone(seed)

IInv == TypeInv /\ (~ destroyed => SeedInv /\ FreshInv)

LEMMA EmptyNames == <<>> \in Names /\ <<>> \in Seq(Names)
BY DEF Names

LEMMA InitIInv == PoolInit => IInv
<1> SUFFICES ASSUME PoolInit PROVE IInv OBVIOUS
<1>1. TypeInv BY EmptyNames DEF PoolInit, TypeInv, initRNG, Stages
<1>2. handed = <<>> /\ DOMAIN handed = {} BY DEF PoolInit
<1> QED BY <1>1, <1>2 DEF PoolInit, IInv, SeedInv, FreshInv, Distinct, LeadsToNone

(* A pool or seed that comes from one that leads to none leads to none. *)
LEMMA StillNone ==
    ASSUME TypeInv, NEW s \in Names, NEW u \in Names, LeadsToNone(s)
    PROVE  LeadsToNone(s \o u)
<1>1. \A i \in DOMAIN handed : handed[i] \in Names BY DEF TypeInv
<1> QED BY <1>1, Longer DEF LeadsToNone

LEMMA NextType == TypeInv /\ [PoolNext]_poolVars => TypeInv'
<1> SUFFICES ASSUME TypeInv, [PoolNext]_poolVars PROVE TypeInv' OBVIOUS
<1> USE DEF TypeInv, Stages
<1>1. CASE UNCHANGED poolVars BY <1>1 DEF poolVars, eeprom, history
<1>2. CASE begin
  <2>1. block' \in Names
    <3> DEFINE s == IF marked THEN seed ELSE initRNG
    <3>1. s \in Names BY EmptyNames DEF initRNG
    <3>2. block' = Rekeys(s, 2) BY <1>2 DEF begin
    <3> HIDE DEF s
    <3>3. PICK u \in Names : Rekeys(s, 2) = s \o u BY <3>1, RekeysFacts
    <3> QED BY <3>1, <3>2, <3>3, Longer
  <2> QED BY <1>2, <2>1 DEF begin, Counts, eeprom, history
<1>3. CASE Save BY <1>3 DEF Save, Counts, eeprom, history
<1>4. CASE WriteSome
  <2>1. Append(block, 1) \in Names /\ <<0>> \in Names BY AppendIsLonger DEF Names
  <2>2. seed' \in Names BY <1>4, <2>1 DEF WriteSome, Names
  <2> QED BY <1>4, <2>2 DEF WriteSome, history
<1>5. CASE WriteSeed
  <2>1. seed' \in Names BY <1>5, AppendIsLonger DEF WriteSeed
  <2> QED BY <1>5, <2>1 DEF WriteSeed, history
<1>6. CASE Mark
  <2>1. block' = Append(block, 2) BY <1>6 DEF Mark, rekey
  <2>2. block' \in Names BY <2>1, AppendIsLonger
  <2> QED BY <1>6, <2>2 DEF Mark, history
<1>7. CASE destroy
  <2>1. block' \in Names /\ seed' \in Names BY <1>7, EmptyNames DEF destroy, initRNG
  <2>2. stage' \in Stages /\ marked' \in BOOLEAN /\ destroyed' \in BOOLEAN
    BY <1>7 DEF destroy
  <2>3. steps' \in Nat /\ UNCHANGED <<firstSave, trngPosn, handed>>
    BY <1>7 DEF destroy, Counts
  <2> QED BY <2>1, <2>2, <2>3
<1>8. CASE PowerCut BY <1>8, EmptyNames DEF PowerCut, Counts, initRNG, eeprom, history
<1>9. ASSUME NEW len \in Lengths, rand(len) PROVE TypeInv'
  <2>1. Pieces(len, BLOCK) \in Nat BY PiecesInNat, PoolAssumption
  <2>2. PICK u \in Names : block' = block \o u BY <1>9, <2>1, RandFacts DEF rand
  <2>3. block' \in Names BY <2>2, Longer
  <2>4. Outputs(block, Pieces(len, BLOCK)) \in Seq(Names) BY <2>1, RandFacts
  <2>5. handed' \in Seq(Names) BY <1>9, <2>4 DEF rand
  <2> QED BY <1>9, <2>3, <2>5 DEF rand, Counts, eeprom
<1>10. ASSUME NEW len \in Lengths, NEW credit \in Credits, stir(len, credit) PROVE TypeInv'
  <2>1. PICK u \in Names : block' = block \o u
    BY <1>10, FromBlock, PoolAssumption DEF stir
  <2>2. block' \in Names BY <2>1, Longer
  <2> QED BY <1>10, <2>2 DEF stir, Stirs, Counts, eeprom, history
<1>11. ASSUME NEW fired \in BOOLEAN, NEW due \in BOOLEAN, loop(fired, due) PROVE TypeInv'
  <2>1. trngPosn' \in Nat
    <3>1. trngPosn + 1 \in Nat /\ NOISE_WORDS \in Nat \ {0} BY PoolAssumption
    <3>2. (trngPosn + 1) % NOISE_WORDS \in Nat BY <3>1, DivMod
    <3> QED BY <1>11, <3>2 DEF loop
  <2>2. CASE Stirs(0, CHUNK)
    <3>1. PICK u \in Names : block' = block \o u BY <2>2, FromBlock DEF CHUNK
    <3>2. block' \in Names BY <3>1, Longer
    <3> QED BY <1>11, <2>1, <2>2, <3>2 DEF loop, Stirs, Counts, eeprom, history
  <2>3. CASE UNCHANGED <<credits, credited, block, firstSave>>
    BY <1>11, <2>1, <2>3 DEF loop, Counts, eeprom, history
  <2> QED BY <1>11, <2>2, <2>3 DEF loop
<1> QED
  BY <1>1, <1>2, <1>3, <1>4, <1>5, <1>6, <1>7, <1>8, <1>9, <1>10, <1>11 DEF PoolNext

LEMMA NextFresh == IInv /\ [PoolNext]_poolVars => IInv'
<1> SUFFICES ASSUME IInv, [PoolNext]_poolVars PROVE IInv' OBVIOUS
<1>0. TypeInv /\ TypeInv' BY NextType DEF IInv
<1> SUFFICES ASSUME ~ destroyed' PROVE SeedInv' /\ FreshInv' BY <1>0 DEF IInv
<1>d. ~ destroyed
  BY DEF PoolNext, poolVars, begin, Save, WriteSome, WriteSeed, Mark, rand, stir, loop, destroy,
         PowerCut, eeprom, history
<1>i. SeedInv /\ FreshInv BY <1>d DEF IInv
<1>1. CASE UNCHANGED poolVars
  BY <1>1, <1>i DEF poolVars, eeprom, history, SeedInv, FreshInv, Distinct, LeadsToNone
<1>2. CASE begin
  <2> DEFINE s == IF marked THEN seed ELSE initRNG
  <2>1. s \in Names BY <1>0, EmptyNames DEF TypeInv, initRNG
  <2>2. LeadsToNone(s) BY <1>i DEF SeedInv, FreshInv, LeadsToNone
  <2>3. block' = Rekeys(s, 2) /\ stage' = "writing" /\ UNCHANGED <<marked, seed, handed>>
    BY <1>2 DEF begin, eeprom, history
  <2> HIDE DEF s
  <2>4. PICK u \in Names : Rekeys(s, 2) = s \o u BY <2>1, RekeysFacts
  <2>5. LeadsToNone(block') BY <1>0, <2>1, <2>2, <2>3, <2>4, StillNone
  <2> QED BY <1>i, <2>3, <2>5 DEF SeedInv, FreshInv, Distinct, LeadsToNone
<1>3. CASE Save
  BY <1>3, <1>i DEF Save, eeprom, history, SeedInv, FreshInv, Distinct, LeadsToNone
<1>4. CASE WriteSome
  <2>1. LeadsToNone(block) BY <1>4, <1>i DEF WriteSome, FreshInv
  <2>2. seed' = Append(block, 1) \o (<<0>> \o seed)
    <3>1. Append(block, 1) \in Names /\ <<0>> \in Names
      BY <1>0, AppendIsLonger DEF Names, TypeInv
    <3>2. (Append(block, 1) \o <<0>>) \o seed = Append(block, 1) \o (<<0>> \o seed)
      BY <1>0, <3>1, Associates DEF TypeInv
    <3> QED BY <1>4, <3>2 DEF WriteSome
  <2>3. /\ Append(block, 1) = block \o <<1>> /\ <<1>> \in Names
        /\ Append(block, 1) \in Names /\ <<0>> \o seed \in Names
    BY <1>0, AppendIsLonger DEF TypeInv, Names
  <2>4. LeadsToNone(Append(block, 1)) BY <1>0, <2>1, <2>3, StillNone DEF TypeInv
  <2>5. LeadsToNone(seed') BY <1>0, <2>2, <2>3, <2>4, StillNone
  <2>6. stage' = "torn" /\ stage # "off" /\ UNCHANGED <<block, marked, handed>>
    BY <1>4 DEF WriteSome, history
  <2> QED BY <1>i, <2>1, <2>5, <2>6 DEF SeedInv, FreshInv, Distinct, LeadsToNone
<1>5. CASE WriteSeed
  <2>1. LeadsToNone(block) BY <1>5, <1>i DEF WriteSeed, FreshInv
  <2>2. Append(block, 1) = block \o <<1>> /\ <<1>> \in Names BY <1>0, AppendIsLonger DEF TypeInv
  <2>3. seed' = Append(block, 1) /\ stage' = "mark" /\ UNCHANGED <<block, marked, handed>>
    BY <1>5 DEF WriteSeed, history
  <2>4. LeadsToNone(seed') BY <1>0, <2>1, <2>2, <2>3, StillNone DEF TypeInv
  <2> QED BY <1>i, <2>1, <2>3, <2>4 DEF SeedInv, FreshInv, Distinct, LeadsToNone
<1>6. CASE Mark
  <2>1. LeadsToNone(block) /\ seed = Append(block, 1) BY <1>6, <1>i DEF Mark, FreshInv, SeedInv
  <2>2. /\ block' = Append(block, 2) /\ marked' = TRUE /\ stage' = "ready"
        /\ UNCHANGED <<seed, handed>>
    BY <1>6 DEF Mark, rekey, history
  <2>3. /\ Append(block, 1) = block \o <<1>> /\ <<1>> \in Names
        /\ Append(block, 2) = block \o <<2>> /\ <<2>> \in Names
    BY <1>0, AppendIsLonger DEF TypeInv
  <2>4. Apart(seed', block') BY <1>0, <2>1, <2>2, Siblings DEF TypeInv
  <2>5. LeadsToNone(seed) /\ LeadsToNone(block')
    BY <1>0, <2>1, <2>2, <2>3, StillNone DEF TypeInv
  <2> QED BY <1>i, <2>2, <2>4, <2>5 DEF SeedInv, FreshInv, Distinct, LeadsToNone
<1>7. CASE destroy BY <1>7 DEF destroy
<1>8. CASE PowerCut
  BY <1>8, <1>i DEF PowerCut, eeprom, history, SeedInv, FreshInv, Distinct, LeadsToNone
(* The pool goes on, and nothing is handed out. *)
<1>9. ASSUME stage = "ready", stage' \in {"ready", "writing"},
             \E u \in Names : block' = block \o u, UNCHANGED <<marked, seed, handed>>
      PROVE  SeedInv' /\ FreshInv'
  <2>1. PICK u \in Names : block' = block \o u BY <1>9
  <2>2. LeadsToNone(block) /\ Apart(seed, block) BY <1>9, <1>i DEF FreshInv, SeedInv
  <2>3. LeadsToNone(block') BY <1>0, <2>1, <2>2, StillNone DEF TypeInv
  <2>4. Apart(seed, block') BY <1>0, <2>1, <2>2, Longer DEF TypeInv
  <2> QED BY <1>i, <1>9, <2>3, <2>4 DEF SeedInv, FreshInv, Distinct, LeadsToNone
<1>10. ASSUME NEW len \in Lengths, NEW credit \in Credits, stir(len, credit)
       PROVE  SeedInv' /\ FreshInv'
  <2>1. \E u \in Names : block' = block \o u
    BY <1>0, <1>10, FromBlock, PoolAssumption DEF stir
  <2> QED BY <1>9, <1>10, <2>1 DEF stir, eeprom, history
<1>11. ASSUME NEW fired \in BOOLEAN, NEW due \in BOOLEAN, loop(fired, due)
       PROVE  SeedInv' /\ FreshInv'
  <2>1. CASE Stirs(0, CHUNK)
    <3>1. \E u \in Names : block' = block \o u BY <1>0, <2>1, FromBlock DEF CHUNK
    <3> QED BY <1>9, <1>11, <3>1 DEF loop, eeprom, history
  <2>2. CASE block' = block
    BY <1>i, <1>11, <2>2
       DEF loop, eeprom, history, SeedInv, FreshInv, Distinct, LeadsToNone
  <2> QED BY <1>11, <2>1, <2>2 DEF loop
<1>12. ASSUME NEW len \in Lengths, rand(len) PROVE SeedInv' /\ FreshInv'
  <2> DEFINE n == Pieces(len, BLOCK)
             new == Outputs(block, n)
             old == Len(handed)
  <2>1. n \in Nat BY PiecesInNat, PoolAssumption
  <2>2. /\ stage = "ready" /\ stage' = "ready" /\ UNCHANGED <<marked, seed>>
        /\ handed' = handed \o new /\ block' = PoolAfter(block, n)
    BY <1>12 DEF rand, eeprom
  <2> HIDE DEF n
  <2>3. /\ new \in Seq(Names) /\ Len(new) = n
        /\ \A i \in 1 .. n : \E u \in Names : new[i] = block \o u
        /\ \A i, j \in 1 .. n : new[i] = new[j] => i = j
        /\ \E u \in Names : block' = block \o u
        /\ \A i \in 1 .. n : ~ Leads(block', new[i])
    BY <1>0, <2>1, <2>2, RandFacts DEF TypeInv
  <2> HIDE DEF new
  <2>4. /\ DOMAIN handed' = 1 .. (old + n) /\ old \in Nat /\ DOMAIN handed = 1 .. old
        /\ \A i \in 1 .. old : handed'[i] = handed[i] /\ handed[i] \in Names
        /\ \A i \in (old + 1) .. (old + n) : handed'[i] = new[i - old] /\ i - old \in 1 .. n
    <3> handed \in Seq(Names) BY <1>0 DEF TypeInv
    <3>a. new \in Seq(Names) BY <2>3
    <3>b. handed \o new \in Seq(Names) /\ Len(handed \o new) = Len(handed) + Len(new)
      BY <3>a, ConcatProperties
    <3>c. Len(handed) \in Nat /\ DOMAIN handed = 1 .. Len(handed) BY LenProperties
    <3>1. Len(handed') = old + n /\ old \in Nat /\ DOMAIN handed = 1 .. old
      BY <2>2, <2>3, <3>b, <3>c
    <3>2. handed' \in Seq(Names) /\ DOMAIN handed' = 1 .. (old + n)
      BY <2>2, <2>3, <3>1
    <3>3. \A i \in 1 .. old : handed'[i] = handed[i] /\ handed[i] \in Names
      BY <2>2, <2>3
    <3>4. \A i \in (old + 1) .. (old + n) : i - old \in 1 .. n BY <2>1, <3>1
    <3>5. \A i \in (old + 1) .. (old + n) : handed'[i] = new[i - old]
      BY <2>1, <2>2, <2>3, <3>1, ConcatProperties
    <3> QED BY <3>1, <3>2, <3>3, <3>4, <3>5
  <2> HIDE DEF old
  <2>5. LeadsToNone(block) /\ LeadsToNone(seed) /\ Apart(seed, block) /\ marked /\ Distinct
    BY <2>2, <1>i DEF FreshInv, SeedInv
  <2>6. PICK v \in Names : block' = block \o v BY <2>3
  <2>7. LeadsToNone(block \o v) BY <1>0, <2>5, StillNone DEF TypeInv
  <2>8. \A i \in 1 .. n : Leads(block, new[i]) /\ ~ Leads(seed, new[i])
    <3> TAKE i \in 1 .. n
    <3>1. PICK u \in Names : new[i] = block \o u BY <2>3
    <3> QED BY <1>0, <2>5, <3>1, Longer DEF TypeInv, Apart
  <2>9. ASSUME NEW i \in DOMAIN handed'
        PROVE  ~ Leads(block', handed'[i]) /\ ~ Leads(seed, handed'[i])
    <3>1. CASE i \in 1 .. old
      BY <2>4, <2>5, <2>6, <2>7, <3>1 DEF LeadsToNone
    <3>2. CASE i \in (old + 1) .. (old + n) BY <2>3, <2>4, <2>8, <3>2
    <3> QED BY <2>1, <2>4, <2>9, <3>1, <3>2
  <2>10. ASSUME NEW i \in DOMAIN handed', NEW j \in DOMAIN handed', handed'[i] = handed'[j]
         PROVE  i = j
    <3>1. CASE i \in 1 .. old /\ j \in 1 .. old
      BY <2>4, <2>5, <2>10, <3>1 DEF Distinct
    <3>2. CASE i \in (old + 1) .. (old + n) /\ j \in (old + 1) .. (old + n)
      <4>1. new[i - old] = new[j - old] /\ i - old \in 1 .. n /\ j - old \in 1 .. n
        BY <2>4, <2>10, <3>2
      <4>2. i - old = j - old BY <2>3, <4>1
      <4> QED BY <2>4, <3>2, <4>2
    <3>3. ASSUME NEW a \in 1 .. old, NEW c \in (old + 1) .. (old + n)
          PROVE  handed'[a] # handed'[c]
      BY <2>4, <2>5, <2>8 DEF LeadsToNone
    <3>4. /\ i \in 1 .. old \/ i \in (old + 1) .. (old + n)
          /\ j \in 1 .. old \/ j \in (old + 1) .. (old + n)
      BY <2>1, <2>4
    <3> QED BY <2>10, <3>1, <3>2, <3>3, <3>4
  <2>11. Apart(seed, block') BY <1>0, <2>5, <2>6, Longer DEF TypeInv
  <2> QED BY <2>2, <2>5, <2>9, <2>10, <2>11 DEF SeedInv, FreshInv, Distinct, LeadsToNone
<1> QED
  BY <1>1, <1>2, <1>3, <1>4, <1>5, <1>6, <1>7, <1>8, <1>10, <1>11, <1>12 DEF PoolNext

LEMMA Invariance == PoolSpec => []IInv
<1>1. PoolInit => IInv BY InitIInv
<1>2. IInv /\ [PoolNext]_poolVars => IInv' BY NextFresh
<1> QED BY <1>1, <1>2, PTL DEF PoolSpec

(* No random number is handed out twice, whatever the number and the place of
   power cuts, as long as destroy() has not been called (RNG.cpp, the save at
   the end of begin). *)
THEOREM NeverTwice == PoolSpec => []NothingTwice
<1>1. IInv => NothingTwice BY DEF IInv, FreshInv, Distinct, NothingTwice
<1> QED BY <1>1, Invariance, PTL

(* From the pool and the seed of any moment nothing can be computed that has
   been handed out before it (RNG.cpp, the rekey after every request). *)
THEOREM PastKept == PoolSpec => []PastIsSafe
<1>1. IInv => PastIsSafe
  <2> SUFFICES ASSUME IInv, ~ destroyed, NEW i \in DOMAIN handed
               PROVE  /\ stage # "off" => ~ IsPrefix(block, handed[i])
                      /\ marked => ~ IsPrefix(seed, handed[i])
    BY DEF PastIsSafe
  <2>1. handed[i] \in Names /\ block \in Names /\ seed \in Names BY DEF IInv, TypeInv
  <2> QED BY <2>1, PrefixIsLeads DEF IInv, FreshInv, LeadsToNone
<1> QED BY <1>1, Invariance, PTL

-------------------------------------------------------------------------------
(******************************* The credits *******************************)

CreditInv ==
    /\ credits \in 0 .. RNG_MAX_CREDITS
    /\ credited \in Nat /\ promised \in Nat
    /\ 8 * promised + credits <= credited

LEMMA Eighth ==
    ASSUME NEW c \in Nat
    PROVE  c \div 8 \in Nat /\ 8 * (c \div 8) <= c
<1>1. c \div 8 \in Nat /\ c % 8 \in 0 .. 7 /\ c = 8 * (c \div 8) + (c % 8)
  BY DivMod
<1> QED BY <1>1

(* Stirring adds no more to the credits than it counts as credited. *)
LEMMA StirKeepsCredits ==
    ASSUME CreditInv, NEW len \in Nat, NEW credit \in Nat, Stirs(len, credit),
           promised' = promised
    PROVE  CreditInv'
<1> DEFINE w == Worth(len, credit)
<1>1. w \in Nat BY DEF Worth
<1>2. credits' = Credited(credits, w) /\ credited' = credited + w BY DEF Stirs
<1> HIDE DEF w
<1>3. RNG_MAX_CREDITS \in Nat /\ credits \in 0 .. RNG_MAX_CREDITS
  BY PoolAssumption DEF CreditInv
<1>4. credits' \in 0 .. RNG_MAX_CREDITS /\ credits' <= credits + w
  BY <1>1, <1>2, <1>3 DEF Credited
<1> QED BY <1>1, <1>2, <1>3, <1>4 DEF CreditInv

LEMMA Covered ==
    ASSUME NEW p \in Nat, NEW c \in Nat, NEW k \in Nat, 8 * p + c <= k,
           NEW x \in Nat, NEW l \in Nat, 8 * x + l <= c
    PROVE  8 * (p + x) + l <= k
OBVIOUS

(* A request takes from the credits what it was promised. *)
LEMMA RandKeepsCredits ==
    ASSUME CreditInv, NEW len \in Lengths, rand(len)
    PROVE  CreditInv'
<1> DEFINE M == RNG_MAX_CREDITS
           e == M \div 8
           d == credits \div 8
<1>1. len \in Nat /\ M \in Nat /\ credits \in 0 .. M /\ credits \in Nat
  BY PoolAssumption DEF CreditInv
<1>2. e \in Nat /\ 8 * e <= M /\ d \in Nat /\ 8 * d <= credits BY <1>1, Eighth
<1>3. credits' = IF len > d THEN 0 ELSE credits - 8 * len BY DEF rand, CreditsLeft
<1>4. promised' = promised + (IF IF len >= e THEN credits >= M ELSE len <= d
                             THEN IF len <= e THEN len ELSE e
                             ELSE 0)
  BY DEF rand, available, Smaller
<1>5. promised \in Nat /\ credited \in Nat /\ 8 * promised + credits <= credited
      /\ credited' = credited
  BY DEF rand, CreditInv
<1> HIDE DEF M, e, d
<1>6. credits' \in 0 .. M /\ credits' <= credits BY <1>1, <1>2, <1>3
<1>7. credits' \in Nat BY <1>1, <1>6
<1>8. \E x \in Nat : promised' = promised + x /\ 8 * x + credits' <= credits
  <2>1. CASE len >= e /\ credits >= M
    <3>1. promised' = promised + e BY <1>1, <1>2, <1>4, <2>1
    <3>2. credits' <= M - 8 * e BY <1>1, <1>2, <1>3, <2>1
    <3>3. credits = M /\ 8 * e \in Nat BY <1>1, <1>2, <2>1
    <3>4. 8 * e + credits' <= credits BY <1>1, <1>7, <3>2, <3>3
    <3> QED BY <1>2, <3>1, <3>4
  <2>2. CASE ~ len >= e /\ len <= d
    <3>1. promised' = promised + len BY <1>1, <1>2, <1>4, <2>2
    <3>2. credits' = credits - 8 * len /\ 8 * len \in Nat BY <1>1, <1>2, <1>3, <2>2
    <3>3. 8 * len + credits' <= credits BY <1>1, <3>2
    <3> QED BY <1>1, <3>1, <3>3
  <2>3. CASE ~ (len >= e /\ credits >= M) /\ ~ (~ len >= e /\ len <= d)
    <3>1. promised' = promised + 0 BY <1>1, <1>2, <1>4, <2>3
    <3>2. 8 * 0 + credits' <= credits BY <1>6, <1>7
    <3> QED BY <3>1, <3>2
  <2> QED BY <2>1, <2>2, <2>3
<1>9. PICK x \in Nat : promised' = promised + x /\ 8 * x + credits' <= credits BY <1>8
<1>10. 8 * (promised + x) + credits' <= credited BY <1>1, <1>5, <1>7, <1>9, Covered
<1>11. promised + x \in Nat BY <1>5
<1> QED BY <1>5, <1>6, <1>9, <1>10, <1>11 DEF CreditInv, M

LEMMA NextCredits == CreditInv /\ [PoolNext]_poolVars => CreditInv'
<1> SUFFICES ASSUME CreditInv, [PoolNext]_poolVars PROVE CreditInv' OBVIOUS
<1>0. RNG_MAX_CREDITS \in Nat BY PoolAssumption
<1>1. CASE begin \/ PowerCut BY <1>0, <1>1 DEF begin, PowerCut, CreditInv
<1>2. ASSUME UNCHANGED <<credits, credited, promised>> PROVE CreditInv'
  BY <1>2 DEF CreditInv
<1>3. CASE UNCHANGED poolVars \/ Save \/ WriteSome \/ WriteSeed \/ Mark \/ destroy
  BY <1>2, <1>3 DEF poolVars, Save, WriteSome, WriteSeed, Mark, destroy
<1>4. ASSUME NEW len \in Lengths, rand(len) PROVE CreditInv' BY <1>4, RandKeepsCredits
<1>5. ASSUME NEW len \in Lengths, NEW credit \in Credits, stir(len, credit) PROVE CreditInv'
  BY <1>5, StirKeepsCredits, PoolAssumption DEF stir
<1>6. ASSUME NEW fired \in BOOLEAN, NEW due \in BOOLEAN, loop(fired, due) PROVE CreditInv'
  <2>1. CASE Stirs(0, CHUNK) BY <1>6, <2>1, StirKeepsCredits DEF loop, CHUNK
  <2>2. CASE UNCHANGED <<credits, credited, block, firstSave>>
    BY <1>2, <1>6, <2>2 DEF loop
  <2> QED BY <1>6, <2>1, <2>2 DEF loop
<1> QED BY <1>1, <1>3, <1>4, <1>5, <1>6 DEF PoolNext

(* However requests and noise follow each other, no bit of entropy is promised
   to two requests (RNG.cpp, rand and available). *)
THEOREM PromisesAreCovered == PoolSpec => []CreditsBacked
<1>1. PoolInit => CreditInv BY PoolAssumption DEF PoolInit, CreditInv
<1>2. CreditInv /\ [PoolNext]_poolVars => CreditInv' BY NextCredits
<1>3. CreditInv => CreditsBacked BY DEF CreditInv, CreditsBacked
<1> QED BY <1>1, <1>2, <1>3, PTL DEF PoolSpec
===============================================================================
