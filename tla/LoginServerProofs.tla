--------------------------- MODULE LoginServerProofs ---------------------------
(***************************************************************************)
(* Theorems about LoginServer, for any number of users and addresses, any  *)
(* limits and any durations that keep the order window < lockout < ban.    *)
(***************************************************************************)
EXTENDS LoginServer, FiniteSetTheorems, TLAPS

LEMMA Limits ==
    /\ MAXIMUM_FAILED_LOGINS \in Nat /\ MAXIMUM_FAILED_LOGINS >= 1
    /\ MAXIMUM_ACCOUNTS \in Nat /\ MAXIMUM_ACCOUNTS >= 1
    /\ FAILED_ATTEMPTS_DURATION \in Nat /\ FAILED_ATTEMPTS_DURATION >= 1
    /\ LOCKOUT_DURATION \in Nat /\ IP_LOCKOUT \in Nat /\ CODE_DURATION \in Nat
    /\ MaxTime \in Nat /\ 0 \in Times
    /\ FAILED_ATTEMPTS_DURATION < LOCKOUT_DURATION /\ LOCKOUT_DURATION < IP_LOCKOUT
BY LoginAssumption DEF Times

LEMMA KeyFacts ==
    /\ \A k \in Keys : k[1] \in Users /\ Address(k) \in IPs
    /\ \A S \in SUBSET Keys : IsFiniteSet(S) /\ Cardinality(S) \in Nat
<1>1. IsFiniteSet(Keys) BY LoginAssumption, FS_Product DEF Keys
<1>2. ASSUME NEW S \in SUBSET Keys
      PROVE  IsFiniteSet(S) /\ Cardinality(S) \in Nat
  BY <1>1, FS_Subset, FS_CardinalityType
<1>3. \A k \in Keys : k[1] \in Users /\ Address(k) \in IPs BY DEF Keys, Address
<1> QED BY <1>2, <1>3

LEMMA TimeSets ==
    ASSUME NEW S \in SUBSET Times
    PROVE  IsFiniteSet(S) /\ Cardinality(S) \in Nat
<1>1. IsFiniteSet(Times) BY Limits, FS_Interval DEF Times
<1> QED BY <1>1, FS_Subset, FS_CardinalityType

-------------------------------------------------------------------------------
(**************************** The types are kept ***************************)

LEMMA CountFacts ==
    ASSUME NEW ip
    PROVE  LockedSince(ip) \in Nat /\ CountLockedUsers(ip) \in Nat
<1>1. LockedSince(ip) \in Nat BY KeyFacts DEF LockedSince
<1> QED BY <1>1, Limits DEF CountLockedUsers

\* The rows of the addresses after a step of the servlets that writes them.
LEMMA RowType ==
    ASSUME TypeOK, NEW ip \in IPs, CheckMaximumCount(ip) \/ HandleLockedUserPerIp(ip)
    PROVE  banned' \in [IPs -> [failed : 0 .. MAXIMUM_ACCOUNTS + 1, starting : Times]]
<1> DEFINE Rows == [failed : 0 .. MAXIMUM_ACCOUNTS + 1, starting : Times]
<1>1. banned \in [IPs -> Rows] /\ now \in Times BY DEF TypeOK
<1>2. /\ MAXIMUM_ACCOUNTS + 1 \in 0 .. MAXIMUM_ACCOUNTS + 1
      /\ MAXIMUM_ACCOUNTS \in 0 .. MAXIMUM_ACCOUNTS + 1
      /\ 1 \in 0 .. MAXIMUM_ACCOUNTS + 1
  BY Limits
<1>3. ASSUME NEW n \in 0 .. MAXIMUM_ACCOUNTS + 1, banned' = [banned EXCEPT ![ip].failed = n]
      PROVE  banned' \in [IPs -> Rows]
  BY <1>1, <1>3
<1>4. CASE CheckMaximumCount(ip) BY <1>1, <1>2, <1>3, <1>4 DEF CheckMaximumCount
<1>5. CASE HandleLockedUserPerIp(ip)
  <2>1. CASE banned[ip] = NoBan
    <3>1. [failed |-> 1, starting |-> now] \in Rows BY <1>1, <1>2
    <3> QED BY <1>1, <1>5, <2>1, <3>1 DEF HandleLockedUserPerIp
  <2>2. CASE banned[ip] # NoBan /\ banned[ip].failed < MAXIMUM_ACCOUNTS
    <3>1. PICK n : n = IF CountLockedUsers(ip) > MAXIMUM_ACCOUNTS
                       THEN MAXIMUM_ACCOUNTS ELSE CountLockedUsers(ip) + 1
      OBVIOUS
    <3>2. n \in 0 .. MAXIMUM_ACCOUNTS + 1 BY <3>1, CountFacts, Limits
    <3>3. banned' = [banned EXCEPT ![ip].failed = n]
      BY <1>5, <2>2, <3>1 DEF HandleLockedUserPerIp
    <3> QED BY <1>3, <3>2, <3>3
  <2>3. CASE banned[ip] # NoBan /\ ~ banned[ip].failed < MAXIMUM_ACCOUNTS
    BY <1>1, <1>5, <2>3 DEF HandleLockedUserPerIp
  <2> QED BY <2>1, <2>2, <2>3
<1> QED BY <1>4, <1>5

LEMMA ClockType ==
    ASSUME TypeOK, TimePasses
    PROVE  now' \in Times /\ now \in Times /\ now' = now + 1
BY Limits DEF TypeOK, TimePasses, Times

LEMMA GuessType ==
    ASSUME TypeOK, NEW g \in [Keys -> SUBSET Times], Forget(g)
    PROVE  guesses' \in [Keys -> SUBSET Times]
BY DEF Forget

LEMMA FailedType ==
    ASSUME TypeOK, NEW k \in Keys, HandleFailedLogin(k)
    PROVE  /\ failed' \in [Keys -> [attempts : 0 .. MAXIMUM_FAILED_LOGINS + 1, first : Times]]
           /\ lockout' \in [Keys -> Times \cup {Never}]
           /\ banned' \in [IPs -> [failed : 0 .. MAXIMUM_ACCOUNTS + 1, starting : Times]]
<1> DEFINE Rows == [attempts : 0 .. MAXIMUM_FAILED_LOGINS + 1, first : Times]
<1>0. failed \in [Keys -> Rows] /\ now \in Times /\ lockout \in [Keys -> Times \cup {Never}]
  BY DEF TypeOK
<1>1. lockout' \in [Keys -> Times \cup {Never}]
  BY <1>0 DEF HandleFailedLogin
<1>2. banned' \in [IPs -> [failed : 0 .. MAXIMUM_ACCOUNTS + 1, starting : Times]]
  <2>1. CASE UNCHANGED banned BY <2>1 DEF TypeOK
  <2>2. CASE HandleLockedUserPerIp(Address(k)) BY <2>2, KeyFacts, RowType
  <2> QED BY <2>1, <2>2 DEF HandleFailedLogin
<1>3. ASSUME NEW n \in 0 .. MAXIMUM_FAILED_LOGINS + 1, failed' = [failed EXCEPT ![k].attempts = n]
      PROVE  failed' \in [Keys -> Rows]
  BY <1>0, <1>3
<1>4. failed' \in [Keys -> Rows]
  <2>1. CASE failed' = [failed EXCEPT ![k] = [attempts |-> 1, first |-> now]]
    <3>1. [attempts |-> 1, first |-> now] \in Rows BY <1>0, Limits
    <3> QED BY <1>0, <2>1, <3>1
  <2>2. CASE ~ LastChanceGone(k) /\ failed' = [failed EXCEPT ![k].attempts = @ + 1]
    <3>1. PICK n : n = failed[k].attempts + 1 OBVIOUS
    <3>2. failed[k].attempts \in 0 .. MAXIMUM_FAILED_LOGINS + 1 BY <1>0
    <3>3. n \in 0 .. MAXIMUM_FAILED_LOGINS + 1 BY <2>2, <3>1, <3>2, Limits DEF LastChanceGone
    <3>4. failed' = [failed EXCEPT ![k].attempts = n] BY <2>2, <3>1
    <3> QED BY <1>3, <3>3, <3>4
  <2>3. CASE failed' = [failed EXCEPT ![k].attempts = MAXIMUM_FAILED_LOGINS + 1]
    <3>1. MAXIMUM_FAILED_LOGINS + 1 \in 0 .. MAXIMUM_FAILED_LOGINS + 1 BY Limits
    <3> QED BY <1>3, <2>3, <3>1
  <2> QED BY <2>1, <2>2, <2>3 DEF HandleFailedLogin
<1> QED BY <1>1, <1>2, <1>4

LEMMA MailType ==
    ASSUME TypeOK, NEW k \in Keys, SendMail(k)
    PROVE  /\ codes' \in [Keys -> Times \cup {Never}]
           /\ mailbox' \in [Users -> SUBSET (Keys \X Times)]
<1>1. <<k, now>> \in Keys \X Times /\ k[1] \in Users BY KeyFacts DEF TypeOK
<1>2. codes' = codes \/ codes' = [codes EXCEPT ![k] = now] BY DEF SendMail
<1>3. \/ mailbox' = mailbox
      \/ mailbox' = [mailbox EXCEPT ![k[1]] = @ \cup {<<k, now>>}]
  BY DEF SendMail
<1>4. codes' \in [Keys -> Times \cup {Never}] BY <1>2 DEF TypeOK
<1>5. mailbox' \in [Users -> SUBSET (Keys \X Times)] BY <1>1, <1>3 DEF TypeOK
<1> QED BY <1>4, <1>5

LEMMA TypeNext == TypeOK /\ [Next]_vars => TypeOK'
<1> SUFFICES ASSUME TypeOK, [Next]_vars PROVE TypeOK'
  OBVIOUS
<1> USE DEF tables, trust
<1>0. guesses \in [Keys -> SUBSET Times] BY DEF TypeOK
<1>1. ASSUME NEW k \in Keys, RefuseAddress(k) PROVE TypeOK'
  <2>1. banned' \in [IPs -> [failed : 0 .. MAXIMUM_ACCOUNTS + 1, starting : Times]]
    BY <1>1, KeyFacts, RowType DEF RefuseAddress
  <2>2. now' \in Times /\ guesses' \in [Keys -> SUBSET Times]
    BY <1>0, <1>1, ClockType, GuessType DEF RefuseAddress
  <2> QED BY <1>1, <2>1, <2>2 DEF RefuseAddress, TypeOK
<1>2. ASSUME NEW k \in Keys, RefuseUser(k) PROVE TypeOK'
  <2>1. now' \in Times /\ guesses' \in [Keys -> SUBSET Times]
    BY <1>0, <1>2, ClockType, GuessType DEF RefuseUser
  <2> QED BY <1>2, <2>1 DEF RefuseUser, TypeOK
<1>3. ASSUME NEW k \in Keys, LoginTrusted(k) PROVE TypeOK'
  <2>1. now' \in Times BY <1>3, ClockType DEF LoginTrusted, LooksAtPassword
  <2>2. [guesses EXCEPT ![k] = {}] \in [Keys -> SUBSET Times] BY <1>0
  <2>3. guesses' \in [Keys -> SUBSET Times]
    BY <1>3, <2>2, GuessType DEF LoginTrusted
  <2>4. NoFailures \in [attempts : 0 .. MAXIMUM_FAILED_LOGINS + 1, first : Times]
    BY Limits DEF NoFailures
  <2> QED BY <1>3, <2>1, <2>3, <2>4 DEF LoginTrusted, TypeOK
<1>4. ASSUME NEW k \in Keys, LoginUntrusted(k) PROVE TypeOK'
  <2>1. now' \in Times /\ guesses' \in [Keys -> SUBSET Times]
    BY <1>0, <1>4, ClockType, GuessType DEF LoginUntrusted, LooksAtPassword
  <2>2. /\ codes' \in [Keys -> Times \cup {Never}]
        /\ mailbox' \in [Users -> SUBSET (Keys \X Times)]
    BY <1>4, MailType DEF LoginUntrusted
  <2> QED BY <1>4, <2>1, <2>2 DEF LoginUntrusted, TypeOK
<1>5. ASSUME NEW k \in Keys, LoginFailed(k) PROVE TypeOK'
  <2>1. now' \in Times /\ now \in Times
    BY <1>5, ClockType DEF LoginFailed, LooksAtPassword
  <2>2. [guesses EXCEPT ![k] = @ \cup {now}] \in [Keys -> SUBSET Times] BY <1>0, <2>1
  <2>3. guesses' \in [Keys -> SUBSET Times]
    BY <1>5, <2>2, GuessType DEF LoginFailed
  <2>4. /\ failed' \in [Keys -> [attempts : 0 .. MAXIMUM_FAILED_LOGINS + 1, first : Times]]
        /\ lockout' \in [Keys -> Times \cup {Never}]
        /\ banned' \in [IPs -> [failed : 0 .. MAXIMUM_ACCOUNTS + 1, starting : Times]]
    BY <1>5, FailedType DEF LoginFailed
  <2> QED BY <1>5, <2>1, <2>3, <2>4 DEF LoginFailed, TypeOK
<1>6. ASSUME NEW k \in Keys, Verify(k) PROVE TypeOK'
  <2>1. now' \in Times /\ guesses' \in [Keys -> SUBSET Times]
    BY <1>0, <1>6, ClockType, GuessType DEF Verify
  <2> QED BY <1>6, <2>1 DEF Verify, InsertTrustedDevice, TypeOK
<1>7. ASSUME Restart \/ Idle PROVE TypeOK'
  <2>1. now' \in Times /\ guesses' \in [Keys -> SUBSET Times]
    BY <1>0, <1>7, ClockType, GuessType DEF Restart, Idle
  <2>2. vector' \subseteq Keys BY <1>7 DEF Restart, Idle, TypeOK
  <2> QED BY <1>7, <2>1, <2>2 DEF Restart, Idle, TypeOK
<1>8. CASE UNCHANGED vars BY <1>8 DEF vars, TypeOK
<1> QED BY <1>1, <1>2, <1>3, <1>4, <1>5, <1>6, <1>7, <1>8 DEF Next, Request

LEMMA InitType == Init => TypeOK
<1> SUFFICES ASSUME Init PROVE TypeOK
  OBVIOUS
<1>1. /\ NoFailures \in [attempts : 0 .. MAXIMUM_FAILED_LOGINS + 1, first : Times]
      /\ NoBan \in [failed : 0 .. MAXIMUM_ACCOUNTS + 1, starting : Times]
  BY Limits DEF NoFailures, NoBan
<1>2. Devices \subseteq Keys BY LoginAssumption
<1> QED BY <1>1, <1>2, Limits DEF Init, TypeOK

\* No row grows past its limit plus one, whatever the order of the requests.
THEOREM TypeCorrect == Spec => []TypeOK
BY InitType, TypeNext, PTL DEF Spec

-------------------------------------------------------------------------------
(*************************** The trusted devices ***************************)

\* A device becomes trusted only by a code that was mailed for this very device
\* and is still valid, through restarts and mails that could not be sent.
THEOREM TrustOnlyEarned == Spec => TrustIsEarned
<1> DEFINE Earned ==
       \A k \in (trusted' \cup vector') \ (trusted \cup vector) :
          \E t \in Times : <<k, t>> \in mailbox[k[1]] /\ now < t + CODE_DURATION
<1>1. TypeOK /\ [Next]_vars => [Earned]_vars
  <2> SUFFICES ASSUME TypeOK, Next PROVE Earned
    OBVIOUS
  <2>1. CASE \E k \in Keys : Verify(k)
    <3>1. PICK k \in Keys : Verify(k) BY <2>1
    <3>2. trusted' \cup vector' = trusted \cup vector \cup {k}
      BY <3>1 DEF Verify, InsertTrustedDevice
    <3>3. /\ codes[k] # Never /\ now < codes[k] + CODE_DURATION
          /\ <<k, codes[k]>> \in mailbox[k[1]]
      BY <3>1 DEF Verify, ValidCodeExists, CodeIsRight
    <3>4. codes[k] \in Times BY <3>3 DEF TypeOK
    <3> QED BY <3>2, <3>3, <3>4
  <2>2. CASE ~ \E k \in Keys : Verify(k)
    <3>1. trusted' \cup vector' \subseteq trusted \cup vector
      BY <2>2 DEF Next, Request, RefuseAddress, RefuseUser, LoginTrusted, LoginUntrusted,
         LoginFailed, Restart, Idle, trust
    <3> QED BY <3>1
  <2> QED BY <2>1, <2>2
<1> QED BY <1>1, TypeCorrect, PTL DEF Spec, TrustIsEarned

-------------------------------------------------------------------------------
(************************* The ban of an address ***************************)

\* The accounts locked from ip after the address got its row.
After(ip) == {k \in Keys : /\ Address(k) = ip
                           /\ lockout[k] # Never
                           /\ lockout[k] > banned[ip].starting}

\* Every lockout is behind the row of its address, no two are made at once, and
\* until the time of the row is over no more than the maximum follow it.
BanInv ==
    /\ \A ip \in IPs : banned[ip].starting <= now
    /\ \A k \in Keys :
          lockout[k] # Never =>
             /\ lockout[k] < now
             /\ banned[Address(k)] # NoBan
             /\ banned[Address(k)].starting <= lockout[k]
    /\ \A k, j \in Keys : lockout[k] # Never /\ lockout[j] = lockout[k] => j = k
    /\ \A ip \in IPs :
          banned[ip] # NoBan /\ now < banned[ip].starting + IP_LOCKOUT
             => Cardinality(After(ip)) <= MAXIMUM_ACCOUNTS

\* The row of an address stays, and so does its time.
RowsStay ==
    \A ip \in IPs : banned[ip] # NoBan =>
        banned'[ip] # NoBan /\ banned'[ip].starting = banned[ip].starting

LEMMA RowWritten ==
    ASSUME TypeOK, NEW ip \in IPs, CheckMaximumCount(ip) \/ HandleLockedUserPerIp(ip)
    PROVE  /\ RowsStay
           /\ \A j \in IPs : j # ip => banned'[j] = banned[j]
           /\ HandleLockedUserPerIp(ip) => banned'[ip] # NoBan
           /\ HandleLockedUserPerIp(ip) /\ banned[ip] = NoBan => banned'[ip].starting = now
           /\ CheckMaximumCount(ip) /\ banned[ip] = NoBan => banned'[ip] = NoBan
<1>1. /\ banned \in [IPs -> [failed : 0 .. MAXIMUM_ACCOUNTS + 1, starting : Times]]
      /\ banned[ip] \in [failed : 0 .. MAXIMUM_ACCOUNTS + 1, starting : Times]
  BY DEF TypeOK
<1>2. ASSUME NEW n, n # 0, banned' = [banned EXCEPT ![ip].failed = n]
      PROVE  /\ RowsStay
             /\ \A j \in IPs : j # ip => banned'[j] = banned[j]
             /\ banned'[ip] # NoBan
  BY <1>1, <1>2 DEF RowsStay, NoBan
<1>3. ASSUME banned' = banned
      PROVE  /\ RowsStay
             /\ \A j \in IPs : j # ip => banned'[j] = banned[j]
  BY <1>3 DEF RowsStay
<1>4. CASE banned[ip] = NoBan
  <2>1. banned[ip].failed = 0 BY <1>4 DEF NoBan
  <2>2. CASE CheckMaximumCount(ip)
    <3>1. banned' = banned BY <2>1, <2>2, Limits DEF CheckMaximumCount
    <3>2. HandleLockedUserPerIp(ip) => banned'[ip].failed = 1
      BY <1>1, <1>4 DEF HandleLockedUserPerIp
    <3>3. ~ HandleLockedUserPerIp(ip) BY <2>1, <3>1, <3>2
    <3> QED BY <1>3, <1>4, <3>1, <3>3
  <2>3. CASE HandleLockedUserPerIp(ip)
    <3>1. banned' = [banned EXCEPT ![ip] = [failed |-> 1, starting |-> now]]
      BY <1>4, <2>3 DEF HandleLockedUserPerIp
    <3>2. /\ banned'[ip].failed = 1 /\ banned'[ip].starting = now
          /\ \A j \in IPs : j # ip => banned'[j] = banned[j]
      BY <1>1, <3>1
    <3>3. banned'[ip] # NoBan BY <3>2 DEF NoBan
    <3>4. RowsStay BY <1>4, <3>2 DEF RowsStay
    <3>5. ~ CheckMaximumCount(ip)
      BY <2>1, <3>3, <1>4, Limits DEF CheckMaximumCount
    <3> QED BY <3>2, <3>3, <3>4, <3>5
  <2> QED BY <2>2, <2>3
<1>5. CASE banned[ip] # NoBan
  <2>1. CASE banned' = banned BY <1>3, <1>5, <2>1
  <2>2. CASE CheckMaximumCount(ip) /\ banned' # banned
    <3>1. banned' = [banned EXCEPT ![ip].failed = MAXIMUM_ACCOUNTS + 1]
      BY <2>2 DEF CheckMaximumCount
    <3>2. MAXIMUM_ACCOUNTS + 1 # 0 BY Limits
    <3> QED BY <1>2, <1>5, <3>1, <3>2
  <2>3. CASE HandleLockedUserPerIp(ip) /\ banned' # banned
    <3>1. PICK n : n = IF CountLockedUsers(ip) > MAXIMUM_ACCOUNTS
                       THEN MAXIMUM_ACCOUNTS ELSE CountLockedUsers(ip) + 1
      OBVIOUS
    <3>2. n # 0 BY <3>1, CountFacts, Limits
    <3>3. banned' = [banned EXCEPT ![ip].failed = n]
      BY <1>5, <2>3, <3>1 DEF HandleLockedUserPerIp
    <3> QED BY <1>2, <1>5, <3>2, <3>3
  <2> QED BY <2>1, <2>2, <2>3
<1> QED BY <1>4, <1>5

\* Steps that lock nobody out.
LEMMA BanStays ==
    ASSUME TypeOK, BanInv, TimePasses, RowsStay,
           \A k \in Keys : lockout'[k] \in {lockout[k], Never},
           \A ip \in IPs : banned[ip] = NoBan => banned'[ip] = NoBan
    PROVE  BanInv'
<1>0. now' = now + 1 /\ now \in Int BY ClockType DEF Times
<1>1. \A k \in Keys : lockout'[k] # Never => lockout'[k] = lockout[k] /\ lockout[k] \in Int
  BY DEF TypeOK, Times
<1>2. \A ip \in IPs : banned[ip].starting \in Int BY DEF TypeOK, Times
<1>3. ASSUME NEW k \in Keys, lockout'[k] # Never
      PROVE  /\ lockout'[k] < now'
             /\ banned'[Address(k)] # NoBan
             /\ banned'[Address(k)].starting <= lockout'[k]
  <2>1. lockout[k] # Never /\ lockout'[k] = lockout[k] BY <1>1, <1>3
  <2>2. /\ lockout[k] < now /\ banned[Address(k)] # NoBan
        /\ banned[Address(k)].starting <= lockout[k]
    BY <2>1 DEF BanInv
  <2>3. Address(k) \in IPs BY KeyFacts
  <2>4. banned'[Address(k)] # NoBan /\ banned'[Address(k)].starting = banned[Address(k)].starting
    BY <2>2, <2>3 DEF RowsStay
  <2>5. lockout[k] \in Int BY <1>1, <1>3
  <2> QED BY <1>0, <2>1, <2>2, <2>4, <2>5
<1>4. \A k, j \in Keys : lockout'[k] # Never /\ lockout'[j] = lockout'[k] => j = k
  BY <1>1 DEF BanInv
<1>5. ASSUME NEW ip \in IPs, banned'[ip] # NoBan, now' < banned'[ip].starting + IP_LOCKOUT
      PROVE  Cardinality(After(ip)') <= MAXIMUM_ACCOUNTS
  <2>1. banned[ip] # NoBan /\ banned'[ip].starting = banned[ip].starting
    BY <1>5 DEF RowsStay
  <2>2. now < banned[ip].starting + IP_LOCKOUT BY <1>0, <1>2, <1>5, <2>1, Limits
  <2>3. Cardinality(After(ip)) <= MAXIMUM_ACCOUNTS BY <2>1, <2>2 DEF BanInv
  <2>4. After(ip)' \subseteq After(ip) BY <1>1, <2>1 DEF After
  <2>5. Cardinality(After(ip)') <= Cardinality(After(ip)) /\ Cardinality(After(ip)) \in Nat
        /\ Cardinality(After(ip)') \in Nat
    <3>1. After(ip) \in SUBSET Keys BY DEF After
    <3>2. IsFiniteSet(After(ip)) /\ Cardinality(After(ip)) \in Nat BY <3>1, KeyFacts
    <3> QED BY <2>4, <3>2, FS_Subset, FS_CardinalityType
  <2> QED BY <2>3, <2>5, Limits
<1>6. ASSUME NEW ip \in IPs PROVE banned'[ip].starting <= now'
  <2>1. banned'[ip].starting = banned[ip].starting BY DEF RowsStay
  <2>2. banned[ip].starting <= now BY DEF BanInv
  <2> QED BY <1>0, <1>2, <2>1, <2>2
<1> QED BY <1>3, <1>4, <1>5, <1>6 DEF BanInv

\* A failed login that locks the account out.
LEMMA BanOnLock ==
    ASSUME TypeOK, BanInv, TimePasses, NEW k \in Keys, ~ IsIPLocked(Address(k)),
           lockout' = [lockout EXCEPT ![k] = now], HandleLockedUserPerIp(Address(k))
    PROVE  BanInv'
<1> DEFINE a == Address(k)
<1>0. now' = now + 1 /\ now \in Int /\ now # Never /\ a \in IPs
  BY ClockType, KeyFacts DEF Times, Never
<1>1. /\ lockout'[k] = now
      /\ \A j \in Keys : j # k => lockout'[j] = lockout[j]
      /\ \A j \in Keys : lockout[j] # Never => lockout[j] < now /\ lockout[j] \in Int
  BY DEF TypeOK, BanInv, Times
<1>2. \A ip \in IPs : banned[ip].starting \in Int /\ banned[ip].starting <= now
  BY DEF TypeOK, Times, BanInv
<1>3. /\ RowsStay
      /\ \A j \in IPs : j # a => banned'[j] = banned[j]
      /\ banned'[a] # NoBan
      /\ banned[a] = NoBan => banned'[a].starting = now
  BY <1>0, RowWritten
<1>4. \A ip \in IPs : banned'[ip].starting \in Int /\ banned'[ip].starting <= now
  BY <1>0, <1>2, <1>3 DEF RowsStay
<1>5. ASSUME NEW j \in Keys, lockout'[j] # Never
      PROVE  /\ lockout'[j] < now'
             /\ banned'[Address(j)] # NoBan
             /\ banned'[Address(j)].starting <= lockout'[j]
  <2>1. CASE j = k BY <1>0, <1>1, <1>3, <1>4, <2>1
  <2>2. CASE j # k
    <3>1. /\ lockout[j] # Never /\ lockout'[j] = lockout[j] /\ lockout[j] \in Int
          /\ lockout[j] < now
      BY <1>1, <1>5, <2>2
    <3>2. banned[Address(j)] # NoBan /\ banned[Address(j)].starting <= lockout[j]
      BY <3>1 DEF BanInv
    <3>3. Address(j) \in IPs BY KeyFacts
    <3>4. banned'[Address(j)] # NoBan /\ banned'[Address(j)].starting = banned[Address(j)].starting
      BY <1>3, <3>2, <3>3 DEF RowsStay
    <3> QED BY <1>0, <3>1, <3>2, <3>4
  <2> QED BY <2>1, <2>2
<1>6. ASSUME NEW i \in Keys, NEW j \in Keys, lockout'[i] # Never, lockout'[j] = lockout'[i]
      PROVE  j = i
  <2>1. CASE i # k /\ j # k BY <1>1, <1>6, <2>1 DEF BanInv
  <2>2. CASE i = k /\ j # k BY <1>0, <1>1, <1>6, <2>2
  <2>3. CASE i # k /\ j = k BY <1>0, <1>1, <1>6, <2>3
  <2> QED BY <2>1, <2>2, <2>3
<1>7. ASSUME NEW ip \in IPs, banned'[ip] # NoBan, now' < banned'[ip].starting + IP_LOCKOUT
      PROVE  Cardinality(After(ip)') <= MAXIMUM_ACCOUNTS
  <2>0. /\ After(ip) \in SUBSET Keys /\ IsFiniteSet(After(ip))
        /\ Cardinality(After(ip)) \in Nat
    <3>1. After(ip) \in SUBSET Keys BY DEF After
    <3> QED BY <3>1, KeyFacts
  <2>1. CASE banned[ip] = NoBan
    <3>1. ip = a /\ banned'[ip].starting = now BY <1>3, <1>7, <2>1
    <3>2. \A j \in Keys : lockout'[j] # Never => ~ lockout'[j] > now BY <1>0, <1>1
    <3>3. After(ip)' = {} BY <3>1, <3>2 DEF After
    <3> QED BY <3>3, FS_EmptySet, Limits
  <2>2. CASE banned[ip] # NoBan
    <3>1. banned'[ip].starting = banned[ip].starting BY <1>3, <2>2 DEF RowsStay
    <3>2. now < banned[ip].starting + IP_LOCKOUT BY <1>0, <1>2, <1>7, <3>1, Limits
    <3>3. Cardinality(After(ip)) <= MAXIMUM_ACCOUNTS BY <2>2, <3>2 DEF BanInv
    <3>4. CASE ip # a
      <4>1. \A j \in Keys : Address(j) = ip => lockout'[j] = lockout[j]
        BY <1>1, <3>4 DEF a
      <4>2. After(ip)' = After(ip) BY <3>1, <4>1 DEF After
      <4> QED BY <3>3, <4>2
    <3>5. CASE ip = a
      <4>1. CountLockedUsers(ip) < MAXIMUM_ACCOUNTS
        <5>1. ~ CountLockedUsers(ip) >= MAXIMUM_ACCOUNTS
          BY <1>2, <2>2, <3>2, <3>5, Limits DEF IsIPLocked, a
        <5> QED BY <5>1, CountFacts, Limits
      <4>2. CountLockedUsers(ip) = LockedSince(ip)
        BY <4>1, Limits DEF CountLockedUsers
      <4>3. LockedSince(ip) = Cardinality(After(ip)) BY <2>2 DEF LockedSince, After
      <4>4. After(ip)' \subseteq After(ip) \cup {k}
        <5>1. \A j \in Keys : j # k => lockout'[j] = lockout[j] BY <1>1
        <5> QED BY <3>1, <5>1 DEF After
      <4>5. /\ IsFiniteSet(After(ip) \cup {k})
            /\ Cardinality(After(ip) \cup {k}) <= Cardinality(After(ip)) + 1
            /\ Cardinality(After(ip) \cup {k}) \in Nat
        <5>1. /\ IsFiniteSet(After(ip) \cup {k})
              /\ Cardinality(After(ip) \cup {k}) =
                    IF k \in After(ip) THEN Cardinality(After(ip)) ELSE Cardinality(After(ip)) + 1
          BY <2>0, FS_AddElement
        <5> QED BY <2>0, <5>1
      <4>6. /\ Cardinality(After(ip)') <= Cardinality(After(ip) \cup {k})
            /\ Cardinality(After(ip)') \in Nat
        BY <4>4, <4>5, FS_Subset, FS_CardinalityType
      <4> QED BY <2>0, <4>1, <4>2, <4>3, <4>5, <4>6, Limits
    <3> QED BY <3>4, <3>5
  <2> QED BY <2>1, <2>2
<1>8. \A ip \in IPs : banned'[ip].starting <= now' BY <1>0, <1>4
<1> QED BY <1>5, <1>6, <1>7, <1>8 DEF BanInv

LEMMA BanNext == TypeOK /\ BanInv /\ [Next]_vars => BanInv'
<1> SUFFICES ASSUME TypeOK, BanInv, [Next]_vars PROVE BanInv'
  OBVIOUS
<1> USE DEF tables, trust
<1>t. lockout \in [Keys -> Times \cup {Never}] BY DEF TypeOK
<1>s. ASSUME banned' = banned
      PROVE  RowsStay /\ \A ip \in IPs : banned[ip] = NoBan => banned'[ip] = NoBan
  BY <1>s DEF RowsStay
<1>1. ASSUME NEW k \in Keys, RefuseAddress(k) PROVE BanInv'
  <2>1. /\ RowsStay
        /\ \A j \in IPs : j # Address(k) => banned'[j] = banned[j]
        /\ banned[Address(k)] = NoBan => banned'[Address(k)] = NoBan
    BY <1>1, KeyFacts, RowWritten DEF RefuseAddress
  <2> QED BY <1>1, <2>1, BanStays DEF RefuseAddress
<1>2. ASSUME NEW k \in Keys, RefuseUser(k) \/ Verify(k) PROVE BanInv'
  BY <1>2, <1>s, BanStays DEF RefuseUser, Verify
<1>3. ASSUME NEW k \in Keys, LoginTrusted(k) \/ LoginUntrusted(k) PROVE BanInv'
  <2>1. lockout' = [lockout EXCEPT ![k] = Never] /\ banned' = banned /\ TimePasses
    BY <1>3 DEF LoginTrusted, LoginUntrusted, LooksAtPassword
  <2>2. \A j \in Keys : lockout'[j] \in {lockout[j], Never} BY <1>t, <2>1
  <2> QED BY <1>s, <2>1, <2>2, BanStays
<1>4. ASSUME NEW k \in Keys, LoginFailed(k) PROVE BanInv'
  <2>1. TimePasses /\ ~ IsIPLocked(Address(k)) /\ HandleFailedLogin(k)
    BY <1>4 DEF LoginFailed, LooksAtPassword
  <2>2. CASE lockout' = [lockout EXCEPT ![k] = Never] /\ banned' = banned
    <3>1. \A j \in Keys : lockout'[j] \in {lockout[j], Never} BY <1>t, <2>2
    <3> QED BY <1>s, <2>1, <2>2, <3>1, BanStays
  <2>3. CASE lockout' = [lockout EXCEPT ![k] = now] /\ HandleLockedUserPerIp(Address(k))
    BY <2>1, <2>3, BanOnLock
  <2> QED BY <2>1, <2>2, <2>3 DEF HandleFailedLogin
<1>5. ASSUME Restart \/ Idle PROVE BanInv'
  BY <1>5, <1>s, BanStays DEF Restart, Idle
<1>6. CASE UNCHANGED vars BY <1>6 DEF vars, BanInv, After
<1> QED BY <1>1, <1>2, <1>3, <1>4, <1>5, <1>6 DEF Next, Request

LEMMA InitBan == Init => BanInv
<1> SUFFICES ASSUME Init PROVE BanInv
  OBVIOUS
<1>1. /\ \A k \in Keys : lockout[k] = Never
      /\ \A ip \in IPs : banned[ip] = NoBan /\ banned[ip].starting = 0
      /\ now = 0
  BY DEF Init, NoBan
<1> QED BY <1>1 DEF BanInv

\* Until the time of an address's row is over, no more accounts are locked out
\* from it at a time than the maximum and the one whose lockout made the row.
THEOREM BanHolds == Spec => []FirstBanStopsLocking
<1>1. TypeOK /\ BanInv => FirstBanStopsLocking
  <2> SUFFICES ASSUME TypeOK, BanInv, NEW ip \in IPs, now < banned[ip].starting + IP_LOCKOUT
               PROVE  Cardinality(LockedNow(ip)) <= MAXIMUM_ACCOUNTS + 1
    BY DEF FirstBanStopsLocking
  <2>1. LockedNow(ip) \in SUBSET Keys BY DEF LockedNow
  <2>2. \A k \in LockedNow(ip) : /\ k \in Keys /\ Address(k) = ip /\ lockout[k] # Never
                                 /\ banned[ip] # NoBan
                                 /\ banned[ip].starting <= lockout[k]
    BY DEF LockedNow, IsLockedOut, BanInv
  <2>3. CASE banned[ip] = NoBan
    <3>1. LockedNow(ip) = {} BY <2>2, <2>3
    <3> QED BY <3>1, FS_EmptySet, Limits
  <2>4. CASE banned[ip] # NoBan
    <3>1. Cardinality(After(ip)) <= MAXIMUM_ACCOUNTS BY <2>4 DEF BanInv
    <3>2. IsFiniteSet(After(ip)) /\ Cardinality(After(ip)) \in Nat
      <4>1. After(ip) \in SUBSET Keys BY DEF After
      <4> QED BY <4>1, KeyFacts
    <3>3. \E k : LockedNow(ip) \subseteq After(ip) \cup {k}
      <4>1. \A k \in LockedNow(ip) : k \in After(ip) \/ lockout[k] = banned[ip].starting
        <5>1. /\ \A k \in Keys : lockout[k] # Never => lockout[k] \in Int
              /\ banned[ip].starting \in Int
          BY DEF TypeOK, Times
        <5>2. ASSUME NEW k \in LockedNow(ip), lockout[k] # banned[ip].starting
              PROVE  k \in After(ip)
          <6>1. lockout[k] > banned[ip].starting BY <2>2, <5>1, <5>2
          <6> QED BY <2>2, <6>1 DEF After
        <5> QED BY <5>2
      <4>2. \A k, j \in LockedNow(ip) :
               lockout[k] = banned[ip].starting /\ lockout[j] = banned[ip].starting => j = k
        BY <2>2 DEF BanInv
      <4>3. CASE \E k \in LockedNow(ip) : lockout[k] = banned[ip].starting
        BY <4>1, <4>2, <4>3
      <4>4. CASE ~ \E k \in LockedNow(ip) : lockout[k] = banned[ip].starting
        BY <4>1, <4>4
      <4> QED BY <4>3, <4>4
    <3>4. PICK k : LockedNow(ip) \subseteq After(ip) \cup {k} BY <3>3
    <3>5. /\ IsFiniteSet(After(ip) \cup {k})
          /\ Cardinality(After(ip) \cup {k}) <= Cardinality(After(ip)) + 1
          /\ Cardinality(After(ip) \cup {k}) \in Nat
      BY <3>2, FS_AddElement
    <3>6. /\ Cardinality(LockedNow(ip)) <= Cardinality(After(ip) \cup {k})
          /\ Cardinality(LockedNow(ip)) \in Nat
      BY <3>4, <3>5, FS_Subset, FS_CardinalityType
    <3> QED BY <3>1, <3>2, <3>5, <3>6, Limits
  <2> QED BY <2>3, <2>4
<1> QED BY <1>1, InitType, InitBan, TypeNext, BanNext, PTL DEF Spec

-------------------------------------------------------------------------------
(**************************** Wrong passwords ******************************)

\* The wrong passwords of k before and after the first one of its window.
Earlier(k) == {t \in guesses[k] : t < failed[k].first}
Later(k)   == {t \in guesses[k] : t > failed[k].first}

\* An account that has used up its attempts: the window is over and nothing is
\* remembered of it, or all of it lies before the lockout.
Spent(k) ==
    \/ WindowIsOver(k) /\ guesses[k] = {}
    \/ /\ lockout[k] # Never
       /\ failed[k].first <= lockout[k]
       /\ \A t \in guesses[k] : t <= lockout[k]

\* Of the windows before the present one at most MAXIMUM_FAILED_LOGINS - 1 wrong
\* passwords are recent (the first one never is), the present one has as many
\* as it counts.
GuessInvOf(k) ==
    /\ \A t \in guesses[k] : t < now /\ now - FAILED_ATTEMPTS_DURATION <= t
    /\ failed[k].first <= now
    /\ failed[k] = NoFailures => guesses[k] = {}
    /\ Cardinality(Earlier(k)) <= MAXIMUM_FAILED_LOGINS - 1
    /\ failed[k] # NoFailures => /\ failed[k].attempts >= 1
                                 /\ Cardinality(Later(k)) <= failed[k].attempts - 1
    /\ failed[k].attempts = MAXIMUM_FAILED_LOGINS + 1 => Spent(k)
GuessInv == \A k \in Keys : GuessInvOf(k)

LEMMA Smaller ==
    ASSUME NEW T \in SUBSET Times, NEW S, S \subseteq T
    PROVE  /\ Cardinality(S) \in Nat /\ Cardinality(T) \in Nat
           /\ Cardinality(S) <= Cardinality(T)
BY TimeSets, FS_Subset

LEMMA OneMore ==
    ASSUME NEW T \in SUBSET Times, NEW x, NEW S, S \subseteq T \cup {x}
    PROVE  /\ Cardinality(S) \in Nat /\ Cardinality(T) \in Nat
           /\ Cardinality(S) <= Cardinality(T) + 1
<1>1. IsFiniteSet(T) /\ Cardinality(T) \in Nat BY TimeSets
<1>2. /\ IsFiniteSet(T \cup {x})
      /\ Cardinality(T \cup {x}) = IF x \in T THEN Cardinality(T) ELSE Cardinality(T) + 1
  BY <1>1, FS_AddElement
<1>3. IsFiniteSet(S) /\ Cardinality(S) <= Cardinality(T \cup {x}) BY <1>2, FS_Subset
<1>4. Cardinality(S) \in Nat BY <1>3, FS_CardinalityType
<1> QED BY <1>1, <1>2, <1>3, <1>4

LEMMA KeyTypes ==
    ASSUME TypeOK, NEW k \in Keys
    PROVE  /\ failed[k] \in [attempts : 0 .. MAXIMUM_FAILED_LOGINS + 1, first : Times]
           /\ failed[k].attempts \in Int /\ 0 <= failed[k].attempts
           /\ failed[k].attempts <= MAXIMUM_FAILED_LOGINS + 1
           /\ failed[k].first \in Int
           /\ lockout[k] # Never => lockout[k] \in Int
           /\ guesses[k] \subseteq Times /\ \A t \in guesses[k] : t \in Int
           /\ Earlier(k) \in SUBSET Times /\ Later(k) \in SUBSET Times
<1>1. failed[k] \in [attempts : 0 .. MAXIMUM_FAILED_LOGINS + 1, first : Times]
  BY DEF TypeOK
<1>2. guesses[k] \subseteq Times /\ \A t \in Times : t \in Int BY DEF TypeOK, Times
<1>3. failed[k].attempts \in 0 .. MAXIMUM_FAILED_LOGINS + 1 /\ failed[k].first \in Times
  BY <1>1
<1>4. lockout[k] # Never => lockout[k] \in Int BY DEF TypeOK, Times
<1> QED BY <1>1, <1>2, <1>3, <1>4, Limits DEF Earlier, Later

\* When a lockout has run out, nothing of what led to it is recent.
LEMMA SpentIsOver ==
    ASSUME TypeOK, NEW k \in Keys, GuessInvOf(k), Spent(k), ~ IsLockedOut(k)
    PROVE  WindowIsOver(k) /\ guesses[k] = {}
<1>1. CASE WindowIsOver(k) /\ guesses[k] = {} BY <1>1
<1>2. CASE /\ lockout[k] # Never
           /\ failed[k].first <= lockout[k]
           /\ \A t \in guesses[k] : t <= lockout[k]
  <2>1. now \in Int /\ lockout[k] \in Int /\ failed[k].first \in Int
    BY <1>2, KeyTypes DEF TypeOK, Times
  <2>2. now > lockout[k] + LOCKOUT_DURATION BY <1>2, <2>1, Limits DEF IsLockedOut
  <2>3. now > lockout[k] + FAILED_ATTEMPTS_DURATION BY <2>1, <2>2, Limits
  <2>4. WindowIsOver(k) BY <1>2, <2>1, <2>3, Limits DEF WindowIsOver
  <2>5. ASSUME NEW t \in guesses[k] PROVE FALSE
    <3>1. t \in Int /\ t <= lockout[k] /\ now - FAILED_ATTEMPTS_DURATION <= t
      BY <1>2, KeyTypes DEF GuessInvOf
    <3> QED BY <2>1, <2>3, <3>1, Limits
  <2> QED BY <2>4, <2>5
<1> QED BY <1>1, <1>2 DEF Spent

\* Nothing wrong was tried for k.
LEMMA GuessStays ==
    ASSUME TypeOK, TimePasses, NEW k \in Keys, GuessInvOf(k),
           failed'[k] = failed[k], guesses'[k] = {t \in guesses[k] : Recent(t)},
           \/ lockout'[k] = lockout[k]
           \/ ~ IsLockedOut(k)
    PROVE  GuessInvOf(k)'
<1>0. now' = now + 1 /\ now \in Int BY ClockType DEF Times
<1>1. \A t \in guesses'[k] : t < now' /\ now' - FAILED_ATTEMPTS_DURATION <= t
  <2> SUFFICES ASSUME NEW t \in guesses'[k]
               PROVE  t < now' /\ now' - FAILED_ATTEMPTS_DURATION <= t
    OBVIOUS
  <2>1. t \in guesses[k] /\ Recent(t) /\ t \in Int BY KeyTypes
  <2>2. t < now BY <2>1 DEF GuessInvOf
  <2> QED BY <1>0, <2>1, <2>2, Limits DEF Recent
<1>2. failed'[k].first <= now'
  <2>1. failed[k].first \in Int /\ failed[k].first <= now BY KeyTypes DEF GuessInvOf
  <2> QED BY <1>0, <2>1
<1>3. failed'[k] = NoFailures => guesses'[k] = {} BY DEF GuessInvOf
<1>4. Cardinality(Earlier(k)') <= MAXIMUM_FAILED_LOGINS - 1
  <2>1. Earlier(k)' \subseteq Earlier(k) BY DEF Earlier
  <2>2. /\ Cardinality(Earlier(k)') <= Cardinality(Earlier(k))
        /\ Cardinality(Earlier(k)') \in Nat /\ Cardinality(Earlier(k)) \in Nat
    BY <2>1, KeyTypes, Smaller
  <2>3. Cardinality(Earlier(k)) <= MAXIMUM_FAILED_LOGINS - 1 BY DEF GuessInvOf
  <2> QED BY <2>2, <2>3, Limits
<1>5. failed'[k] # NoFailures => /\ failed'[k].attempts >= 1
                                 /\ Cardinality(Later(k)') <= failed'[k].attempts - 1
  <2> SUFFICES ASSUME failed'[k] # NoFailures
               PROVE  /\ failed'[k].attempts >= 1
                      /\ Cardinality(Later(k)') <= failed'[k].attempts - 1
    OBVIOUS
  <2>1. Later(k)' \subseteq Later(k) BY DEF Later
  <2>2. /\ Cardinality(Later(k)') <= Cardinality(Later(k))
        /\ Cardinality(Later(k)') \in Nat /\ Cardinality(Later(k)) \in Nat
    BY <2>1, KeyTypes, Smaller
  <2>3. failed[k].attempts >= 1 /\ Cardinality(Later(k)) <= failed[k].attempts - 1
    BY DEF GuessInvOf
  <2>4. failed[k].attempts \in Int BY KeyTypes
  <2> QED BY <2>2, <2>3, <2>4
<1>6. failed'[k].attempts = MAXIMUM_FAILED_LOGINS + 1 => Spent(k)'
  <2> SUFFICES ASSUME failed[k].attempts = MAXIMUM_FAILED_LOGINS + 1 PROVE Spent(k)'
    OBVIOUS
  <2>0. Spent(k) BY DEF GuessInvOf
  <2>1. failed[k].first \in Int BY KeyTypes
  <2>2. CASE WindowIsOver(k) /\ guesses[k] = {}
    <3>1. WindowIsOver(k)' BY <1>0, <2>1, <2>2, Limits DEF WindowIsOver
    <3>2. guesses'[k] = {} BY <2>2
    <3> QED BY <3>1, <3>2 DEF Spent
  <2>3. CASE ~ (WindowIsOver(k) /\ guesses[k] = {})
    <3>1. lockout'[k] = lockout[k] BY <2>0, <2>3, SpentIsOver
    <3> QED BY <2>0, <2>3, <3>1 DEF Spent
  <2> QED BY <2>2, <2>3
<1> QED BY <1>1, <1>2, <1>3, <1>4, <1>5, <1>6 DEF GuessInvOf

\* The user's own login: all is forgotten.
LEMMA GuessReset ==
    ASSUME TypeOK, TimePasses, NEW k \in Keys, failed'[k] = NoFailures, guesses'[k] = {}
    PROVE  GuessInvOf(k)'
<1>0. now' = now + 1 /\ now \in Nat BY ClockType DEF Times
<1>1. Earlier(k)' = {} BY DEF Earlier
<1> QED BY <1>0, <1>1, FS_EmptySet, Limits DEF GuessInvOf, NoFailures

\* What a wrong password adds is recent too.
LEMMA GuessTimes ==
    ASSUME TypeOK, TimePasses, NEW k \in Keys, GuessInvOf(k),
           guesses'[k] = {t \in guesses[k] \cup {now} : Recent(t)}
    PROVE  /\ now' = now + 1 /\ now \in Int
           /\ \A t \in guesses'[k] : /\ t \in Int /\ t <= now /\ t < now'
                                     /\ now' - FAILED_ATTEMPTS_DURATION <= t
           /\ \A t \in guesses'[k] : t # now => t \in guesses[k] /\ t < now
<1>0. now' = now + 1 /\ now \in Int BY ClockType DEF Times
<1>1. ASSUME NEW t \in guesses'[k]
      PROVE  /\ t \in Int /\ t <= now /\ t < now' /\ now' - FAILED_ATTEMPTS_DURATION <= t
             /\ t # now => t \in guesses[k] /\ t < now
  <2>1. t \in guesses[k] \/ t = now BY <1>1
  <2>2. Recent(t) BY <1>1
  <2>3. t \in guesses[k] => t \in Int /\ t < now BY KeyTypes DEF GuessInvOf
  <2> QED BY <1>0, <2>1, <2>2, <2>3, Limits DEF Recent
<1> QED BY <1>0, <1>1

\* A wrong password that begins a window.
LEMMA GuessBegins ==
    ASSUME TypeOK, TimePasses, NEW k \in Keys, GuessInvOf(k), ~ IsLockedOut(k),
           FirstFailure(k) \/ WindowIsOver(k),
           failed'[k] = [attempts |-> 1, first |-> now],
           guesses'[k] = {t \in guesses[k] \cup {now} : Recent(t)}
    PROVE  GuessInvOf(k)'
<1>0. /\ now' = now + 1 /\ now \in Int
      /\ \A t \in guesses'[k] : /\ t \in Int /\ t <= now /\ t < now'
                                /\ now' - FAILED_ATTEMPTS_DURATION <= t
      /\ \A t \in guesses'[k] : t # now => t \in guesses[k] /\ t < now
  BY GuessTimes
<1>1. failed'[k].attempts = 1 /\ failed'[k].first = now /\ failed'[k] # NoFailures
  BY DEF NoFailures
<1>2. Later(k)' = {}
  <2>1. \A t \in guesses'[k] : ~ t > now BY <1>0
  <2> QED BY <1>1, <2>1 DEF Later
<1>3. \A t \in Earlier(k)' : t \in guesses[k]
  <2>1. \A t \in guesses'[k] : t < now => t # now BY <1>0
  <2> QED BY <1>0, <1>1, <2>1 DEF Earlier
<1>4. Cardinality(Earlier(k)') <= MAXIMUM_FAILED_LOGINS - 1
  <2>1. CASE guesses[k] = {}
    <3>1. Earlier(k)' = {} BY <1>3, <2>1
    <3> QED BY <3>1, FS_EmptySet, Limits
  <2>2. CASE guesses[k] # {}
    <3>1. failed[k] # NoFailures /\ WindowIsOver(k)
      BY <2>2 DEF GuessInvOf, FirstFailure
    <3>2. failed[k].attempts # MAXIMUM_FAILED_LOGINS + 1
      BY <2>2, SpentIsOver DEF GuessInvOf
    <3>3. failed[k].attempts <= MAXIMUM_FAILED_LOGINS /\ failed[k].attempts \in Int
      BY <3>2, KeyTypes, Limits
    <3>4. Earlier(k)' \subseteq Later(k)
      <4> SUFFICES ASSUME NEW t \in Earlier(k)' PROVE t \in Later(k)
        OBVIOUS
      <4>1. t \in guesses[k] BY <1>3
      <4>2. t \in Int /\ now' - FAILED_ATTEMPTS_DURATION <= t BY <1>0 DEF Earlier
      <4>3. now > failed[k].first + FAILED_ATTEMPTS_DURATION /\ failed[k].first \in Int
        BY <3>1, KeyTypes DEF WindowIsOver
      <4>4. t > failed[k].first BY <1>0, <4>2, <4>3, Limits
      <4> QED BY <4>1, <4>4 DEF Later
    <3>5. /\ Cardinality(Earlier(k)') <= Cardinality(Later(k))
          /\ Cardinality(Earlier(k)') \in Nat /\ Cardinality(Later(k)) \in Nat
      BY <3>4, KeyTypes, Smaller
    <3>6. Cardinality(Later(k)) <= failed[k].attempts - 1 BY <3>1 DEF GuessInvOf
    <3> QED BY <3>3, <3>5, <3>6, Limits
  <2> QED BY <2>1, <2>2
<1>5. Cardinality(Later(k)') <= 1 - 1 BY <1>2, FS_EmptySet
<1>6. failed'[k].attempts # MAXIMUM_FAILED_LOGINS + 1 BY <1>1, Limits
<1>7. failed'[k].first <= now' BY <1>0, <1>1
<1>8. /\ failed'[k].attempts >= 1
      /\ Cardinality(Later(k)') <= failed'[k].attempts - 1
  BY <1>1, <1>5
<1> QED BY <1>0, <1>1, <1>4, <1>6, <1>7, <1>8 DEF GuessInvOf

\* A wrong password that is counted in its window, and may be the last one.
LEMMA GuessCounts ==
    ASSUME TypeOK, TimePasses, NEW k \in Keys, GuessInvOf(k), ~ IsLockedOut(k),
           ~ FirstFailure(k), ~ WindowIsOver(k),
           failed'[k].first = failed[k].first, failed'[k] # NoFailures,
           \/ ~ LastChanceGone(k) /\ failed'[k].attempts = failed[k].attempts + 1
           \/ /\ LastChanceGone(k) /\ failed'[k].attempts = MAXIMUM_FAILED_LOGINS + 1
              /\ lockout'[k] = now,
           guesses'[k] = {t \in guesses[k] \cup {now} : Recent(t)}
    PROVE  GuessInvOf(k)'
<1>0. /\ now' = now + 1 /\ now \in Int
      /\ \A t \in guesses'[k] : /\ t \in Int /\ t <= now /\ t < now'
                                /\ now' - FAILED_ATTEMPTS_DURATION <= t
      /\ \A t \in guesses'[k] : t # now => t \in guesses[k] /\ t < now
  BY GuessTimes
<1>1. /\ failed[k].attempts \in Int /\ failed[k].attempts >= 1
      /\ failed[k].attempts <= MAXIMUM_FAILED_LOGINS + 1
      /\ failed[k].first \in Int /\ failed[k].first <= now
      /\ Cardinality(Later(k)) <= failed[k].attempts - 1
      /\ Cardinality(Earlier(k)) <= MAXIMUM_FAILED_LOGINS - 1
  BY KeyTypes DEF FirstFailure, GuessInvOf
<1>2. failed[k].attempts # MAXIMUM_FAILED_LOGINS + 1
  BY SpentIsOver DEF GuessInvOf
<1>3. failed'[k].attempts = failed[k].attempts + 1
  <2>1. CASE ~ LastChanceGone(k) BY <2>1
  <2>2. CASE LastChanceGone(k)
    <3>1. failed[k].attempts >= MAXIMUM_FAILED_LOGINS BY <2>2 DEF LastChanceGone
    <3> QED BY <1>1, <1>2, <2>2, <3>1, Limits
  <2> QED BY <2>1, <2>2
<1>4. Cardinality(Earlier(k)') <= MAXIMUM_FAILED_LOGINS - 1
  <2>1. Earlier(k)' \subseteq Earlier(k)
    <3> SUFFICES ASSUME NEW t \in Earlier(k)' PROVE t \in Earlier(k)
      OBVIOUS
    <3>1. t \in guesses'[k] /\ t < failed[k].first BY DEF Earlier
    <3>2. t # now BY <1>0, <1>1, <3>1
    <3> QED BY <1>0, <3>1, <3>2 DEF Earlier
  <2>2. /\ Cardinality(Earlier(k)') <= Cardinality(Earlier(k))
        /\ Cardinality(Earlier(k)') \in Nat /\ Cardinality(Earlier(k)) \in Nat
    BY <2>1, KeyTypes, Smaller
  <2> QED BY <1>1, <2>2, Limits
<1>5. failed'[k].attempts >= 1 /\ Cardinality(Later(k)') <= failed'[k].attempts - 1
  <2>1. Later(k)' \subseteq Later(k) \cup {now} BY <1>0 DEF Later
  <2>2. /\ Cardinality(Later(k)') <= Cardinality(Later(k)) + 1
        /\ Cardinality(Later(k)') \in Nat /\ Cardinality(Later(k)) \in Nat
    BY <2>1, KeyTypes, OneMore
  <2> QED BY <1>1, <1>3, <2>2
<1>6. failed'[k].attempts = MAXIMUM_FAILED_LOGINS + 1 => Spent(k)'
  <2> SUFFICES ASSUME failed'[k].attempts = MAXIMUM_FAILED_LOGINS + 1 PROVE Spent(k)'
    OBVIOUS
  <2>1. LastChanceGone(k) BY <1>1, <1>3, Limits DEF LastChanceGone
  <2>2. lockout'[k] = now BY <2>1
  <2>3. now # Never BY DEF TypeOK, Times, Never
  <2> QED BY <1>0, <1>1, <2>2, <2>3 DEF Spent
<1>7. failed'[k].first <= now' BY <1>0, <1>1
<1> QED BY <1>0, <1>4, <1>5, <1>6, <1>7 DEF GuessInvOf

LEMMA GuessNext == TypeOK /\ GuessInv /\ [Next]_vars => GuessInv'
<1> SUFFICES ASSUME TypeOK, GuessInv, [Next]_vars, NEW j \in Keys
             PROVE  GuessInvOf(j)'
  BY DEF GuessInv
<1> USE DEF tables, trust
<1>0. GuessInvOf(j) /\ guesses \in [Keys -> SUBSET Times] BY DEF GuessInv, TypeOK
<1>1. ASSUME NEW k \in Keys, RefuseAddress(k) \/ RefuseUser(k) \/ Verify(k)
      PROVE  GuessInvOf(j)'
  <2>1. TimePasses /\ Forget(guesses) /\ failed' = failed /\ lockout' = lockout
    BY <1>1 DEF RefuseAddress, RefuseUser, Verify
  <2>2. guesses'[j] = {t \in guesses[j] : Recent(t)} BY <2>1 DEF Forget
  <2> QED BY <1>0, <2>1, <2>2, GuessStays
<1>2. ASSUME Restart \/ Idle PROVE GuessInvOf(j)'
  <2>1. TimePasses /\ Forget(guesses) /\ failed' = failed /\ lockout' = lockout
    BY <1>2 DEF Restart, Idle
  <2>2. guesses'[j] = {t \in guesses[j] : Recent(t)} BY <2>1 DEF Forget
  <2> QED BY <1>0, <2>1, <2>2, GuessStays
<1>3. ASSUME NEW k \in Keys, LoginTrusted(k) PROVE GuessInvOf(j)'
  <2>1. /\ TimePasses
        /\ failed' = [failed EXCEPT ![k] = NoFailures]
        /\ lockout' = [lockout EXCEPT ![k] = Never]
        /\ Forget([guesses EXCEPT ![k] = {}])
    BY <1>3 DEF LoginTrusted, LooksAtPassword
  <2>2. CASE j = k
    <3>1. failed'[j] = NoFailures BY <2>1, <2>2 DEF TypeOK
    <3>2. guesses'[j] = {} BY <1>0, <2>1, <2>2 DEF Forget
    <3> QED BY <2>1, <3>1, <3>2, GuessReset
  <2>3. CASE j # k
    <3>1. failed'[j] = failed[j] /\ lockout'[j] = lockout[j] BY <2>1, <2>3 DEF TypeOK
    <3>2. guesses'[j] = {t \in guesses[j] : Recent(t)} BY <1>0, <2>1, <2>3 DEF Forget
    <3> QED BY <1>0, <2>1, <3>1, <3>2, GuessStays
  <2> QED BY <2>2, <2>3
<1>4. ASSUME NEW k \in Keys, LoginUntrusted(k) PROVE GuessInvOf(j)'
  <2>1. /\ TimePasses /\ ~ IsLockedOut(k) /\ failed' = failed /\ Forget(guesses)
        /\ lockout' = [lockout EXCEPT ![k] = Never]
    BY <1>4 DEF LoginUntrusted, LooksAtPassword
  <2>2. lockout'[j] = lockout[j] \/ ~ IsLockedOut(j) BY <2>1 DEF TypeOK
  <2>3. guesses'[j] = {t \in guesses[j] : Recent(t)} BY <2>1 DEF Forget
  <2> QED BY <1>0, <2>1, <2>2, <2>3, GuessStays
<1>5. ASSUME NEW k \in Keys, LoginFailed(k) PROVE GuessInvOf(j)'
  <2>1. /\ TimePasses /\ ~ IsLockedOut(k) /\ HandleFailedLogin(k)
        /\ Forget([guesses EXCEPT ![k] = @ \cup {now}])
    BY <1>5 DEF LoginFailed, LooksAtPassword
  <2>2. CASE j # k
    <3>1. failed'[j] = failed[j] /\ lockout'[j] = lockout[j]
      BY <2>1, <2>2 DEF TypeOK, HandleFailedLogin
    <3>2. guesses'[j] = {t \in guesses[j] : Recent(t)} BY <1>0, <2>1, <2>2 DEF Forget
    <3> QED BY <1>0, <2>1, <3>1, <3>2, GuessStays
  <2>3. CASE j = k
    <3>1. guesses'[j] = {t \in guesses[j] \cup {now} : Recent(t)}
      BY <1>0, <2>1, <2>3 DEF Forget
    <3>2. failed[j] \in [attempts : 0 .. MAXIMUM_FAILED_LOGINS + 1, first : Times]
      BY KeyTypes
    <3>3. CASE /\ FirstFailure(k) \/ WindowIsOver(k)
               /\ failed' = [failed EXCEPT ![k] = [attempts |-> 1, first |-> now]]
      <4>1. failed'[j] = [attempts |-> 1, first |-> now] BY <2>3, <3>3 DEF TypeOK
      <4> QED BY <1>0, <2>1, <2>3, <3>1, <3>3, <4>1, GuessBegins
    <3>4. CASE /\ ~ FirstFailure(k) /\ ~ WindowIsOver(k) /\ ~ LastChanceGone(k)
               /\ failed' = [failed EXCEPT ![k].attempts = @ + 1]
      <4>1. /\ failed'[j].attempts = failed[j].attempts + 1
            /\ failed'[j].first = failed[j].first
        BY <2>3, <3>2, <3>4 DEF TypeOK
      <4>2. failed[j].attempts \in Int /\ 0 <= failed[j].attempts BY KeyTypes
      <4>3. failed'[j].attempts # 0 BY <4>1, <4>2
      <4>4. failed'[j] # NoFailures BY <4>3 DEF NoFailures
      <4> QED BY <1>0, <2>1, <2>3, <3>1, <3>4, <4>1, <4>4, GuessCounts
    <3>5. CASE /\ ~ FirstFailure(k) /\ ~ WindowIsOver(k) /\ LastChanceGone(k)
               /\ failed' = [failed EXCEPT ![k].attempts = MAXIMUM_FAILED_LOGINS + 1]
               /\ lockout' = [lockout EXCEPT ![k] = now]
      <4>1. /\ failed'[j].attempts = MAXIMUM_FAILED_LOGINS + 1
            /\ failed'[j].first = failed[j].first
            /\ lockout'[j] = now
        BY <2>3, <3>2, <3>5 DEF TypeOK
      <4>2. failed'[j].attempts # 0 BY <4>1, Limits
      <4>3. failed'[j] # NoFailures BY <4>2 DEF NoFailures
      <4> QED BY <1>0, <2>1, <2>3, <3>1, <3>5, <4>1, <4>3, GuessCounts
    <3> QED BY <2>1, <3>3, <3>4, <3>5 DEF HandleFailedLogin
  <2> QED BY <2>2, <2>3
<1>6. CASE UNCHANGED vars
  BY <1>0, <1>6 DEF vars, GuessInvOf, Earlier, Later, Spent, WindowIsOver
<1> QED BY <1>1, <1>2, <1>3, <1>4, <1>5, <1>6 DEF Next, Request

LEMMA InitGuess == Init => GuessInv
<1> SUFFICES ASSUME Init, NEW k \in Keys PROVE GuessInvOf(k)
  BY DEF GuessInv
<1>1. failed[k] = NoFailures /\ guesses[k] = {} /\ now = 0 BY DEF Init
<1>2. Earlier(k) = {} BY <1>1 DEF Earlier
<1> QED BY <1>1, <1>2, FS_EmptySet, Limits DEF GuessInvOf, NoFailures

\* Between two logins of its user, no more than twice MAXIMUM_FAILED_LOGINS wrong
\* passwords are looked at in any FAILED_ATTEMPTS_DURATION minutes.
THEOREM GuessesStayBounded == Spec => []GuessesBounded
<1>1. TypeOK /\ GuessInv => GuessesBounded
  <2> SUFFICES ASSUME TypeOK, NEW k \in Keys, GuessInvOf(k)
               PROVE  Cardinality(guesses[k]) <= 2 * MAXIMUM_FAILED_LOGINS
    BY DEF GuessInv, GuessesBounded
  <2>0. guesses[k] \in SUBSET Times /\ Cardinality(guesses[k]) \in Nat
    BY KeyTypes, TimeSets
  <2>1. CASE failed[k] = NoFailures
    <3>1. guesses[k] = {} BY <2>1 DEF GuessInvOf
    <3> QED BY <3>1, FS_EmptySet, Limits
  <2>2. CASE failed[k] # NoFailures
    <3>1. /\ Cardinality(Earlier(k)) <= MAXIMUM_FAILED_LOGINS - 1
          /\ Cardinality(Later(k)) <= failed[k].attempts - 1
          /\ failed[k].attempts <= MAXIMUM_FAILED_LOGINS + 1
          /\ failed[k].attempts \in Int
      BY <2>2, KeyTypes DEF GuessInvOf
    <3>2. guesses[k] \subseteq (Earlier(k) \cup Later(k)) \cup {failed[k].first}
      <4>1. \A t \in guesses[k] : t \in Int /\ failed[k].first \in Int BY KeyTypes
      <4>2. \A t \in guesses[k] : \/ t < failed[k].first \/ t > failed[k].first
                                  \/ t = failed[k].first
        BY <4>1
      <4> QED BY <4>2 DEF Earlier, Later
    <3>3. Earlier(k) \cup Later(k) \in SUBSET Times BY KeyTypes
    <3>4. /\ Cardinality(guesses[k]) <= Cardinality(Earlier(k) \cup Later(k)) + 1
          /\ Cardinality(Earlier(k) \cup Later(k)) \in Nat
      BY <3>2, <3>3, OneMore
    <3>5. /\ Cardinality(Earlier(k)) \in Nat /\ Cardinality(Later(k)) \in Nat
          /\ IsFiniteSet(Earlier(k)) /\ IsFiniteSet(Later(k))
      BY KeyTypes, TimeSets
    <3>6. Cardinality(Earlier(k) \cup Later(k)) <= Cardinality(Earlier(k)) + Cardinality(Later(k))
      <4>1. Earlier(k) \cap Later(k) \in SUBSET Times BY KeyTypes
      <4>2. Cardinality(Earlier(k) \cap Later(k)) \in Nat BY <4>1, TimeSets
      <4>3. Cardinality(Earlier(k) \cup Later(k)) =
               Cardinality(Earlier(k)) + Cardinality(Later(k))
                  - Cardinality(Earlier(k) \cap Later(k))
        BY <3>5, FS_Union
      <4> QED BY <3>5, <4>2, <4>3
    <3> QED BY <2>0, <3>1, <3>4, <3>5, <3>6, Limits
  <2> QED BY <2>1, <2>2
<1> QED BY <1>1, InitType, InitGuess, TypeNext, GuessNext, PTL DEF Spec
===============================================================================
