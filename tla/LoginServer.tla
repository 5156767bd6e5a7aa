------------------------------ MODULE LoginServer ------------------------------
(***************************************************************************)
(* The login side of CertificateServer: AuthenticationServlet and          *)
(* TwoStepsServlet over the tables that count failed logins, lock accounts *)
(* out, ban addresses, keep mailed codes and list trusted devices.         *)
(*                                                                         *)
(* Each request runs under the monitor of DatabaseUtility.class, so it is  *)
(* one action; it takes one unit of time, so no two rows have the same     *)
(* time.  A key is <<user, address>>.  What the database holds survives a  *)
(* restart of the server, the vector of trusted devices is read again.     *)
(***************************************************************************)
EXTENDS Integers, FiniteSets

CONSTANTS Users, IPs, Passwords,      \* Passwords: is the one given right?
          Devices,                    \* the trusted devices to begin with
          MAXIMUM_FAILED_LOGINS, FAILED_ATTEMPTS_DURATION, LOCKOUT_DURATION,
          MAXIMUM_ACCOUNTS, IP_LOCKOUT, CODE_DURATION,
          MaxTime

Keys  == Users \X IPs
Never == -1         \* the time in a row that is not there

ASSUME LoginAssumption ==
    /\ IsFiniteSet(Users) /\ IsFiniteSet(IPs)
    /\ Passwords \subseteq BOOLEAN
    /\ Devices \subseteq Keys
    /\ {MAXIMUM_FAILED_LOGINS, FAILED_ATTEMPTS_DURATION, LOCKOUT_DURATION,
        MAXIMUM_ACCOUNTS, IP_LOCKOUT, CODE_DURATION, MaxTime} \subseteq Nat \ {0}
    /\ FAILED_ATTEMPTS_DURATION < LOCKOUT_DURATION
    /\ LOCKOUT_DURATION < IP_LOCKOUT

VARIABLES now,
          failed,    \* FAILED_LOGINS: attempts, and the time of the first
          lockout,   \* ACCOUNT_LOCKDOWN: when the account was locked
          banned,    \* LOCKDOWN_IPS: accounts locked from the address, and since when
          codes,     \* MAIL_CODES: the time the valid code was made, which names it
          trusted,   \* TRUSTED_DEVICES
          vector,    \* DAOTrustedIPs.vector, the copy in memory
          mailbox,   \* mailbox[u]: the codes (key and time) u has been mailed
          guesses    \* guesses[k]: when wrong passwords were looked at, lately

tables == <<failed, lockout, banned>>
trust  == <<codes, trusted, vector, mailbox>>
vars   == <<now, tables, trust, guesses>>

Times == 0 .. MaxTime
TypeOK ==
    /\ now \in Times
    /\ failed \in [Keys -> [attempts : 0 .. MAXIMUM_FAILED_LOGINS + 1, first : Times]]
    /\ lockout \in [Keys -> Times \cup {Never}]
    /\ banned \in [IPs -> [failed : 0 .. MAXIMUM_ACCOUNTS + 1, starting : Times]]
    /\ codes \in [Keys -> Times \cup {Never}]
    /\ trusted \subseteq Keys
    /\ vector \subseteq Keys
    /\ mailbox \in [Users -> SUBSET (Keys \X Times)]
    /\ guesses \in [Keys -> SUBSET Times]

NoFailures == [attempts |-> 0, first |-> 0]     \* no row
NoBan      == [failed |-> 0, starting |-> 0]

Init ==
    /\ now = 0
    /\ failed = [k \in Keys |-> NoFailures]
    /\ lockout = [k \in Keys |-> Never]
    /\ banned = [ip \in IPs |-> NoBan]
    /\ codes = [k \in Keys |-> Never]
    /\ trusted = Devices /\ vector = Devices
    /\ mailbox = [u \in Users |-> {}]
    /\ guesses = [k \in Keys |-> {}]

\* Time passes with every step; guesses forgets what no property looks at.
Recent(t) == t >= now + 1 - FAILED_ATTEMPTS_DURATION
TimePasses == now < MaxTime /\ now' = now + 1
Forget(g) == guesses' = [k \in Keys |-> {t \in g[k] : Recent(t)}]

-------------------------------------------------------------------------------
(******************************** Lockouts *********************************)

Address(k) == k[2]

\* countLockedUser: the accounts locked from ip after the address got its row
\* (all of them if it has none: a run is shorter than a day).
LockedSince(ip) ==
    Cardinality({k \in Keys : /\ Address(k) = ip
                              /\ lockout[k] # Never
                              /\ banned[ip] # NoBan => lockout[k] > banned[ip].starting})

\* handleCountLockedUser
CountLockedUsers(ip) ==
    IF /\ banned[ip] # NoBan
       /\ now < banned[ip].starting + IP_LOCKOUT
       /\ banned[ip].failed >= MAXIMUM_ACCOUNTS
    THEN MAXIMUM_ACCOUNTS ELSE LockedSince(ip)

\* isIPLocked.  (IsIPLockedLate, and the like below: how the step could have gone
\* wrong; nothing uses them but the runs that test the properties.)
IsIPLockedLate(ip) ==
    /\ banned[ip] # NoBan
    /\ banned[ip].starting + IP_LOCKOUT > now
    /\ LockedSince(ip) > MAXIMUM_ACCOUNTS
IsIPLocked(ip) ==
    /\ banned[ip] # NoBan
    /\ banned[ip].starting + IP_LOCKOUT > now
    /\ CountLockedUsers(ip) >= MAXIMUM_ACCOUNTS

\* The row of a locked address moves from exactly the maximum past it.
CheckMaximumCountEachTime(ip) == banned' = [banned EXCEPT ![ip].failed = @ + 1]
CheckMaximumCount(ip) ==
    banned' = IF banned[ip].failed = MAXIMUM_ACCOUNTS
              THEN [banned EXCEPT ![ip].failed = MAXIMUM_ACCOUNTS + 1] ELSE banned

\* isLockedOut; an expired row is deleted on the way.
IsLockedOut(k) == lockout[k] # Never /\ now <= lockout[k] + LOCKOUT_DURATION

\* handleLockedUserPerIp.  An address has one row for ever: once it has been
\* banned the row is not updated any more, and inserting another fails on the
\* primary key (answer 500, after the account has been locked).
HandleLockedUserPerIp(ip) ==
    banned' = IF banned[ip] = NoBan
              THEN [banned EXCEPT ![ip] = [failed |-> 1, starting |-> now]]
              ELSE IF banned[ip].failed < MAXIMUM_ACCOUNTS
              THEN [banned EXCEPT ![ip].failed =
                        IF CountLockedUsers(ip) > MAXIMUM_ACCOUNTS
                        THEN MAXIMUM_ACCOUNTS ELSE CountLockedUsers(ip) + 1]
              ELSE banned

\* handleFailedLogin
FirstFailure(k)   == failed[k] = NoFailures
WindowIsOver(k)   == now > failed[k].first + FAILED_ATTEMPTS_DURATION
LastChanceGoneLate(k) == failed[k].attempts > MAXIMUM_FAILED_LOGINS
LastChanceGone(k) == failed[k].attempts >= MAXIMUM_FAILED_LOGINS
HandleFailedLogin(k) ==
    \/ /\ FirstFailure(k) \/ WindowIsOver(k)
       /\ failed' = [failed EXCEPT ![k] = [attempts |-> 1, first |-> now]]
       /\ lockout' = [lockout EXCEPT ![k] = Never]
       /\ UNCHANGED banned
    \/ /\ ~ FirstFailure(k) /\ ~ WindowIsOver(k) /\ ~ LastChanceGone(k)
       /\ failed' = [failed EXCEPT ![k].attempts = @ + 1]
       /\ lockout' = [lockout EXCEPT ![k] = Never]
       /\ UNCHANGED banned
    \/ /\ ~ FirstFailure(k) /\ ~ WindowIsOver(k) /\ LastChanceGone(k)
       /\ failed' = [failed EXCEPT ![k].attempts = MAXIMUM_FAILED_LOGINS + 1]
       /\ lockout' = [lockout EXCEPT ![k] = now]
       /\ HandleLockedUserPerIp(Address(k))

-------------------------------------------------------------------------------
(**************************** The second step ******************************)

ValidCodeExists(k) == codes[k] # Never /\ now < codes[k] + CODE_DURATION

\* TwoStepsManager.sendMail: nothing while a code is valid; otherwise a new one
\* is stored first and mailed then, which may fail (answer 500, code kept).
SendMail(k) ==
    IF ValidCodeExists(k) THEN UNCHANGED <<codes, mailbox>>
    ELSE /\ codes' = [codes EXCEPT ![k] = now]
         /\ \/ mailbox' = [mailbox EXCEPT ![k[1]] = @ \cup {<<k, now>>}]
            \/ UNCHANGED mailbox

\* isCodeRight: a code is named by the key and the time it was made for.
CodeIsRightForUser(k, code) == \E ip \in IPs : code = <<<<k[1], ip>>, codes[<<k[1], ip>>]>>
CodeIsRight(k, code) == code = <<k, codes[k]>>

\* insertTrustedDevice: the table, then the copy in memory.
InsertTrustedDevice(k) == trusted' = trusted \cup {k} /\ vector' = vector \cup {k}

-------------------------------------------------------------------------------
(****************************** The requests *******************************)

\* AuthenticationServlet, 403: the address is banned ...
RefuseAddress(k) ==
    /\ IsIPLocked(Address(k))
    /\ TimePasses /\ Forget(guesses)
    /\ CheckMaximumCount(Address(k))
    /\ UNCHANGED <<failed, lockout, trust>>

\* ... or the account is locked out from it.
RefuseUser(k) ==
    /\ ~ IsIPLocked(Address(k)) /\ IsLockedOut(k)
    /\ TimePasses /\ Forget(guesses)
    /\ UNCHANGED <<tables, trust>>

LooksAtPassword(k) ==
    /\ ~ IsIPLocked(Address(k)) /\ ~ IsLockedOut(k)
    /\ TimePasses

\* 200: the failed logins are forgotten and a token is issued.
LoginTrusted(k) ==
    /\ TRUE \in Passwords /\ LooksAtPassword(k)
    /\ k \in vector
    /\ failed' = [failed EXCEPT ![k] = NoFailures]
    /\ lockout' = [lockout EXCEPT ![k] = Never]
    /\ Forget([guesses EXCEPT ![k] = {}])
    /\ UNCHANGED <<banned, trust>>

\* 307: the failed logins stay, the user is mailed a code.
LoginUntrusted(k) ==
    /\ TRUE \in Passwords /\ LooksAtPassword(k)
    /\ k \notin vector
    /\ lockout' = [lockout EXCEPT ![k] = Never]
    /\ SendMail(k)
    /\ Forget(guesses)
    /\ UNCHANGED <<failed, banned, trusted, vector>>

\* 401
LoginFailed(k) ==
    /\ FALSE \in Passwords /\ LooksAtPassword(k)
    /\ HandleFailedLogin(k)
    /\ Forget([guesses EXCEPT ![k] = @ \cup {now}])
    /\ UNCHANGED trust

\* TwoStepsServlet, with any code the user ever got by mail: 200 if it is the
\* valid one of this device.  (404 and 401 change nothing.)
Verify(k) ==
    /\ TimePasses /\ Forget(guesses)
    /\ ValidCodeExists(k)
    /\ \E code \in mailbox[k[1]] : CodeIsRight(k, code)
    /\ InsertTrustedDevice(k)
    /\ codes' = [codes EXCEPT ![k] = Never]
    /\ UNCHANGED <<tables, mailbox>>

\* The server is started again: getAll(), which answers a failing database with
\* an empty vector.
Restart ==
    /\ TimePasses /\ Forget(guesses)
    /\ vector' \in {trusted, {}}
    /\ UNCHANGED <<tables, codes, trusted, mailbox>>

Idle == TimePasses /\ Forget(guesses) /\ UNCHANGED <<tables, trust>>

Request(k) ==
    \/ RefuseAddress(k) \/ RefuseUser(k)
    \/ LoginTrusted(k) \/ LoginUntrusted(k) \/ LoginFailed(k)
    \/ Verify(k)

Next == (\E k \in Keys : Request(k)) \/ Restart \/ Idle

Spec == Init /\ [][Next]_vars

-------------------------------------------------------------------------------
(******************************* Properties ********************************)

\* Between two logins of its user, no more than twice MAXIMUM_FAILED_LOGINS
\* wrong passwords are looked at in any FAILED_ATTEMPTS_DURATION minutes,
\* wherever these minutes begin: the count that starts again when the window is
\* over (handleFailedLogin) and the lockout that follows it cover each other.
GuessesBounded == \A k \in Keys : Cardinality(guesses[k]) <= 2 * MAXIMUM_FAILED_LOGINS

\* The ban that follows too many lockouts holds for IP_LOCKOUT after the row of
\* the address was made: until then at most MAXIMUM_ACCOUNTS accounts are locked
\* out from the address at a time, beyond the one whose lockout made the row.
LockedNow(ip) == {k \in Keys : Address(k) = ip /\ IsLockedOut(k)}
FirstBanStopsLocking ==
    \A ip \in IPs :
        now < banned[ip].starting + IP_LOCKOUT =>
            Cardinality(LockedNow(ip)) <= MAXIMUM_ACCOUNTS + 1

\* "Numero massimo di account che possono essere bloccati prima di ricevere un
\* BAN IP TEMPORANEO" (DAOIDS): the same of the accounts that are locked out when
\* that time is over.
BanStopsLocking ==
    \A ip \in IPs :
        Cardinality({k \in LockedNow(ip) : lockout[k] >= banned[ip].starting + IP_LOCKOUT})
            <= MAXIMUM_ACCOUNTS + 1

\* A device that neither the table nor the copy in memory lists becomes trusted
\* only by a code that was mailed for this very device less than CODE_DURATION
\* ago, through restarts and mails that could not be sent.
TrustIsEarned ==
    [][\A k \in (trusted' \cup vector') \ (trusted \cup vector) :
          \E t \in Times : <<k, t>> \in mailbox[k[1]] /\ now < t + CODE_DURATION]_vars
===============================================================================
