----------------------------- MODULE Registration -----------------------------
(***************************************************************************)
(* Registration on the CertificateServer.  The table USERS is the truth;   *)
(* DAOUsers keeps a copy, utenti, filled when the server starts and added  *)
(* to after each INSERT.  Requests run side by side, none under a monitor: *)
(* names and mails are looked up in the copy, passwords in the table, and  *)
(* what is known of a user who has given the password in the copy again.   *)
(***************************************************************************)
EXTENDS Naturals

CONSTANTS Requests,    \* requests to register; a request also names its password
          Names, Mails,
          Fold,        \* Fold[n]: n as the database compares it
          MaxRestarts

VARIABLES pc,       \* pc[r]: what request r does next
          want,     \* want[r]: the name and the mail it asks for
          answer,   \* answer[r]: the code it was answered, 0 for none
          table,    \* the rows of USERS
          utenti,   \* the users in the copy
          whole,    \* the copy was read without an error
          dead,     \* DAOUsers could not be initialised
          login,    \* the login under way: logins come one at a time
          restarts

userVars  == <<pc, want, answer, table, utenti, whole, dead, login, restarts>>
cache == <<utenti, whole, dead>>

Row(r)  == [username |-> want[r].username, mail |-> want[r].mail, of |-> r]
Nobody  == "nobody"
NoLogin == [pc |-> "none", username |-> Nobody]

UserInit ==
    /\ pc = [r \in Requests |-> "new"]
    /\ want = [r \in Requests |-> [username |-> Nobody, mail |-> Nobody]]
    /\ answer = [r \in Requests |-> 0]
    /\ table = {} /\ utenti = {}
    /\ whole = TRUE /\ dead = FALSE
    /\ login = NoLogin
    /\ restarts = 0

Goes(r, step) == pc' = [pc EXCEPT ![r] = step]
Answers(r, code) ==
    /\ Goes(r, "done")
    /\ answer' = [answer EXCEPT ![r] = code]

-------------------------------------------------------------------------------

\* getUser: by equals(), where the database compares by its collation.
Known(n) == {u \in utenti : u.username = n}

Ask(r, n, m) ==
    /\ pc[r] = "new"
    /\ want' = [want EXCEPT ![r] = [username |-> n, mail |-> m]]
    /\ IF dead THEN Answers(r, 500) ELSE Goes(r, "name") /\ UNCHANGED answer
    /\ UNCHANGED <<table, cache, login, restarts>>

UsernameAlreadyTaken(r) ==
    /\ pc[r] = "name"
    /\ IF Known(want[r].username) # {}
       THEN Answers(r, 409) ELSE Goes(r, "mail") /\ UNCHANGED answer
    /\ UNCHANGED <<want, table, cache, login, restarts>>

MailAlreadyTaken(r) ==
    /\ pc[r] = "mail"
    /\ IF \E u \in utenti : u.mail = want[r].mail
       THEN Answers(r, 409) ELSE Goes(r, "insert") /\ UNCHANGED answer
    /\ UNCHANGED <<want, table, cache, login, restarts>>

\* INSERT INTO USERS, with unique keys on the name and the mail.
Violates(r) ==
    \E row \in table : \/ Fold[row.username] = Fold[want[r].username]
                       \/ row.mail = want[r].mail
InsertBlindly(r) ==
    /\ pc[r] = "insert"
    /\ Goes(r, "add")
    /\ table' = IF Violates(r) THEN table ELSE table \cup {Row(r)}
    /\ UNCHANGED <<want, answer, cache, login, restarts>>
Insert(r) ==
    /\ pc[r] = "insert"
    /\ ~ Violates(r)
    /\ Goes(r, "add")
    /\ table' = table \cup {Row(r)}
    /\ UNCHANGED <<want, answer, cache, login, restarts>>

\* SQLException: the row is refused, or its telephone is in use, or the
\* database fails, before it has the row or after.
InsertFails(r) ==
    /\ pc[r] = "insert"
    /\ Answers(r, 500)
    /\ table' \in {table} \cup (IF Violates(r) THEN {} ELSE {table \cup {Row(r)}})
    /\ UNCHANGED <<want, cache, login, restarts>>

\* utenti.add, then the answer.
AnswerOnly(r) ==
    /\ pc[r] = "add"
    /\ Answers(r, 200)
    /\ UNCHANGED <<want, table, cache, login, restarts>>
Add(r) ==
    /\ pc[r] = "add"
    /\ utenti' = utenti \cup {Row(r)}
    /\ Answers(r, 200)
    /\ UNCHANGED <<want, table, whole, dead, login, restarts>>

-------------------------------------------------------------------------------

\* load_hash and checkpw: the row is found by the name as the database
\* compares it, and the password is the right one.
LoadHash(n) ==
    /\ login.pc # "details" /\ ~ dead
    /\ \E row \in table : Fold[row.username] = Fold[n]
    /\ login' = [pc |-> "details", username |-> n]
    /\ UNCHANGED <<pc, want, answer, table, cache, restarts>>

\* getUserDetails, or getUserMail for the second step: null has neither.
GetUserDetails ==
    /\ login.pc = "details"
    /\ login' = [login EXCEPT !.pc = IF Known(login.username) # {} THEN "in" ELSE "failed"]
    /\ UNCHANGED <<pc, want, answer, table, cache, restarts>>

\* The server is started again: what was under way is lost, DAOUsers reads all
\* users, or some of them before an SQLException, or gets no connection.
Restart ==
    /\ restarts < MaxRestarts
    /\ restarts' = restarts + 1
    /\ pc' = [r \in Requests |-> IF pc[r] = "new" THEN "new" ELSE "done"]
    /\ login' = NoLogin
    /\ utenti' \in SUBSET table
    /\ whole' = (utenti' = table)
    /\ dead' \in (IF utenti' = {} THEN BOOLEAN ELSE {FALSE})
    /\ UNCHANGED <<want, answer, table>>

UserNext ==
    \/ \E r \in Requests :
          \/ \E n \in Names, m \in Mails : Ask(r, n, m)
          \/ UsernameAlreadyTaken(r) \/ MailAlreadyTaken(r) \/ Insert(r) \/ InsertFails(r) \/ Add(r)
    \/ \E n \in Names : LoadHash(n)
    \/ GetUserDetails
    \/ Restart

UserSpec == UserInit /\ [][UserNext]_userVars

-------------------------------------------------------------------------------
(******************************* Properties ********************************)

\* Who is answered 200 has the row with that name, of all who asked for it,
\* whatever the lookups in the copy missed; who is answered 409 met another
\* user's; and the copy knows nobody the table does not.
AnswersAreTrue ==
    /\ utenti \subseteq table
    /\ \A r \in Requests :
          /\ answer[r] = 200 => Row(r) \in table
          /\ answer[r] = 409 =>
                \E row \in table : /\ row.of # r
                                   /\ \/ row.username = want[r].username
                                      \/ row.mail = want[r].mail

\* With the right password a login fails on a user missing in the copy only
\* while that registration has not been answered 200, for a name in another
\* case, or after a start at which the database failed.
KnownUsersLogIn ==
    [][ \A row \in table :
          /\ whole /\ ~ dead
          /\ answer[row.of] = 200
          /\ login = [pc |-> "details", username |-> row.username]
          => login'.pc # "failed" ]_userVars
===============================================================================
