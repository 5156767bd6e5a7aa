-------------------------- MODULE RegistrationProofs --------------------------
(***************************************************************************)
(* Theorems about Registration, for any number of requests, names, mails   *)
(* and restarts and whatever the database takes for the same name.         *)
(***************************************************************************)
EXTENDS Registration, TLAPS

Steps == {"new", "name", "mail", "insert", "add", "done"}
Codes == {0, 200, 409, 500}

(* Every variable keeps its type; only what is done has been answered. *)
TypeInv ==
    /\ pc \in [Requests -> Steps]
    /\ DOMAIN want = Requests
    /\ answer \in [Requests -> Codes]
    /\ \A r \in Requests : answer[r] # 0 => pc[r] = "done"

(* Each row was asked for by the request it belongs to, which is past its
   INSERT; a request that is about to fill the copy has its row. *)
TableInv ==
    /\ utenti \subseteq table
    /\ \A row \in table : /\ row.of \in Requests
                          /\ row = Row(row.of)
                          /\ pc[row.of] \in {"add", "done"}
    /\ \A r \in Requests : pc[r] = "add" => Row(r) \in table

(* What 409 says: another user has the name or the mail. *)
Met(r) == \E row \in table : /\ row.of # r
                             /\ \/ row.username = want[r].username
                                \/ row.mail = want[r].mail
AnswerInv ==
    \A r \in Requests : /\ answer[r] = 200 => Row(r) \in table
                        /\ answer[r] = 409 => Met(r)

(* A copy that was read whole has everybody who was answered 200. *)
CopyInv == whole => \A row \in table : answer[row.of] = 200 => row \in utenti

IInv == TypeInv /\ TableInv /\ AnswerInv /\ CopyInv

LEMMA InitIInv == UserInit => IInv
BY DEF UserInit, IInv, TypeInv, TableInv, AnswerInv, CopyInv, Steps, Codes

(* A request that goes on without the table being touched keeps all rows. *)
LEMMA AskKeeps ==
    ASSUME IInv, NEW r \in Requests, NEW n \in Names, NEW m \in Mails, Ask(r, n, m)
    PROVE  IInv'
<1>1. TypeInv' BY DEF IInv, TypeInv, Ask, Answers, Goes, Steps, Codes
<1>2. \A q \in Requests : pc[q] # "new" => q # r /\ Row(q)' = Row(q)
                                           /\ pc'[q] = pc[q] /\ answer'[q] = answer[q]
  BY DEF IInv, TypeInv, Ask, Answers, Goes, Row
<1>3. TableInv'
  <2>1. \A q \in Requests : pc'[q] = "add" => pc[q] = "add"
    BY DEF IInv, TypeInv, Ask, Answers, Goes
  <2>2. table' = table /\ utenti' = utenti BY DEF Ask, cache
  <2> QED BY <1>2, <2>1, <2>2 DEF IInv, TableInv
<1>4. AnswerInv'
  <2>1. \A q \in Requests : answer'[q] \in {200, 409} => pc[q] = "done" /\ answer[q] = answer'[q]
    BY DEF IInv, TypeInv, Ask, Answers, Goes, Codes
  <2>2. \A q \in Requests : pc[q] = "done" => want'[q] = want[q]
    BY DEF IInv, TypeInv, Ask
  <2>3. table' = table BY DEF Ask
  <2> QED BY <1>2, <2>1, <2>2, <2>3 DEF IInv, AnswerInv, Met
<1>5. CopyInv'
  <2>1. \A row \in table : answer'[row.of] = answer[row.of]
    BY <1>2 DEF IInv, TableInv
  <2> QED BY <2>1 DEF IInv, CopyInv, Ask, cache
<1> QED BY <1>1, <1>3, <1>4, <1>5 DEF IInv

LEMMA LookupKeeps ==
    ASSUME IInv, NEW r \in Requests, UsernameAlreadyTaken(r) \/ MailAlreadyTaken(r)
    PROVE  IInv'
<1> USE DEF cache
<1>1. pc[r] \in {"name", "mail"} /\ table' = table /\ utenti' = utenti /\ want' = want
      /\ whole' = whole
  BY DEF UsernameAlreadyTaken, MailAlreadyTaken
<1>2. \/ Answers(r, 409) /\ Met(r)
      \/ (Goes(r, "mail") \/ Goes(r, "insert")) /\ answer' = answer
  <2>1. \A row \in utenti : row.of # r BY <1>1 DEF IInv, TableInv
  <2> QED BY <2>1 DEF UsernameAlreadyTaken, MailAlreadyTaken, Known, IInv, TableInv, Met
<1>3. TypeInv' BY <1>1, <1>2 DEF IInv, TypeInv, Answers, Goes, Steps, Codes
<1>4. \A q \in Requests : /\ q # r => pc'[q] = pc[q] /\ answer'[q] = answer[q]
                          /\ Row(q)' = Row(q) /\ Met(q)' = Met(q)
  BY <1>1, <1>2 DEF IInv, TypeInv, Answers, Goes, Row, Met
<1>5. pc'[r] # "add" /\ answer[r] = 0 BY <1>1, <1>2 DEF IInv, TypeInv, Answers, Goes
<1>6. \A row \in table : row.of # r BY <1>1 DEF IInv, TableInv
<1>7. TableInv' BY <1>1, <1>4, <1>5, <1>6 DEF IInv, TableInv
<1>8. AnswerInv' BY <1>1, <1>2, <1>4, <1>5 DEF IInv, AnswerInv, TypeInv, Answers
<1>9. CopyInv' BY <1>1, <1>4, <1>6 DEF IInv, CopyInv, TableInv
<1> QED BY <1>3, <1>7, <1>8, <1>9 DEF IInv

LEMMA InsertKeeps ==
    ASSUME IInv, NEW r \in Requests, Insert(r) \/ InsertFails(r)
    PROVE  IInv'
<1> USE DEF cache
<1>1. /\ pc[r] = "insert" /\ utenti' = utenti /\ want' = want /\ whole' = whole
      /\ table' \in {table, table \cup {Row(r)}}
  BY DEF Insert, InsertFails
<1>2. \/ Goes(r, "add") /\ answer' = answer /\ table' = table \cup {Row(r)}
      \/ Answers(r, 500)
  BY DEF Insert, InsertFails
<1>3. TypeInv' BY <1>1, <1>2 DEF IInv, TypeInv, Answers, Goes, Steps, Codes
<1>4. \A q \in Requests : /\ q # r => pc'[q] = pc[q] /\ answer'[q] = answer[q]
                          /\ Row(q)' = Row(q) /\ (Met(q) => Met(q)')
  BY <1>1, <1>2 DEF IInv, TypeInv, Answers, Goes, Row, Met
<1>5. /\ answer'[r] \in {0, 500} /\ pc'[r] \in {"add", "done"}
      /\ pc'[r] = "add" => Row(r) \in table'
  BY <1>1, <1>2 DEF IInv, TypeInv, Answers, Goes
<1>6. \A row \in table : row.of # r BY <1>1 DEF IInv, TableInv
<1>7. Row(r).of = r BY DEF Row
<1>8. TableInv' BY <1>1, <1>4, <1>5, <1>6, <1>7 DEF IInv, TableInv
<1>9. AnswerInv' BY <1>1, <1>4, <1>5 DEF IInv, AnswerInv
<1>10. CopyInv' BY <1>1, <1>4, <1>5, <1>6, <1>7 DEF IInv, CopyInv, TableInv
<1> QED BY <1>3, <1>8, <1>9, <1>10 DEF IInv

LEMMA AddKeeps ==
    ASSUME IInv, NEW r \in Requests, Add(r)
    PROVE  IInv'
<1>1. /\ pc[r] = "add" /\ utenti' = utenti \cup {Row(r)} /\ Row(r) \in table
      /\ table' = table /\ want' = want /\ whole' = whole
  BY DEF Add, IInv, TableInv
<1>2. TypeInv' BY <1>1 DEF IInv, TypeInv, Add, Answers, Goes, Steps, Codes
<1>3. \A q \in Requests : /\ q # r => pc'[q] = pc[q] /\ answer'[q] = answer[q]
                          /\ Row(q)' = Row(q) /\ Met(q)' = Met(q)
  BY <1>1 DEF IInv, TypeInv, Add, Answers, Goes, Row, Met
<1>4. pc'[r] = "done" /\ answer'[r] = 200 BY <1>1 DEF IInv, TypeInv, Add, Answers, Goes
<1>5. TableInv' BY <1>1, <1>3, <1>4 DEF IInv, TableInv
<1>6. AnswerInv' BY <1>1, <1>3, <1>4 DEF IInv, AnswerInv
<1>7. CopyInv'
  <2>1. \A row \in table : row.of = r => row = Row(r) BY DEF IInv, TableInv
  <2> QED BY <1>1, <1>3, <2>1 DEF IInv, CopyInv, TableInv
<1> QED BY <1>2, <1>5, <1>6, <1>7 DEF IInv

LEMMA RestartKeeps == ASSUME IInv, Restart PROVE IInv'
<1>1. /\ want' = want /\ answer' = answer /\ table' = table /\ utenti' \subseteq table
      /\ whole' = (utenti' = table)
  BY DEF Restart
<1>2. \A r \in Requests : pc'[r] = IF pc[r] = "new" THEN "new" ELSE "done"
  BY DEF Restart
<1>3. TypeInv' BY <1>1, <1>2 DEF IInv, TypeInv, Restart, Steps
<1>4. \A q \in Requests : Row(q)' = Row(q) /\ Met(q)' = Met(q) BY <1>1 DEF Row, Met
<1>5. TableInv' BY <1>1, <1>2, <1>4 DEF IInv, TableInv
<1>6. AnswerInv' BY <1>1, <1>4 DEF IInv, AnswerInv
<1>7. CopyInv' BY <1>1 DEF CopyInv
<1> QED BY <1>3, <1>5, <1>6, <1>7 DEF IInv

LEMMA LoginKeeps ==
    ASSUME IInv, UNCHANGED <<pc, want, answer, table, utenti, whole>>
    PROVE  IInv'
BY DEF IInv, TypeInv, TableInv, AnswerInv, CopyInv, Row, Met

LEMMA NextIInv == IInv /\ [UserNext]_userVars => IInv'
<1> SUFFICES ASSUME IInv, [UserNext]_userVars PROVE IInv' OBVIOUS
<1>1. CASE \E r \in Requests, n \in Names, m \in Mails : Ask(r, n, m)
  BY <1>1, AskKeeps
<1>2. CASE \E r \in Requests : UsernameAlreadyTaken(r) \/ MailAlreadyTaken(r)
  BY <1>2, LookupKeeps
<1>3. CASE \E r \in Requests : Insert(r) \/ InsertFails(r)
  BY <1>3, InsertKeeps
<1>4. CASE \E r \in Requests : Add(r) BY <1>4, AddKeeps
<1>5. CASE (\E n \in Names : LoadHash(n)) \/ GetUserDetails \/ UNCHANGED userVars
  BY <1>5, LoginKeeps DEF LoadHash, GetUserDetails, userVars, cache
<1>6. CASE Restart BY <1>6, RestartKeeps
<1> QED BY <1>1, <1>2, <1>3, <1>4, <1>5, <1>6 DEF UserNext

LEMMA Invariance == UserSpec => []IInv
<1>1. UserInit => IInv BY InitIInv
<1>2. IInv /\ [UserNext]_userVars => IInv' BY NextIInv
<1> QED BY <1>1, <1>2, PTL DEF UserSpec

(* The code a request to register is answered with is true of the table ever
   after, and the copy knows nobody the table does not (RegistrationLogic.store
   without a monitor, DAOUsers.store). *)
THEOREM AnswersHold == UserSpec => []AnswersAreTrue
<1>1. IInv => AnswersAreTrue BY DEF IInv, TableInv, AnswerInv, AnswersAreTrue, Met
<1> QED BY <1>1, Invariance, PTL

(* A user who was answered 200 does not fail after the password for want of an
   entry in the copy, unless a start of the server met a failing database
   (DAOUsers.getUser behind AuthenticationServlet). *)
THEOREM KnownUsersAreFound == UserSpec => KnownUsersLogIn
<1> DEFINE Found ==
      \A row \in table :
          /\ whole /\ ~ dead
          /\ answer[row.of] = 200
          /\ login = [pc |-> "details", username |-> row.username]
          => login'.pc # "failed"
<1>1. ASSUME IInv, [UserNext]_userVars PROVE Found \/ UNCHANGED userVars
  <2>1. SUFFICES ASSUME ~ UNCHANGED userVars,
                        NEW row \in table,
                        whole, answer[row.of] = 200,
                        login = [pc |-> "details", username |-> row.username]
                 PROVE  login'.pc # "failed"
    OBVIOUS
  <2>2. login.pc = "details" /\ login.username = row.username BY <2>1
  <2>3. row \in Known(login.username) BY <1>1, <2>1, <2>2 DEF IInv, CopyInv, Known
  <2>4. CASE GetUserDetails
    <3>1. login' = [login EXCEPT !.pc = "in"] BY <2>3, <2>4 DEF GetUserDetails
    <3> QED BY <2>1, <3>1
  <2>5. CASE Restart BY <2>5 DEF Restart, NoLogin
  <2>6. CASE login' = login BY <2>2, <2>6
  <2>7. \A n \in Names : ~ LoadHash(n) BY <2>2 DEF LoadHash
  <2> QED
    BY <1>1, <2>1, <2>4, <2>5, <2>6, <2>7
       DEF UserNext, Ask, UsernameAlreadyTaken, MailAlreadyTaken, Insert, InsertFails, Add
<1>2. IInv /\ [UserNext]_userVars => [Found]_userVars BY <1>1
<1> QED BY <1>2, Invariance, PTL DEF UserSpec, KnownUsersLogIn
===============================================================================
