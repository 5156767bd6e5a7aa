--------------------------- MODULE MCContactLists ---------------------------
(***************************************************************************)
(* What TLC checks of the server beside its login, in one run: either the  *)
(* contact lists (ContactLists) or the registration (Registration).        *)
(***************************************************************************)
EXTENDS ContactLists, Registration, TLC

VARIABLE run

\* What accessPolicy.xml permits, for two of the roles.
UserOf == [c \in Clients |-> "utente"]
Policy == ("tecnici" :> {"tecnico", "utente"}) @@ ("utenti" :> {"tecnico"})

\* Two of the names are one to the database.
LowerCase == [n \in Names |-> IF n = "Anna" THEN "anna" ELSE n]

Contacts(A)  == run = "lists" /\ A /\ UNCHANGED <<run, userVars>>
Registers(A) == run = "users" /\ A /\ UNCHANGED <<run, vars>>

ServerInit == run \in {"lists", "users"} /\ Init /\ UserInit

ServerNext ==
    \/ \E c \in Clients :
          \/ Contacts(Login(c)) \/ Contacts(ServeRequest(c))
          \/ \E l \in Lists : Contacts(PressContact(c, l))
          \/ Contacts(TakeList(c)) \/ Contacts(TakeRefusal(c)) \/ Contacts(TakeRedirect(c))
          \/ Contacts(CallFails(c)) \/ Contacts(Logout(c))
          \/ \E ip \in IPs : Contacts(Moves(c, ip))
    \/ Contacts(Tick)
    \/ \E r \in Requests :
          \/ \E n \in Names, m \in Mails : Registers(Ask(r, n, m))
          \/ Registers(UsernameAlreadyTaken(r)) \/ Registers(MailAlreadyTaken(r))
          \/ Registers(Insert(r)) \/ Registers(InsertFails(r)) \/ Registers(Add(r))
    \/ \E n \in Names : Registers(LoadHash(n))
    \/ Registers(GetUserDetails) \/ Registers(Restart)

ServerSpec == ServerInit /\ [][ServerNext]_<<run, vars, userVars>>
===============================================================================
