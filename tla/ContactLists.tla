----------------------------- MODULE ContactLists -----------------------------
(***************************************************************************)
(* The contact lists a client downloads between two logins, and the token  *)
(* that pays for them.  The server keeps nothing: the token it signs says  *)
(* how many hops are left, when it expires and which address it is for.    *)
(* Every request with a valid token makes the server sign a new one, with  *)
(* one hop less and a fresh expiry; the client takes it over only together *)
(* with a list.                                                            *)
(*                                                                         *)
(* A request blocks the event thread of its client until the answer comes  *)
(* or the connection fails, before or after the server has handled it.     *)
(***************************************************************************)
EXTENDS Integers

CONSTANTS Clients, IPs, Lists, Roles,
          Role,                   \* Role[c]: the role of c's user
          Readers,                \* Readers[l]: the roles the policy permits l to
          maximumHops, tokenDuration,
          MaxTime

ASSUME TokenAssumption ==
    /\ Role \in [Clients -> Roles]
    /\ Readers \in [Lists -> SUBSET Roles]
    /\ maximumHops \in Nat \ {0} /\ tokenDuration \in Nat \ {0}
    /\ MaxTime \in Nat

VARIABLES now,
          address,  \* address[c]: the address c's requests come from
          frame,    \* frame[c]: c shows the login window or the landing window
          token,    \* token[c]: AuthUser's token
          call,     \* call[c]: c's request, later its answer
          since,    \* since[c]: when c's last login was answered
          lists     \* lists[c]: contact lists c has got since then

vars == <<now, address, frame, token, call, since, lists>>

Tokens  == [hops : 0 .. maximumHops, expires : Int, ip : IPs]
NoToken == [hops |-> -1]

Calls == [kind : {"none", "307", "401"}]
    \cup [kind : {"request"}, list : Lists]
    \cup [kind : {"200"}, new : Tokens]
NoCall == [kind |-> "none"]

TypeOK ==
    /\ now \in Nat
    /\ address \in [Clients -> IPs]
    /\ frame \in [Clients -> {"login", "landing"}]
    /\ token \in [Clients -> Tokens \cup {NoToken}]
    /\ call \in [Clients -> Calls]
    /\ since \in [Clients -> Nat]
    /\ lists \in [Clients -> 0 .. maximumHops]

Init ==
    /\ now = 0
    /\ address \in [Clients -> IPs]
    /\ frame = [c \in Clients |-> "login"]
    /\ token = [c \in Clients |-> NoToken]
    /\ call = [c \in Clients |-> NoCall]
    /\ since = [c \in Clients |-> 0]
    /\ lists = [c \in Clients |-> 0]

-------------------------------------------------------------------------------
(******************************** Tokens ***********************************)

GenerateToken(hops, ip) == [hops |-> hops, expires |-> now + tokenDuration, ip |-> ip]

\* (IsValidTokenForEver, and the like below: how the step could have gone
\* wrong; nothing uses them but the runs that test the properties.)
IsValidTokenForEver(t, ip) == t.hops > 0 /\ t.hops <= maximumHops /\ t.ip = ip
IsValidToken(t, ip) ==
    /\ now < t.expires
    /\ t.hops > 0 /\ t.hops <= maximumHops
    /\ t.ip = ip

RegenTokenSameHops(t, ip) == GenerateToken(t.hops, ip)
RegenToken(t, ip) == GenerateToken(t.hops - 1, ip)

-------------------------------------------------------------------------------
(******************************* The server ********************************)

\* AuthenticationServlet, 200 (LoginServer says when), and LandingFrame opens.
\* Where its answer comes late, the time that passes is that of Tick.
Login(c) ==
    /\ frame[c] = "login"
    /\ token' = [token EXCEPT ![c] = GenerateToken(maximumHops, address[c])]
    /\ frame' = [frame EXCEPT ![c] = "landing"]
    /\ since' = [since EXCEPT ![c] = now]
    /\ lists' = [lists EXCEPT ![c] = 0]
    /\ UNCHANGED <<now, address, call>>

\* accessPolicy.xml: a rule per role, and a last one that always denies.
Permitted(c, l) == Role[c] \in Readers[l]

\* ContactListFilter: 307 if the token is not valid; else the policy decides,
\* and the list comes with a new token (so does 401, where nobody reads it).
\* What is left of a list while it is being downloaded is the client's matter.
ServeRequest(c) ==
    /\ call[c].kind = "request"
    /\ call' = [call EXCEPT ![c] =
          IF ~ IsValidToken(token[c], address[c]) THEN [kind |-> "307"]
          ELSE IF ~ Permitted(c, call[c].list) THEN [kind |-> "401"]
          ELSE [kind |-> "200", new |-> RegenToken(token[c], address[c])]]
    /\ UNCHANGED <<now, address, frame, token, since, lists>>

-------------------------------------------------------------------------------
(******************************* The client ********************************)

\* A "Contact ..." button without chats (ChatClient says when there are none).
PressContact(c, l) ==
    /\ frame[c] = "landing"
    /\ call[c] = NoCall
    /\ call' = [call EXCEPT ![c] = [kind |-> "request", list |-> l]]
    /\ UNCHANGED <<now, address, frame, token, since, lists>>

\* 200: the list is saved, then the token taken over.
TakeList(c) ==
    /\ call[c].kind = "200"
    /\ token' = [token EXCEPT ![c] = call[c].new]
    /\ lists' = [lists EXCEPT ![c] = @ + 1]
    /\ call' = [call EXCEPT ![c] = NoCall]
    /\ UNCHANGED <<now, address, frame, since>>

\* 401: a dialog; the old token stays.
TakeRefusalWithToken(c) ==
    /\ call[c].kind = "401"
    /\ token' = [token EXCEPT ![c] = RegenToken(@, address[c])]
    /\ call' = [call EXCEPT ![c] = NoCall]
    /\ UNCHANGED <<now, address, frame, since, lists>>
TakeRefusal(c) ==
    /\ call[c].kind = "401"
    /\ call' = [call EXCEPT ![c] = NoCall]
    /\ UNCHANGED <<now, address, frame, token, since, lists>>

\* 307: a dialog, Logout, and the login window.
TakeRedirect(c) ==
    /\ call[c].kind = "307"
    /\ call' = [call EXCEPT ![c] = NoCall]
    /\ frame' = [frame EXCEPT ![c] = "login"]
    /\ token' = [token EXCEPT ![c] = NoToken]
    /\ UNCHANGED <<now, address, since, lists>>

\* An IOException, whatever became of the request and of the list: a dialog.
CallFails(c) ==
    /\ call[c] # NoCall
    /\ call' = [call EXCEPT ![c] = NoCall]
    /\ UNCHANGED <<now, address, frame, token, since, lists>>

Logout(c) ==
    /\ frame[c] = "landing"
    /\ call[c] = NoCall
    /\ frame' = [frame EXCEPT ![c] = "login"]
    /\ token' = [token EXCEPT ![c] = NoToken]
    /\ UNCHANGED <<now, address, call, since, lists>>

-------------------------------------------------------------------------------
\* The client's computer gets another address (a request under way then fails).
Moves(c, ip) ==
    /\ call[c] = NoCall
    /\ address' = [address EXCEPT ![c] = ip]
    /\ UNCHANGED <<now, frame, token, call, since, lists>>

Tick ==
    /\ now < MaxTime
    /\ now' = now + 1
    /\ UNCHANGED <<address, frame, token, call, since, lists>>

Next ==
    \/ \E c \in Clients :
          \/ Login(c) \/ ServeRequest(c)
          \/ \E l \in Lists : PressContact(c, l)
          \/ TakeList(c) \/ TakeRefusal(c) \/ TakeRedirect(c) \/ CallFails(c)
          \/ Logout(c)
          \/ \E ip \in IPs : Moves(c, ip)
    \/ Tick

Spec == Init /\ [][Next]_vars

-------------------------------------------------------------------------------
(******************************* Properties ********************************)

\* One login pays for maximumHops lists, all within maximumHops times
\* tokenDuration, although every request moves the expiry and the server
\* remembers no login: a token that is valid in the client's hands belongs to a
\* login that is not older.
SessionEnds ==
    \A c \in Clients :
        frame[c] = "landing" /\ IsValidToken(token[c], address[c]) =>
            now < since[c] + maximumHops * tokenDuration

\* A client's hops are spent on lists it has got and on nothing else: neither a
\* refusal nor an answer that was lost after the server had signed a new token
\* costs any (getContactList takes the token over from a complete 200 only).
ListsPerLogin ==
    \A c \in Clients :
        frame[c] = "landing" => lists[c] + token[c].hops = maximumHops
===============================================================================
