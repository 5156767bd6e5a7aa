------------------------- MODULE ContactListsProofs -------------------------
(***************************************************************************)
(* Proofs about ContactLists, for any clients, addresses, policy, number   *)
(* of hops and duration of a token.                                        *)
(***************************************************************************)
EXTENDS ContactLists, TLAPS

\* A token with h hops left dates from at most maximumHops - h renewals after
\* the login, each of them made while the token before it was valid.
InBudget(t, start) == t.expires <= start + (maximumHops + 1 - t.hops) * tokenDuration

HandInv(c) ==
    frame[c] = "landing" =>
        /\ token[c] \in Tokens
        /\ lists[c] + token[c].hops = maximumHops
        /\ InBudget(token[c], since[c])

AnswerInv(c) ==
    /\ call[c] # NoCall => frame[c] = "landing"
    /\ call[c].kind = "200" => /\ call[c].new.hops = token[c].hops - 1
                               /\ InBudget(call[c].new, since[c])

IInv == TypeOK /\ \A c \in Clients : HandInv(c) /\ AnswerInv(c)

-------------------------------------------------------------------------------
(********************************* Tokens **********************************)

LEMMA Bounds ==
    /\ maximumHops \in Nat /\ maximumHops > 0
    /\ tokenDuration \in Nat /\ tokenDuration > 0
BY TokenAssumption

\* Products that grow with their first factor.
LEMMA MoreHops ==
    ASSUME NEW n \in Int, NEW m \in Int, n <= m
    PROVE  n * tokenDuration <= m * tokenDuration
<1> DEFINE D == tokenDuration
<1>1. D \in Nat
  BY Bounds
<1>2. m - n \in Nat /\ m = n + (m - n)
  OBVIOUS
<1>3. ASSUME NEW a \in Int, NEW b \in Nat, NEW d \in Nat
      PROVE  a * d <= (a + b) * d
  <2>1. (a + b) * d = a * d + b * d
    BY <1>3
  <2>2. b * d \in Nat
    BY <1>3
  <2>3. a * d \in Int
    BY <1>3
  <2> QED BY <2>1, <2>2, <2>3
<1>4. n * D <= (n + (m - n)) * D
  BY <1>1, <1>2, <1>3
<1> QED BY <1>2, <1>4

\* A login's token, and the token that replaces a valid one, are in budget.
LEMMA FreshToken ==
    ASSUME NEW ip \in IPs, now \in Nat
    PROVE  /\ GenerateToken(maximumHops, ip) \in Tokens
           /\ GenerateToken(maximumHops, ip).hops = maximumHops
           /\ InBudget(GenerateToken(maximumHops, ip), now)
<1>1. (maximumHops + 1 - maximumHops) * tokenDuration = tokenDuration
  BY Bounds
<1> QED BY <1>1, Bounds DEF GenerateToken, Tokens, InBudget

LEMMA RenewedToken ==
    ASSUME NEW t \in Tokens, NEW ip \in IPs, NEW start \in Nat, now \in Nat,
           IsValidToken(t, ip), InBudget(t, start)
    PROVE  /\ RegenToken(t, ip) \in Tokens
           /\ RegenToken(t, ip).hops = t.hops - 1
           /\ InBudget(RegenToken(t, ip), start)
<1> DEFINE left == maximumHops + 1 - t.hops
<1>1. t.hops \in 1 .. maximumHops /\ t.expires \in Int /\ now < t.expires
  BY Bounds DEF Tokens, IsValidToken
<1>2. RegenToken(t, ip) = [hops |-> t.hops - 1, expires |-> now + tokenDuration, ip |-> ip]
  BY DEF RegenToken, GenerateToken
<1>3. left \in Int /\ maximumHops + 1 - (t.hops - 1) = left + 1
  BY <1>1, Bounds
<1>4. (left + 1) * tokenDuration = left * tokenDuration + tokenDuration
  BY <1>3, Bounds
<1>5. left * tokenDuration \in Int
  BY <1>3, Bounds
<1>6. t.expires <= start + left * tokenDuration
  BY DEF InBudget
<1> HIDE DEF left
<1>7. now + tokenDuration <= start + (left + 1) * tokenDuration
  BY <1>1, <1>4, <1>5, <1>6, Bounds
<1>8. InBudget(RegenToken(t, ip), start)
  BY <1>2, <1>3, <1>7 DEF InBudget
<1>9. RegenToken(t, ip) \in Tokens /\ RegenToken(t, ip).hops = t.hops - 1
  BY <1>1, <1>2, Bounds DEF Tokens
<1> QED BY <1>8, <1>9

-------------------------------------------------------------------------------
(******************************** The steps ********************************)

LEMMA CallFacts ==
    /\ NoCall \in Calls
    /\ [kind |-> "307"] \in Calls /\ [kind |-> "401"] \in Calls
    /\ \A l \in Lists : [kind |-> "request", list |-> l] \in Calls
    /\ \A t \in Tokens : [kind |-> "200", new |-> t] \in Calls
    /\ \A k \in Calls : k.kind = "200" => k.new \in Tokens
BY DEF Calls, NoCall

LEMMA InitInv == Init => IInv
BY Bounds, CallFacts DEF Init, IInv, TypeOK, HandInv, AnswerInv, NoCall

\* Only the variables of one client change, but for the clock.
LEMMA OneClient ==
    ASSUME IInv, NEW c \in Clients, TypeOK', HandInv(c)', AnswerInv(c)',
           \A d \in Clients \ {c} :
               /\ frame'[d] = frame[d] /\ token'[d] = token[d] /\ call'[d] = call[d]
               /\ since'[d] = since[d] /\ lists'[d] = lists[d]
    PROVE  IInv'
BY DEF IInv, HandInv, AnswerInv, InBudget

LEMMA StepInv == IInv /\ [Next]_vars => IInv'
<1> SUFFICES ASSUME IInv, [Next]_vars PROVE IInv'
  OBVIOUS
<1>0. TypeOK /\ \A c \in Clients : HandInv(c) /\ AnswerInv(c)
  BY DEF IInv
<1>1. ASSUME NEW c \in Clients, Login(c) PROVE IInv'
  <2>1. call[c] = NoCall /\ call'[c] = NoCall /\ address[c] \in IPs /\ now \in Nat
    BY <1>0, <1>1 DEF Login, AnswerInv, TypeOK
  <2>2. /\ frame'[c] = "landing" /\ since'[c] = now /\ lists'[c] = 0
        /\ token'[c] = GenerateToken(maximumHops, address[c])
    BY <1>0, <1>1 DEF Login, TypeOK
  <2>3. TypeOK'
    BY <1>0, <1>1, <2>1, FreshToken, Bounds DEF Login, TypeOK
  <2>4. HandInv(c)'
    BY <2>1, <2>2, FreshToken, Bounds DEF HandInv, InBudget
  <2>5. AnswerInv(c)'
    BY <2>1, <2>2 DEF AnswerInv, NoCall
  <2> QED BY <1>0, <1>1, <2>3, <2>4, <2>5, OneClient DEF Login, TypeOK
<1>2. ASSUME NEW c \in Clients, ServeRequest(c) PROVE IInv'
  <2>1. frame[c] = "landing" /\ token[c] \in Tokens /\ InBudget(token[c], since[c])
    BY <1>0, <1>2 DEF ServeRequest, AnswerInv, HandInv, NoCall
  <2>2. address[c] \in IPs /\ now \in Nat /\ since[c] \in Nat
    BY <1>0 DEF TypeOK
  <2>3. \/ call'[c] \in {[kind |-> "307"], [kind |-> "401"]}
        \/ /\ IsValidToken(token[c], address[c])
           /\ call'[c] = [kind |-> "200", new |-> RegenToken(token[c], address[c])]
    BY <1>0, <1>2 DEF ServeRequest, TypeOK
  <2>4. call'[c] \in Calls
    BY <2>1, <2>2, <2>3, RenewedToken, CallFacts
  <2>5. TypeOK'
    BY <1>0, <1>2, <2>4 DEF ServeRequest, TypeOK
  <2>6. HandInv(c)'
    BY <1>0, <1>2 DEF ServeRequest, HandInv, InBudget
  <2>7. call'[c].kind = "200" => /\ call'[c].new.hops = token[c].hops - 1
                                 /\ InBudget(call'[c].new, since[c])
    BY <2>1, <2>2, <2>3, RenewedToken
  <2>8. AnswerInv(c)'
    BY <1>2, <2>1, <2>7 DEF ServeRequest, AnswerInv, InBudget
  <2> QED BY <1>0, <1>2, <2>5, <2>6, <2>8, OneClient DEF ServeRequest, TypeOK
<1>3. ASSUME NEW c \in Clients, NEW l \in Lists, PressContact(c, l) PROVE IInv'
  <2>1. TypeOK'
    BY <1>0, <1>3, CallFacts DEF PressContact, TypeOK
  <2>2. HandInv(c)'
    BY <1>0, <1>3 DEF PressContact, HandInv, InBudget
  <2>3. AnswerInv(c)'
    BY <1>0, <1>3 DEF PressContact, AnswerInv, TypeOK
  <2> QED BY <1>0, <1>3, <2>1, <2>2, <2>3, OneClient DEF PressContact, TypeOK
<1>4. ASSUME NEW c \in Clients, TakeList(c) PROVE IInv'
  <2>1. /\ frame[c] = "landing" /\ call[c].new \in Tokens
        /\ call[c].new.hops = token[c].hops - 1
        /\ InBudget(call[c].new, since[c])
    BY <1>0, <1>4, CallFacts DEF TakeList, AnswerInv, TypeOK, NoCall
  <2>2. token[c] \in Tokens /\ lists[c] + token[c].hops = maximumHops
    BY <1>0, <2>1 DEF HandInv
  <2>3. lists[c] + 1 \in 0 .. maximumHops /\ lists[c] + 1 + call[c].new.hops = maximumHops
    BY <1>0, <2>1, <2>2, Bounds DEF Tokens, TypeOK
  <2>4. TypeOK'
    BY <1>0, <1>4, <2>1, <2>3, CallFacts DEF TakeList, TypeOK
  <2>5. /\ token'[c] = call[c].new /\ lists'[c] = lists[c] + 1 /\ call'[c] = NoCall
        /\ frame'[c] = "landing" /\ since'[c] = since[c]
    BY <1>0, <1>4, <2>1 DEF TakeList, TypeOK
  <2>6. HandInv(c)'
    BY <2>1, <2>3, <2>5 DEF HandInv, InBudget
  <2>7. AnswerInv(c)'
    BY <2>5 DEF AnswerInv, NoCall
  <2> QED BY <1>0, <1>4, <2>4, <2>6, <2>7, OneClient DEF TakeList, TypeOK
<1>5. ASSUME NEW c \in Clients, TakeRefusal(c) \/ CallFails(c) PROVE IInv'
  <2>1. TypeOK' /\ call'[c] = NoCall
    BY <1>0, <1>5, CallFacts DEF TakeRefusal, CallFails, TypeOK
  <2>2. HandInv(c)'
    BY <1>0, <1>5 DEF TakeRefusal, CallFails, HandInv, InBudget
  <2>3. AnswerInv(c)'
    BY <2>1 DEF AnswerInv, NoCall
  <2> QED BY <1>0, <1>5, <2>1, <2>2, <2>3, OneClient DEF TakeRefusal, CallFails, TypeOK
<1>6. ASSUME NEW c \in Clients, TakeRedirect(c) \/ Logout(c) PROVE IInv'
  <2>1. TypeOK' /\ frame'[c] = "login" /\ call'[c] = NoCall
    BY <1>0, <1>6, CallFacts DEF TakeRedirect, Logout, TypeOK
  <2>2. HandInv(c)' /\ AnswerInv(c)'
    BY <2>1 DEF HandInv, AnswerInv, NoCall
  <2> QED BY <1>0, <1>6, <2>1, <2>2, OneClient DEF TakeRedirect, Logout, TypeOK
<1>7. ASSUME NEW c \in Clients, NEW ip \in IPs, Moves(c, ip) PROVE IInv'
  BY <1>0, <1>7 DEF Moves, IInv, TypeOK, HandInv, AnswerInv, InBudget
<1>8. CASE Tick
  BY <1>0, <1>8, TokenAssumption DEF Tick, IInv, TypeOK, HandInv, AnswerInv, InBudget
<1>9. CASE UNCHANGED vars
  BY <1>0, <1>9 DEF vars, IInv, TypeOK, HandInv, AnswerInv, InBudget
<1> QED BY <1>1, <1>2, <1>3, <1>4, <1>5, <1>6, <1>7, <1>8, <1>9 DEF Next

LEMMA TokenInvariant == Spec => []IInv
<1>1. Init => IInv
  BY InitInv
<1>2. IInv /\ [Next]_vars => IInv'
  BY StepInv
<1> QED BY <1>1, <1>2, PTL DEF Spec

-------------------------------------------------------------------------------
(******************************* The theorems ******************************)

\* The variables keep their types: the hops of a token stay between 0 and
\* maximumHops, so generateToken never throws InvalidHopException.
THEOREM HopsInRange == Spec => []TypeOK
<1>1. IInv => TypeOK
  BY DEF IInv
<1> QED BY <1>1, TokenInvariant, PTL

\* A client's hops are spent on lists it has got and on nothing else.
THEOREM HopsPayForLists == Spec => []ListsPerLogin
<1>1. IInv => ListsPerLogin
  BY DEF IInv, HandInv, ListsPerLogin
<1> QED BY <1>1, TokenInvariant, PTL

\* A token that is valid in a client's hands belongs to a login that is less
\* than maximumHops * tokenDuration old.
THEOREM SessionsEnd == Spec => []SessionEnds
<1>1. ASSUME IInv, NEW c \in Clients, frame[c] = "landing",
             IsValidToken(token[c], address[c])
      PROVE  now < since[c] + maximumHops * tokenDuration
  <2> DEFINE left == maximumHops + 1 - token[c].hops
  <2>1. /\ token[c] \in Tokens /\ InBudget(token[c], since[c])
        /\ since[c] \in Nat /\ now \in Nat
    BY <1>1 DEF IInv, HandInv, TypeOK
  <2>2. token[c].hops \in 1 .. maximumHops /\ token[c].expires \in Int
    BY <1>1, <2>1, Bounds DEF Tokens, IsValidToken
  <2>3. left \in Int /\ left <= maximumHops /\ maximumHops \in Int
    BY <2>2, Bounds
  <2>4. left * tokenDuration <= maximumHops * tokenDuration
    BY <2>3, MoreHops
  <2>5. left * tokenDuration \in Int /\ maximumHops * tokenDuration \in Int
    BY <2>3, Bounds
  <2>6. token[c].expires <= since[c] + left * tokenDuration
    BY <2>1 DEF InBudget
  <2>7. now < token[c].expires
    BY <1>1 DEF IsValidToken
  <2> HIDE DEF left
  <2> QED BY <2>1, <2>2, <2>4, <2>5, <2>6, <2>7
<1>2. IInv => SessionEnds
  BY <1>1 DEF SessionEnds
<1> QED BY <1>2, TokenInvariant, PTL
===============================================================================
