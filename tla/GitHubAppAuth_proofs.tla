------------------------ MODULE GitHubAppAuth_proofs ------------------------
(***************************************************************************)
(* Proofs about GitHubAppAuth for any number of goroutines: when a call    *)
(* can return an empty password, and that a token it returns is alive.     *)
(***************************************************************************)
EXTENDS GitHubAppAuth, TLAPS

\* A call that has seen a token holds one; if the field has become Nil since,
\* another call has stored that Nil.
SeenToken(g) ==
    /\ pc[g] = "checkExpiry" => loaded[g] # Nil \/ nulled[g]
    /\ pc[g] = "use" => loaded[g] # Nil
    /\ pc[g] \in {"checkExpiry", "use"} /\ token = Nil => nulled[g]
    /\ pc[g] = "done" /\ got[g] = Nil => nulled[g]

\* Between being answered and storing the answer, the token is fresh; no step
\* but the request to GitHub takes longer than Delay.
Punctual(g) ==
    /\ mark[g] <= now
    /\ pc[g] \in Active \ {"create"} => now <= mark[g] + Delay
    /\ pc[g] \in {"checkNil", "checkExpiry"} => start[g] = mark[g]
    /\ pc[g] = "assign" /\ issued[g] # Nil => issued[g] = mark[g] + Lifetime

\* The token in the field is the one the call has loaded, or was stored by
\* another call in the meantime, and so was issued shortly before.
FieldIsRecent(g) ==
    pc[g] \in {"checkExpiry", "use"} =>
        \/ token \in {Nil, loaded[g]}
        \/ token >= mark[g] + Lifetime - Delay

\* A call that is about to return has loaded a token that outlives it.
LoadedIsAlive(g) ==
    pc[g] = "use" =>
        \/ loaded[g] >= mark[g] + Margin
        \/ loaded[g] >= mark[g] + Lifetime - Delay

CallOK(g) == SeenToken(g) /\ Punctual(g) /\ FieldIsRecent(g) /\ LoadedIsAlive(g)

Inv == TypeOK /\ \A g \in Goroutine : CallOK(g)

-----------------------------------------------------------------------------
USE AuthAssumption

\* The token, the clock and the locals of every call keep their types.
THEOREM TypeCorrectness == Spec => []TypeOK
<1>1. Init => TypeOK
  BY DEF Init, TypeOK, Token, Active
<1>2. TypeOK /\ [Next]_vars => TypeOK'
  <2> SUFFICES ASSUME TypeOK, [Next]_vars PROVE TypeOK'
    OBVIOUS
  <2> USE DEF TypeOK, Token, Active
  <2>1. ASSUME NEW g \in Goroutine, Call(g) PROVE TypeOK'
    BY <2>1 DEF Call
  <2>2. ASSUME NEW g \in Goroutine, CheckNil(g) PROVE TypeOK'
    BY <2>2 DEF CheckNil
  <2>3. ASSUME NEW g \in Goroutine, CheckExpiry(g) PROVE TypeOK'
    BY <2>3 DEF CheckExpiry, Readable
  <2>4. ASSUME NEW g \in Goroutine, Create(g) PROVE TypeOK'
    BY <2>4 DEF Create
  <2>5. ASSUME NEW g \in Goroutine, Assign(g) PROVE TypeOK'
    BY <2>5 DEF Assign
  <2>6. ASSUME NEW g \in Goroutine, Use(g) PROVE TypeOK'
    BY <2>6 DEF Use, Readable
  <2>7. CASE Tick
    BY <2>7 DEF Tick
  <2>8. CASE UNCHANGED vars
    BY <2>8 DEF vars
  <2> QED BY <2>1, <2>2, <2>3, <2>4, <2>5, <2>6, <2>7, <2>8 DEF Next
<1> QED BY <1>1, <1>2, PTL DEF Spec

LEMMA CallsInit == Init => \A g \in Goroutine : CallOK(g)
<1> SUFFICES ASSUME Init, NEW g \in Goroutine PROVE CallOK(g)
  OBVIOUS
<1>1. pc[g] = "idle" /\ mark[g] = 0 /\ now = 0
  BY DEF Init
<1> QED BY <1>1 DEF CallOK, SeenToken, Punctual, FieldIsRecent, LoadedIsAlive,
                    Active

\* Every step keeps what is known of every call h, its own or another's.
LEMMA CallsStep ==
    ASSUME Inv, TypeOK', [Next]_vars, NEW h \in Goroutine
    PROVE  CallOK(h)'
<1> USE DEF Inv, TypeOK, Token, CallOK, SeenToken, Punctual, FieldIsRecent,
            LoadedIsAlive, Active
<1>1. ASSUME NEW g \in Goroutine, Call(g) PROVE CallOK(h)'
  BY <1>1 DEF Call
<1>2. ASSUME NEW g \in Goroutine, CheckNil(g) PROVE CallOK(h)'
  BY <1>2 DEF CheckNil
<1>3. ASSUME NEW g \in Goroutine, CheckExpiry(g) PROVE CallOK(h)'
  BY <1>3 DEF CheckExpiry, Readable, Expiring
<1>4. ASSUME NEW g \in Goroutine, Create(g) PROVE CallOK(h)'
  BY <1>4 DEF Create
<1>5. ASSUME NEW g \in Goroutine, Assign(g) PROVE CallOK(h)'
  <2>1. /\ pc[g] = "assign" /\ token' = issued[g]
        /\ mark[g] <= now /\ now <= mark[g] + Delay
        /\ issued[g] # Nil => issued[g] = mark[g] + Lifetime
        /\ UNCHANGED <<now, mark, got>>
    BY <1>5 DEF Assign
  <2>2. CASE h = g
    <3>1. /\ pc'[h] = IF issued[g] = Nil THEN "failed" ELSE "use"
          /\ loaded'[h] = issued[g]
      BY <1>5, <2>2 DEF Assign
    <3> QED BY <2>1, <2>2, <3>1
  <2>3. CASE h # g
    <3>1. /\ UNCHANGED <<pc[h], loaded[h], start[h], issued[h]>>
          /\ nulled'[h] = (nulled[h] \/ (pc[h] \in Active /\ issued[g] = Nil))
      BY <1>5, <2>3 DEF Assign
    <3>2. FieldIsRecent(h)'
      BY <2>1, <3>1
    <3>3. SeenToken(h)'
      BY <2>1, <3>1
    <3> QED BY <2>1, <3>1, <3>2, <3>3
  <2> QED BY <2>2, <2>3
<1>6. ASSUME NEW g \in Goroutine, Use(g) PROVE CallOK(h)'
  BY <1>6 DEF Use, Readable
<1>7. CASE Tick
  BY <1>7 DEF Tick
<1>8. CASE UNCHANGED vars
  BY <1>8 DEF vars
<1> QED BY <1>1, <1>2, <1>3, <1>4, <1>5, <1>6, <1>7, <1>8 DEF Next

THEOREM Invariance == Spec => []Inv
<1>1. Init => \A g \in Goroutine : CallOK(g)
  BY CallsInit
<1>2. Inv /\ TypeOK' /\ [Next]_vars => Inv'
  BY CallsStep DEF Inv
<1>3. TypeOK /\ (\A g \in Goroutine : CallOK(g)) => Inv
  BY DEF Inv
<1> QED BY <1>1, <1>2, <1>3, TypeCorrectness, PTL DEF Spec

\* An empty password needs another call that fails during this one.
THEOREM EmptyPasswords == Spec => []EmptyOnlyIfNulledMeanwhile
<1>1. Inv => EmptyOnlyIfNulledMeanwhile
  BY DEF Inv, CallOK, SeenToken, EmptyOnlyIfNulledMeanwhile
<1> QED BY <1>1, Invariance, PTL

\* Whatever token is returned has not expired, if no call is delayed by more
\* than the margin and half the lifetime.
THEOREM TokensAreAlive == Spec => ReturnedTokenIsAlive
<1>1. Inv /\ [Next]_vars =>
          [\A g \in Goroutine : Use(g) /\ got'[g] # Nil => now < got'[g]]_vars
  <2> SUFFICES ASSUME Inv, NEW g \in Goroutine, Use(g), got'[g] # Nil
               PROVE  now < got'[g]
    OBVIOUS
  <2>1. got'[g] \in {token, loaded[g]}
    BY DEF Use, Readable, Inv, TypeOK
  <2> QED BY <2>1 DEF Inv, CallOK, Punctual, FieldIsRecent, LoadedIsAlive,
                      TypeOK, Token, Use, Active
<1> QED BY <1>1, Invariance, PTL DEF Spec, ReturnedTokenIsAlive
=============================================================================
