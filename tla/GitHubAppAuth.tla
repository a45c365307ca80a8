--------------------------- MODULE GitHubAppAuth ---------------------------
(***************************************************************************)
(* The token that authenticates git operations against GitHub.             *)
(*   internal/repository/git/authprovider.go                               *)
(*                                                                         *)
(* One GitHubAppAuthProvider serves all requests of a process.  GetAuth    *)
(* reads and writes its field p.token from many goroutines without a lock, *)
(* so every access is a step of its own:                                   *)
(*   checkNil -> checkExpiry -> use                                        *)
(*          \---------\--> create -> assign -> use                         *)
(* A read races with the writes of other goroutines: it may see them, or   *)
(* return again what this goroutine has read or written last.              *)
(*                                                                         *)
(* A token is abstracted to the time at which it expires.                  *)
(***************************************************************************)
EXTENDS Integers

CONSTANTS
    Goroutine,  \* goroutines that call GetAuth
    Nil,        \* no token; the getters of a nil token return zero values
    Lifetime,   \* time for which GitHub issues a token (one hour)
    Margin,     \* remaining lifetime below which it is replaced (30 seconds)
    Delay,      \* bound: time from a call, or from GitHub's answer, to return
    Horizon     \* bound of the clock

ASSUME AuthAssumption ==
    /\ Lifetime \in Nat /\ Margin \in Nat /\ Delay \in Nat /\ Horizon \in Nat
    /\ Delay < Margin
    /\ 2 * Delay < Lifetime
    /\ Nil \notin Nat

VARIABLES
    now,     \* the clock
    token,   \* p.token
    pc,      \* how far the call of each goroutine has come
    start,   \* the time at which it began
    loaded,  \* what it has last read from, or written to, p.token
    issued,  \* what CreateInstallationToken returned, Nil with an error
    mark,    \* ghost: when it began, or was answered by GitHub
    got,     \* the token whose string it has returned as password
    nulled   \* ghost: another call has stored Nil since it began

vars == <<now, token, pc, start, loaded, issued, mark, got, nulled>>

Active == {"checkNil", "checkExpiry", "create", "assign", "use"}
Token == Nat \cup {Nil}

TypeOK ==
    /\ now \in Nat
    /\ token \in Token
    /\ pc \in [Goroutine -> Active \cup {"idle", "done", "failed"}]
    /\ start \in [Goroutine -> Nat]
    /\ loaded \in [Goroutine -> Token]
    /\ issued \in [Goroutine -> Token]
    /\ mark \in [Goroutine -> Nat]
    /\ got \in [Goroutine -> Token]
    /\ nulled \in [Goroutine -> BOOLEAN]

Init ==
    /\ now = 0
    /\ token = Nil
    /\ pc = [g \in Goroutine |-> "idle"]
    /\ start = [g \in Goroutine |-> 0]
    /\ loaded = [g \in Goroutine |-> Nil]
    /\ issued = [g \in Goroutine |-> Nil]
    /\ mark = [g \in Goroutine |-> 0]
    /\ got = [g \in Goroutine |-> Nil]
    /\ nulled = [g \in Goroutine |-> FALSE]

\* What a read of p.token may return to a goroutine.
Readable(g) == {token, loaded[g]}

\* Mutant: a token is used to its last second.
Expired(g, t) == t = Nil \/ t < start[g]

\* t.GetExpiresAt().Before(next30Seconds); the zero time is before all others.
Expiring(g, t) == t = Nil \/ t < start[g] + Margin

-----------------------------------------------------------------------------
\* Mutant: the margin points into the past.
CallBehind(g) ==
    /\ pc[g] \notin Active
    /\ pc' = [pc EXCEPT ![g] = "checkNil"]
    /\ start' = [start EXCEPT ![g] = now - Margin]
    /\ mark' = [mark EXCEPT ![g] = now]
    /\ got' = [got EXCEPT ![g] = Nil]
    /\ nulled' = [nulled EXCEPT ![g] = FALSE]
    /\ UNCHANGED <<now, token, loaded, issued>>

\* GetAuth is called and takes the time.
Call(g) ==
    /\ pc[g] \notin Active
    /\ pc' = [pc EXCEPT ![g] = "checkNil"]
    /\ start' = [start EXCEPT ![g] = now]
    /\ mark' = [mark EXCEPT ![g] = now]
    /\ got' = [got EXCEPT ![g] = Nil]
    /\ nulled' = [nulled EXCEPT ![g] = FALSE]
    /\ UNCHANGED <<now, token, loaded, issued>>

\* p.token == nil
CheckNil(g) ==
    /\ pc[g] = "checkNil"
    /\ loaded' = [loaded EXCEPT ![g] = token]
    /\ pc' = [pc EXCEPT ![g] = IF token = Nil THEN "create" ELSE "checkExpiry"]
    /\ UNCHANGED <<now, token, start, issued, mark, got, nulled>>

\* p.token.GetExpiresAt().Before(next30Seconds)
CheckExpiry(g) ==
    /\ pc[g] = "checkExpiry"
    /\ \E t \in Readable(g) :
        /\ loaded' = [loaded EXCEPT ![g] = t]
        /\ pc' = [pc EXCEPT ![g] = IF Expiring(g, t) THEN "create" ELSE "use"]
    /\ UNCHANGED <<now, token, start, issued, mark, got, nulled>>

\* CreateInstallationToken returns a new token, or no token and an error.
Create(g) ==
    /\ pc[g] = "create"
    /\ \E t \in {now + Lifetime, Nil} : issued' = [issued EXCEPT ![g] = t]
    /\ mark' = [mark EXCEPT ![g] = now]
    /\ pc' = [pc EXCEPT ![g] = "assign"]
    /\ UNCHANGED <<now, token, start, loaded, got, nulled>>

\* Mutant: the error is not checked.
AssignUnchecked(g) ==
    /\ pc[g] = "assign"
    /\ token' = issued[g]
    /\ loaded' = [loaded EXCEPT ![g] = issued[g]]
    /\ issued' = [issued EXCEPT ![g] = Nil]
    /\ nulled' = [h \in Goroutine |->
                     nulled[h] \/ (h # g /\ pc[h] \in Active /\ issued[g] = Nil)]
    /\ pc' = [pc EXCEPT ![g] = "use"]
    /\ start' = [start EXCEPT ![g] = 0]
    /\ UNCHANGED <<now, mark, got>>

\* p.token is assigned whatever was returned; then the error is checked.
Assign(g) ==
    /\ pc[g] = "assign"
    /\ token' = issued[g]
    /\ loaded' = [loaded EXCEPT ![g] = issued[g]]
    /\ issued' = [issued EXCEPT ![g] = Nil]
    /\ nulled' = [h \in Goroutine |->
                     nulled[h] \/ (h # g /\ pc[h] \in Active /\ issued[g] = Nil)]
    /\ pc' = [pc EXCEPT ![g] = IF issued[g] = Nil THEN "failed" ELSE "use"]
    /\ start' = [start EXCEPT ![g] = 0]
    /\ UNCHANGED <<now, mark, got>>

\* p.token.GetToken() becomes the password.
Use(g) ==
    /\ pc[g] = "use"
    /\ \E t \in Readable(g) : got' = [got EXCEPT ![g] = t]
    /\ loaded' = [loaded EXCEPT ![g] = Nil]
    /\ mark' = [mark EXCEPT ![g] = 0]
    /\ pc' = [pc EXCEPT ![g] = "done"]
    /\ UNCHANGED <<now, token, start, issued, nulled>>

\* Time passes; no call waits longer than Delay between taking the time, or
\* being answered by GitHub, and returning.  A call of CreateInstallationToken
\* itself may take any time until it is answered.
Tick ==
    /\ now < Horizon
    /\ \A g \in Goroutine : pc[g] \in Active \ {"create"} => now < mark[g] + Delay
    /\ now' = now + 1
    /\ UNCHANGED <<token, pc, start, loaded, issued, mark, got, nulled>>

Next ==
    \/ \E g \in Goroutine :
        \/ Call(g)
        \/ CheckNil(g)
        \/ CheckExpiry(g)
        \/ Create(g)
        \/ Assign(g)
        \/ Use(g)
    \/ Tick

Spec == Init /\ [][Next]_vars

-----------------------------------------------------------------------------
\* A call that returns no error returns a token.  README.md:28 announces the
\* authentication; an empty password makes GitHub ask for credentials.
PasswordIsNotEmpty ==
    \A g \in Goroutine : pc[g] = "done" => got[g] # Nil

\* An empty password is returned only by a call during which another call
\* failed to obtain a token: never by a call that runs alone, nor because a
\* call before it has failed.
EmptyOnlyIfNulledMeanwhile ==
    \A g \in Goroutine : pc[g] = "done" /\ got[g] = Nil => nulled[g]

\* However the reads and writes of the field interleave, and even when a slow
\* call replaces the token with one that was issued earlier, the token that is
\* returned has not expired.
ReturnedTokenIsAlive ==
    [][\A g \in Goroutine :
           Use(g) /\ got'[g] # Nil => now < got'[g]]_vars
=============================================================================
