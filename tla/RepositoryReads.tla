-------------------------- MODULE RepositoryReads --------------------------
(***************************************************************************)
(* What RetrieveRepository promises its callers, without a cache: a call   *)
(* returns a commit its reference stood for at some moment since the call  *)
(* began, or fails.  For the references in Unresolved, which the code      *)
(* never resolves, nothing is promised but that some commit is returned.   *)
(***************************************************************************)
CONSTANTS Request, Repository, Commit, Name, Unresolved, None

VARIABLES
    tip,     \* what each reference of each repository points to
    phase,   \* of each call: "idle", "active", "done" or "failed"
    url,     \* its arguments
    ref,
    seen,    \* what its reference stood for since it began
    result   \* what it returned

vars == <<tip, phase, url, ref, seen, result>>

Target(u, f) == IF f \in Commit THEN f ELSE tip[u][f]

Init ==
    /\ tip \in [Repository -> [Name -> Commit]]
    /\ phase = [r \in Request |-> "idle"]
    /\ url = [r \in Request |-> None]
    /\ ref = [r \in Request |-> None]
    /\ seen = [r \in Request |-> {}]
    /\ result = [r \in Request |-> None]

Begin(r) ==
    /\ phase[r] # "active"
    /\ \E u \in Repository, f \in Name \cup Commit :
        /\ url' = [url EXCEPT ![r] = u]
        /\ ref' = [ref EXCEPT ![r] = f]
        /\ seen' = [seen EXCEPT ![r] = {Target(u, f)} \ {None}]
    /\ phase' = [phase EXCEPT ![r] = "active"]
    /\ result' = [result EXCEPT ![r] = None]
    /\ UNCHANGED tip

Return(r) ==
    /\ phase[r] = "active"
    /\ \E c \in IF ref[r] \in Unresolved THEN Commit ELSE seen[r] :
        result' = [result EXCEPT ![r] = c]
    /\ phase' = [phase EXCEPT ![r] = "done"]
    /\ UNCHANGED <<tip, url, ref, seen>>

\* Calls end without a result: one that fails, or all of those of a process
\* that is restarted.
Abandon(requests, outcome) ==
    /\ phase' = [r \in Request |-> IF r \in requests THEN outcome ELSE phase[r]]
    /\ url' = [r \in Request |-> IF r \in requests THEN None ELSE url[r]]
    /\ ref' = [r \in Request |-> IF r \in requests THEN None ELSE ref[r]]
    /\ seen' = [r \in Request |-> IF r \in requests THEN {} ELSE seen[r]]
    /\ result' = [r \in Request |-> IF r \in requests THEN None ELSE result[r]]
    /\ UNCHANGED tip

Fail(r) == phase[r] = "active" /\ Abandon({r}, "failed")

Push(u, n) ==
    /\ \E c \in Commit \cup {None} :
        /\ tip' = [tip EXCEPT ![u] = [@ EXCEPT ![n] = c]]
        /\ seen' = [r \in Request |->
              IF phase[r] = "active" /\ url[r] = u /\ ref[r] = n
              THEN seen[r] \cup ({c} \ {None})
              ELSE seen[r]]
    /\ UNCHANGED <<phase, url, ref, result>>

Next ==
    \/ \E r \in Request : Begin(r) \/ Return(r) \/ Fail(r)
    \/ \E R \in SUBSET Request : Abandon(R, "idle")
    \/ \E u \in Repository, n \in Name : Push(u, n)

Spec == Init /\ [][Next]_vars
=============================================================================
