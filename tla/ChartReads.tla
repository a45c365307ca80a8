---------------------------- MODULE ChartReads ----------------------------
(***************************************************************************)
(* What RetrieveChart promises its callers, without caches: there is a     *)
(* memory of what the remotes have served, which may lose anything at any  *)
(* moment and learns nothing but what a remote serves at that moment.  A   *)
(* call for a chart of a repository finds the chart's entry in an index    *)
(* that is remembered of that repository, and returns an archive that is   *)
(* remembered of the URL in that entry and not older than its digest; a    *)
(* call for a chart of a registry returns an archive that is remembered of *)
(* its reference.  Any call may fail instead.                              *)
(***************************************************************************)
EXTENDS Integers

CONSTANTS Request, Repository, Query, URL, OCIReference, Upload, IndexFile,
          None, Malformed

VARIABLES
    archive,   \* the remotes, as in the specifications of the caches
    index,
    archives,  \* the memory: sources with an archive that each has served,
    indexes,   \* and repositories with an index
    call       \* what each request has asked for, found or been given

remotes == <<archive, index>>
vars == <<remotes, archives, indexes, call>>

Ended(outcome) == [phase |-> outcome]
Asks(u, q) == [phase |-> "asking", repo |-> u, query |-> q]
Finds(url, digest) == [phase |-> "found", url |-> url, digest |-> digest]
Returns(a) == [phase |-> "done", archive |-> a]

Source == URL \cup OCIReference

Init ==
    /\ archive \in [Source -> Upload]
    /\ index \in [Repository -> IndexFile]
    /\ archives = {}
    /\ indexes = {}
    /\ call = [r \in Request |-> Ended("idle")]

\* In every step: what the memory gains is what a remote serves.
Memory ==
    /\ archives' \subseteq archives \cup {<<s, archive[s]>> : s \in Source}
    /\ indexes' \subseteq indexes \cup {<<u, index[u]>> : u \in Repository}

\* A request that is not served makes a call.
Ask(r) ==
    /\ call[r].phase \in {"idle", "done", "failed"}
    /\ \/ \E u \in Repository, q \in Query : call' = [call EXCEPT ![r] = Asks(u, q)]
       \/ \E o \in OCIReference : call' = [call EXCEPT ![r] = Finds(o, None)]
    /\ UNCHANGED remotes

Find(r) ==
    /\ call[r].phase = "asking"
    /\ \E m \in indexes :
        /\ m[1] = call[r].repo /\ m[2] # Malformed
        /\ LET entry == m[2][call[r].query] IN
            /\ entry # None
            /\ call' = [call EXCEPT ![r] = Finds(entry.url, entry.digest)]
    /\ UNCHANGED remotes

Return(r) ==
    /\ call[r].phase = "found"
    /\ \E m \in archives :
        /\ m[1] = call[r].url
        /\ call[r].digest # None => m[2] >= call[r].digest
        /\ call' = [call EXCEPT ![r] = Returns(m[2])]
    /\ UNCHANGED remotes

Fail(r) ==
    /\ call[r].phase \in {"asking", "found"}
    /\ call' = [call EXCEPT ![r] = Ended("failed")]
    /\ UNCHANGED remotes

\* The process is restarted.
Restart == call' = [r \in Request |-> Ended("idle")] /\ UNCHANGED remotes

\* The remotes come to serve something else, or only the memory changes.
Unnoticed == UNCHANGED call

Next ==
    /\ Memory
    /\ \/ Unnoticed
       \/ Restart
       \/ \E r \in Request : Ask(r) \/ Find(r) \/ Return(r) \/ Fail(r)

Spec == Init /\ [][Next]_vars
=============================================================================
