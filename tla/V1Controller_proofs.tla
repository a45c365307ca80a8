------------------------ MODULE V1Controller_proofs -------------------------
(***************************************************************************)
(* Proofs about a request: the chart provider it calls (ChartProvider),    *)
(* for any number of dependencies; the kustomization (Kustomization), for  *)
(* any trees and requests; and the controller around them.                 *)
(*                                                                         *)
(* The invariant of the provider follows a dependency from the slot that   *)
(* declares it, through its place in remoteDeps and the goroutine at that  *)
(* place, back to the same slot.  That of the kustomization says of every  *)
(* file where it comes from.  That of the controller says what is known of *)
(* the error that is kept when the answer is written.                      *)
(***************************************************************************)
EXTENDS V1Controller, TLAPS

Position == 1..Len(remote)

\* The first pass has dealt with the dependencies up to n.
PassedUpTo(n) ==
    /\ \A i \in 1..n :
           IF Local(declared[i]) = "same"
           THEN resolved[i] = <<i, "local">>
           ELSE \E k \in Position : remote[k] = i
    /\ \A k \in Position : Local(declared[remote[k]]) # "same"
    /\ Len(remote) <= n

\* The goroutines that have ended without an error have filled their slots.
GroupOK ==
    /\ \A k \in Slot : worker[k] # "none" => k \in Position
    /\ err = None =>
           \A k \in Position :
               worker[k] = "ended" => resolved[remote[k]] = <<remote[k], "remote">>
    /\ cancelled /\ pc \in {"source", "first", "spawn", "wait"} => err # None
    /\ err = "cancelled" => clientGone

\* An error is blamed on a dependency only if one is unusable.
Blame(error) ==
    error = "dependency" =>
        \E i \in Slot :
            \/ ~declared[i].valid
            \/ Local(declared[i]) = "broken"
            \/ Local(declared[i]) # "same" /\ ~Retrievable(declared[i])

\* What holds at each place of the code.
PlaceOK ==
    /\ pc \in {"source", "first"} =>
           err = None /\ \A k \in Slot : worker[k] = "none"
    /\ pc = "source" => next = 1 /\ remote = <<>>
    /\ pc \in {"source", "first", "spawn", "wait"} => added = <<>>
    /\ pc = "first" => PassedUpTo(next - 1)
    /\ pc \in {"spawn", "wait"} => PassedUpTo(Dependencies)
    /\ pc = "add" =>
           /\ \A i \in Slot : resolved[i] = Expected(i)
           /\ added = [j \in 1..(next - 1) |-> Expected(j)]
    /\ pc \in {"add", "returned"} => \A k \in Slot : worker[k] # "running"
    /\ outcome # None => pc = "returned"
    /\ outcome = "built" => added = [i \in Slot |-> Expected(i)]
    /\ outcome = "cancelled" => clientGone

Inv == TypeOK /\ GroupOK /\ PlaceOK /\ Blame(err) /\ Blame(outcome)

-----------------------------------------------------------------------------
USE ProviderAssumption, NoneIsNoChart

\* What is expected of a dependency is a chart.
LEMMA ExpectedIsChart ==
    ASSUME NEW i \in Slot
    PROVE  Expected(i) \in Chart
BY DEF Expected, Chart

\* Adding one more chart continues the sequence of those that were added.
LEMMA AppendContinues ==
    ASSUME NEW n \in Nat, NEW f, NEW s, s = [j \in 1..n |-> f[j]],
           NEW t, t = Append(s, f[n + 1])
    PROVE  t = [j \in 1..(n + 1) |-> f[j]]
<1>1. s \in Seq({f[j] : j \in 1..n}) /\ Len(s) = n
  OBVIOUS
<1> QED BY <1>1

LEMMA InitInv == Init => Inv
<1> SUFFICES ASSUME Init PROVE Inv
  OBVIOUS
<1>1. TypeOK
  <2>1. next \in 1..(Dependencies + 1)
    BY DEF Init
  <2>2. remote \in Seq(Slot) /\ added \in Seq(Chart)
    BY DEF Init
  <2>3. /\ resolved \in [Slot -> Chart \cup {None}]
        /\ worker \in [Slot -> {"none", "running", "ended"}]
        /\ declared \in [Slot -> Declared]
    BY DEF Init
  <2> QED BY <2>1, <2>2, <2>3 DEF Init, TypeOK
<1>2. GroupOK /\ PlaceOK /\ Blame(err) /\ Blame(outcome)
  BY DEF Init, GroupOK, PlaceOK, Blame, Position
<1> QED BY <1>1, <1>2 DEF Inv

LEMMA NextType == Inv /\ [Next]_vars => TypeOK'
<1> SUFFICES ASSUME Inv, [Next]_vars PROVE TypeOK'
  OBVIOUS
<1> USE DEF TypeOK
<1>0. TypeOK
  BY DEF Inv
<1>1. CASE Source
  BY <1>0, <1>1 DEF Source, Return, group
<1>2. CASE ResolveLocally
  <2>1. <<next, "local">> \in Chart
    BY <1>2 DEF ResolveLocally, Chart
  <2> QED BY <1>0, <1>2, <2>1 DEF ResolveLocally, group, Slot
<1>3. CASE DeferToRemote
  BY <1>0, <1>3 DEF DeferToRemote, group, Slot
<1>4. CASE Reject
  BY <1>0, <1>4 DEF Reject, Return, group
<1>5. CASE EndFirstPass
  BY <1>0, <1>5 DEF EndFirstPass, group
<1>6. CASE Spawn
  <2>1. next + 1 \in 1..(Dependencies + 1)
    BY <1>0, <1>6 DEF Spawn, Inv, PlaceOK, PassedUpTo
  <2> QED BY <1>0, <1>6, <2>1 DEF Spawn
<1>7. CASE EndSpawn
  BY <1>0, <1>7 DEF EndSpawn, group
<1>8. ASSUME NEW k \in Slot, Retrieve(k) PROVE TypeOK'
  <2>1. k \in Position
    BY <1>8 DEF Inv, GroupOK, Retrieve
  <2>2. remote[k] \in Slot /\ <<remote[k], "remote">> \in Chart
    BY <1>0, <2>1 DEF Position, Chart
  <2> QED BY <1>0, <1>8, <2>2 DEF Retrieve
<1>9. ASSUME NEW k \in Slot, FailToRetrieve(k) \/ NoticeCancel(k) PROVE TypeOK'
  BY <1>0, <1>9 DEF FailToRetrieve, NoticeCancel, EndWithError
<1>10. CASE Wait
  BY <1>0, <1>10 DEF Wait, Return
<1>11. CASE Add
  <2>1. resolved[next] # None => resolved[next] \in Chart
    BY <1>0, <1>11 DEF Add
  <2>2. added' \in Seq(Chart)
    BY <1>0, <1>11, <2>1 DEF Add
  <2> QED BY <1>0, <1>11, <2>2 DEF Add, group, Slot
<1>12. CASE Build
  BY <1>0, <1>12 DEF Build, Return, group
<1>13. CASE ClientLeaves
  BY <1>0, <1>13 DEF ClientLeaves, group
<1>14. CASE UNCHANGED vars
  BY <1>0, <1>14 DEF vars
<1> QED
  BY <1>1, <1>2, <1>3, <1>4, <1>5, <1>6, <1>7, <1>8, <1>9, <1>10, <1>11,
     <1>12, <1>13, <1>14
  DEF Next, CallStep, WorkerStep

\* The goroutines write the slots they were given and keep the first error.
LEMMA NextGroup == Inv /\ [Next]_vars => GroupOK' /\ Blame(err)'
<1> SUFFICES ASSUME Inv, [Next]_vars PROVE GroupOK' /\ Blame(err)'
  OBVIOUS
<1> USE DEF GroupOK, Blame, Position
<1>0. TypeOK /\ GroupOK /\ PlaceOK /\ Blame(err)
  BY DEF Inv
<1>1. CASE Source
  BY <1>0, <1>1 DEF Source, Return, group, PlaceOK
<1>2. CASE ResolveLocally
  <2>1. Position \subseteq Slot
    BY <1>0, <1>2 DEF ResolveLocally, PlaceOK, PassedUpTo, TypeOK, Slot
  <2>2. \A k \in Position : worker[k] = "none"
    BY <1>0, <1>2, <2>1 DEF ResolveLocally, PlaceOK
  <2>3. UNCHANGED <<declared, pc, remote, worker, err, cancelled, clientGone>>
    BY <1>2 DEF ResolveLocally, group
  <2>4. GroupOK'
    BY <1>0, <2>2, <2>3
  <2>5. Blame(err)'
    BY <1>0, <2>3
  <2> QED BY <2>4, <2>5
<1>3. CASE DeferToRemote
  <2>1. UNCHANGED <<declared, pc, worker, err, cancelled, clientGone>>
    BY <1>3 DEF DeferToRemote, group
  <2>2. Len(remote') = Len(remote) + 1 /\ Len(remote) \in Nat
    BY <1>0, <1>3 DEF DeferToRemote, TypeOK
  <2>3. Len(remote') <= Dependencies
    BY <1>0, <1>3, <2>2 DEF DeferToRemote, PlaceOK, PassedUpTo, TypeOK, Slot
  <2>4. \A k \in 1..Len(remote') : worker[k] = "none"
    BY <1>0, <1>3, <2>2, <2>3 DEF DeferToRemote, PlaceOK, Slot
  <2>5. GroupOK'
    BY <1>0, <1>3, <2>1, <2>2, <2>4 DEF DeferToRemote, PlaceOK
  <2>6. Blame(err)'
    BY <1>0, <2>1
  <2> QED BY <2>5, <2>6
<1>4. CASE Reject
  BY <1>0, <1>4 DEF Reject, Return, group
<1>5. CASE EndFirstPass
  BY <1>0, <1>5 DEF EndFirstPass, group, PlaceOK
<1>6. CASE Spawn
  BY <1>0, <1>6 DEF Spawn, TypeOK, Slot
<1>7. CASE EndSpawn
  BY <1>0, <1>7 DEF EndSpawn, group
<1>8. ASSUME NEW k \in Slot, Retrieve(k) PROVE GroupOK' /\ Blame(err)'
  <2>1. k \in Position
    BY <1>0, <1>8 DEF Retrieve
  <2>2. \A l \in Position : remote[l] \in Slot
    BY <1>0 DEF TypeOK
  <2>3. /\ resolved' = [resolved EXCEPT ![remote[k]] = <<remote[k], "remote">>]
        /\ worker' = [worker EXCEPT ![k] = "ended"]
        /\ UNCHANGED <<declared, pc, remote, err, cancelled, clientGone>>
    BY <1>8 DEF Retrieve
  <2>4. ASSUME NEW l \in Position, worker'[l] = "ended", err = None
        PROVE  resolved'[remote[l]] = <<remote[l], "remote">>
    BY <1>0, <2>1, <2>2, <2>3, <2>4 DEF TypeOK
  <2> QED BY <1>0, <2>1, <2>3, <2>4 DEF TypeOK
<1>9. ASSUME NEW k \in Slot, FailToRetrieve(k) PROVE GroupOK' /\ Blame(err)'
  <2>1. k \in Position /\ remote[k] \in Slot
    BY <1>0, <1>9 DEF FailToRetrieve, TypeOK
  <2>2. Local(declared[remote[k]]) # "same"
    BY <1>0, <1>9, <2>1 DEF FailToRetrieve, PlaceOK, PassedUpTo, TypeOK
  <2> QED BY <1>0, <1>9, <2>1, <2>2 DEF FailToRetrieve, EndWithError, TypeOK
<1>10. ASSUME NEW k \in Slot, NoticeCancel(k) PROVE GroupOK' /\ Blame(err)'
  <2>1. err = None => clientGone
    BY <1>0, <1>10 DEF NoticeCancel, PlaceOK, TypeOK
  <2> QED BY <1>0, <1>10, <2>1 DEF NoticeCancel, EndWithError, TypeOK
<1>11. CASE Wait
  BY <1>0, <1>11 DEF Wait, Return
<1>12. CASE Add
  BY <1>0, <1>12 DEF Add, group
<1>13. CASE Build
  BY <1>0, <1>13 DEF Build, Return, group
<1>14. CASE ClientLeaves
  BY <1>0, <1>14 DEF ClientLeaves, group
<1>15. CASE UNCHANGED vars
  BY <1>0, <1>15 DEF vars
<1> QED
  BY <1>1, <1>2, <1>3, <1>4, <1>5, <1>6, <1>7, <1>8, <1>9, <1>10, <1>11,
     <1>12, <1>13, <1>14, <1>15
  DEF Next, CallStep, WorkerStep

\* Nothing but the first pass and the goroutines writes the slots, and a
\* goroutine writes none that was filled in the first pass.
LEMMA PassedStays ==
    ASSUME TypeOK, NEW n \in Nat, PassedUpTo(n),
           UNCHANGED <<declared, remote>>,
           \/ resolved' = resolved
           \/ \E k \in Position :
                 resolved' = [resolved EXCEPT ![remote[k]] = <<remote[k], "remote">>]
    PROVE  PassedUpTo(n)'
<1>1. CASE resolved' = resolved
  BY <1>1 DEF PassedUpTo, Position
<1>2. ASSUME NEW k \in Position,
             resolved' = [resolved EXCEPT ![remote[k]] = <<remote[k], "remote">>]
      PROVE  PassedUpTo(n)'
  <2>1. Local(declared[remote[k]]) # "same"
    BY DEF PassedUpTo
  <2>2. \A i \in 1..n : Local(declared[i]) = "same" => resolved'[i] = resolved[i]
    BY <1>2, <2>1 DEF TypeOK
  <2> QED BY <2>2 DEF PassedUpTo, Position
<1> QED BY <1>1, <1>2

\* The place of the code tells what has been done.
LEMMA NextPlace == Inv /\ [Next]_vars => PlaceOK' /\ Blame(outcome)'
<1> SUFFICES ASSUME Inv, [Next]_vars PROVE PlaceOK' /\ Blame(outcome)'
  OBVIOUS
<1>0. TypeOK /\ GroupOK /\ PlaceOK /\ Blame(err) /\ Blame(outcome)
  BY DEF Inv
<1>1. CASE Source
  <2>1. Position = {} /\ Len(remote) = 0 /\ next = 1
    BY <1>0, <1>1 DEF Source, PlaceOK, Position
  <2>2. UNCHANGED <<declared, next, resolved, remote, worker, err, clientGone, added>>
    BY <1>1 DEF Source, group
  <2>3. PassedUpTo(next - 1)'
    BY <2>1, <2>2 DEF PassedUpTo, Position
  <2> QED BY <1>0, <1>1, <2>2, <2>3 DEF Source, Return, PlaceOK, Blame
<1>2. CASE ResolveLocally
  <2>1. /\ pc = "first" /\ next \in 1..Dependencies /\ PassedUpTo(next - 1)
        /\ Local(declared[next]) = "same"
        /\ resolved' = [resolved EXCEPT ![next] = <<next, "local">>]
        /\ next' = next + 1
        /\ UNCHANGED <<declared, pc, remote, worker, err, clientGone, added, outcome>>
    BY <1>0, <1>2 DEF ResolveLocally, group, Slot, PlaceOK
  <2>2. PassedUpTo(next - 1)'
    <3>1. next' - 1 = next /\ next \in Nat
      BY <2>1
    <3>2. \A i \in 1..next : i = next \/ i \in 1..(next - 1)
      BY <2>1
    <3>3. \A i \in 1..(next - 1) : resolved'[i] = resolved[i]
      BY <1>0, <2>1 DEF TypeOK
    <3>4. resolved'[next] = <<next, "local">>
      BY <1>0, <2>1 DEF TypeOK, Slot
    <3>5. Len(remote) <= next
      BY <1>0, <2>1 DEF PassedUpTo, TypeOK
    <3> QED BY <2>1, <3>1, <3>2, <3>3, <3>4, <3>5 DEF PassedUpTo, Position
  <2> QED BY <1>0, <2>1, <2>2 DEF PlaceOK, Blame
<1>3. CASE DeferToRemote
  <2>1. /\ pc = "first" /\ next \in 1..Dependencies /\ PassedUpTo(next - 1)
        /\ Local(declared[next]) # "same"
        /\ remote' = Append(remote, next)
        /\ next' = next + 1
        /\ UNCHANGED <<declared, pc, resolved, worker, err, clientGone, added, outcome>>
    BY <1>0, <1>3 DEF DeferToRemote, group, Slot, PlaceOK
  <2>2. /\ Len(remote') = Len(remote) + 1 /\ Len(remote) \in Nat
        /\ remote'[Len(remote) + 1] = next
        /\ \A k \in 1..Len(remote) : remote'[k] = remote[k]
    BY <1>0, <2>1 DEF TypeOK
  <2>3. PassedUpTo(next - 1)'
    <3>1. next' - 1 = next /\ next \in Nat
      BY <2>1
    <3>2. \A i \in 1..next : i = next \/ i \in 1..(next - 1)
      BY <2>1
    <3>3. \A k \in Position' : k = Len(remote) + 1 \/ k \in Position
      BY <2>2 DEF Position
    <3>4. Position \subseteq Position' /\ Len(remote) + 1 \in Position'
      BY <2>2 DEF Position
    <3>5. Len(remote') <= next
      BY <2>1, <2>2 DEF PassedUpTo
    <3>6. \A i \in 1..next : IF Local(declared[i]) = "same"
                             THEN resolved[i] = <<i, "local">>
                             ELSE \E k \in Position' : remote'[k] = i
      BY <2>1, <2>2, <3>2, <3>4 DEF PassedUpTo, Position
    <3>7. \A k \in Position' : Local(declared[remote'[k]]) # "same"
      BY <2>1, <2>2, <3>3 DEF PassedUpTo, Position
    <3> QED BY <2>1, <3>1, <3>5, <3>6, <3>7 DEF PassedUpTo, Position
  <2> QED BY <1>0, <2>1, <2>3 DEF PlaceOK, Blame
<1>4. CASE Reject
  <2>1. /\ pc = "first" /\ next \in Slot
        /\ ~declared[next].valid \/ Local(declared[next]) = "broken"
        /\ pc' = "returned" /\ outcome' = "dependency"
        /\ UNCHANGED <<declared, worker>>
    BY <1>4 DEF Reject, Return, group
  <2>2. \A k \in Slot : worker[k] = "none"
    BY <1>0, <2>1 DEF PlaceOK
  <2> QED BY <2>1, <2>2 DEF PlaceOK, Blame
<1>5. CASE EndFirstPass
  <2>1. /\ pc = "first" /\ next = Dependencies + 1
        /\ pc' = IF remote = <<>> THEN "add" ELSE "spawn"
        /\ next' = 1
        /\ UNCHANGED <<declared, resolved, remote, worker, err, clientGone, added, outcome>>
    BY <1>0, <1>5 DEF EndFirstPass, group, Slot, TypeOK
  <2>2. PassedUpTo(Dependencies) /\ added = <<>>
    BY <1>0, <2>1 DEF PlaceOK
  <2>3. PassedUpTo(Dependencies)'
    BY <2>1, <2>2 DEF PassedUpTo, Position
  <2>4. ASSUME remote = <<>>
        PROVE  \A i \in Slot : resolved[i] = Expected(i)
    <3>1. Position = {}
      BY <2>4 DEF Position
    <3> QED BY <2>2, <3>1 DEF PassedUpTo, Slot, Expected
  <2>5. added' = [j \in 1..(next' - 1) |-> Expected(j)]
    BY <2>1, <2>2
  <2>6. \A i \in Slot : Expected(i)' = Expected(i)
    BY <2>1 DEF Expected
  <2> QED BY <1>0, <2>1, <2>2, <2>3, <2>4, <2>5, <2>6 DEF PlaceOK, Blame
<1>6. CASE Spawn
  <2>1. PassedUpTo(Dependencies)'
    BY <1>0, <1>6, PassedStays DEF Spawn, PlaceOK
  <2> QED BY <1>0, <1>6, <2>1 DEF Spawn, PlaceOK, Blame
<1>7. CASE EndSpawn
  <2>1. PassedUpTo(Dependencies)'
    BY <1>0, <1>7, PassedStays DEF EndSpawn, PlaceOK
  <2> QED BY <1>0, <1>7, <2>1 DEF EndSpawn, PlaceOK, Blame, group
<1>8. ASSUME NEW k \in Slot, WorkerStep(k) PROVE PlaceOK' /\ Blame(outcome)'
  <2>1. k \in Position /\ pc \in {"spawn", "wait"}
    BY <1>0, <1>8
    DEF WorkerStep, Retrieve, FailToRetrieve, NoticeCancel, GroupOK, PlaceOK,
        TypeOK
  <2>2. PassedUpTo(Dependencies)'
    BY <1>0, <1>8, <2>1, PassedStays
    DEF WorkerStep, Retrieve, FailToRetrieve, NoticeCancel, EndWithError, PlaceOK
  <2>3. UNCHANGED <<declared, pc, next, added, outcome>>
    BY <1>8
    DEF WorkerStep, Retrieve, FailToRetrieve, NoticeCancel, EndWithError
  <2> QED BY <1>0, <2>1, <2>2, <2>3 DEF PlaceOK, Blame
<1>9. CASE Wait
  <2>1. /\ pc = "wait" /\ PassedUpTo(Dependencies)
        /\ \A k \in Position : worker[k] = "ended"
        /\ next' = 1 /\ added = <<>>
        /\ UNCHANGED <<declared, resolved, remote, worker, err, clientGone, added>>
    BY <1>0, <1>9 DEF Wait, PlaceOK, Position
  <2>2. \A k \in Slot : worker[k] # "running"
    BY <1>0, <2>1 DEF GroupOK
  <2>3. CASE err = None
    <3>1. \A i \in Slot : resolved[i] = Expected(i)
      BY <1>0, <2>1, <2>3 DEF PassedUpTo, GroupOK, Expected, Slot
    <3>2. added' = [j \in 1..(next' - 1) |-> Expected(j)]
      BY <2>1
    <3>3. pc' = "add" /\ outcome' = outcome
      BY <1>9, <2>3 DEF Wait
    <3>4. \A i \in Slot : Expected(i)' = Expected(i)
      BY <2>1 DEF Expected
    <3> QED BY <1>0, <2>1, <2>2, <3>1, <3>2, <3>3, <3>4 DEF PlaceOK, Blame
  <2>4. CASE err # None
    <3>1. pc' = "returned" /\ outcome' = err
      BY <1>9, <2>4 DEF Wait, Return
    <3>2. err \in {"dependency", "cancelled"}
      BY <1>0, <2>4 DEF TypeOK
    <3> QED BY <1>0, <2>1, <2>2, <3>1, <3>2 DEF PlaceOK, Blame, GroupOK
  <2> QED BY <2>3, <2>4
<1>10. CASE Add
  <2>1. /\ pc = "add" /\ next \in 1..Dependencies
        /\ resolved[next] = Expected(next)
        /\ added = [j \in 1..(next - 1) |-> Expected(j)]
        /\ next' = next + 1
        /\ UNCHANGED <<declared, pc, resolved, remote, worker, err, clientGone, outcome>>
    BY <1>0, <1>10 DEF Add, group, Slot, PlaceOK
  <2>2. added' = Append(added, Expected(next))
    BY <1>10, <2>1, ExpectedIsChart DEF Add, Slot
  <2>3. added' = [j \in 1..next |-> Expected(j)]
    <3> DEFINE f == [i \in Slot |-> Expected(i)]
    <3>1. added = [j \in 1..(next - 1) |-> f[j]] /\ Expected(next) = f[next]
      BY <2>1 DEF Slot
    <3>2. next - 1 \in Nat /\ (next - 1) + 1 = next
      BY <2>1
    <3>3. [j \in 1..next |-> f[j]] = [j \in 1..next |-> Expected(j)]
      BY <2>1 DEF Slot
    <3> HIDE DEF f
    <3> QED BY <2>2, <3>1, <3>2, <3>3, AppendContinues
  <2>4. \A i : Expected(i)' = Expected(i)
    BY <2>1 DEF Expected
  <2> QED BY <1>0, <2>1, <2>3, <2>4 DEF PlaceOK, Blame
<1>11. CASE Build
  <2>1. /\ pc = "add" /\ next = Dependencies + 1
        /\ pc' = "returned" /\ outcome' = "built"
        /\ UNCHANGED <<declared, worker, added>>
    BY <1>0, <1>11 DEF Build, Return, group, TypeOK, Slot
  <2>2. added' = [i \in Slot |-> Expected(i)]
    BY <1>0, <2>1 DEF PlaceOK, Slot
  <2>3. \A i : Expected(i)' = Expected(i)
    BY <2>1 DEF Expected
  <2> QED BY <1>0, <2>1, <2>2, <2>3 DEF PlaceOK, Blame
<1>12. CASE ClientLeaves
  <2>1. UNCHANGED <<declared, pc, next, resolved, remote, worker, err, added, outcome>>
    BY <1>12 DEF ClientLeaves, group
  <2> QED BY <1>0, <1>12, <2>1
          DEF ClientLeaves, PlaceOK, Blame, PassedUpTo, Position, Expected
<1>13. CASE UNCHANGED vars
  BY <1>0, <1>13 DEF vars, PlaceOK, Blame, PassedUpTo, Position, Expected
<1> QED
  BY <1>1, <1>2, <1>3, <1>4, <1>5, <1>6, <1>7, <1>8, <1>9, <1>10, <1>11,
     <1>12, <1>13
  DEF Next, CallStep

\* The inductive invariant holds in every state of every behaviour.
THEOREM Invariance == Spec => []Inv
<1>1. Inv /\ [Next]_vars => Inv'
  BY NextType, NextGroup, NextPlace DEF Inv
<1> QED BY <1>1, InitInv, PTL DEF Spec

\* Every variable keeps its type.
THEOREM TypeCorrectness == Spec => []TypeOK
<1>1. Inv => TypeOK
  BY DEF Inv
<1> QED BY <1>1, Invariance, PTL

\* A built chart has every declared dependency, in declared order, whatever
\* the number of dependencies and the order in which retrievals end.
THEOREM BuildsAreComplete == Spec => []BuiltIsComplete
<1>1. Inv => BuiltIsComplete
  BY DEF Inv, PlaceOK, BuiltIsComplete
<1> QED BY <1>1, Invariance, PTL

\* A returned error is the cause of the failure and not its consequence.
THEOREM ErrorsAreCauses == Spec => []ErrorIsTheCause
<1>1. Inv => ErrorIsTheCause
  BY DEF Inv, PlaceOK, Blame, ErrorIsTheCause
<1> QED BY <1>1, Invariance, PTL

\* When the slots are read, and after the call, all goroutines have ended.
THEOREM GoroutinesEndFirst == Spec => []NothingOutlivesTheCall
<1>1. Inv => NothingOutlivesTheCall
  BY DEF Inv, PlaceOK, NothingOutlivesTheCall
<1> QED BY <1>1, Invariance, PTL

-----------------------------------------------------------------------------
\* Every step of a request is a step of the chart provider, or none.
LEMMA CallStepOrStutter ==
    ASSUME [ServiceNext]_everything
    PROVE  [Next]_vars
<1>1. CASE UNCHANGED everything
  BY <1>1 DEF everything
<1>2. CASE Handle
  <2>1. CASE GetChart
    BY <2>1 DEF GetChart, Next, CallStep
  <2>2. CASE RejectDependency
    BY <2>2 DEF RejectDependency, Next, CallStep
  <2>3. ASSUME NEW k \in Slot, FailDependency(k) \/ CancelDependency(k)
        PROVE  Next
    BY <2>3 DEF FailDependency, CancelDependency, Next, WorkerStep
  <2>4. CASE BuildChart
    BY <2>4 DEF BuildChart, Next, CallStep, WorkerStep
  <2>5. CASE \/ ListCharts \/ AnswerError \/ AnswerMetadata \/ RenderChart
             \/ AnswerRendered \/ AnswerUnrendered \/ Kustomize
             \/ AnswerKustomizationError \/ AnswerKustomization
    BY <2>5 DEF ListCharts, AnswerError, AnswerMetadata, RenderChart,
       AnswerRendered, AnswerUnrendered, Kustomize, AnswerKustomizationError,
       AnswerKustomization
  <2> QED BY <1>2, <2>1, <2>2, <2>3, <2>4, <2>5 DEF Handle
<1>3. CASE LeaveClient
  BY <1>3 DEF LeaveClient, Next
<1>4. CASE RefuseBody \/ BeginKustomization \/ LoseArchive
  BY <1>4 DEF RefuseBody, BeginKustomization, LoseArchive
<1> QED BY <1>1, <1>2, <1>3, <1>4 DEF ServiceNext

\* A request calls the chart provider as it is specified: what is proved of a
\* call holds for every request.
THEOREM CallIsImplemented == ServiceSpec => Spec
<1>1. Start => Init
  BY DEF Start
<1>2. [ServiceNext]_everything => [Next]_vars
  BY CallStepOrStutter
<1> QED BY <1>1, <1>2, PTL DEF ServiceSpec, Spec

\* Every step of a request is a step of the kustomization, or none.
LEMMA KustomizationStepOrStutter ==
    ASSUME [ServiceNext]_everything
    PROVE  [Kustomizations!Next]_Kustomizations!vars
<1>1. CASE BeginKustomization \/ Kustomize \/ LoseArchive
  BY <1>1
  DEF BeginKustomization, Kustomize, LoseArchive, Kustomizations!Next
<1>2. CASE UNCHANGED kustomization
  BY <1>2 DEF kustomization, Kustomizations!vars
<1>3. CASE \E k \in Slot : FailDependency(k) \/ CancelDependency(k)
  BY <1>2, <1>3 DEF FailDependency, CancelDependency
<1>4. CASE UNCHANGED everything
  BY <1>2, <1>4 DEF everything
<1> QED
  BY <1>1, <1>2, <1>3, <1>4
  DEF ServiceNext, Handle, ListCharts, GetChart, RejectDependency, BuildChart,
      AnswerError, AnswerMetadata, RenderChart, AnswerRendered,
      AnswerUnrendered, AnswerKustomizationError, AnswerKustomization,
      RefuseBody, LeaveClient

\* Requests for kustomizations, with the archive they share, are as specified.
THEOREM KustomizationsAreImplemented == ServiceSpec => Kustomizations!Spec
<1>1. Start => Kustomizations!Init
  BY DEF Start
<1>2. [ServiceNext]_everything => [Kustomizations!Next]_Kustomizations!vars
  BY KustomizationStepOrStutter
<1> QED BY <1>1, <1>2, PTL DEF ServiceSpec, Kustomizations!Spec

-----------------------------------------------------------------------------
GitCauses == {"git repository not found", "git reference not found"}

\* What a request is for decides which of the two it uses.
ActionOK ==
    /\ action \notin ChartActions =>
           pc = "source" /\ outcome = None /\ handler # "renderer"
    /\ action # "render-kustomization" => stage = "idle"
    /\ action = "render-kustomization" => root = "git"
    /\ handler \in {"renderer", "returned"} =>
           /\ pc \in {"source", "returned"}
           /\ stage \in {"idle", "rendered", "failed"}
    /\ handler = "renderer" => outcome = "built"
    /\ pc = "returned" => outcome # None
    /\ stage = "failed" => failure \in {"absolute", "source", "tree", "render"}

\* The error that is kept is that of the chart provider or of the
\* kustomization, and was wrapped unless the source failed.
FailedOK ==
    /\ action \in ChartActions =>
           /\ err # None \/ outcome \notin {None, "built"} => failed # None
           /\ pc = "source" => failed = None
           /\ failed # None =>
                  /\ failed.wrap = None => outcome = "source"
                  /\ failed.cause \in GitCauses => root = "git"
    /\ action = "render-kustomization" /\ failed # None =>
           /\ handler = "returned" /\ stage = "failed"
           /\ failed.wrap = None => failure \in {"absolute", "source", "tree"}
    /\ action = "list-charts" => failed = None

Answered(status, title) == written = <<[status |-> status, title |-> title]>>

\* What has been written, and why.
WrittenOK ==
    /\ handler # "returned" => written = <<>>
    /\ handler = "returned" =>
           \/ /\ Answered(200, None)
              /\ outcome = "built" \/ stage = "rendered"
           \/ Answered(400, "malformed body") /\ pc = "source" /\ stage = "idle"
           \/ Answered(500, "internal") /\ action = "list-charts"
           \/ failed # None /\ Answered(Status(failed), Title(failed))

\* The types of what the properties are about.
RequestTypeOK ==
    /\ action \in Actions
    /\ root \in Roots \cup {None}
    /\ pc = "source" => root # None
    /\ handler \in {"provider", "renderer", "returned"}
    /\ failed \in Errors \cup {None}

ControllerInv ==
    /\ RequestTypeOK
    /\ ActionOK
    /\ FailedOK
    /\ WrittenOK

\* Statuses and titles are those of the API.
LEMMA TitlesOfErrors ==
    ASSUME NEW error \in Errors
    PROVE  /\ Title(error) \in Causes \cup Wraps \cup {"internal"}
           /\ Status(error) \in {400, 500}
           /\ Status(error) = 500 => error.cause = Untyped /\ error.wrap = None
           /\ Title(error) \in GitCauses => error.cause \in GitCauses
           /\ error.cause \in Causes => Title(error) = error.cause
<1>1. error.cause \in Causes \cup {Untyped} /\ error.wrap \in Wraps \cup {None}
  BY DEF Errors
<1>2. /\ Untyped \notin Causes /\ "internal" \notin Causes \cup Wraps
      /\ None \notin Wraps
      /\ GitCauses \subseteq Causes /\ GitCauses \cap Wraps = {}
      /\ "internal" \notin GitCauses
  BY NoneIsNothing DEF Untyped, Causes, RemoteErrors, Wraps, GitCauses
<1>3. CASE error.cause # Untyped
  BY <1>1, <1>2, <1>3 DEF Title, Status
<1>4. CASE error.cause = Untyped /\ error.wrap # None
  BY <1>1, <1>2, <1>4 DEF Title, Status
<1>5. CASE error.cause = Untyped /\ error.wrap = None
  BY <1>1, <1>2, <1>5 DEF Title, Status
<1> QED BY <1>3, <1>4, <1>5

\* The properties follow from the invariants.
LEMMA AnswersFit ==
    ASSUME Inv, RequestTypeOK, ActionOK, FailedOK, WrittenOK
    PROVE  AnsweredOnce /\ AnswerFitsWhatHappened
<1>1. AnsweredOnce
  <2>1. handler = "returned" => \E a : written = <<a>>
    BY DEF WrittenOK, Answered
  <2>2. handler = "returned" => \A k \in Slot : worker[k] # "running"
    BY DEF ActionOK, Inv, PlaceOK
  <2> QED BY <2>1, <2>2 DEF AnsweredOnce, WrittenOK
<1>2. AnswerFitsWhatHappened
  <2> DEFINE status == written[1].status title == written[1].title
  <2> SUFFICES ASSUME written # <<>>
               PROVE  /\ status = 200 =>
                             \/ outcome = "built" /\ Len(added) = Dependencies
                             \/ stage = "rendered"
                      /\ status = 500 =>
                             \/ action = "list-charts"
                             \/ action \in ChartActions /\ outcome = "source"
                             \/ failure \in {"absolute", "source", "tree"}
                      /\ outcome = "dependency" /\ failed.cause \in Causes =>
                             title = failed.cause
                      /\ title \in GitCauses => root = "git"
    BY DEF AnswerFitsWhatHappened, GitCauses
  <2>1. handler = "returned"
    BY DEF WrittenOK
  <2>2. outcome = "built" => Len(added) = Dependencies
    BY ProviderAssumption DEF Inv, PlaceOK, Slot
  <2>3. outcome # None => pc = "returned" /\ action \in ChartActions
    BY DEF Inv, PlaceOK, ActionOK
  <2>4. CASE Answered(200, None) /\ (outcome = "built" \/ stage = "rendered")
    <3>1. status = 200 /\ title = None
      BY <2>4 DEF Answered
    <3>2. outcome # "dependency"
      BY <2>3, <2>4 DEF ActionOK, ChartActions
    <3>3. None \notin GitCauses
      BY NoneIsNothing DEF GitCauses, Causes
    <3> HIDE DEF status, title
    <3> QED BY <2>2, <2>4, <3>1, <3>2, <3>3
  <2>5. CASE Answered(400, "malformed body") /\ pc = "source" /\ stage = "idle"
    <3>1. status = 400
      BY <2>5 DEF Answered
    <3>2. title = "malformed body"
      BY <2>5 DEF Answered
    <3>3. outcome # "dependency"
      BY <2>3, <2>5, ProviderAssumption
    <3>4. title \notin GitCauses
      BY <3>2 DEF GitCauses
    <3> HIDE DEF status, title
    <3>5. status # 200
      BY <3>1
    <3>6. status # 500
      BY <3>1
    <3> QED BY <3>3, <3>4, <3>5, <3>6
  <2>6. CASE Answered(500, "internal") /\ action = "list-charts"
    <3>1. status = 500 /\ title = "internal"
      BY <2>6 DEF Answered
    <3>2. outcome # "dependency"
      BY <2>3, <2>6, ProviderAssumption DEF ChartActions
    <3> HIDE DEF status, title
    <3> QED BY <2>6, <3>1, <3>2 DEF GitCauses
  <2>7. CASE failed # None /\ Answered(Status(failed), Title(failed))
    <3>1. status = Status(failed) /\ title = Title(failed)
      BY <2>7 DEF Answered
    <3>2. failed \in Errors
      BY <2>7 DEF RequestTypeOK
    <3>3. action \in ChartActions \/ action = "render-kustomization"
      BY <2>7 DEF FailedOK, RequestTypeOK, Actions
    <3>4. failed.wrap = None =>
              \/ action \in ChartActions /\ outcome = "source"
              \/ failure \in {"absolute", "source", "tree"}
      BY <2>7, <3>3 DEF FailedOK
    <3>5. failed.cause \in GitCauses => root = "git"
      BY <2>7, <3>3 DEF FailedOK, ActionOK
    <3> HIDE DEF status, title
    <3> QED BY <3>1, <3>2, <3>4, <3>5, TitlesOfErrors
  <2> QED BY <2>1, <2>4, <2>5, <2>6, <2>7 DEF WrittenOK
<1> QED BY <1>1, <1>2

-----------------------------------------------------------------------------
\* Only git's retrievals have git's causes.
LEMMA CausesOfRetrieval ==
    ASSUME NEW r \in Roots
    PROVE  /\ Retrieval[r] \subseteq Causes \cup {Untyped}
           /\ r # "git" => Retrieval[r] \cap GitCauses = {}
<1>1. RemoteErrors \cap GitCauses = {} /\ Untyped \notin GitCauses
  BY DEF RemoteErrors, GitCauses, Untyped
<1>2. RemoteErrors \subseteq Causes /\ GitCauses \subseteq Causes
  BY DEF Causes, GitCauses
<1>3. CASE r = "http"
  BY <1>1, <1>2, <1>3 DEF Retrieval
<1>4. CASE r = "oci"
  BY <1>1, <1>2, <1>4 DEF Retrieval
<1>5. CASE r = "scheme"
  <2>1. Retrieval[r] = {"repository URL invalid"}
    BY <1>5 DEF Retrieval
  <2> QED BY <1>5, <2>1 DEF Causes, GitCauses
<1>6. CASE r = "git"
  <2>1. Retrieval[r] = {"git repository not found", "git reference not found",
                        Untyped}
    BY <1>6 DEF Retrieval
  <2> QED BY <1>6, <2>1 DEF Causes
<1>7. CASE r = "nothing"
  <2>1. Retrieval[r] = {"chart reference invalid"}
    BY <1>7 DEF Retrieval
  <2> QED BY <1>7, <2>1 DEF Causes, GitCauses
<1> QED BY <1>3, <1>4, <1>5, <1>6, <1>7 DEF Roots

LEMMA CausesOfDependencies ==
    ASSUME NEW d, NEW cause \in DependencyCauses(d)
    PROVE  cause \in (Causes \cup {Untyped}) \ GitCauses
<1>1. PICK r \in {"http", "oci", "scheme"} : cause \in Retrieval[r]
  BY DEF DependencyCauses
<1>2. r \in Roots /\ r # "git"
  BY DEF Roots
<1> QED BY <1>1, <1>2, CausesOfRetrieval

\* Errors that are made have the type of errors, and are none other than made.
LEMMA ErrorsAreErrors ==
    ASSUME NEW cause \in Causes \cup {Untyped}, NEW wrap \in Wraps \cup {None}
    PROVE  /\ Error(cause, wrap) \in Errors
           /\ Error(cause, wrap) # None
           /\ Error(cause, wrap).cause = cause
           /\ Error(cause, wrap).wrap = wrap
<1>1. Error(cause, wrap) \in Errors
  BY DEF Error, Errors
<1> QED BY <1>1, NoneIsNothing DEF Error

\* An error without a type, wrapped: none of the causes of git.
LEMMA WrappedErrors ==
    ASSUME NEW wrap \in Wraps
    PROVE  /\ Error(Untyped, wrap) \in Errors
           /\ Error(Untyped, wrap) # None
           /\ Error(Untyped, wrap).cause \notin GitCauses
           /\ Error(Untyped, wrap).wrap # None
<1>1. Untyped \notin GitCauses
  BY DEF Untyped, GitCauses
<1>2. wrap # None
  BY NoneIsNothing
<1> QED BY <1>1, <1>2, ErrorsAreErrors

LEMMA StartControllerInv == Start => ControllerInv
<1> SUFFICES ASSUME Start PROVE ControllerInv
  OBVIOUS
<1>1. RequestTypeOK
  BY NoneIsNothing DEF Start, RequestTypeOK
<1>2. ActionOK
  BY DEF Start, Init, Kustomizations!Init, ActionOK
<1>3. FailedOK
  BY DEF Start, Init, FailedOK
<1>4. WrittenOK
  BY DEF Start, WrittenOK
<1> QED BY <1>1, <1>2, <1>3, <1>4 DEF ControllerInv

-----------------------------------------------------------------------------
\* Between its beginning and its end a call is made for a request that waits.
LEMMA InCall ==
    ASSUME Inv, ControllerInv, pc \notin {"source", "returned"}
    PROVE  /\ action \in ChartActions /\ handler = "provider"
           /\ outcome = None
           /\ failed # None => failed.wrap # None
<1>1. action \in ChartActions /\ handler = "provider"
  BY DEF ControllerInv, RequestTypeOK, ActionOK
<1>2. outcome = None
  BY DEF Inv, PlaceOK
<1>3. failed # None => failed.wrap # None
  BY <1>1, <1>2, ProviderAssumption DEF ControllerInv, FailedOK
<1> QED BY <1>1, <1>2, <1>3

\* While a call goes on, all that changes is whether it has failed.
LEMMA CallKeeps ==
    ASSUME ControllerInv, action \in ChartActions, handler = "provider",
           UNCHANGED <<action, handler, written, stage>>,
           root' # root => root' = None /\ pc' # "source",
           pc' = "source" => pc = "source",
           pc' = "returned" => outcome' # None,
           failed' \in Errors \cup {None},
           FailedOK'
    PROVE  ControllerInv'
<1>1. RequestTypeOK'
  BY DEF ControllerInv, RequestTypeOK
<1>2. ActionOK'
  BY DEF ControllerInv, ActionOK, ChartActions
<1>3. WrittenOK'
  BY DEF ControllerInv, WrittenOK
<1> QED BY <1>1, <1>2, <1>3 DEF ControllerInv

\* What is kept of an error that was wrapped.
LEMMA WrappedIsKept ==
    ASSUME action' \in ChartActions,
           failed' # None =>
               /\ failed'.wrap # None
               /\ failed'.cause \in GitCauses => root' = "git",
           err' # None \/ outcome' \notin {None, "built"} => failed' # None,
           pc' # "source"
    PROVE  FailedOK'
BY DEF FailedOK, ChartActions

LEMMA GetChartKeeps ==
    ASSUME Inv, ControllerInv, GetChart
    PROVE  ControllerInv'
<1>1. /\ handler = "provider" /\ action \in ChartActions /\ pc = "source"
      /\ outcome = None /\ err = None /\ root \in Roots
      /\ UNCHANGED <<action, handler, written, err, stage>>
  BY DEF GetChart, Source, group, kustomization, Inv, PlaceOK, ControllerInv,
     RequestTypeOK
<1>2. failed = None
  BY <1>1 DEF ControllerInv, FailedOK
<1>3. CASE outcome' = None
  <2>1. root' = None /\ failed' = failed /\ pc' = "first"
    BY <1>3, ProviderAssumption DEF GetChart, Source, Return
  <2>2. FailedOK'
    BY <1>1, <1>2, <1>3, <2>1, WrappedIsKept
  <2> QED BY <1>1, <1>2, <2>1, <2>2, CallKeeps
<1>4. CASE outcome' # None
  <2>1. root' = root /\ pc' = "returned" /\ outcome' = "source"
    BY <1>1, <1>4 DEF GetChart, Source, Return
  <2>2. PICK cause \in Causes \cup {Untyped}, wrap \in Wraps \cup {None} :
            /\ failed' = Error(cause, wrap)
            /\ cause \in GitCauses => root = "git"
    <3>1. ASSUME NEW cause \in Retrieval[root]
          PROVE  /\ cause \in Causes \cup {Untyped}
                 /\ cause \in GitCauses => root = "git"
      BY <1>1, <3>1, CausesOfRetrieval
    <3>2. Untyped \notin GitCauses /\ "build" \in Wraps
      BY DEF Untyped, GitCauses, Wraps
    <3>3. \/ \E cause \in Retrieval[root] : failed' = Error(cause, None)
          \/ failed' = Error(Untyped, "build")
      BY <1>4 DEF GetChart
    <3> QED BY <3>1, <3>2, <3>3
  <2>3. /\ failed' \in Errors /\ failed' # None
        /\ failed'.cause \in GitCauses => root' = "git"
    BY <2>1, <2>2, ErrorsAreErrors
  <2>4. FailedOK'
    BY <1>1, <2>1, <2>3 DEF FailedOK, ChartActions
  <2> QED BY <1>1, <1>4, <2>1, <2>3, <2>4, CallKeeps
<1> QED BY <1>3, <1>4

LEMMA RejectKeeps ==
    ASSUME Inv, ControllerInv, RejectDependency
    PROVE  ControllerInv'
<1>1. /\ pc = "first" /\ pc' = "returned" /\ outcome' # None
      /\ failed' = Error(Untyped, "build")
      /\ UNCHANGED <<action, root, handler, written, stage>>
  BY ProviderAssumption DEF RejectDependency, Reject, Return, kustomization
<1>2. action \in ChartActions /\ handler = "provider"
  BY <1>1, InCall
<1>3. "build" \in Wraps
  BY DEF Wraps
<1>4. FailedOK'
  BY <1>1, <1>2, <1>3, WrappedErrors, WrappedIsKept
<1> QED BY <1>1, <1>2, <1>3, <1>4, WrappedErrors, CallKeeps

\* The first error of a goroutine is kept, with what it was wrapped in.
LEMMA GoroutineErrorsKeep ==
    ASSUME Inv, ControllerInv, NEW k \in Slot,
           FailDependency(k) \/ CancelDependency(k)
    PROVE  ControllerInv'
<1>1. /\ worker[k] = "running"
      /\ UNCHANGED <<pc, outcome, action, root, handler, written, stage>>
  BY DEF FailDependency, FailToRetrieve, CancelDependency, NoticeCancel,
     EndWithError, kustomization
<1>2. pc \notin {"source", "returned"}
  BY <1>1 DEF Inv, PlaceOK
<1>3. PICK cause \in (Causes \cup {Untyped}) \ GitCauses :
          failed' = IF err = None THEN Error(cause, "build") ELSE failed
  <2>1. Untyped \notin GitCauses
    BY DEF Untyped, GitCauses
  <2> QED BY <2>1, CausesOfDependencies DEF FailDependency, CancelDependency
<1>4. "build" \in Wraps /\ "build" # None
  BY NoneIsNothing DEF Wraps
<1>5. /\ Error(cause, "build") \in Errors
      /\ Error(cause, "build") # None
      /\ Error(cause, "build").cause = cause
      /\ Error(cause, "build").wrap = "build"
  BY <1>4, ErrorsAreErrors
<1>6. /\ action \in ChartActions /\ handler = "provider" /\ outcome = None
      /\ failed # None => failed.wrap # None
      /\ failed # None => (failed.cause \in GitCauses => root = "git")
      /\ err # None => failed # None
      /\ failed \in Errors \cup {None}
  BY <1>2, InCall DEF ControllerInv, FailedOK, RequestTypeOK
<1>7. failed' \in Errors /\ failed' # None
  BY <1>3, <1>5, <1>6
<1>8. failed'.wrap # None /\ (failed'.cause \in GitCauses => root' = "git")
  <2>1. CASE err = None
    BY <1>3, <1>4, <1>5, <2>1
  <2>2. CASE err # None
    BY <1>1, <1>3, <1>6, <2>2
  <2> QED BY <2>1, <2>2
<1>9. FailedOK'
  BY <1>1, <1>2, <1>6, <1>7, <1>8, WrappedIsKept
<1> QED BY <1>1, <1>2, <1>6, <1>7, <1>9, CallKeeps

\* Building returns the error that is kept, or none.
LEMMA BuildKeeps ==
    ASSUME Inv, ControllerInv, BuildChart
    PROVE  ControllerInv'
<1>1. UNCHANGED <<action, root, handler, written, failed, stage>>
  BY DEF BuildChart, controller, kustomization
<1>2. /\ pc \notin {"source", "returned"}
      /\ pc' # "source"
      /\ pc' = "returned" => outcome' # None
      /\ err' = err
      /\ outcome' \in {outcome, "built", err}
  <2>1. ASSUME NEW k \in Slot, Retrieve(k)
        PROVE  /\ pc \notin {"source", "returned"}
               /\ UNCHANGED <<pc, err, outcome>>
    BY <2>1 DEF Retrieve, Inv, PlaceOK
  <2> QED
    BY <2>1, ProviderAssumption
    DEF BuildChart, ResolveLocally, DeferToRemote, EndFirstPass, Spawn,
        EndSpawn, Wait, Add, Build, Return, group
<1>3. /\ action \in ChartActions /\ handler = "provider" /\ outcome = None
      /\ failed # None => failed.wrap # None
      /\ failed # None => (failed.cause \in GitCauses => root = "git")
      /\ err # None => failed # None
      /\ failed \in Errors \cup {None}
  BY <1>2, InCall DEF ControllerInv, FailedOK, RequestTypeOK
<1>4. FailedOK'
  BY <1>1, <1>2, <1>3, WrappedIsKept
<1> QED BY <1>1, <1>2, <1>3, <1>4, CallKeeps

LEMMA LeaveKeeps ==
    ASSUME ControllerInv, LeaveClient
    PROVE  ControllerInv'
<1>1. action \in ChartActions /\ handler = "provider"
  BY DEF LeaveClient
<1>2. UNCHANGED <<pc, err, outcome>>
  BY DEF LeaveClient, ClientLeaves, group
<1>3. UNCHANGED <<action, root, handler, failed, written, stage>>
  BY DEF LeaveClient, controller, kustomization
<1>4. FailedOK'
  BY <1>1, <1>2, <1>3 DEF ControllerInv, FailedOK, ChartActions
<1>5. /\ failed' \in Errors \cup {None}
      /\ pc' = "returned" => outcome' # None
  BY <1>2, <1>3 DEF ControllerInv, RequestTypeOK, ActionOK
<1> QED BY <1>1, <1>2, <1>3, <1>4, <1>5, CallKeeps

-----------------------------------------------------------------------------
\* What is written is the answer, as nothing was written before.
LEMMA AnswerIsWritten ==
    ASSUME ControllerInv, handler # "returned", NEW status, NEW title,
           Answer(status, title)
    PROVE  handler' = "returned" /\ Answered(status, title)'
<1> DEFINE answer == [status |-> status, title |-> title]
<1>1. written' = Append(<<>>, answer) /\ handler' = "returned"
  BY DEF ControllerInv, WrittenOK, Answer, Write
<1>2. Append(<<>>, answer) = <<answer>>
  <2> HIDE DEF answer
  <2> QED OBVIOUS
<1> QED BY <1>1, <1>2 DEF Answered

\* To answer keeps what is known of the request.
LEMMA AnswerKeeps ==
    ASSUME ControllerInv,
           UNCHANGED <<action, root, pc, err, outcome, stage, failure>>,
           handler' = "returned", pc \in {"source", "returned"},
           stage \in {"idle", "rendered", "failed"},
           failed' \in Errors \cup {None}, FailedOK', WrittenOK'
    PROVE  ControllerInv'
<1>1. RequestTypeOK'
  BY DEF ControllerInv, RequestTypeOK
<1>2. ActionOK'
  BY DEF ControllerInv, ActionOK
<1> QED BY <1>1, <1>2 DEF ControllerInv

\* Answers that say nothing of an error that was kept.
LEMMA PlainAnswersKeep ==
    ASSUME Inv, ControllerInv,
           \/ RefuseBody \/ ListCharts \/ AnswerMetadata \/ AnswerRendered
           \/ AnswerKustomization
    PROVE  ControllerInv'
<1>1. UNCHANGED <<action, root, failed, pc, err, outcome, stage, failure>>
  BY DEF RefuseBody, ListCharts, AnswerMetadata, AnswerRendered,
     AnswerKustomization, vars, group, kustomization
<1>2. handler' = "returned" /\ handler # "returned"
  BY DEF RefuseBody, ListCharts, AnswerMetadata, AnswerRendered,
     AnswerKustomization, Answer
<1>3. pc \in {"source", "returned"} /\ stage \in {"idle", "rendered", "failed"}
  BY DEF RefuseBody, ListCharts, AnswerMetadata, AnswerRendered,
     AnswerKustomization, ControllerInv, ActionOK, ChartActions
<1>4. FailedOK'
  <2>1. action = "render-kustomization" => failed = None \/ stage = "failed"
    BY DEF ControllerInv, FailedOK
  <2> QED BY <1>1, <1>2, <2>1 DEF ControllerInv, FailedOK
<1>5. WrittenOK'
  <2>1. CASE RefuseBody
    BY <1>1, <1>2, <2>1, AnswerIsWritten DEF RefuseBody, WrittenOK
  <2>2. CASE ListCharts
    BY <1>1, <1>2, <2>2, AnswerIsWritten DEF ListCharts, WrittenOK
  <2>3. CASE AnswerMetadata
    BY <1>1, <1>2, <2>3, AnswerIsWritten DEF AnswerMetadata, WrittenOK
  <2>4. CASE AnswerRendered
    <3>1. outcome = "built"
      BY <2>4 DEF AnswerRendered, ControllerInv, ActionOK
    <3> QED BY <1>1, <1>2, <2>4, <3>1, AnswerIsWritten
            DEF AnswerRendered, WrittenOK
  <2>5. CASE AnswerKustomization
    BY <1>1, <1>2, <2>5, AnswerIsWritten DEF AnswerKustomization, WrittenOK
  <2> QED BY <2>1, <2>2, <2>3, <2>4, <2>5
<1> QED
  BY <1>1, <1>2, <1>3, <1>4, <1>5, AnswerKeeps DEF ControllerInv, RequestTypeOK

LEMMA AnswerErrorKeeps ==
    ASSUME Inv, ControllerInv, AnswerError
    PROVE  ControllerInv'
<1>1. /\ action \in ChartActions /\ pc = "returned" /\ outcome # "built"
      /\ handler = "provider"
      /\ UNCHANGED <<action, root, failed, pc, err, outcome, stage, failure>>
  BY DEF AnswerError, vars, group, kustomization
<1>2. handler' = "returned" /\ Answered(Status(failed), Title(failed))'
  BY <1>1, AnswerIsWritten DEF AnswerError
<1>3. failed # None
  BY <1>1 DEF ControllerInv, ActionOK, FailedOK
<1>4. stage = "idle"
  BY <1>1 DEF ControllerInv, ActionOK, ChartActions
<1>5. FailedOK'
  BY <1>1 DEF ControllerInv, FailedOK, ChartActions
<1>6. WrittenOK'
  BY <1>1, <1>2, <1>3 DEF WrittenOK
<1>7. failed' \in Errors \cup {None}
  BY <1>1 DEF ControllerInv, RequestTypeOK
<1> QED BY <1>1, <1>2, <1>4, <1>5, <1>6, <1>7, AnswerKeeps

LEMMA RenderKeeps ==
    ASSUME ControllerInv, RenderChart
    PROVE  ControllerInv'
<1>1. /\ action = "render-chart" /\ handler = "provider"
      /\ pc = "returned" /\ outcome = "built" /\ handler' = "renderer"
      /\ UNCHANGED <<action, root, failed, written, pc, err, outcome, stage,
                     failure>>
  BY DEF RenderChart, vars, group, kustomization
<1>2. RequestTypeOK'
  BY <1>1 DEF ControllerInv, RequestTypeOK
<1>3. ActionOK'
  BY <1>1 DEF ControllerInv, ActionOK, ChartActions
<1>4. FailedOK'
  BY <1>1 DEF ControllerInv, FailedOK, ChartActions
<1>5. WrittenOK'
  BY <1>1 DEF ControllerInv, WrittenOK
<1> QED BY <1>2, <1>3, <1>4, <1>5 DEF ControllerInv

LEMMA UnrenderedKeeps ==
    ASSUME Inv, ControllerInv, AnswerUnrendered
    PROVE  ControllerInv'
<1>1. /\ handler = "renderer" /\ handler' = "returned"
      /\ failed' = Error(Untyped, "render")
      /\ UNCHANGED <<action, root, pc, err, outcome, stage, failure>>
  BY DEF AnswerUnrendered, Answer, vars, group, kustomization
<1>2. /\ action \in ChartActions /\ outcome = "built"
      /\ pc \in {"source", "returned"}
      /\ stage \in {"idle", "rendered", "failed"}
  BY <1>1 DEF ControllerInv, ActionOK
<1>9. pc # "source"
  BY <1>2, ProviderAssumption DEF Inv, PlaceOK
<1>3. "render" \in Wraps
  BY DEF Wraps
<1>4. failed' \in Errors /\ failed' # None
  BY <1>1, <1>3, WrappedErrors
<1>5. Answered(Status(failed), Title(failed))'
  BY <1>1, AnswerIsWritten DEF AnswerUnrendered
<1>6. failed'.wrap # None /\ failed'.cause \notin GitCauses
  BY <1>1, <1>3, WrappedErrors
<1>7. FailedOK'
  BY <1>1, <1>2, <1>4, <1>6, <1>9 DEF FailedOK, ChartActions
<1>8. WrittenOK'
  BY <1>1, <1>4, <1>5 DEF WrittenOK
<1> QED BY <1>1, <1>2, <1>4, <1>7, <1>8, AnswerKeeps

-----------------------------------------------------------------------------
\* Steps of a kustomization are those of a request for one.
LEMMA KustomizeKeeps ==
    ASSUME ControllerInv, Kustomize
    PROVE  ControllerInv'
<1>1. /\ stage \notin {"idle", "rendered", "failed"}
      /\ stage' = "failed" => failure' \in {"source", "tree", "render"}
  BY DEF Kustomize, Kustomizations!Step, Kustomizations!FailToRetrieve,
     Kustomizations!Hit, Kustomizations!Miss, Kustomizations!PackFile,
     Kustomizations!FailToPack, Kustomizations!StoreArchive,
     Kustomizations!UnpackFile, Kustomizations!FailToUnpack,
     Kustomizations!EndUnpack, Kustomizations!Inject,
     Kustomizations!InjectIntoDirectory, Kustomizations!FailToInject,
     Kustomizations!Run, Kustomizations!FailToRun, Kustomizations!Fail,
     Kustomizations!Pending
<1>2. UNCHANGED <<pc, err, outcome, action, root, handler, failed, written>>
  BY DEF Kustomize, vars, group, controller
<1>3. action = "render-kustomization" /\ handler = "provider"
  BY <1>1 DEF ControllerInv, RequestTypeOK, ActionOK
<1>4. failed = None
  BY <1>3 DEF ControllerInv, FailedOK
<1>5. RequestTypeOK'
  BY <1>2 DEF ControllerInv, RequestTypeOK
<1>6. ActionOK'
  BY <1>1, <1>2, <1>3 DEF ControllerInv, ActionOK
<1>7. FailedOK'
  BY <1>2, <1>3, <1>4 DEF FailedOK, ChartActions
<1>8. WrittenOK'
  BY <1>2, <1>3 DEF ControllerInv, WrittenOK
<1> QED BY <1>5, <1>6, <1>7, <1>8 DEF ControllerInv

LEMMA BeginKeeps ==
    ASSUME ControllerInv, BeginKustomization
    PROVE  ControllerInv'
<1>1. /\ action = "render-kustomization" /\ handler' = "provider"
      /\ failed' = None /\ written' = <<>>
      /\ stage' = "failed" => failure' = "absolute"
      /\ UNCHANGED <<action, root, pc, err, outcome>>
  BY DEF BeginKustomization, Kustomizations!Begin, Kustomizations!Fail, vars,
     group
<1>2. RequestTypeOK'
  BY <1>1 DEF ControllerInv, RequestTypeOK
<1>3. ActionOK'
  BY <1>1 DEF ControllerInv, ActionOK
<1>4. FailedOK'
  BY <1>1 DEF FailedOK, ChartActions
<1>5. WrittenOK'
  BY <1>1 DEF WrittenOK
<1> QED BY <1>2, <1>3, <1>4, <1>5 DEF ControllerInv

LEMMA KustomizationErrorKeeps ==
    ASSUME ControllerInv, AnswerKustomizationError
    PROVE  ControllerInv'
<1>1. /\ handler = "provider" /\ handler' = "returned" /\ stage = "failed"
      /\ UNCHANGED <<action, root, pc, err, outcome, stage, failure>>
  BY DEF AnswerKustomizationError, Answer, vars, group, kustomization
<1>2. action = "render-kustomization" /\ root = "git" /\ pc = "source"
  BY <1>1 DEF ControllerInv, ActionOK, ChartActions
<1>3. "kustomization" \in Wraps /\ "kustomization" # None /\ "git" \in Roots
  BY NoneIsNothing DEF Wraps, Roots
<1>4. PICK cause \in Causes \cup {Untyped}, wrap \in Wraps \cup {None} :
          /\ failed' = Error(cause, wrap)
          /\ wrap = None => failure # "render"
  BY <1>3, CausesOfRetrieval DEF AnswerKustomizationError
<1>5. failed' \in Errors /\ failed' # None /\ failed'.wrap = wrap
  BY <1>4, ErrorsAreErrors
<1>6. FailedOK'
  <2>1. failure \in {"absolute", "source", "tree", "render"}
    BY <1>1 DEF ControllerInv, ActionOK
  <2> QED BY <1>1, <1>2, <1>4, <1>5, <2>1 DEF FailedOK, ChartActions
<1>7. Answered(Status(failed), Title(failed))'
  BY <1>1, AnswerIsWritten DEF AnswerKustomizationError
<1>8. WrittenOK'
  BY <1>1, <1>5, <1>7 DEF WrittenOK
<1> QED BY <1>1, <1>2, <1>5, <1>6, <1>8, AnswerKeeps

LEMMA ControllerStep ==
    Inv /\ Inv' /\ ControllerInv /\ [ServiceNext]_everything => ControllerInv'
<1> SUFFICES ASSUME Inv, Inv', ControllerInv, [ServiceNext]_everything
             PROVE  ControllerInv'
  OBVIOUS
<1>1. CASE \/ GetChart \/ RejectDependency \/ BuildChart \/ LeaveClient
           \/ \E k \in Slot : FailDependency(k) \/ CancelDependency(k)
  BY <1>1, GetChartKeeps, RejectKeeps, BuildKeeps, LeaveKeeps,
     GoroutineErrorsKeep
<1>2. CASE \/ RefuseBody \/ ListCharts \/ AnswerMetadata \/ AnswerRendered
           \/ AnswerKustomization
  BY <1>2, PlainAnswersKeep
<1>3. CASE \/ AnswerError \/ RenderChart \/ AnswerUnrendered
           \/ AnswerKustomizationError
  BY <1>3, AnswerErrorKeeps, RenderKeeps, UnrenderedKeeps,
     KustomizationErrorKeeps
<1>4. CASE Kustomize \/ BeginKustomization
  BY <1>4, KustomizeKeeps, BeginKeeps
<1>5. CASE LoseArchive \/ UNCHANGED everything
  <2>1. UNCHANGED <<vars, controller, stage, failure>>
    BY <1>5 DEF LoseArchive, Kustomizations!Expire, everything, kustomization
  <2>2. UNCHANGED <<pc, err, outcome, action, root, handler, failed, written>>
    BY <2>1 DEF vars, controller
  <2>3. RequestTypeOK' /\ ActionOK'
    BY <2>1, <2>2 DEF ControllerInv, RequestTypeOK, ActionOK
  <2>4. FailedOK'
    BY <2>1, <2>2 DEF ControllerInv, FailedOK
  <2>5. WrittenOK'
    BY <2>1, <2>2 DEF ControllerInv, WrittenOK, Answered
  <2> QED BY <2>3, <2>4, <2>5 DEF ControllerInv
<1> QED BY <1>1, <1>2, <1>3, <1>4, <1>5 DEF ServiceNext, Handle

\* The invariants of a request and of the call it makes hold together.
THEOREM RequestInvariance == ServiceSpec => [](Inv /\ ControllerInv)
<1>1. Start => Inv /\ ControllerInv
  BY InitInv, StartControllerInv DEF Start
<1>2. Inv /\ ControllerInv /\ [ServiceNext]_everything =>
          (Inv /\ ControllerInv)'
  <2>1. Inv /\ [Next]_vars => Inv'
    BY NextType, NextGroup, NextPlace DEF Inv
  <2> QED BY <2>1, CallStepOrStutter, ControllerStep
<1> QED BY <1>1, <1>2, PTL DEF ServiceSpec

\* Every request that has returned was answered once, and nothing is at work
\* for it any more.
THEOREM RequestsAreAnsweredOnce == ServiceSpec => []AnsweredOnce
<1>1. Inv /\ ControllerInv => AnsweredOnce
  BY AnswersFit DEF ControllerInv
<1> QED BY <1>1, RequestInvariance, PTL

\* What is answered fits what happened to the chart or the kustomization.
THEOREM AnswersAreFit == ServiceSpec => []AnswerFitsWhatHappened
<1>1. Inv /\ ControllerInv => AnswerFitsWhatHappened
  BY AnswersFit DEF ControllerInv
<1> QED BY <1>1, RequestInvariance, PTL

-----------------------------------------------------------------------------
\* The archive that is packed, cached and unpacked.
ArchiveOK ==
    /\ archive # None => archive = DOMAIN tree
    /\ stage = "retrieve" => tarball = {}
    /\ stage = "pack" => tarball \cup left = DOMAIN tree
    /\ stage \in {"unpack", "inject", "rendered"} => tarball = DOMAIN tree

LEMMA ArchiveStep ==
    ArchiveOK /\ [Kustomizations!Next]_Kustomizations!vars => ArchiveOK'
<1> SUFFICES ASSUME ArchiveOK, [Kustomizations!Next]_Kustomizations!vars
             PROVE  ArchiveOK'
  OBVIOUS
<1>1. CASE Kustomizations!Begin
  BY <1>1 DEF Kustomizations!Begin, Kustomizations!Fail, ArchiveOK
<1>2. CASE Kustomizations!Hit \/ Kustomizations!Miss \/ Kustomizations!PackFile
  BY <1>2 DEF Kustomizations!Hit, Kustomizations!Miss,
     Kustomizations!PackFile, ArchiveOK
<1>3. CASE Kustomizations!StoreArchive
  BY <1>3 DEF Kustomizations!StoreArchive, ArchiveOK
<1>4. CASE \/ Kustomizations!FailToRetrieve \/ Kustomizations!FailToPack
           \/ Kustomizations!FailToUnpack \/ Kustomizations!FailToInject
           \/ Kustomizations!FailToRun
  BY <1>4 DEF Kustomizations!FailToRetrieve, Kustomizations!FailToPack,
     Kustomizations!FailToUnpack, Kustomizations!FailToInject,
     Kustomizations!FailToRun, Kustomizations!Fail, ArchiveOK
<1>5. CASE \/ Kustomizations!UnpackFile \/ Kustomizations!EndUnpack
           \/ Kustomizations!Inject \/ Kustomizations!InjectIntoDirectory
           \/ Kustomizations!Run
  BY <1>5 DEF Kustomizations!UnpackFile, Kustomizations!EndUnpack,
     Kustomizations!Inject, Kustomizations!InjectIntoDirectory,
     Kustomizations!Pending, Kustomizations!Run, ArchiveOK
<1>6. CASE Kustomizations!Expire \/ UNCHANGED Kustomizations!vars
  BY <1>6 DEF Kustomizations!Expire, Kustomizations!vars, ArchiveOK
<1> QED
  BY <1>1, <1>2, <1>3, <1>4, <1>5, <1>6
  DEF Kustomizations!Next, Kustomizations!Step

\* No tree is served in part, to the request that packs it or to a later one.
THEOREM TreesAreServedWhole == ServiceSpec => []ArchivesAreWhole
<1>1. Kustomizations!Init => ArchiveOK
  BY DEF Kustomizations!Init, ArchiveOK
<1>2. ArchiveOK => ArchivesAreWhole
  BY DEF ArchiveOK, ArchivesAreWhole, Kustomizations!ArchivesAreWhole
<1> QED
  BY <1>1, <1>2, ArchiveStep, KustomizationsAreImplemented, PTL
  DEF Kustomizations!Spec

-----------------------------------------------------------------------------
\* Sequences as paths: the last name and what is before it, and prefixes.
LEMMA NamesOfPaths ==
    ASSUME NEW p \in Seq(STRING)
    PROVE  /\ \A n : /\ Append(p, n) # <<>>
                     /\ Kustomizations!Front(Append(p, n)) = p
                     /\ Kustomizations!Last(Append(p, n)) = n
           /\ p # <<>> =>
                  /\ p = Append(Kustomizations!Front(p), Kustomizations!Last(p))
                  /\ Kustomizations!Front(p) \in Seq(STRING)
                  /\ Len(Kustomizations!Front(p)) = Len(p) - 1
<1>1. ASSUME NEW n
      PROVE  Append(p, n) # <<>> /\ Kustomizations!Front(Append(p, n)) = p
  BY DEF Kustomizations!Front
<1>2. ASSUME NEW n
      PROVE  Kustomizations!Last(Append(p, n)) = n
  BY DEF Kustomizations!Last
<1>3. ASSUME p # <<>>
      PROVE  p = Append(Kustomizations!Front(p), Kustomizations!Last(p))
  BY <1>3 DEF Kustomizations!Front, Kustomizations!Last
<1>4. ASSUME p # <<>>
      PROVE  Kustomizations!Front(p) \in Seq(STRING)
  BY <1>4 DEF Kustomizations!Front
<1>5. ASSUME NEW s \in Seq(STRING), NEW n, p = Append(s, n)
      PROVE  Len(s) = Len(p) - 1
  BY <1>5
<1> QED BY <1>1, <1>2, <1>3, <1>4, <1>5, Zenon

LEMMA PrefixesOfPaths ==
    ASSUME NEW p \in Seq(STRING)
    PROVE  /\ Kustomizations!IsPrefix(<<>>, p)
           /\ Kustomizations!IsPrefix(p, p)
           /\ p # <<>> => Kustomizations!IsPrefix(Kustomizations!Front(p), p)
           /\ ~Kustomizations!IsStrictPrefix(p, p)
<1>1. Kustomizations!IsPrefix(<<>>, p) /\ Kustomizations!IsPrefix(p, p)
  BY DEF Kustomizations!IsPrefix
<1>2. ASSUME p # <<>>
      PROVE  Kustomizations!IsPrefix(Kustomizations!Front(p), p)
  BY <1>2 DEF Kustomizations!IsPrefix, Kustomizations!Front
<1>3. ~Kustomizations!IsStrictPrefix(p, p)
  BY DEF Kustomizations!IsStrictPrefix
<1> QED BY <1>1, <1>2, <1>3

-----------------------------------------------------------------------------
\* What has been injected where p is.
InjectedAt(p) ==
    IF p # <<>> /\ Kustomizations!Front(p) = request.path
    THEN Kustomizations!InjectionsOf(Kustomizations!Last(p)) ELSE {}

\* The file at p is that of the tree, or the last that was injected.
FileOK(p) ==
    IF InjectedAt(p) # {}
    THEN \E i \in InjectedAt(p) :
             /\ \A j \in InjectedAt(p) : j <= i
             /\ files[p] = request.injections[i].content
    ELSE p \in DOMAIN tree /\ files[p] = tree[p].content

\* Files are no directories, and fit but for what is put over the path itself,
\* or above it, by a name that names no file.
InjectedOK ==
    /\ DOMAIN tree \subseteq DOMAIN files
    /\ \A p, q \in DOMAIN files : ~Kustomizations!IsStrictPrefix(p, q)
    /\ \A p \in DOMAIN files :
        /\ p \in Seq(STRING)
        /\ p # <<>> /\ Kustomizations!Front(p) = request.path =>
               Kustomizations!Last(p)
                   \notin {Kustomizations!Here, Kustomizations!Parent}
        /\ FileOK(p) \/ Kustomizations!IsPrefix(p, request.path)

FilesOK ==
    /\ tree \in Trees
    /\ stage # "idle" =>
           request \in Requests /\ injected \in 0..Len(request.injections)
    /\ stage \in {"retrieve", "pack"} => DOMAIN files = {}
    /\ stage \in {"retrieve", "pack", "unpack"} => injected = 0
    /\ stage = "unpack" =>
           /\ left \subseteq DOMAIN tree
           /\ DOMAIN files = DOMAIN tree \ left
           /\ \A p \in DOMAIN files : files[p] = tree[p].content
    /\ stage = "inject" => InjectedOK
    /\ stage = "rendered" =>
           InjectedOK /\ \A p \in DOMAIN files : FileOK(p)

LEMMA AppendKeepsType ==
    ASSUME NEW S, NEW s \in Seq(S), NEW e \in S
    PROVE  Append(s, e) \in Seq(S)
OBVIOUS

\* The path of an injected file is below that of the request, or not.
LEMMA PathsOfInjections ==
    ASSUME NEW path \in Seq(STRING), NEW name \in STRING
    PROVE  /\ Kustomizations!Join(path, name) \in Seq(STRING)
           /\ name \notin {Kustomizations!Here, Kustomizations!Parent} =>
                  Kustomizations!Join(path, name) = Append(path, name)
           /\ name \in {Kustomizations!Here, Kustomizations!Parent} =>
                  Kustomizations!IsPrefix(Kustomizations!Join(path, name), path)
<1>1. CASE name \notin {Kustomizations!Here, Kustomizations!Parent}
  <2>1. Kustomizations!Join(path, name) = Append(path, name)
    BY <1>1 DEF Kustomizations!Join
  <2>2. Append(path, name) \in Seq(STRING)
    BY AppendKeepsType, Zenon
  <2> QED BY <1>1, <2>1, <2>2
<1>2. CASE name \in {Kustomizations!Here, Kustomizations!Parent}
  <2>1. \/ Kustomizations!Join(path, name) = path
        \/ path # <<>>
           /\ Kustomizations!Join(path, name) = Kustomizations!Front(path)
    BY <1>2 DEF Kustomizations!Join
  <2> QED BY <1>2, <2>1, NamesOfPaths, PrefixesOfPaths
<1> QED BY <1>1, <1>2

LEMMA NameOfInjection ==
    ASSUME NEW s \in Seq([name : STRING, content : STRING]),
           NEW n \in 0..Len(s), n < Len(s)
    PROVE  s[n + 1].name \in STRING /\ s[n + 1].content \in STRING
<1>1. ASSUME NEW S, NEW t \in Seq(S), NEW i \in 1..Len(t)
      PROVE  t[i] \in S
  OBVIOUS
<1>2. n + 1 \in 1..Len(s)
  OBVIOUS
<1>3. s[n + 1] \in [name : STRING, content : STRING]
  BY <1>1, <1>2, Zenon
<1> QED BY <1>3

\* A step that injects keeps what was injected elsewhere.
LEMMA InjectedElsewhere ==
    ASSUME NEW p \in Seq(STRING), p # <<>>, request' = request,
           injected \in Nat, injected' = injected + 1,
           request.path \in Seq(STRING),
           p # Append(request.path, request.injections[injected + 1].name)
    PROVE  InjectedAt(p)' = InjectedAt(p)
<1>1. CASE Kustomizations!Front(p) # request.path
  BY <1>1 DEF InjectedAt
<1>2. CASE Kustomizations!Front(p) = request.path
  <2>1. Kustomizations!Last(p) # request.injections[injected + 1].name
    BY <1>2, NamesOfPaths
  <2>2. 1..(injected + 1) = 1..injected \cup {injected + 1}
    OBVIOUS
  <2>3. Kustomizations!InjectionsOf(Kustomizations!Last(p))'
            = Kustomizations!InjectionsOf(Kustomizations!Last(p))
    BY <2>1, <2>2 DEF Kustomizations!InjectionsOf
  <2> QED BY <1>2, <2>3 DEF InjectedAt
<1> QED BY <1>1, <1>2

LEMMA InjectKeeps ==
    ASSUME FilesOK, Kustomizations!Inject
    PROVE  FilesOK'
<1> DEFINE name == Kustomizations!Current.name
           new == Kustomizations!InjectedPath
<1>1. /\ stage = "inject" /\ stage' = "inject"
      /\ InjectedOK
      /\ request \in Requests /\ injected \in 0..Len(request.injections)
      /\ injected < Len(request.injections)
      /\ UNCHANGED <<tree, request, left>> /\ injected' = injected + 1
      /\ ~Kustomizations!IsDirectory(new)
      /\ \A p \in DOMAIN files : ~Kustomizations!IsStrictPrefix(p, new)
  BY DEF FilesOK, Kustomizations!Inject, Kustomizations!Pending
<1>2. /\ request.path \in Seq(STRING)
      /\ request.injections \in Seq([name : STRING, content : STRING])
  BY <1>1, KustomizationAssumption DEF Kustomizations!Request
<1>3. name \in STRING /\ name = request.injections[injected + 1].name
  BY <1>1, <1>2, NameOfInjection DEF Kustomizations!Current
<1>4. /\ new \in Seq(STRING)
      /\ name \notin {Kustomizations!Here, Kustomizations!Parent} =>
             new = Append(request.path, name)
      /\ name \in {Kustomizations!Here, Kustomizations!Parent} =>
             Kustomizations!IsPrefix(new, request.path)
  BY <1>2, <1>3, PathsOfInjections DEF Kustomizations!InjectedPath
<1>5. /\ DOMAIN files' = DOMAIN files \cup {new}
      /\ files'[new] = request.injections[injected + 1].content
      /\ \A p \in DOMAIN files : p # new => files'[p] = files[p]
  BY DEF Kustomizations!Inject, Kustomizations!Written,
     Kustomizations!Current
<1>6. \A p, q \in DOMAIN files' : ~Kustomizations!IsStrictPrefix(p, q)
  <2>1. \A q \in DOMAIN files : ~Kustomizations!IsStrictPrefix(new, q)
    BY <1>1 DEF Kustomizations!IsDirectory
  <2>2. ~Kustomizations!IsStrictPrefix(new, new)
    BY <1>4, PrefixesOfPaths
  <2> QED BY <1>1, <1>5, <2>1, <2>2 DEF InjectedOK
<1>7. Kustomizations!IsPrefix(new, request.path) =>
          ~(new # <<>> /\ Kustomizations!Front(new) = request.path)
  BY <1>2, <1>4, NamesOfPaths DEF Kustomizations!IsPrefix
<1>8. ASSUME NEW p \in DOMAIN files'
      PROVE  /\ p \in Seq(STRING)
             /\ p # <<>> /\ Kustomizations!Front(p) = request.path =>
                    Kustomizations!Last(p)
                        \notin {Kustomizations!Here, Kustomizations!Parent}
  <2>1. CASE p = new
    BY <1>2, <1>4, <1>7, <2>1, NamesOfPaths
  <2>2. CASE p \in DOMAIN files
    BY <1>1, <2>2 DEF InjectedOK
  <2> QED BY <1>5, <2>1, <2>2
<1>9. ASSUME NEW p \in DOMAIN files'
      PROVE  FileOK(p)' \/ Kustomizations!IsPrefix(p, request.path)
  <2>1. CASE p = new /\ name \notin {Kustomizations!Here, Kustomizations!Parent}
    <3>1. /\ Kustomizations!Front(p) = request.path /\ p # <<>>
          /\ Kustomizations!Last(p) = name
      <4>1. p = Append(request.path, name)
        BY <1>4, <2>1
      <4> HIDE DEF name, new
      <4> QED BY <1>2, <4>1, NamesOfPaths
    <3>2. InjectedAt(p)' = {i \in 1..(injected + 1) :
                                request.injections[i].name = name}
      BY <1>1, <3>1 DEF InjectedAt, Kustomizations!InjectionsOf
    <3>3. injected + 1 \in InjectedAt(p)'
      BY <1>1, <1>3, <3>2
    <3>4. \A j \in InjectedAt(p)' : j <= injected + 1
      BY <1>1, <3>2
    <3>5. files'[p] = request'.injections[injected + 1].content
      BY <1>1, <1>5, <2>1
    <3> QED BY <3>3, <3>4, <3>5 DEF FileOK
  <2>2. CASE p # new
    <3>1. p \in DOMAIN files /\ files'[p] = files[p]
      BY <1>5, <2>2
    <3>2. CASE p = <<>>
      BY <1>2, <3>2, PrefixesOfPaths
    <3>3. CASE p # <<>>
      <4>1. p # Append(request.path, name)
        <5>1. ASSUME p = Append(request.path, name)
              PROVE  FALSE
          <6>1. /\ Kustomizations!Front(p) = request.path
                /\ Kustomizations!Last(p) = name
            BY <1>2, <5>1, NamesOfPaths
          <6>2. name \notin {Kustomizations!Here, Kustomizations!Parent}
            BY <1>8, <3>3, <6>1
          <6> QED BY <1>4, <2>2, <5>1, <6>2
        <5> QED BY <5>1
      <4>2. InjectedAt(p)' = InjectedAt(p)
        BY <1>1, <1>2, <1>3, <1>8, <3>3, <4>1, InjectedElsewhere
      <4>3. FileOK(p) \/ Kustomizations!IsPrefix(p, request.path)
        BY <1>1, <3>1 DEF InjectedOK
      <4> QED BY <1>1, <3>1, <4>2, <4>3 DEF FileOK
    <3> QED BY <3>2, <3>3
  <2> QED BY <1>4, <2>1, <2>2
<1>10. InjectedOK'
  <2>1. DOMAIN tree' \subseteq DOMAIN files'
    BY <1>1, <1>5 DEF InjectedOK
  <2> QED BY <1>1, <1>6, <1>8, <1>9, <2>1 DEF InjectedOK
<1> QED BY <1>1, <1>10 DEF FilesOK

LEMMA InjectIntoDirectoryKeeps ==
    ASSUME FilesOK, Kustomizations!InjectIntoDirectory
    PROVE  FilesOK'
<1> DEFINE name == Kustomizations!Current.name
           new == Kustomizations!InjectedPath
<1>1. /\ stage = "inject" /\ InjectedOK
      /\ request \in Requests /\ injected \in 0..Len(request.injections)
      /\ injected < Len(request.injections)
      /\ UNCHANGED <<tree, request, left, files, stage>>
      /\ injected' = injected + 1
      /\ Kustomizations!IsDirectory(new)
  BY DEF FilesOK, Kustomizations!InjectIntoDirectory, Kustomizations!Pending
<1>2. /\ request.path \in Seq(STRING)
      /\ request.injections \in Seq([name : STRING, content : STRING])
  BY <1>1, KustomizationAssumption DEF Kustomizations!Request
<1>3. name \in STRING /\ name = request.injections[injected + 1].name
  BY <1>1, <1>2, NameOfInjection DEF Kustomizations!Current
<1>4. name \notin {Kustomizations!Here, Kustomizations!Parent} =>
          new = Append(request.path, name)
  BY <1>2, <1>3, PathsOfInjections DEF Kustomizations!InjectedPath
<1>5. ASSUME NEW p \in DOMAIN files
      PROVE  FileOK(p)' \/ Kustomizations!IsPrefix(p, request.path)
  <2>1. CASE p = <<>>
    BY <1>2, <2>1, PrefixesOfPaths
  <2>2. CASE p # <<>>
    <3>1. p # Append(request.path, name)
      <4>1. ASSUME p = Append(request.path, name)
            PROVE  FALSE
        <5>1. /\ Kustomizations!Front(p) = request.path
              /\ Kustomizations!Last(p) = name
          BY <1>2, <4>1, NamesOfPaths
        <5>2. p = new
          BY <1>1, <1>4, <2>2, <4>1, <5>1 DEF InjectedOK
        <5> QED BY <1>1, <2>2, <5>2
                DEF InjectedOK, Kustomizations!IsDirectory
      <4> QED BY <4>1
    <3>2. InjectedAt(p)' = InjectedAt(p)
      BY <1>1, <1>2, <1>3, <2>2, <3>1, InjectedElsewhere DEF InjectedOK
    <3> QED BY <1>1, <3>2 DEF InjectedOK, FileOK
  <2> QED BY <2>1, <2>2
<1>6. InjectedOK'
  BY <1>1, <1>5 DEF InjectedOK
<1> QED BY <1>1, <1>6 DEF FilesOK

\* Kustomize finds its file below the path: then there is none at the path.
LEMMA RunKeeps ==
    ASSUME FilesOK, Kustomizations!Run
    PROVE  FilesOK'
<1> DEFINE wanted == Append(request.path, "kustomization.yaml")
<1>1. /\ InjectedOK /\ stage' = "rendered"
      /\ request \in Requests /\ injected \in 0..Len(request.injections)
      /\ UNCHANGED <<tree, request, left, files, injected>>
      /\ wanted \in DOMAIN files
  BY DEF FilesOK, Kustomizations!Run
<1>2. request.path \in Seq(STRING) /\ wanted \in Seq(STRING)
  BY <1>1, KustomizationAssumption DEF Kustomizations!Request, InjectedOK
<1>3. ASSUME NEW p \in DOMAIN files, Kustomizations!IsPrefix(p, request.path)
      PROVE  FALSE
  <2>1. p \in Seq(STRING)
    BY <1>1 DEF InjectedOK
  <2>2. Kustomizations!IsStrictPrefix(p, wanted)
    BY <1>2, <1>3, <2>1
    DEF Kustomizations!IsStrictPrefix, Kustomizations!IsPrefix
  <2> QED BY <1>1, <2>2 DEF InjectedOK
<1>4. \A p \in DOMAIN files : FileOK(p)
  BY <1>1, <1>3 DEF InjectedOK
<1>5. \A p : FileOK(p)' = FileOK(p)
  BY <1>1 DEF FileOK, InjectedAt, Kustomizations!InjectionsOf
<1> QED BY <1>1, <1>4, <1>5 DEF FilesOK, InjectedOK

LEMMA EndUnpackKeeps ==
    ASSUME FilesOK, Kustomizations!EndUnpack
    PROVE  FilesOK'
<1>1. /\ stage' = "inject" /\ injected = 0 /\ tree \in Trees
      /\ request \in Requests
      /\ UNCHANGED <<tree, request, left, files, injected>>
      /\ DOMAIN files = DOMAIN tree
      /\ \A p \in DOMAIN files : files[p] = tree[p].content
  BY DEF FilesOK, Kustomizations!EndUnpack
<1>2. Kustomizations!IsTree(tree)
  BY <1>1, KustomizationAssumption
<1>3. \A p \in DOMAIN files : FileOK(p)'
  <2>1. \A n : Kustomizations!InjectionsOf(n)' = {}
    BY <1>1 DEF Kustomizations!InjectionsOf
  <2>2. \A p : InjectedAt(p)' = {}
    BY <2>1 DEF InjectedAt
  <2> QED BY <1>1, <2>2 DEF FileOK
<1>4. InjectedOK'
  BY <1>1, <1>2, <1>3 DEF InjectedOK, Kustomizations!IsTree
<1> QED BY <1>1, <1>4 DEF FilesOK

LEMMA UnpackKeeps ==
    ASSUME FilesOK, Kustomizations!UnpackFile
    PROVE  FilesOK'
<1>1. PICK p \in left :
          /\ files' = Kustomizations!Written(p, tree[p].content)
          /\ left' = left \ {p}
  BY DEF Kustomizations!UnpackFile
<1>2. /\ stage = "unpack" /\ UNCHANGED <<tree, stage, request, injected>>
  BY DEF Kustomizations!UnpackFile
<1> QED BY <1>1, <1>2 DEF FilesOK, Kustomizations!Written

LEMMA FilesStep ==
    ArchiveOK /\ FilesOK /\ [Kustomizations!Next]_Kustomizations!vars =>
        FilesOK'
<1> SUFFICES ASSUME ArchiveOK, FilesOK,
                    [Kustomizations!Next]_Kustomizations!vars
             PROVE  FilesOK'
  OBVIOUS
<1>1. CASE Kustomizations!Begin
  <2>1. /\ request' \in Requests
        /\ request'.injections \in Seq([name : STRING, content : STRING])
    BY <1>1, KustomizationAssumption
    DEF Kustomizations!Begin, Kustomizations!Request
  <2>2. 0 \in 0..Len(request'.injections)
    BY <2>1
  <2>3. DOMAIN files' = {}
    BY <1>1 DEF Kustomizations!Begin
  <2> QED BY <1>1, <2>1, <2>2, <2>3
          DEF Kustomizations!Begin, Kustomizations!Fail, FilesOK
<1>2. CASE \/ Kustomizations!Miss \/ Kustomizations!PackFile
  BY <1>2 DEF Kustomizations!Miss, Kustomizations!PackFile, FilesOK
<1>3. CASE Kustomizations!Hit \/ Kustomizations!StoreArchive
  <2>1. stage' = "unpack" /\ left' = DOMAIN tree
    BY <1>3 DEF Kustomizations!Hit, Kustomizations!StoreArchive, ArchiveOK
  <2> QED BY <1>3, <2>1
          DEF Kustomizations!Hit, Kustomizations!StoreArchive, FilesOK
<1>4. CASE \/ Kustomizations!FailToRetrieve \/ Kustomizations!FailToPack
           \/ Kustomizations!FailToUnpack \/ Kustomizations!FailToInject
           \/ Kustomizations!FailToRun
  BY <1>4 DEF Kustomizations!FailToRetrieve, Kustomizations!FailToPack,
     Kustomizations!FailToUnpack, Kustomizations!FailToInject,
     Kustomizations!Pending, Kustomizations!FailToRun, Kustomizations!Fail,
     FilesOK
<1>5. CASE \/ Kustomizations!UnpackFile \/ Kustomizations!EndUnpack
           \/ Kustomizations!Inject \/ Kustomizations!InjectIntoDirectory
           \/ Kustomizations!Run
  BY <1>5, UnpackKeeps, EndUnpackKeeps, InjectKeeps, InjectIntoDirectoryKeeps,
     RunKeeps
<1>6. CASE Kustomizations!Expire \/ UNCHANGED Kustomizations!vars
  <2>1. UNCHANGED <<tree, stage, request, left, files, injected>>
    BY <1>6 DEF Kustomizations!Expire, Kustomizations!vars
  <2>2. \A p : FileOK(p)' = FileOK(p)
    BY <2>1 DEF FileOK, InjectedAt, Kustomizations!InjectionsOf
  <2> QED BY <2>1, <2>2 DEF FilesOK, InjectedOK
<1> QED
  BY <1>1, <1>2, <1>3, <1>4, <1>5, <1>6
  DEF Kustomizations!Next, Kustomizations!Step

\* Kustomize runs on the tree and on what this request has injected, whatever
\* requests came before and whatever the names of the injections.
THEOREM KustomizeSeesOnlyTheTree == ServiceSpec => []KustomizeSeesTheTree
<1>1. Kustomizations!Init => ArchiveOK /\ FilesOK
  BY DEF Kustomizations!Init, ArchiveOK, FilesOK
<1>2. FilesOK => KustomizeSeesTheTree
  <2> SUFFICES ASSUME FilesOK, stage = "rendered",
                      NEW p \in DOMAIN tree \cup DOMAIN files
               PROVE  /\ p \in DOMAIN files
                      /\ IF InjectedAt(p) # {}
                         THEN \E i \in InjectedAt(p) :
                                  /\ \A j \in InjectedAt(p) : j <= i
                                  /\ files[p] = request.injections[i].content
                         ELSE p \in DOMAIN tree /\ files[p] = tree[p].content
    BY DEF KustomizeSeesTheTree, Kustomizations!KustomizeSeesTheTree,
       InjectedAt
  <2> QED BY DEF FilesOK, InjectedOK, FileOK
<1>3. ArchiveOK /\ FilesOK /\ [Kustomizations!Next]_Kustomizations!vars =>
          (ArchiveOK /\ FilesOK)'
  BY ArchiveStep, FilesStep
<1> QED
  BY <1>1, <1>2, <1>3, KustomizationsAreImplemented, PTL
  DEF Kustomizations!Spec

-----------------------------------------------------------------------------
\* Types of what a kustomization has, given where its files come from.
LEMMA KustomizationTypeStep ==
    FilesOK /\ Kustomizations!TypeOK
        /\ [Kustomizations!Next]_Kustomizations!vars =>
            Kustomizations!TypeOK'
<1> SUFFICES ASSUME FilesOK, Kustomizations!TypeOK,
                    [Kustomizations!Next]_Kustomizations!vars
             PROVE  Kustomizations!TypeOK'
  OBVIOUS
<1> USE DEF Kustomizations!TypeOK
<1>0. /\ Kustomizations!IsTree(tree)
      /\ \A p \in DOMAIN tree : p \in Seq(STRING) /\ tree[p].content \in STRING
  BY KustomizationAssumption DEF Kustomizations!IsTree, Kustomizations!Node
<1>1. CASE Kustomizations!Begin
  <2>1. request' \in Requests
        /\ request'.injections \in Seq([name : STRING, content : STRING])
    BY <1>1, KustomizationAssumption
    DEF Kustomizations!Begin, Kustomizations!Request
  <2>2. 0 \in 0..Len(request'.injections)
    BY <2>1
  <2>3. DOMAIN files' = {}
    BY <1>1 DEF Kustomizations!Begin
  <2> QED BY <1>1, <2>1, <2>2, <2>3
          DEF Kustomizations!Begin, Kustomizations!Fail
<1>2. CASE \/ Kustomizations!Miss \/ Kustomizations!PackFile
           \/ Kustomizations!EndUnpack \/ Kustomizations!Run
  BY <1>2 DEF Kustomizations!Miss, Kustomizations!PackFile,
     Kustomizations!EndUnpack, Kustomizations!Run
<1>3. CASE Kustomizations!Hit \/ Kustomizations!StoreArchive
  BY <1>3 DEF Kustomizations!Hit, Kustomizations!StoreArchive
<1>4. CASE \/ Kustomizations!FailToRetrieve \/ Kustomizations!FailToPack
           \/ Kustomizations!FailToUnpack \/ Kustomizations!FailToInject
           \/ Kustomizations!FailToRun
  BY <1>4 DEF Kustomizations!FailToRetrieve, Kustomizations!FailToPack,
     Kustomizations!FailToUnpack, Kustomizations!FailToInject,
     Kustomizations!FailToRun, Kustomizations!Fail
<1>5. CASE Kustomizations!UnpackFile
  <2>1. PICK p \in left :
            /\ files' = Kustomizations!Written(p, tree[p].content)
            /\ left' = left \ {p}
    BY <1>5 DEF Kustomizations!UnpackFile
  <2> QED BY <1>0, <1>5, <2>1
          DEF Kustomizations!UnpackFile, Kustomizations!Written
<1>6. CASE Kustomizations!Expire \/ UNCHANGED Kustomizations!vars
  BY <1>6 DEF Kustomizations!Expire, Kustomizations!vars
<1>7. CASE Kustomizations!InjectIntoDirectory
  BY <1>7 DEF Kustomizations!InjectIntoDirectory, Kustomizations!Pending,
     FilesOK
<1>8. CASE Kustomizations!Inject
  <2>1. /\ request \in Requests /\ injected \in 0..Len(request.injections)
        /\ injected < Len(request.injections)
        /\ injected' = injected + 1
        /\ files' = Kustomizations!Written(Kustomizations!InjectedPath,
                                          Kustomizations!Current.content)
        /\ UNCHANGED <<tree, archive, stage, request, left, tarball, failure>>
    BY <1>8 DEF Kustomizations!Inject, Kustomizations!Pending, FilesOK
  <2>2. /\ request.path \in Seq(STRING)
        /\ request.injections \in Seq([name : STRING, content : STRING])
    BY <2>1, KustomizationAssumption DEF Kustomizations!Request
  <2>3. /\ Kustomizations!Current.name \in STRING
        /\ Kustomizations!Current.content \in STRING
    BY <2>1, <2>2, NameOfInjection DEF Kustomizations!Current
  <2>4. Kustomizations!InjectedPath \in Seq(STRING)
    BY <2>2, <2>3, PathsOfInjections DEF Kustomizations!InjectedPath
  <2>5. injected' \in 0..Len(request.injections)
    BY <2>1, <2>2
  <2> QED BY <2>1, <2>3, <2>4, <2>5 DEF Kustomizations!Written
<1> QED
  BY <1>1, <1>2, <1>3, <1>4, <1>5, <1>6, <1>7,
     <1>8
  DEF Kustomizations!Next, Kustomizations!Step

LEMMA TypeOfAnswers ==
    ASSUME NEW Statuses, NEW Titles,
           NEW status \in Statuses, NEW title \in Titles,
           Answered(status, title)
    PROVE  written \in Seq([status : Statuses, title : Titles])
<1>1. [status |-> status, title |-> title]
          \in [status : Statuses, title : Titles]
  OBVIOUS
<1>2. ASSUME NEW S, NEW answer \in S
      PROVE  <<answer>> \in Seq(S)
  OBVIOUS
<1>3. written = <<[status |-> status, title |-> title]>>
  BY DEF Answered
<1> QED BY <1>1, <1>2, <1>3, Zenon

\* Every variable of a request keeps its type.
THEOREM RequestTypeCorrectness == ServiceSpec => []ControllerTypeOK
<1>1. Kustomizations!Init => ArchiveOK /\ FilesOK /\ Kustomizations!TypeOK
  BY DEF Kustomizations!Init, ArchiveOK, FilesOK, Kustomizations!TypeOK
<1>2. ArchiveOK /\ FilesOK /\ Kustomizations!TypeOK
          /\ [Kustomizations!Next]_Kustomizations!vars =>
              (ArchiveOK /\ FilesOK /\ Kustomizations!TypeOK)'
  BY ArchiveStep, FilesStep, KustomizationTypeStep
<1>3. ServiceSpec => []Kustomizations!TypeOK
  BY <1>1, <1>2, KustomizationsAreImplemented, PTL DEF Kustomizations!Spec
<1>4. ControllerInv /\ Kustomizations!TypeOK => ControllerTypeOK
  <2> SUFFICES ASSUME ControllerInv, Kustomizations!TypeOK
               PROVE  ControllerTypeOK
    OBVIOUS
  <2> DEFINE Statuses == {200, 400, 500}
             Titles == Causes \cup Wraps
                           \cup {"malformed body", "internal", None}
             Answers == Seq([status : Statuses, title : Titles])
  <2>1. /\ 200 \in Statuses /\ 400 \in Statuses /\ 500 \in Statuses
        /\ None \in Titles /\ "malformed body" \in Titles
        /\ "internal" \in Titles
    OBVIOUS
  <2>2. ASSUME failed # None
        PROVE  Status(failed) \in Statuses /\ Title(failed) \in Titles
    <3>1. failed \in Errors
      BY <2>2 DEF ControllerInv, RequestTypeOK
    <3>2. Status(failed) \in {400, 500}
      BY <3>1, TitlesOfErrors
    <3>3. Title(failed) \in Causes \cup Wraps \cup {"internal"}
      BY <3>1, TitlesOfErrors
    <3>4. Status(failed) \in Statuses
      BY <3>2
    <3>5. Title(failed) \in Titles
      BY <3>3
    <3> QED BY <3>4, <3>5
  <2>3. \/ handler # "returned" /\ written = <<>>
        \/ Answered(200, None)
        \/ Answered(400, "malformed body")
        \/ Answered(500, "internal")
        \/ failed # None /\ Answered(Status(failed), Title(failed))
    BY DEF ControllerInv, RequestTypeOK, WrittenOK
  <2>4. <<>> \in Answers
    OBVIOUS
  <2> HIDE DEF Statuses, Titles
  <2>5. written \in Answers
    BY <2>1, <2>2, <2>3, <2>4, TypeOfAnswers, Zenon
  <2>6. Answers = Seq([status : {200, 400, 500},
                       title : Causes \cup Wraps
                               \cup {"malformed body", "internal", None}])
    BY DEF Statuses, Titles
  <2> QED BY <2>5, <2>6 DEF ControllerInv, RequestTypeOK, ControllerTypeOK
<1> QED BY <1>3, <1>4, RequestInvariance, PTL
=============================================================================
