------------------------ MODULE ChartRenderer_proofs ------------------------
(***************************************************************************)
(* Proofs about ChartRenderer, for any number of requests, any deployment  *)
(* that satisfies DeploymentAssumption, and any charts.                    *)
(***************************************************************************)
EXTENDS ChartRenderer, SequenceTheorems, TLAPS

\* A request has these API versions, and shares none of them with anybody.
Holds(r, list) ==
    \/ array[r] = "own" /\ own[r] = list
    \/ /\ array[r] = "shared" /\ length[r] = 0
       /\ list = <<>> /\ deployed.spare = 0

\* Nobody writes into the array of the default versions.
Private ==
    \A r \in Request :
        /\ pc[r] \in {"idle", "values", "configured"} =>
               array[r] = "shared" /\ length[r] = 0
        /\ pc[r] = "asked" => Holds(r, deployed.configured)
        /\ pc[r] \in {"coalesce", "copy", "engine", "manifests", "hooks", "ok"} =>
               Holds(r, deployed.configured \o asked[r].versions)

\* The content of a map that was given to the templates, or copied from one.
Given(map, r, level, below) == map.key = GivenIn(r, level) /\ map.below = below

\* What templates reach is not what the metadata refers to.
Separate(r) ==
    /\ pc[r] = "copy" =>
           /\ Given(heap[r]["root"], r, "root", "below")
           /\ Given(heap[r]["below"], r, "below", None)
    /\ pc[r] = "engine" => heap[r]["root"].below = "below"
    /\ pc[r] \in {"engine", "manifests", "hooks", "ok"} =>
           /\ metadata[r] = "copied root"
           /\ Given(heap[r]["copied root"], r, "root", "copied below")
           /\ Given(heap[r]["copied below"], r, "below", None)

Separated == \A r \in Request : Separate(r)

Inv == TypeOK /\ Private /\ Separated

-----------------------------------------------------------------------------
\* What is held is what is read.
LEMMA HeldIsRead ==
    ASSUME NEW r \in Request, NEW list \in Seq(Version), Holds(r, list)
    PROVE  APIVersions(r) = list
  BY DEF Holds, APIVersions

\* append of the configured versions leaves the request with just them.
LEMMA ConfiguredIsHeld ==
    ASSUME TypeOK, NEW r \in Request, array[r] = "shared", length[r] = 0,
           AppendVersions(r, deployed.configured), UNCHANGED deployed
    PROVE  Holds(r, deployed.configured)'
  <1> DEFINE list == deployed.configured
  <1>1. /\ list \in Seq(Version) /\ deployed.spare \in Nat
        /\ deployed.spare = 0 \/ Len(list) > deployed.spare
    BY DeploymentAssumption DEF TypeOK
  <1>2. CASE Len(list) <= deployed.spare
    <2>1. deployed.spare = 0 /\ Len(list) = 0 /\ list = <<>>
      BY <1>1, <1>2
    <2>2. length'[r] = 0 /\ array'[r] = "shared"
      BY <2>1 DEF AppendVersions, TypeOK
    <2> QED
      BY <2>1, <2>2 DEF Holds
  <1>3. CASE Len(list) > deployed.spare
    <2>1. array'[r] = "own" /\ own'[r] = APIVersions(r) \o list
      BY <1>1, <1>3 DEF AppendVersions, TypeOK
    <2>2. APIVersions(r) = <<>>
      BY DEF APIVersions
    <2> QED
      BY <1>1, <2>1, <2>2 DEF Holds
  <1> QED
    BY <1>1, <1>2, <1>3

\* append of those that were asked for adds them to what is held.
LEMMA AskedIsHeld ==
    ASSUME TypeOK, NEW r \in Request, NEW list \in Seq(Version),
           NEW items \in Seq(Version), Holds(r, list),
           AppendVersions(r, items), UNCHANGED deployed
    PROVE  Holds(r, list \o items)'
  <1>1. APIVersions(r) = list
    BY HeldIsRead
  <1>2. CASE array[r] = "own"
    <2>1. array'[r] = "own" /\ own'[r] = list \o items
      BY <1>1, <1>2 DEF AppendVersions, TypeOK
    <2> QED
      BY <2>1 DEF Holds
  <1>3. CASE array[r] = "shared" /\ Len(items) = 0
    <2>1. list = <<>> /\ deployed.spare = 0 /\ length[r] = 0 /\ items = <<>>
      BY <1>3 DEF Holds
    <2>2. length'[r] = 0 /\ array'[r] = "shared"
      BY <1>3, <2>1 DEF AppendVersions, TypeOK
    <2> QED
      BY <2>1, <2>2 DEF Holds
  <1>4. CASE array[r] = "shared" /\ Len(items) > 0
    <2>1. deployed.spare = 0 /\ length[r] = 0
      BY <1>4 DEF Holds
    <2>2. array'[r] = "own" /\ own'[r] = list \o items
      BY <1>1, <1>4, <2>1 DEF AppendVersions, TypeOK
    <2> QED
      BY <2>2 DEF Holds
  <1> QED
    BY <1>2, <1>3, <1>4 DEF TypeOK

\* append concerns one request, and keeps the types.
LEMMA AppendIsLocal ==
    ASSUME TypeOK, NEW r \in Request, NEW items \in Seq(Version),
           AppendVersions(r, items), UNCHANGED deployed
    PROVE  /\ room' \in [1..deployed.spare -> Version \cup {None}]
           /\ array' \in [Request -> {"shared", "own"}]
           /\ length' \in [Request -> 0..deployed.spare]
           /\ own' \in [Request -> Seq(Version \cup {None})]
           /\ \A q \in Request \ {r} :
                  array'[q] = array[q] /\ length'[q] = length[q]
                  /\ own'[q] = own[q]
  <1> DEFINE end == length[r] + Len(items)
  <1>1. deployed.spare \in Nat /\ length[r] \in 0..deployed.spare
        /\ end \in Nat
    BY DeploymentAssumption DEF TypeOK
  <1>2. CASE array[r] = "shared" /\ end <= deployed.spare
    <2>1. \A i \in (length[r] + 1)..end : items[i - length[r]] \in Version
      BY <1>1
    <2>2. room' \in [1..deployed.spare -> Version \cup {None}]
      <3>1. room' = [i \in 1..deployed.spare |->
                        IF i \in (length[r] + 1)..end
                        THEN items[i - length[r]] ELSE room[i]]
        BY <1>2 DEF AppendVersions
      <3>2. \A i \in 1..deployed.spare : room[i] \in Version \cup {None}
        BY DEF TypeOK
      <3> HIDE DEF end
      <3> QED
        BY <2>1, <3>1, <3>2
    <2>3. end \in 0..deployed.spare
      BY <1>1, <1>2
    <2> QED
      BY <1>2, <2>2, <2>3 DEF AppendVersions, TypeOK
  <1>3. CASE ~(array[r] = "shared" /\ end <= deployed.spare)
    <2>1. APIVersions(r) \in Seq(Version \cup {None})
      <3>1. CASE array[r] = "own"
        BY <3>1 DEF APIVersions, TypeOK
      <3>2. CASE array[r] = "shared"
        <4>1. \A i \in 1..length[r] : room[i] \in Version \cup {None}
          <5>1. \A i \in 1..length[r] : i \in 1..deployed.spare
            BY <1>1
          <5> QED
            BY <5>1 DEF TypeOK
        <4>2. [i \in 1..length[r] |-> room[i]] \in Seq(Version \cup {None})
          <5> DEFINE n == length[r] s == [i \in 1..n |-> room[i]]
          <5>1. n \in Nat
            BY <1>1
          <5>2. \A i \in 1..n : s[i] \in Version \cup {None}
            BY <4>1
          <5>3. s \in [1..n -> Version \cup {None}]
            BY <5>2
          <5> QED
            BY <5>1, <5>3, SeqDef
        <4> QED
          BY <3>2, <4>2 DEF APIVersions
      <3> QED
        BY <3>1, <3>2 DEF TypeOK
    <2>2. APIVersions(r) \o items \in Seq(Version \cup {None})
      BY <2>1
    <2> QED
      BY <1>3, <2>2 DEF AppendVersions, TypeOK
  <1> QED
    BY <1>2, <1>3

-----------------------------------------------------------------------------
LEMMA Initially == Init => Inv
  <1> SUFFICES ASSUME Init PROVE Inv
    OBVIOUS
  <1>1. deployed.spare \in Nat
    BY DeploymentAssumption DEF Init
  <1> QED
    BY <1>1 DEF Init, Inv, TypeOK, Private, Separated, Separate, Content

\* A map that was given to the templates has the type of its content.
LEMMA GivenIsContent ==
    ASSUME NEW r \in Request, NEW level \in Level, NEW below \in Map \cup {None}
    PROVE  [key |-> GivenIn(r, level), below |-> below] \in Content
  <1>1. GivenIn(r, level)
            \in [Key -> {"parameters", "defaults", "template", None}]
    BY DEF GivenIn
  <1> QED
    BY <1>1 DEF Content

\* Maps are filled, copied and changed as their types allow, and a copy is out
\* of the templates' reach.
LEMMA HeapStep ==
    ASSUME TypeOK, NEW r \in Request, Separate(r),
           Coalesce(r) \/ CopyValues(r) \/ ChangeValues(r)
    PROVE  /\ heap' \in [Request -> [Map -> Content]]
           /\ metadata' \in [Request -> Map \cup {None}]
           /\ Separate(r)'
  <1>1. heap \in [Request -> [Map -> Content]] /\ pc = [q \in Request |-> pc[q]]
        /\ metadata \in [Request -> Map \cup {None}]
    BY DEF TypeOK
  <1>2. CASE Coalesce(r)
    <2>1. PICK root, below :
              /\ root = [key |-> GivenIn(r, "root"), below |-> "below"]
              /\ below = [key |-> GivenIn(r, "below"), below |-> None]
              /\ heap' = [heap EXCEPT ![r]["root"] = root, ![r]["below"] = below]
      BY <1>2 DEF Coalesce
    <2>2. root \in Content /\ below \in Content
      BY <2>1, GivenIsContent DEF Level, Map
    <2>3. heap' \in [Request -> [Map -> Content]]
      BY <1>1, <2>1, <2>2
    <2>4. /\ Given(root, r, "root", "below") /\ Given(below, r, "below", None)
          /\ heap'[r]["root"] = root /\ heap'[r]["below"] = below
      BY <1>1, <2>1 DEF Map, Given
    <2>5. pc'[r] = "copy" /\ UNCHANGED <<asked, metadata>>
      BY <1>1, <1>2 DEF Coalesce, Goto
    <2> QED
      BY <1>1, <2>3, <2>4, <2>5 DEF Separate, Given, GivenIn
  <1>3. CASE CopyValues(r)
    <2>1. /\ Given(heap[r]["root"], r, "root", "below")
          /\ Given(heap[r]["below"], r, "below", None)
          /\ heap[r]["root"].below = "below"
      BY <1>3 DEF CopyValues, Separate, Given
    <2>2. PICK copy : copy = [heap[r]["root"] EXCEPT !.below = "copied below"]
      OBVIOUS
    <2>3. /\ copy \in Content
          /\ copy.key = heap[r]["root"].key /\ copy.below = "copied below"
      <3>1. heap[r]["root"] \in Content
        BY <1>1 DEF Map
      <3> QED
        BY <2>2, <3>1 DEF Content, Map
    <2>4. heap' = [heap EXCEPT ![r]["copied root"] = copy,
                               ![r]["copied below"] = heap[r]["below"]]
      BY <1>3, <2>1, <2>2 DEF CopyValues
    <2>5. heap' \in [Request -> [Map -> Content]]
      BY <1>1, <2>3, <2>4 DEF Map
    <2>6. /\ heap'[r]["copied root"] = copy
          /\ heap'[r]["copied below"] = heap[r]["below"]
          /\ heap'[r]["root"] = heap[r]["root"]
      BY <1>1, <2>4 DEF Map
    <2>7. /\ pc'[r] = "engine" /\ UNCHANGED asked
          /\ metadata'[r] = "copied root"
          /\ metadata' \in [Request -> Map \cup {None}]
      BY <1>1, <1>3 DEF CopyValues, Goto, Map
    <2> QED
      BY <2>1, <2>3, <2>5, <2>6, <2>7 DEF Separate, Given, GivenIn
  <1>4. CASE ChangeValues(r)
    <2>1. heap[r]["root"].below = "below" /\ pc[r] = "engine"
      BY <1>4 DEF ChangeValues, Separate
    <2>2. PICK m \in {"root", "below"}, k \in Key :
              heap' = [heap EXCEPT ![r][m].key[k] = "template"]
      BY <1>4, <2>1 DEF ChangeValues
    <2>3. heap[r][m] \in Content
      BY <1>1 DEF Map
    <2>4. [heap[r][m] EXCEPT !.key[k] = "template"] \in Content
      BY <2>3 DEF Content
    <2>5. heap' = [heap EXCEPT ![r][m] =
                      [heap[r][m] EXCEPT !.key[k] = "template"]]
      BY <1>1, <2>2
    <2>6. heap' \in [Request -> [Map -> Content]]
      BY <1>1, <2>4, <2>5
    <2>7. /\ heap'[r]["copied root"] = heap[r]["copied root"]
          /\ heap'[r]["copied below"] = heap[r]["copied below"]
      BY <1>1, <2>5 DEF Map
    <2>8. heap'[r]["root"].below = "below"
      BY <1>1, <2>1, <2>3, <2>5 DEF Content, Map
    <2>9. UNCHANGED <<pc, asked, metadata>>
      BY <1>4 DEF ChangeValues
    <2> QED
      BY <1>1, <2>1, <2>6, <2>7, <2>8, <2>9 DEF Separate, Given, GivenIn
  <1> QED
    BY <1>2, <1>3, <1>4

\* The rest of a call does not touch the slices.
LEMMA OtherSteps ==
    ASSUME Inv, NEW r \in Request,
           \/ Begin(r) \/ MergeValues(r) \/ Coalesce(r) \/ CopyValues(r)
           \/ ChangeValues(r) \/ RenderTemplates(r) \/ ParseManifest(r)
           \/ EndManifests(r) \/ ParseHook(r) \/ EndHooks(r) \/ Fail(r)
    PROVE  (TypeOK /\ Private)'
  <1>0. CASE Coalesce(r) \/ CopyValues(r) \/ ChangeValues(r)
    <2>1. /\ heap' \in [Request -> [Map -> Content]]
          /\ metadata' \in [Request -> Map \cup {None}]
      BY <1>0, HeapStep DEF Inv, Separated
    <2>2. /\ UNCHANGED <<deployed, slices, asked, chart, left, result>>
          /\ \A q \in Request \ {r} : pc'[q] = pc[q]
          /\ pc[r] \in {"coalesce", "copy", "engine"}
          /\ pc'[r] \in {"copy", "engine"}
      BY <1>0 DEF Coalesce, CopyValues, ChangeValues, Goto, Inv, TypeOK
    <2>3. TypeOK'
      <3>1. CASE ChangeValues(r)
        BY <2>1, <3>1 DEF ChangeValues, Inv, TypeOK, slices
      <3>2. CASE Coalesce(r) \/ CopyValues(r)
        <4>1. pc' = [pc EXCEPT ![r] = "copy"] \/ pc' = [pc EXCEPT ![r] = "engine"]
          BY <3>2 DEF Coalesce, CopyValues, Goto
        <4> QED
          BY <2>1, <2>2, <4>1 DEF Inv, TypeOK, slices
      <3> QED
        BY <1>0, <3>1, <3>2
    <2>4. Private'
      BY <2>2 DEF Inv, Private, Holds, slices
    <2> QED
      BY <2>3, <2>4
  <1> USE DEF Inv, TypeOK, Private, Holds, Goto, slices
  <1>1. CASE Begin(r)
    BY <1>1 DEF Begin
  <1>2. CASE MergeValues(r)
    BY <1>2 DEF MergeValues
  <1>4. CASE RenderTemplates(r)
    <2>1. Sorted(r) \in SUBSET Document
      BY RequestAssumption DEF Rendered, Sorted
    <2> QED
      BY <1>4, <2>1 DEF RenderTemplates
  <1>5. ASSUME NEW hook \in BOOLEAN, ParseNext(r, hook)
        PROVE  /\ left' \in [Request -> SUBSET Document]
               /\ result' \in [Request -> Seq(Document)]
    BY <1>5 DEF ParseNext
  <1>6. CASE ParseManifest(r)
    BY <1>5, <1>6 DEF ParseManifest
  <1>7. CASE EndManifests(r)
    BY <1>7 DEF EndManifests
  <1>8. CASE ParseHook(r)
    BY <1>5, <1>8 DEF ParseHook
  <1>9. CASE EndHooks(r)
    BY <1>9 DEF EndHooks
  <1>10. CASE Fail(r)
    BY <1>10 DEF Fail
  <1> QED
    BY <1>0, <1>1, <1>2, <1>4, <1>6, <1>7, <1>8, <1>9, <1>10

LEMMA Appends ==
    ASSUME Inv, NEW r \in Request, AppendConfigured(r) \/ AppendAsked(r)
    PROVE  (TypeOK /\ Private)'
  <1>1. /\ deployed.configured \in Seq(Version)
        /\ asked[r].versions \in Seq(Version)
    BY DeploymentAssumption, RequestAssumption DEF Inv, TypeOK
  <1>2. PICK items \in {deployed.configured, asked[r].versions} :
            AppendVersions(r, items) /\ UNCHANGED <<deployed, asked>>
    BY DEF AppendConfigured, AppendAsked
  <1>3. TypeOK'
    <2>1. /\ room' \in [1..deployed.spare -> Version \cup {None}]
          /\ array' \in [Request -> {"shared", "own"}]
          /\ length' \in [Request -> 0..deployed.spare]
          /\ own' \in [Request -> Seq(Version \cup {None})]
      BY <1>1, <1>2, AppendIsLocal DEF Inv
    <2> QED
      BY <2>1 DEF Inv, TypeOK, AppendConfigured, AppendAsked, Goto
  <1>4. \A q \in Request \ {r} :
            /\ pc'[q] = pc[q]
            /\ array'[q] = array[q] /\ length'[q] = length[q]
            /\ own'[q] = own[q]
    BY <1>1, <1>2, AppendIsLocal
    DEF Inv, TypeOK, AppendConfigured, AppendAsked, Goto
  <1>5. CASE AppendConfigured(r)
    <2>1. Holds(r, deployed.configured)'
      BY <1>5, ConfiguredIsHeld DEF AppendConfigured, Inv, Private
    <2>2. pc'[r] = "asked"
      BY <1>5 DEF AppendConfigured, Goto, Inv, TypeOK
    <2> QED
      BY <1>2, <1>3, <1>4, <2>1, <2>2 DEF Inv, Private, Holds
  <1>6. CASE AppendAsked(r)
    <2>1. Holds(r, deployed.configured \o asked[r].versions)'
      BY <1>1, <1>6, AskedIsHeld DEF AppendAsked, Inv, Private, Holds
    <2>2. pc'[r] = "coalesce"
      BY <1>6 DEF AppendAsked, Goto, Inv, TypeOK
    <2> QED
      BY <1>2, <1>3, <1>4, <2>1, <2>2 DEF Inv, Private, Holds
  <1> QED
    BY <1>5, <1>6

\* What a request has copied stays out of reach, whatever other requests do.
LEMMA StaysSeparate ==
    ASSUME Inv, [Next]_vars
    PROVE  Separated'
  <1> SUFFICES ASSUME NEW q \in Request
               PROVE  Separate(q)'
    BY DEF Separated
  <1>1. Separate(q) /\ pc = [r \in Request |-> pc[r]] /\ TypeOK
    BY DEF Inv, Separated, TypeOK
  <1>2. CASE UNCHANGED vars
    BY <1>1, <1>2 DEF vars, Separate, Given, GivenIn
  <1>3. ASSUME NEW r \in Request,
               \/ Begin(r) \/ MergeValues(r) \/ AppendConfigured(r)
               \/ AppendAsked(r) \/ RenderTemplates(r) \/ ParseManifest(r)
               \/ EndManifests(r) \/ ParseHook(r) \/ EndHooks(r) \/ Fail(r)
        PROVE  Separate(q)'
    <2>1. UNCHANGED <<asked, heap, metadata>>
      BY <1>3 DEF Begin, MergeValues, AppendConfigured, AppendAsked,
         RenderTemplates, ParseManifest, EndManifests, ParseHook, EndHooks, Fail
    <2>2. \/ pc'[q] = pc[q]
          \/ pc'[q] \in {"values", "configured", "asked", "coalesce", "error"}
          \/ /\ pc[q] \in {"engine", "manifests", "hooks"}
             /\ pc'[q] \in {"manifests", "hooks", "ok"}
      BY <1>1, <1>3
      DEF Begin, MergeValues, AppendConfigured, AppendAsked, RenderTemplates,
          ParseManifest, EndManifests, ParseHook, EndHooks, Fail, Goto
    <2> QED
      BY <1>1, <2>1, <2>2 DEF Separate, Given, GivenIn
  <1>4. ASSUME NEW r \in Request,
               Coalesce(r) \/ CopyValues(r) \/ ChangeValues(r)
        PROVE  Separate(q)'
    <2>1. CASE q = r
      BY <1>1, <1>4, <2>1, HeapStep
    <2>2. CASE q # r
      <3>1. /\ pc'[q] = pc[q] /\ heap'[q] = heap[q]
            /\ metadata'[q] = metadata[q] /\ asked' = asked
        BY <1>4, <2>2 DEF Coalesce, CopyValues, ChangeValues, Goto, TypeOK, Inv
      <3> QED
        BY <1>1, <3>1 DEF Separate, Given, GivenIn
    <2> QED
      BY <2>1, <2>2
  <1> QED
    BY <1>2, <1>3, <1>4 DEF Next

LEMMA Inductive == Inv /\ [Next]_vars => Inv'
  <1> SUFFICES ASSUME Inv, [Next]_vars PROVE Inv'
    OBVIOUS
  <1>1. Separated'
    BY StaysSeparate
  <1>2. CASE Next
    <2>1. (TypeOK /\ Private)'
      BY <1>2, Appends, OtherSteps DEF Next
    <2> QED
      BY <1>1, <2>1 DEF Inv
  <1>3. CASE UNCHANGED vars
    <2>1. (TypeOK /\ Private)'
      BY <1>3 DEF vars, slices, Inv, TypeOK, Private, Holds
    <2> QED
      BY <1>1, <2>1 DEF Inv
  <1> QED
    BY <1>2, <1>3

\* Every request has its API versions to itself, at every step.
THEOREM Invariance == Spec => []Inv
  BY Initially, Inductive, PTL DEF Spec

\* Every variable keeps its type.
THEOREM TypeCorrectness == Spec => []TypeOK
  <1>1. Inv => TypeOK
    BY DEF Inv
  <1> QED
    BY <1>1, Invariance, PTL

\* What is rendered for a request, and told to its client, is the configured
\* API versions and its own ones, whatever other requests append meanwhile.
THEOREM VersionsAreSeparate == Spec => []VersionsAreOwn
  <1>1. Inv => VersionsAreOwn
    <2> SUFFICES ASSUME Inv, NEW r \in Request,
                        pc[r] \in {"coalesce", "copy", "engine", "manifests",
                                   "hooks", "ok"}
                 PROVE  APIVersions(r)
                            = deployed.configured \o asked[r].versions
      BY DEF VersionsAreOwn
    <2>1. /\ deployed.configured \in Seq(Version)
          /\ asked[r].versions \in Seq(Version)
      BY DeploymentAssumption, RequestAssumption DEF Inv, TypeOK
    <2>2. Holds(r, deployed.configured \o asked[r].versions)
      BY DEF Inv, Private
    <2>3. deployed.configured \o asked[r].versions \in Seq(Version)
      BY <2>1
    <2> QED
      BY <2>2, <2>3, HeldIsRead
  <1> QED
    BY <1>1, Invariance, PTL
-----------------------------------------------------------------------------
\* Every pair of documents in a list is in the order of an answer.
Precedes(d, e) ==
    /\ d # e
    /\ d.hook => e.hook
    /\ d.hook = e.hook => d.order <= e.order

InOrder(list) ==
    \A i, j \in 1..Len(list) : i < j => Precedes(list[i], list[j])

Elements(list) == {list[i] : i \in 1..Len(list)}

\* What has been parsed of a chart, and what is left of it.
Parsed(r) ==
    /\ left[r] \subseteq Sorted(r)
    /\ Elements(result[r]) =
           {d \in Sorted(r) \ left[r] : d.content # "empty"}
    /\ InOrder(result[r])
    /\ \A d \in Elements(result[r]), e \in left[r] : Precedes(d, e)

\* The manifests are parsed while all hooks are left, and hooks when nothing
\* else is.
Progress(r) ==
    /\ pc[r] \in {"idle", "values", "configured", "asked", "coalesce", "copy",
                  "engine"} =>
           result[r] = <<>>
    /\ pc[r] \in {"manifests", "hooks", "ok"} => Parsed(r)
    /\ pc[r] = "manifests" => \A d \in Sorted(r) : d.hook => d \in left[r]
    /\ pc[r] = "hooks" => asked[r].hooks # FALSE /\ \A d \in left[r] : d.hook
    /\ pc[r] = "ok" =>
           left[r] = {d \in Sorted(r) : d.hook /\ asked[r].hooks = FALSE}

AnswerInv == \A r \in Request : Progress(r)

\* Documents are what is rendered, and parameters have the types of nil.
LEMMA RenderedDocuments ==
    ASSUME TypeOK, NEW r \in Request
    PROVE  /\ Sorted(r) \subseteq Document
           /\ chart[r] \subseteq Document
           /\ asked[r].crds \in BOOLEAN \cup {None}
           /\ asked[r].hooks \in BOOLEAN \cup {None}
  BY RequestAssumption DEF TypeOK, Rendered, Sorted

\* A document that comes next keeps the list in order.
LEMMA NextKeepsOrder ==
    ASSUME NEW list \in Seq(Document), NEW d \in Document,
           InOrder(list), \A c \in Elements(list) : Precedes(c, d)
    PROVE  /\ InOrder(Append(list, d))
           /\ Elements(Append(list, d)) = Elements(list) \cup {d}
  <1> DEFINE longer == Append(list, d) n == Len(list)
  <1>1. /\ n \in Nat /\ Len(longer) = n + 1 /\ longer[n + 1] = d
        /\ \A i \in 1..n : longer[i] = list[i]
    OBVIOUS
  <1> HIDE DEF longer
  <1>2. InOrder(longer)
    <2> SUFFICES ASSUME NEW i \in 1..(n + 1), NEW j \in 1..(n + 1), i < j
                 PROVE  Precedes(longer[i], longer[j])
      BY <1>1 DEF InOrder
    <2>1. i \in 1..n /\ longer[i] = list[i] /\ list[i] \in Elements(list)
      BY <1>1 DEF Elements
    <2>2. CASE j = n + 1
      BY <1>1, <2>1, <2>2
    <2>3. CASE j # n + 1
      <3>1. j \in 1..n /\ longer[j] = list[j]
        BY <1>1, <2>3
      <3> QED
        BY <2>1, <3>1 DEF InOrder
    <2> QED
      BY <2>2, <2>3
  <1>3. Elements(longer) = Elements(list) \cup {d}
    <2>1. ASSUME NEW x \in Elements(longer)
          PROVE  x \in Elements(list) \cup {d}
      BY <1>1 DEF Elements
    <2>2. ASSUME NEW i \in 1..n
          PROVE  list[i] \in Elements(longer)
      <3>1. i \in 1..(n + 1) /\ list[i] = longer[i]
        BY <1>1
      <3> QED
        BY <1>1, <3>1 DEF Elements
    <2>3. d \in Elements(longer)
      <3>1. n + 1 \in 1..(n + 1) /\ d = longer[n + 1]
        BY <1>1
      <3> QED
        BY <1>1, <3>1 DEF Elements
    <2> QED
      BY <2>1, <2>2, <2>3 DEF Elements
  <1> QED
    BY <1>2, <1>3 DEF longer

\* A document of the kind that is parsed, and no other kind, is taken from
\* what is left.
LEMMA ParsingKeepsOrder ==
    ASSUME TypeOK, NEW r \in Request, Parsed(r), NEW hook \in BOOLEAN,
           ParseNext(r, hook), UNCHANGED <<asked, chart>>,
           hook => \A e \in left[r] : e.hook
    PROVE  Parsed(r)' /\ \E d \in left[r] : d.hook = hook /\ left'[r] = left[r] \ {d}
  <1>1. PICK d \in left[r] :
            /\ d.hook = hook
            /\ \A e \in left[r] : e.hook = hook => d.order <= e.order
            /\ left' = [left EXCEPT ![r] = @ \ {d}]
            /\ result' = IF d.content = "empty" THEN result
                         ELSE [result EXCEPT ![r] = Append(@, d)]
    BY DEF ParseNext
  <1>2. /\ left'[r] = left[r] \ {d}
        /\ result'[r] = IF d.content = "empty" THEN result[r]
                        ELSE Append(result[r], d)
        /\ result[r] \in Seq(Document)
    BY <1>1 DEF TypeOK
  <1>3. Sorted(r)' = Sorted(r)
    BY DEF Rendered, Sorted
  <1>4. \A e \in Sorted(r) : e \in Document
    BY RenderedDocuments
  <1>5. \A e \in left[r] \ {d} : Precedes(d, e)
    <2> SUFFICES ASSUME NEW e \in left[r] \ {d}
                 PROVE  Precedes(d, e)
      OBVIOUS
    <2>1. d.hook \in BOOLEAN /\ e.hook \in BOOLEAN
      BY <1>4 DEF Parsed, Document
    <2> QED
      BY <1>1, <2>1 DEF Precedes
  <1>6. Parsed(r)'
    <2>1. CASE d.content = "empty"
      BY <1>2, <1>3, <2>1 DEF Parsed
    <2>2. CASE d.content # "empty"
      <3>1. \A c \in Elements(result[r]) : Precedes(c, d)
        BY DEF Parsed
      <3>2. d \in Document /\ InOrder(result[r]) /\ d \in Sorted(r)
        BY <1>4 DEF Parsed
      <3>3. /\ InOrder(Append(result[r], d))
            /\ Elements(Append(result[r], d)) = Elements(result[r]) \cup {d}
        BY <1>2, <3>1, <3>2, NextKeepsOrder
      <3>4. result'[r] = Append(result[r], d)
        BY <1>2, <2>2
      <3>5. Elements(result'[r]) =
                {e \in Sorted(r) \ left'[r] : e.content # "empty"}
        BY <1>2, <2>2, <3>2, <3>3, <3>4 DEF Parsed
      <3>6. \A c \in Elements(result'[r]), e \in left'[r] : Precedes(c, e)
        BY <1>2, <1>5, <3>3, <3>4 DEF Parsed
      <3>7. InOrder(result'[r]) /\ left'[r] \subseteq Sorted(r)
        BY <1>2, <3>3, <3>4 DEF Parsed
      <3> QED
        BY <1>3, <3>5, <3>6, <3>7 DEF Parsed, InOrder, Elements
    <2> QED
      BY <2>1, <2>2
  <1> QED
    BY <1>1, <1>2, <1>6

LEMMA AnswerStep ==
    ASSUME TypeOK, AnswerInv, [Next]_vars
    PROVE  AnswerInv'
  <1>1. CASE UNCHANGED vars
    BY <1>1 DEF vars, slices, AnswerInv, Progress, Parsed, Rendered, Sorted
  <1>2. ASSUME NEW r \in Request,
               \/ Begin(r) \/ MergeValues(r) \/ AppendConfigured(r)
               \/ AppendAsked(r) \/ Coalesce(r) \/ CopyValues(r)
               \/ ChangeValues(r) \/ RenderTemplates(r)
               \/ ParseManifest(r) \/ EndManifests(r) \/ ParseHook(r)
               \/ EndHooks(r) \/ Fail(r)
        PROVE  AnswerInv'
    <2>1. UNCHANGED <<deployed, asked, chart>>
      BY <1>2 DEF Begin, MergeValues, AppendConfigured, AppendAsked, Coalesce,
         CopyValues, ChangeValues, RenderTemplates, ParseManifest, EndManifests, ParseHook, EndHooks, Fail
    <2>2. \A q \in Request : Sorted(q)' = Sorted(q)
      BY <2>1 DEF Rendered, Sorted
    <2>3. \A q \in Request \ {r} : Progress(q)'
      <3> SUFFICES ASSUME NEW q \in Request \ {r}
                   PROVE  Progress(q)'
        OBVIOUS
      <3>1. /\ pc'[q] = pc[q]
            /\ left'[q] = left[q] /\ result'[q] = result[q]
        <4> USE DEF Goto, TypeOK
        <4>1. CASE \/ Begin(r) \/ MergeValues(r) \/ Coalesce(r) \/ CopyValues(r)
                   \/ ChangeValues(r) \/ EndManifests(r) \/ EndHooks(r) \/ Fail(r)
          BY <4>1
          DEF Begin, MergeValues, Coalesce, CopyValues, ChangeValues, EndManifests, EndHooks, Fail
        <4>2. CASE AppendConfigured(r) \/ AppendAsked(r)
          BY <4>2 DEF AppendConfigured, AppendAsked
        <4>3. CASE RenderTemplates(r)
          BY <4>3 DEF RenderTemplates
        <4>4. CASE ParseManifest(r)
          BY <4>4 DEF ParseManifest, ParseNext
        <4>5. CASE ParseHook(r)
          BY <4>5 DEF ParseHook, ParseNext
        <4> QED
          BY <1>2, <4>1, <4>2, <4>3, <4>4, <4>5
      <3> QED
        <4>1. Progress(q) /\ Sorted(q)' = Sorted(q) /\ asked'[q] = asked[q]
          BY <2>1, <2>2 DEF AnswerInv
        <4>2. Parsed(q)' <=> Parsed(q)
          BY <3>1, <4>1 DEF Parsed
        <4> QED
          BY <3>1, <4>1, <4>2 DEF Progress
    <2>4. Progress(r)
      BY DEF AnswerInv
    <2>5. CASE Begin(r) \/ MergeValues(r) \/ AppendConfigured(r) \/ AppendAsked(r)
      <3>1. /\ pc'[r] \in {"values", "configured", "asked", "coalesce"}
            /\ result'[r] = <<>>
        BY <2>4, <2>5
        DEF Begin, MergeValues, AppendConfigured, AppendAsked, Goto, TypeOK,
            Progress
      <3>2. Progress(r)'
        BY <3>1 DEF Progress
      <3> QED
        BY <2>3, <3>2 DEF AnswerInv
    <2>6. CASE Coalesce(r) \/ CopyValues(r) \/ ChangeValues(r)
      <3>1. pc'[r] \in {"copy", "engine"} /\ result'[r] = <<>>
        BY <2>4, <2>6
        DEF Coalesce, CopyValues, ChangeValues, Goto, TypeOK, Progress
      <3>2. Progress(r)'
        BY <3>1 DEF Progress
      <3> QED
        BY <2>3, <3>2 DEF AnswerInv
    <2>7. CASE RenderTemplates(r)
      <3>1. /\ pc[r] = "engine" /\ pc'[r] = "manifests"
            /\ left'[r] = Sorted(r) /\ result'[r] = <<>>
        BY <2>4, <2>7 DEF RenderTemplates, Goto, TypeOK, Progress
      <3>2. Elements(<<>>) = {} /\ InOrder(<<>>)
        BY DEF Elements, InOrder
      <3>3. Parsed(r)'
        BY <2>2, <3>1, <3>2 DEF Parsed
      <3>4. Progress(r)'
        BY <2>2, <3>1, <3>3 DEF Progress
      <3> QED
        BY <2>3, <3>4 DEF AnswerInv
    <2>8. CASE ParseManifest(r)
      <3>1. Parsed(r)' /\ \E d \in left[r] : d.hook = FALSE /\ left'[r] = left[r] \ {d}
        BY <2>4, <2>8, ParsingKeepsOrder DEF ParseManifest, Progress
      <3>2. pc'[r] = "manifests"
        BY <2>8 DEF ParseManifest
      <3>3. \A d \in Sorted(r) : d.hook => d \in left'[r]
        BY <2>4, <2>8, <3>1 DEF ParseManifest, Progress
      <3>4. Progress(r)'
        BY <2>2, <3>1, <3>2, <3>3 DEF Progress
      <3> QED
        BY <2>3, <3>4 DEF AnswerInv
    <2>9. CASE EndManifests(r)
      <3>1. /\ pc'[r] = IF DefaultIfNil(asked[r].hooks, TRUE) THEN "hooks" ELSE "ok"
            /\ \A d \in left[r] : d.hook
            /\ UNCHANGED <<asked, chart, left, result>>
            /\ pc[r] = "manifests"
        BY <2>9 DEF EndManifests, Goto, TypeOK
      <3>2. DefaultIfNil(asked[r].hooks, TRUE) <=> asked[r].hooks # FALSE
        BY RenderedDocuments, RequestAssumption DEF DefaultIfNil
      <3>3. Parsed(r)'
        BY <2>2, <2>4, <3>1 DEF Progress, Parsed
      <3>4. left[r] = {d \in Sorted(r) : d.hook}
        BY <2>4, <3>1 DEF Progress, Parsed
      <3>5. Progress(r)'
        BY <2>2, <3>1, <3>2, <3>3, <3>4 DEF Progress
      <3> QED
        BY <2>3, <3>5 DEF AnswerInv
    <2>10. CASE ParseHook(r)
      <3>1. /\ pc[r] = "hooks" /\ pc'[r] = "hooks" /\ ParseNext(r, TRUE)
            /\ UNCHANGED <<asked, chart>>
        BY <2>10 DEF ParseHook
      <3>2. Parsed(r) /\ asked[r].hooks # FALSE /\ \A d \in left[r] : d.hook
        BY <2>4, <3>1 DEF Progress
      <3>3. Parsed(r)' /\ \E d \in left[r] : d.hook = TRUE /\ left'[r] = left[r] \ {d}
        BY <3>1, <3>2, ParsingKeepsOrder
      <3>4. Progress(r)'
        BY <3>1, <3>2, <3>3 DEF Progress
      <3> QED
        BY <2>3, <3>4 DEF AnswerInv
    <2>11. CASE EndHooks(r)
      <3>1. /\ pc[r] = "hooks" /\ pc'[r] = "ok" /\ left[r] = {}
            /\ UNCHANGED <<asked, chart, left, result>>
        BY <2>11 DEF EndHooks, Goto, TypeOK
      <3>2. Parsed(r)' /\ asked[r].hooks # FALSE
        BY <2>2, <2>4, <3>1 DEF Progress, Parsed
      <3>3. Progress(r)'
        BY <3>1, <3>2 DEF Progress
      <3> QED
        BY <2>3, <3>3 DEF AnswerInv
    <2>12. CASE Fail(r)
      <3>1. pc'[r] = "error"
        BY <2>12 DEF Fail, Goto, TypeOK
      <3> QED
        BY <2>3, <3>1 DEF AnswerInv, Progress
    <2> QED
      BY <1>2, <2>5, <2>6, <2>7, <2>8, <2>9, <2>10, <2>11, <2>12
  <1> QED
    BY <1>1, <1>2 DEF Next

\* What has been parsed is what has been taken from the rendered documents.
LEMMA AnswerInvariance == Spec => []AnswerInv
  <1>1. Init => AnswerInv
    BY DEF Init, AnswerInv, Progress
  <1>2. TypeOK /\ AnswerInv /\ [Next]_vars => AnswerInv'
    BY AnswerStep
  <1> QED
    BY <1>1, <1>2, TypeCorrectness, PTL DEF Spec

\* When an answer is encoded, its metadata tells the values of the parameters
\* and the defaults, at every level, whatever templates have changed.
THEOREM MetadataIsOfTheInput == Spec => []MetadataTellsWhatWasMerged
  <1>1. Inv => MetadataTellsWhatWasMerged
    <2> SUFFICES ASSUME Inv, NEW r \in Request, pc[r] = "ok",
                        NEW level \in Level, NEW k \in Key
                 PROVE  Told(r, level).key[k] = GivenIn(r, level)[k]
      BY DEF MetadataTellsWhatWasMerged, GivenIn
    <2>1. /\ metadata[r] = "copied root"
          /\ Given(heap[r]["copied root"], r, "root", "copied below")
          /\ Given(heap[r]["copied below"], r, "below", None)
      BY DEF Inv, Separated, Separate
    <2>2. CASE level = "root"
      BY <2>1, <2>2 DEF Told, Given
    <2>3. CASE level = "below"
      BY <2>1, <2>3 DEF Told, Given
    <2> QED
      BY <2>2, <2>3 DEF Level
  <1> QED
    BY <1>1, Invariance, PTL

\* An answer has every document that is wanted of the chart, once and in order.
THEOREM AnswersAreComplete == Spec => []AnswerIsComplete
  <1>1. TypeOK /\ AnswerInv => AnswerIsComplete
    <2> SUFFICES ASSUME TypeOK, AnswerInv, NEW r \in Request, pc[r] = "ok"
                 PROVE  /\ Elements(result[r]) = {d \in chart[r] : Wanted(r, d)}
                        /\ InOrder(result[r])
      BY DEF AnswerIsComplete, Elements, InOrder, Precedes
    <2>1. /\ Parsed(r)
          /\ left[r] = {d \in Sorted(r) : d.hook /\ asked[r].hooks = FALSE}
      BY DEF AnswerInv, Progress
    <2>2. Elements(result[r]) =
              {d \in Sorted(r) :
                  d.content # "empty" /\ ~(d.hook /\ asked[r].hooks = FALSE)}
      BY <2>1 DEF Parsed
    <2>3. DefaultIfNil(asked[r].crds, TRUE) <=> asked[r].crds # FALSE
      BY RenderedDocuments, RequestAssumption DEF DefaultIfNil
    <2>4. \A d \in chart[r] :
              Wanted(r, d) <=>
                  /\ d \in Sorted(r) /\ d.content # "empty"
                  /\ ~(d.hook /\ asked[r].hooks = FALSE)
      BY <2>3 DEF Wanted, Rendered, Sorted
    <2>5. Sorted(r) \subseteq chart[r]
      BY DEF Rendered, Sorted
    <2> QED
      BY <2>1, <2>2, <2>4, <2>5 DEF Parsed
  <1> QED
    BY <1>1, TypeCorrectness, AnswerInvariance, PTL
=============================================================================
