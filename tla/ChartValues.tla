---------------------------- MODULE ChartValues ----------------------------
(***************************************************************************)
(* The values a chart is rendered with.                                    *)
(*   internal/service/helm/chart.go (MergeValues, flattenValues)           *)
(*   internal/utils/map.go (DeepMerge)                                     *)
(*                                                                         *)
(* One call of MergeValues.  Values are trees of maps of any depth: a tree *)
(* is the function from the paths of its nodes to what is there, a map or  *)
(* a leaf, and a leaf is abstracted to the source that has set it.  The    *)
(* maps of flat values are iterated in an order that the Go runtime draws  *)
(* anew for every call.                                                    *)
(*                                                                         *)
(* A flat value is abstracted to the paths that strvals sets for it: that  *)
(* of its key, and one for each further assignment that a comma in the     *)
(* value begins.  What follows a comma and assigns nothing has no path.    *)
(***************************************************************************)
EXTENDS Integers, Sequences, SequencesExt

CONSTANTS
    Key,         \* keys of maps
    Path,        \* the paths of the nodes that values can have
    FileCount,   \* number of value files a request names
    FlatMap,     \* what the map values can be: sets of flat values
    FlatList,    \* what valuesFlat can be: sequences of flat values
    StringMap,   \* what the map stringValues can be
    StringList   \* what stringValuesFlat can be

NoPath == <<>>

FlatValue == Seq(Path \cup {NoPath})

ASSUME PathAssumption ==
    /\ Path \subseteq Seq(Key) \ {NoPath}
    /\ \A path \in Path : \A n \in 1..Len(path) : SubSeq(path, 1, n) \in Path

ASSUME FileCountAssumption == FileCount \in Nat

ASSUME FlatValueAssumption ==
    /\ \A map \in FlatMap \cup StringMap : map \subseteq FlatValue
    /\ \A list \in FlatList \cup StringList : list \in Seq(FlatValue)

VARIABLES
    complex,  \* parameters.ComplexValues
    files,    \* the content of parameters.ValueFiles, or what is wrong with it
    ignore,   \* parameters.IgnoreMissingValueFiles
    maps,     \* parameters.Values and parameters.StringValues
    lists,    \* parameters.ValuesFlat and parameters.StringValuesFlat
    pc,       \* which loop the call is in, or how it has returned
    next,     \* the loop variable over files and lists
    left,     \* flat values that the iteration of a map has not come to
    from,     \* the source that strvals parses or has parsed last
    at,       \* which of its assignments comes next
    values    \* local variable of that name

vars == <<complex, files, ignore, maps, lists, pc, next, left, from, at, values>>
input == <<complex, files, ignore, maps, lists>>

\* The sources: the files, and what follows them in the code.
Kind == {"values", "stringValues"}
Structured(kind, place) == [kind |-> kind, place |-> place, flat |-> <<>>]
Complex == Structured("complex", 0)
File(i) == Structured("file", i)
FromMap(kind, flat) == [kind |-> kind, place |-> 0, flat |-> flat]
FromList(kind, i) == [kind |-> kind, place |-> i, flat |-> lists[kind][i]]

\* What is at a path that does not end in a leaf.
Map == Structured("map", 0)

\* Trees as one source can give them: above every node there are maps.
Content(source) ==
    {tree \in UNION {[P -> {Map, source}] : P \in SUBSET Path} :
        \A p \in DOMAIN tree : \A q \in Path :
            IsStrictPrefix(q, p) => q \in DOMAIN tree /\ tree[q] = Map}

\* A value file, as the file system of the request has it.
ValueFile(source) ==
    [state : {"readable"}, content : Content(source)]
    \cup [state : {"missing", "broken"}, content : {<<>>}]

\* DeepMerge(a, b): b overrides a, maps are merged.  A leaf of b hides what a
\* has below it.
DeepMerge(a, b) ==
    [p \in DOMAIN b \cup
           {q \in DOMAIN a : \A r \in DOMAIN b : IsStrictPrefix(r, q) => b[r] = Map} |->
        IF p \in DOMAIN b THEN b[p] ELSE a[p]]

\* strvals descends into maps, creates them, and fails at anything else.
CanSet(tree, path) ==
    \A p \in DOMAIN tree : IsStrictPrefix(p, path) => tree[p] = Map

\* What was below the path is gone.
Set(tree, path, leaf) ==
    [p \in {q \in DOMAIN tree : ~IsStrictPrefix(path, q)}
           \cup {q \in Path : IsPrefix(q, path)} |->
        IF p = path THEN leaf
        ELSE IF IsPrefix(p, path) THEN Map
        ELSE tree[p]]

TypeOK ==
    /\ complex \in Content(Complex)
    /\ \A i \in 1..FileCount : files[i] \in ValueFile(File(i))
    /\ ignore \in BOOLEAN
    /\ maps["values"] \in FlatMap /\ maps["stringValues"] \in StringMap
    /\ lists["values"] \in FlatList /\ lists["stringValues"] \in StringList
    /\ pc \in {"files", "values", "stringValues", "done", "failed"}
    /\ next \in Nat \ {0}
    /\ left \in SUBSET FlatValue
    /\ from.kind \in Kind \cup {"complex"} /\ from.place \in Nat
    /\ from.flat \in FlatValue
    /\ at \in 1..Len(from.flat) + 1
    /\ DOMAIN values \subseteq Path
    /\ \A p \in DOMAIN values : \A q \in Path :
           IsStrictPrefix(q, p) => q \in DOMAIN values /\ values[q] = Map

Init ==
    /\ complex \in Content(Complex)
    /\ files \in {f \in [1..FileCount -> UNION {ValueFile(File(i)) : i \in 1..FileCount}] :
                     \A i \in 1..FileCount : f[i] \in ValueFile(File(i))}
    /\ ignore \in BOOLEAN
    /\ \E f \in FlatMap, s \in StringMap :
           maps = [kind \in Kind |-> IF kind = "values" THEN f ELSE s]
    /\ \E f \in FlatList, s \in StringList :
           lists = [kind \in Kind |-> IF kind = "values" THEN f ELSE s]
    /\ pc = "files"
    /\ next = 1
    /\ left = {}
    /\ from = Complex /\ at = 1
    /\ values = DeepMerge(complex, <<>>)

-----------------------------------------------------------------------------
\* Mutant: a value file overrides what has been merged so far.
MergeFileOver ==
    /\ pc = "files" /\ next <= FileCount
    /\ files[next].state = "readable"
    /\ values' = DeepMerge(values, files[next].content)
    /\ next' = next + 1
    /\ UNCHANGED <<input, pc, left, from, at>>

\* A value file is read: what has been merged so far overrides it.
MergeFile ==
    /\ pc = "files" /\ next <= FileCount
    /\ files[next].state = "readable"
    /\ values' = DeepMerge(files[next].content, values)
    /\ next' = next + 1
    /\ UNCHANGED <<input, pc, left, from, at>>

SkipFile ==
    /\ pc = "files" /\ next <= FileCount
    /\ files[next].state = "missing" /\ ignore
    /\ next' = next + 1
    /\ UNCHANGED <<input, pc, left, from, at, values>>

\* Mutant: a missing file is an error even if it is to be ignored.
FailOnAnyFile ==
    /\ pc = "files" /\ next <= FileCount
    /\ files[next].state \in {"broken", "missing"}
    /\ pc' = "failed"
    /\ UNCHANGED <<input, next, left, from, at, values>>

FailOnFile ==
    /\ pc = "files" /\ next <= FileCount
    /\ \/ files[next].state = "broken"
       \/ files[next].state = "missing" /\ ~ignore
    /\ pc' = "failed"
    /\ UNCHANGED <<input, next, left, from, at, values>>

\* Mutant: the list is indexed from 0.
BeginAtZero(kind) ==
    /\ pc' = kind
    /\ next' = 0
    /\ left' = maps[kind]

\* The loop over flat values of a kind starts with those of the map.
Begin(kind) ==
    /\ pc' = kind
    /\ next' = 1
    /\ left' = maps[kind]

EndFiles ==
    /\ pc = "files" /\ next > FileCount
    /\ Begin("values")
    /\ UNCHANGED <<input, from, at, values>>

\* All assignments of a flat value have been made.
Parsed == at > Len(from.flat)

\* The map is iterated in any order.
TakeFromMap ==
    /\ pc \in Kind /\ Parsed
    /\ \E flat \in left :
        /\ from' = FromMap(pc, flat)
        /\ left' = left \ {flat}
    /\ at' = 1
    /\ UNCHANGED <<input, pc, next, values>>

TakeFromList ==
    /\ pc \in Kind /\ Parsed /\ left = {}
    /\ next <= Len(lists[pc])
    /\ from' = FromList(pc, next)
    /\ next' = next + 1
    /\ at' = 1
    /\ UNCHANGED <<input, pc, left, values>>

\* strvals.ParseInto and ParseIntoString, one assignment after the other.
Assign ==
    /\ pc \in Kind /\ ~Parsed
    /\ from.flat[at] # NoPath /\ CanSet(values, from.flat[at])
    /\ values' = Set(values, from.flat[at], from)
    /\ at' = at + 1
    /\ UNCHANGED <<input, pc, next, left, from>>

FailToAssign ==
    /\ pc \in Kind /\ ~Parsed
    /\ from.flat[at] = NoPath \/ ~CanSet(values, from.flat[at])
    /\ pc' = "failed"
    /\ UNCHANGED <<input, next, left, from, at, values>>

EndKind ==
    /\ pc \in Kind /\ Parsed /\ left = {}
    /\ next > Len(lists[pc])
    /\ IF pc = "values"
       THEN Begin("stringValues")
       ELSE pc' = "done" /\ UNCHANGED <<next, left>>
    /\ UNCHANGED <<input, from, at, values>>

Next ==
    \/ MergeFile
    \/ SkipFile
    \/ FailOnFile
    \/ EndFiles
    \/ TakeFromMap
    \/ TakeFromList
    \/ Assign
    \/ FailToAssign
    \/ EndKind

Spec == Init /\ [][Next]_vars

-----------------------------------------------------------------------------
\* Where a source stands among the others; the highest one wins.
Rank(source) ==
    CASE source.kind = "file"         -> FileCount - source.place
      [] source.kind = "complex"      -> FileCount
      [] source.kind = "values"       -> FileCount + 1 + source.place
      [] source.kind = "stringValues" ->
             FileCount + 2 + Len(lists["values"]) + source.place

Highest(sources) == CHOOSE s \in sources : \A t \in sources : Rank(t) <= Rank(s)

Trees ==
    {Complex} \cup
    {File(i) : i \in {j \in 1..FileCount : files[j].state = "readable"}}

FlatSources(kind) ==
    {FromMap(kind, flat) : flat \in maps[kind]}
    \cup {FromList(kind, i) : i \in DOMAIN lists[kind]}

Sources == Trees \cup FlatSources("values") \cup FlatSources("stringValues")

TreeOf(source) ==
    CASE source.kind = "complex" -> complex
      [] source.kind = "file" -> files[source.place].content
      [] OTHER -> <<>>

\* The sources that give a path a node: with what they hold, or with a path
\* that they set and that leads there.
Having(path) ==
    {s \in Sources : \/ path \in DOMAIN TreeOf(s)
                     \/ \E p \in ToSet(s.flat) : IsPrefix(path, p)}

\* The node that a source gives a path.
NodeOf(source, path) ==
    IF source \in Trees THEN TreeOf(source)[path]
    ELSE IF path \in ToSet(source.flat) THEN source
    ELSE Map

\* No two values of one map set the same path, or a path and one below it:
\* which of them comes last is decided by the Go runtime.
NoOverlap ==
    \A kind \in Kind : \A f, g \in maps[kind] : f # g =>
        \A p \in ToSet(f) \ {NoPath}, q \in ToSet(g) : ~IsPrefix(p, q)

\* Every node of the result comes from the source that stands highest among
\* those that have one there: stringValuesFlat, stringValues, valuesFlat, values
\* (each list from its end), complexValues, and then the files from the first to
\* the last (chart.go:55: the contrary of README.md:254, "later overrides
\* earlier").  What is missing is below a leaf, so that a file with a leaf does
\* not hide what other files have below it if a higher source has a map.  What
\* a comma in a value sets ranks like the value (chart.go:83).  The result then
\* does not depend on the order in which maps are iterated.
HighestSourceWins ==
    pc = "done" /\ NoOverlap =>
        /\ DOMAIN values =
               {p \in Path : /\ Having(p) # {}
                             /\ \A q \in DOMAIN values :
                                    IsStrictPrefix(q, p) => values[q] = Map}
        /\ \A p \in DOMAIN values : values[p] = NodeOf(Highest(Having(p)), p)

\* A path is below a leaf that a flat value sets, or that the highest one of the
\* other sources has.
BelowLeaf(path) ==
    \E p \in Path :
        /\ IsStrictPrefix(p, path)
        /\ \/ \E kind \in Kind : \E s \in FlatSources(kind) : p \in ToSet(s.flat)
           \/ /\ Having(p) \cap Trees # {}
              /\ NodeOf(Highest(Having(p) \cap Trees), p) # Map

\* A call fails only for a file that is broken or missing without leave, for a
\* flat value that assigns nothing, such as a text with a comma, or when it
\* sets a path below a leaf.
FailsForAReason ==
    pc = "failed" =>
        \/ \E i \in 1..FileCount :
               \/ files[i].state = "broken"
               \/ files[i].state = "missing" /\ ~ignore
        \/ \E kind \in Kind : \E s \in FlatSources(kind) :
               \E p \in ToSet(s.flat) : p = NoPath \/ BelowLeaf(p)
=============================================================================
