------------------------ MODULE ChartValues_proofs ------------------------
(***************************************************************************)
(* Proofs about ChartValues, for values of any depth, any number of files  *)
(* and any flat values.  The inductive invariant says of every point of    *)
(* the call what the property says of its end: that the values are those   *)
(* of the highest among the sources taken so far.                          *)
(***************************************************************************)
EXTENDS ChartValues, SequenceTheorems, TLAPS

-----------------------------------------------------------------------------
(* Paths.                                                                  *)

\* A prefix agrees with what it is a prefix of, wherever it is defined.
LEMMA PrefixElements ==
    ASSUME NEW K, NEW s \in Seq(K), NEW t \in Seq(K)
    PROVE  IsPrefix(s, t) <=> /\ Len(s) <= Len(t)
                              /\ \A i \in 1..Len(s) : s[i] = t[i]
  <1>1. ASSUME Len(s) <= Len(t)
        PROVE  SubSeq(s, 1, Len(s)) = SubSeq(t, 1, Len(s))
                   <=> \A i \in 1..Len(s) : s[i] = t[i]
    <2>1. /\ SubSeq(s, 1, Len(s)) = [i \in 1..Len(s) |-> s[i]]
          /\ SubSeq(t, 1, Len(s)) = [i \in 1..Len(s) |-> t[i]]
      BY <1>1
    <2>2. QED
      BY <2>1, Zenon
  <1>2. QED
    BY <1>1 DEF IsPrefix

\* The same of a prefix at hand.
LEMMA PrefixAgrees ==
    ASSUME NEW K, NEW s \in Seq(K), NEW t \in Seq(K), IsPrefix(s, t)
    PROVE  Len(s) <= Len(t) /\ \A i \in 1..Len(s) : s[i] = t[i]
  BY PrefixElements

\* Prefixes of prefixes are prefixes.
LEMMA PrefixTransitive ==
    ASSUME NEW K, NEW s \in Seq(K), NEW t \in Seq(K), NEW u \in Seq(K),
           IsPrefix(s, t), IsPrefix(t, u)
    PROVE  IsPrefix(s, u)
  BY PrefixElements

\* Two sequences are equal if each is a prefix of the other.
LEMMA PrefixAntisymmetric ==
    ASSUME NEW K, NEW s \in Seq(K), NEW t \in Seq(K),
           IsPrefix(s, t), IsPrefix(t, s)
    PROVE  s = t
  <1>1. Len(s) = Len(t) /\ \A i \in 1..Len(s) : s[i] = t[i]
    BY PrefixElements
  <1>2. QED
    BY <1>1

\* What the other proofs need to know of paths.
LEMMA PathOrder ==
    /\ \A p \in Path : IsPrefix(p, p) /\ ~IsPrefix(p, NoPath)
    /\ \A p, q \in Path \cup {NoPath} :
           IsPrefix(p, q) <=> p = q \/ IsStrictPrefix(p, q)
    /\ \A p, q, r \in Path \cup {NoPath} :
           IsPrefix(p, q) /\ IsPrefix(q, r) => IsPrefix(p, r)
    /\ \A p, q, r \in Path \cup {NoPath} :
           /\ IsStrictPrefix(p, q) /\ IsPrefix(q, r) => IsStrictPrefix(p, r)
           /\ IsPrefix(p, q) /\ IsStrictPrefix(q, r) => IsStrictPrefix(p, r)
  <1>0. Path \cup {NoPath} \subseteq Seq(Key)
    <2>1. NoPath \in Seq(Key)
      BY DEF NoPath
    <2>2. Path \subseteq Seq(Key)
      BY PathAssumption, Zenon
    <2>3. QED
      BY <2>1, <2>2
  <1>1. \A p \in Path \cup {NoPath} : IsPrefix(p, p)
    BY <1>0, PrefixElements
  <1>2. ASSUME NEW p \in Path, IsPrefix(p, NoPath) PROVE FALSE
    <2>1. p \in Seq(Key) /\ p # <<>> /\ <<>> \in Seq(Key)
      BY PathAssumption DEF NoPath
    <2>2. Len(p) <= Len(<<>>)
      BY <1>2, <2>1, PrefixElements DEF NoPath
    <2>3. QED
      BY <2>1, <2>2
  <1>3. \A p, q, r \in Path \cup {NoPath} :
            IsPrefix(p, q) /\ IsPrefix(q, r) => IsPrefix(p, r)
    BY <1>0, PrefixTransitive, Zenon
  <1>4. \A p, q \in Path \cup {NoPath} : IsPrefix(p, q) /\ IsPrefix(q, p) => p = q
    BY <1>0, PrefixAntisymmetric, Zenon
  <1>5. \A p, q \in Path \cup {NoPath} : IsPrefix(p, q) <=> p = q \/ IsStrictPrefix(p, q)
    BY <1>1, Zenon DEF IsStrictPrefix
  <1>6. ASSUME NEW p \in Path \cup {NoPath}, NEW q \in Path \cup {NoPath},
               NEW r \in Path \cup {NoPath}
        PROVE  /\ IsStrictPrefix(p, q) /\ IsPrefix(q, r) => IsStrictPrefix(p, r)
               /\ IsPrefix(p, q) /\ IsStrictPrefix(q, r) => IsStrictPrefix(p, r)
    <2>1. IsPrefix(p, q) /\ IsPrefix(q, r) => IsPrefix(p, r)
      BY <1>3
    <2>2. /\ p = r /\ IsPrefix(p, q) /\ IsPrefix(q, r) => p = q
          /\ p = r /\ IsPrefix(p, q) /\ IsPrefix(q, r) => q = r
      BY <1>4, Zenon
    <2>3. QED
      BY <2>1, <2>2, Zenon DEF IsStrictPrefix
  <1>7. QED
    BY <1>1, <1>2, <1>3, <1>5, <1>6, Zenon

-----------------------------------------------------------------------------
(* Trees.                                                                  *)

\* Above every node there are maps.
IsTree(tree) ==
    /\ DOMAIN tree \subseteq Path
    /\ \A p \in DOMAIN tree : \A q \in Path :
           IsStrictPrefix(q, p) => q \in DOMAIN tree /\ tree[q] = Map

\* What a source gives is a tree of its leaves.
LEMMA ContentIsTree ==
    ASSUME NEW source, NEW tree \in Content(source)
    PROVE  IsTree(tree) /\ \A p \in DOMAIN tree : tree[p] \in {Map, source}
  <1>1. PICK P \in SUBSET Path : tree \in [P -> {Map, source}]
    BY Zenon DEF Content
  <1>2. \A p \in DOMAIN tree : \A q \in Path :
            IsStrictPrefix(q, p) => q \in DOMAIN tree /\ tree[q] = Map
    BY Zenon DEF Content
  <1>3. QED
    BY <1>1, <1>2 DEF IsTree

\* DeepMerge of trees is a tree: what it keeps of the lower one is not below a
\* leaf of the higher one.
LEMMA MergeIsTree ==
    ASSUME NEW a, NEW b, IsTree(a), IsTree(b)
    PROVE  IsTree(DeepMerge(a, b))
  <1> DEFINE out == DeepMerge(a, b)
             kept == {q \in DOMAIN a : \A r \in DOMAIN b :
                          IsStrictPrefix(r, q) => b[r] = Map}
  <1>1. DOMAIN out = DOMAIN b \cup kept
    BY DEF DeepMerge
  <1>2. \A p \in DOMAIN out : out[p] = IF p \in DOMAIN b THEN b[p] ELSE a[p]
    BY DEF DeepMerge
  <1>3. DOMAIN out \subseteq Path
    BY <1>1 DEF IsTree
  <1>4. ASSUME NEW p \in DOMAIN out, NEW q \in Path, IsStrictPrefix(q, p)
        PROVE  q \in DOMAIN out /\ out[q] = Map
    <2> HIDE DEF out
    <2>1. CASE p \in DOMAIN b
      BY <2>1, <1>1, <1>2, <1>4 DEF IsTree
    <2>2. CASE p \in kept
      <3>1. q \in DOMAIN a /\ a[q] = Map
        BY <2>2, <1>4 DEF IsTree
      <3>2. ASSUME NEW r \in DOMAIN b, IsStrictPrefix(r, q) PROVE b[r] = Map
        <4>1. IsStrictPrefix(r, p)
          BY <3>2, <1>3, <1>4, PathOrder DEF IsTree
        <4>2. QED
          BY <4>1, <2>2
      <3>3. q \in kept
        BY <3>1, <3>2
      <3>4. q \in DOMAIN b => b[q] = Map
        BY <2>2, <1>4
      <3>5. QED
        BY <3>1, <3>3, <3>4, <1>1, <1>2
    <2>3. QED
      BY <2>1, <2>2, <1>1
  <1>5. QED
    BY <1>3, <1>4 DEF IsTree

\* Setting a path of a tree makes a tree.
LEMMA SetIsTree ==
    ASSUME NEW tree, NEW path \in Path, NEW leaf, IsTree(tree)
    PROVE  IsTree(Set(tree, path, leaf))
  <1> DEFINE out == Set(tree, path, leaf)
             kept == {q \in DOMAIN tree : ~IsStrictPrefix(path, q)}
             made == {q \in Path : IsPrefix(q, path)}
  <1>1. DOMAIN out = kept \cup made
    BY DEF Set
  <1>2. \A p \in DOMAIN out :
            out[p] = IF p = path THEN leaf
                     ELSE IF IsPrefix(p, path) THEN Map ELSE tree[p]
    BY DEF Set
  <1>3. DOMAIN out \subseteq Path
    BY <1>1 DEF IsTree
  <1>4. ASSUME NEW p \in DOMAIN out, NEW q \in Path, IsStrictPrefix(q, p)
        PROVE  q \in DOMAIN out /\ out[q] = Map
    <2> HIDE DEF out
    <2>1. CASE p \in made
      <3>1. IsStrictPrefix(q, path)
        BY <2>1, <1>4, PathOrder
      <3>2. IsPrefix(q, path) /\ q # path
        BY <3>1 DEF IsStrictPrefix
      <3>3. QED
        BY <3>2, <1>1, <1>2
    <2>2. CASE p \in kept
      <3>1. q \in DOMAIN tree /\ tree[q] = Map
        BY <2>2, <1>4 DEF IsTree
      <3>2. ~IsPrefix(path, q)
        BY <2>2, <1>3, <1>4, PathOrder
      <3>3. q # path /\ ~IsStrictPrefix(path, q)
        BY <3>2, PathOrder DEF IsStrictPrefix
      <3>4. QED
        BY <3>1, <3>3, <1>1, <1>2
    <2>3. QED
      BY <2>1, <2>2, <1>1
  <1>5. QED
    BY <1>3, <1>4 DEF IsTree

-----------------------------------------------------------------------------
(* The recursion of DeepMerge.                                             *)

\* What a tree has below a key: the map that is the key's value.
Below(tree, k) ==
    [p \in {q \in Seq(Key) \ {NoPath} : <<k>> \o q \in DOMAIN tree} |->
        tree[<<k>> \o p]]

\* A path that begins with a key.
LEMMA BehindKey ==
    ASSUME NEW k \in Key, NEW t \in Seq(Key), NEW kt, kt = <<k>> \o t
    PROVE  /\ kt \in Seq(Key) /\ Len(kt) = Len(t) + 1 /\ kt[1] = k
           /\ \A i \in 1..Len(t) : kt[i + 1] = t[i]
  <1> PICK u : u = <<k>>
    OBVIOUS
  <1>1. u \in Seq(Key) /\ Len(u) = 1 /\ u[1] = k
    OBVIOUS
  <1>2. /\ kt \in Seq(Key)
        /\ Len(kt) = Len(u) + Len(t)
        /\ \A i \in 1..Len(u) + Len(t) :
               kt[i] = IF i <= Len(u) THEN u[i] ELSE t[i - Len(u)]
    BY <1>1, ConcatProperties
  <1>3. Len(t) \in Nat
    OBVIOUS
  <1>4. kt[1] = k
    BY <1>1, <1>2, <1>3
  <1>5. ASSUME NEW i \in 1..Len(t) PROVE kt[i + 1] = t[i]
    <2>1. i + 1 \in 1..1 + Len(t) /\ ~(i + 1 <= 1) /\ (i + 1) - 1 = i
      BY <1>3
    <2> QED BY <1>1, <1>2, <2>1
  <1>6. Len(kt) = Len(t) + 1
    BY <1>1, <1>2, <1>3
  <1> QED BY <1>2, <1>4, <1>5, <1>6

\* Below a key the order of paths is that of what follows the key.
LEMMA OrderBelow ==
    ASSUME NEW k \in Key, NEW s \in Seq(Key), NEW t \in Seq(Key)
    PROVE  /\ IsPrefix(<<k>> \o s, <<k>> \o t) <=> IsPrefix(s, t)
           /\ IsStrictPrefix(<<k>> \o s, <<k>> \o t) <=> IsStrictPrefix(s, t)
  <1> PICK ks, kt : ks = <<k>> \o s /\ kt = <<k>> \o t
    OBVIOUS
  <1>1. /\ ks \in Seq(Key) /\ kt \in Seq(Key)
        /\ Len(ks) = Len(s) + 1 /\ Len(kt) = Len(t) + 1
        /\ ks[1] = k /\ kt[1] = k
        /\ \A i \in 1..Len(s) : ks[i + 1] = s[i]
        /\ \A i \in 1..Len(t) : kt[i + 1] = t[i]
    BY BehindKey
  <1>2. ASSUME IsPrefix(ks, kt) PROVE IsPrefix(s, t)
    <2>1. Len(ks) <= Len(kt) /\ \A i \in 1..Len(ks) : ks[i] = kt[i]
      <3>1. ks \in Seq(Key) /\ kt \in Seq(Key)
        BY <1>1
      <3> QED BY <1>2, <3>1, PrefixAgrees
    <2>2. Len(s) <= Len(t)
      BY <1>1, <2>1
    <2>3. ASSUME NEW i \in 1..Len(s) PROVE s[i] = t[i]
      <3>1. i + 1 \in 1..Len(ks) /\ i \in 1..Len(t)
        BY <1>1, <2>2
      <3> QED BY <1>1, <2>1, <3>1
    <2> QED BY <2>2, <2>3, PrefixElements
  <1>3. ASSUME IsPrefix(s, t) PROVE IsPrefix(ks, kt)
    <2>1. Len(s) <= Len(t) /\ \A i \in 1..Len(s) : s[i] = t[i]
      BY <1>3, PrefixElements
    <2>2. Len(ks) <= Len(kt)
      BY <1>1, <2>1
    <2>3. ASSUME NEW i \in 1..Len(ks) PROVE ks[i] = kt[i]
      <3>1. CASE i = 1
        BY <1>1, <3>1
      <3>2. CASE i # 1
        <4> PICK j \in 1..Len(s) : i = j + 1
          <5>1. i - 1 \in 1..Len(s) /\ i = (i - 1) + 1
            BY <1>1, <3>2
          <5> QED BY <5>1
        <4>1. j \in 1..Len(t)
          BY <2>1
        <4> QED BY <1>1, <2>1, <4>1
      <3> QED BY <3>1, <3>2
    <2> QED BY <1>1, <2>2, <2>3, PrefixElements
  <1>4. ks = kt <=> s = t
    <2>1. ASSUME ks = kt PROVE s = t
      <3>1. Len(s) = Len(t)
        BY <1>1, <2>1
      <3>2. ASSUME NEW i \in 1..Len(s) PROVE s[i] = t[i]
        BY <1>1, <2>1, <3>1, <3>2
      <3> QED BY <3>1, <3>2, SeqEqual
    <2> QED BY <2>1
  <1> QED BY <1>2, <1>3, <1>4, Zenon DEF IsStrictPrefix

\* What is above a path that begins with a key is that key, or begins with it.
LEMMA AboveBelow ==
    ASSUME NEW k \in Key, NEW t \in Seq(Key), NEW r \in Seq(Key) \ {NoPath},
           IsPrefix(r, <<k>> \o t)
    PROVE  r = <<k>> \/ \E s \in Seq(Key) \ {NoPath} : r = <<k>> \o s
  <1>1. Len(r) \in Nat \ {0}
    BY DEF NoPath
  <1>2. r[1] = k
    <2> PICK kt : kt = <<k>> \o t
      OBVIOUS
    <2>1. kt \in Seq(Key) /\ kt[1] = k
      BY BehindKey
    <2>2. \A i \in 1..Len(r) : r[i] = kt[i]
      BY <2>1, PrefixAgrees, Zenon
    <2>3. 1 \in 1..Len(r)
      BY <1>1
    <2> QED BY <2>1, <2>2, <2>3, Zenon
  <1>3. CASE Len(r) = 1
    BY <1>2, <1>3
  <1>4. CASE Len(r) # 1
    <2>1. Tail(r) \in Seq(Key) /\ Len(Tail(r)) = Len(r) - 1
      BY <1>1
    <2>2. Tail(r) # NoPath
      <3>1. Len(NoPath) = 0
        BY DEF NoPath
      <3>2. Len(Tail(r)) # 0
        BY <1>1, <1>4, <2>1
      <3> QED BY <3>1, <3>2, Zenon
    <2>3. r = <<k>> \o Tail(r)
      <3> PICK t1, u : t1 = Tail(r) /\ u = <<k>> \o t1
        OBVIOUS
      <3>1. /\ t1 \in Seq(Key) /\ Len(t1) = Len(r) - 1
            /\ \A i \in 1..Len(t1) : t1[i] = r[i + 1]
        BY HeadTailProperties DEF NoPath
      <3>2. /\ u \in Seq(Key) /\ Len(u) = Len(t1) + 1 /\ u[1] = k
            /\ \A i \in 1..Len(t1) : u[i + 1] = t1[i]
        BY <3>1, BehindKey
      <3>3. Len(u) = Len(r)
        BY <1>1, <3>1, <3>2
      <3>4. ASSUME NEW i \in 1..Len(r) PROVE u[i] = r[i]
        <4>1. CASE i = 1
          BY <1>2, <3>2, <4>1
        <4>2. CASE i # 1
          <5>1. i - 1 \in 1..Len(t1) /\ (i - 1) + 1 = i
            BY <1>1, <3>1, <4>2
          <5> QED BY <3>1, <3>2, <5>1
        <4> QED BY <4>1, <4>2
      <3>5. r = u
        BY <3>2, <3>3, <3>4, SeqEqual
      <3> QED BY <3>5
    <2> QED BY <2>1, <2>2, <2>3, Zenon
  <1> QED BY <1>3, <1>4

\* The key itself is above what begins with it, and nothing is above the key.
LEMMA KeyIsAbove ==
    ASSUME NEW k \in Key
    PROVE  /\ \A t \in Seq(Key) \ {NoPath} : IsStrictPrefix(<<k>>, <<k>> \o t)
           /\ \A r \in Path : ~IsStrictPrefix(r, <<k>>)
  <1>1. ASSUME NEW t \in Seq(Key) \ {NoPath} PROVE IsStrictPrefix(<<k>>, <<k>> \o t)
    <2> PICK kt : kt = <<k>> \o t
      OBVIOUS
    <2>1. Len(t) \in Nat \ {0}
      BY DEF NoPath
    <2>2. kt \in Seq(Key) /\ Len(kt) = Len(t) + 1 /\ kt[1] = k
      BY BehindKey
    <2>3. <<k>> \in Seq(Key) /\ Len(<<k>>) = 1 /\ <<k>>[1] = k
      OBVIOUS
    <2>4. IsPrefix(<<k>>, kt)
      <3> PICK n : n = <<k>>
        OBVIOUS
      <3>1. Len(n) <= Len(kt) /\ \A i \in 1..Len(n) : n[i] = kt[i]
        BY <2>1, <2>2, <2>3
      <3>2. n \in Seq(Key) /\ kt \in Seq(Key)
        BY <2>2, <2>3
      <3> QED BY <3>1, <3>2, PrefixElements, Zenon
    <2>5. <<k>> # kt
      BY <2>1, <2>2, <2>3
    <2> QED BY <2>4, <2>5 DEF IsStrictPrefix
  <1>2. ASSUME NEW r \in Path, IsStrictPrefix(r, <<k>>) PROVE FALSE
    <2>1. r \in Seq(Key) /\ r # <<>> /\ <<k>> \in Seq(Key)
      BY PathAssumption DEF NoPath
    <2> PICK n : n = <<k>>
      OBVIOUS
    <2>2. Len(r) <= Len(n) /\ \A i \in 1..Len(r) : r[i] = n[i]
      <3>1. IsPrefix(r, n) /\ n \in Seq(Key)
        BY <1>2, <2>1 DEF IsStrictPrefix
      <3> QED BY <2>1, <3>1, PrefixAgrees
    <2>3. Len(r) = 1 /\ r[1] = k
      <3>1. Len(n) = 1 /\ n[1] = k
        OBVIOUS
      <3> QED BY <2>1, <2>2, <3>1
    <2>4. r = <<k>>
      BY <2>1, <2>3
    <2> QED BY <1>2, <2>4 DEF IsStrictPrefix
  <1> QED BY <1>1, <1>2

\* DeepMerge by paths does what the code's recursion does (map.go:3-27), for
\* trees of any depth: a key of the higher tree replaces what the lower one has
\* there unless both have a map, which are then merged in the same way; a key
\* that only the lower tree has keeps its value.
THEOREM MergeIsRecursive ==
    ASSUME NEW a, NEW b, IsTree(a), IsTree(b), NEW k \in Key,
           NEW m, m = DeepMerge(a, b)
    PROVE  /\ <<k>> \in DOMAIN m <=> <<k>> \in DOMAIN a \cup DOMAIN b
           /\ <<k>> \in DOMAIN a /\ <<k>> \notin DOMAIN b =>
                  m[<<k>>] = a[<<k>>] /\ Below(m, k) = Below(a, k)
           /\ <<k>> \in DOMAIN b =>
                  IF <<k>> \in DOMAIN a /\ a[<<k>>] = Map /\ b[<<k>>] = Map
                  THEN /\ m[<<k>>] = Map
                       /\ Below(m, k) = DeepMerge(Below(a, k), Below(b, k))
                  ELSE m[<<k>>] = b[<<k>>] /\ Below(m, k) = Below(b, k)
  <1> PICK n : n = <<k>>
    OBVIOUS
  <1> DEFINE N == Seq(Key) \ {NoPath}
             kept == {q \in DOMAIN a : \A r \in DOMAIN b :
                          IsStrictPrefix(r, q) => b[r] = Map}
  <1>1. /\ DOMAIN m = DOMAIN b \cup kept
        /\ \A p \in DOMAIN m : m[p] = IF p \in DOMAIN b THEN b[p] ELSE a[p]
    BY DEF DeepMerge
  <1>2. DOMAIN a \subseteq Path /\ DOMAIN b \subseteq Path /\ Path \subseteq N
    BY PathAssumption, Zenon DEF IsTree
  <1>3. /\ \A t \in N : IsStrictPrefix(n, n \o t)
        /\ \A r \in Path : ~IsStrictPrefix(r, n)
    BY KeyIsAbove
  <1>4. /\ \A s, t \in N : IsStrictPrefix(n \o s, n \o t) <=> IsStrictPrefix(s, t)
        /\ \A t \in N, r \in Path :
               IsStrictPrefix(r, n \o t) => r = n \/ \E s \in N : r = n \o s
    <2>1. ASSUME NEW s \in N, NEW t \in N
          PROVE  IsStrictPrefix(n \o s, n \o t) <=> IsStrictPrefix(s, t)
      <3>1. s \in Seq(Key) /\ t \in Seq(Key)
        OBVIOUS
      <3> QED BY <3>1, OrderBelow, Zenon
    <2>2. ASSUME NEW t \in N, NEW r \in Path, IsStrictPrefix(r, n \o t)
          PROVE  r = n \/ \E s \in N : r = n \o s
      <3>1. IsPrefix(r, n \o t) /\ r \in Seq(Key) \ {NoPath} /\ t \in Seq(Key)
        BY <1>2, <2>2, Zenon DEF IsStrictPrefix
      <3> QED BY <3>1, AboveBelow, Zenon
    <2> QED BY <2>1, <2>2
  <1>5. n \in DOMAIN m <=> n \in DOMAIN a \cup DOMAIN b
    BY <1>1, <1>2, <1>3
  <1>6. \A tree : /\ DOMAIN Below(tree, k) = {q \in N : n \o q \in DOMAIN tree}
                  /\ \A q \in DOMAIN Below(tree, k) : Below(tree, k)[q] = tree[n \o q]
    BY DEF Below
  <1>7. \A tree, q : /\ IsTree(tree) /\ n \in Path
                     /\ q \in N /\ n \o q \in DOMAIN tree
                     => n \in DOMAIN tree /\ tree[n] = Map
    BY <1>3 DEF IsTree
  <1> HIDE DEF N
  <1>8. ASSUME NEW tree, \A q \in N : /\ n \o q \in DOMAIN m <=> n \o q \in DOMAIN tree
                                      /\ n \o q \in DOMAIN m => m[n \o q] = tree[n \o q]
        PROVE  Below(m, k) = Below(tree, k)
    <2>1. DOMAIN Below(m, k) = DOMAIN Below(tree, k)
      BY <1>6, <1>8
    <2>2. ASSUME NEW q \in DOMAIN Below(m, k)
          PROVE  Below(m, k)[q] = Below(tree, k)[q]
      <3>1. q \in N /\ n \o q \in DOMAIN m
        BY <1>6
      <3>2. Below(m, k)[q] = m[n \o q] /\ Below(tree, k)[q] = tree[n \o q]
        BY <1>6, <2>1
      <3> QED BY <1>8, <3>1, <3>2
    <2>3. \A t : Below(t, k) = [q \in DOMAIN Below(t, k) |-> Below(t, k)[q]]
      BY DEF Below
    <2> QED BY <2>1, <2>2, <2>3
  <1>9. ASSUME n \in DOMAIN a, n \notin DOMAIN b
        PROVE  m[n] = a[n] /\ Below(m, k) = Below(a, k)
    <2>1. \A q \in N : n \o q \notin DOMAIN b
      BY <1>2, <1>7, <1>9
    <2>2. ASSUME NEW q \in N
          PROVE  /\ n \o q \in DOMAIN m <=> n \o q \in DOMAIN a
                 /\ n \o q \in DOMAIN m => m[n \o q] = a[n \o q]
      <3>1. ASSUME NEW r \in DOMAIN b, IsStrictPrefix(r, n \o q) PROVE FALSE
        BY <1>2, <1>4, <1>9, <2>1, <3>1
      <3> QED BY <1>1, <2>1, <3>1
    <2> QED BY <1>1, <1>5, <1>8, <1>9, <2>2
  <1>10. ASSUME n \in DOMAIN b, ~(n \in DOMAIN a /\ a[n] = Map /\ b[n] = Map)
         PROVE  m[n] = b[n] /\ Below(m, k) = Below(b, k)
    <2>1. ASSUME NEW q \in N
          PROVE  /\ n \o q \in DOMAIN m <=> n \o q \in DOMAIN b
                 /\ n \o q \in DOMAIN m => m[n \o q] = b[n \o q]
      <3>1. ASSUME n \o q \in kept PROVE FALSE
        <4>1. b[n] = Map
          BY <1>3, <1>10, <3>1
        <4>2. n \in DOMAIN a /\ a[n] = Map
          BY <1>2, <1>7, <1>10, <3>1
        <4> QED BY <1>10, <4>1, <4>2
      <3> QED BY <1>1, <3>1
    <2> QED BY <1>1, <1>5, <1>8, <1>10, <2>1
  <1>11. ASSUME n \in DOMAIN b, n \in DOMAIN a, a[n] = Map, b[n] = Map
         PROVE  m[n] = Map /\ Below(m, k) = DeepMerge(Below(a, k), Below(b, k))
    <2> PICK x, y, z : x = Below(a, k) /\ y = Below(b, k) /\ z = DeepMerge(x, y)
      OBVIOUS
    <2> DEFINE keep == {q \in DOMAIN x : \A r \in DOMAIN y :
                            IsStrictPrefix(r, q) => y[r] = Map}
    <2>1. /\ DOMAIN z = DOMAIN y \cup keep
          /\ \A q \in DOMAIN z : z[q] = IF q \in DOMAIN y THEN y[q] ELSE x[q]
          /\ z = [q \in DOMAIN z |-> z[q]]
      BY DEF DeepMerge
    <2>2. ASSUME NEW q \in N, n \o q \in DOMAIN a
          PROVE  n \o q \in kept <=> q \in keep
      <3>1. q \in DOMAIN x
        BY <1>6, <2>2
      <3>2. ASSUME n \o q \in kept, NEW r \in DOMAIN y, IsStrictPrefix(r, q)
            PROVE  y[r] = Map
        <4>1. r \in N /\ n \o r \in DOMAIN b /\ y[r] = b[n \o r]
          BY <1>6
        <4>2. IsStrictPrefix(n \o r, n \o q)
          BY <1>4, <3>2, <4>1
        <4> QED BY <3>2, <4>1, <4>2
      <3>3. ASSUME q \in keep, NEW r \in DOMAIN b, IsStrictPrefix(r, n \o q)
            PROVE  b[r] = Map
        <4>1. CASE r = n
          BY <1>11, <4>1
        <4>2. ASSUME NEW s \in N, r = n \o s PROVE b[r] = Map
          <5>1. s \in DOMAIN y /\ y[s] = b[r]
            BY <1>6, <4>2
          <5>2. IsStrictPrefix(s, q)
            BY <1>4, <3>3, <4>2
          <5> QED BY <3>3, <5>1, <5>2
        <4> QED BY <1>2, <1>4, <3>3, <4>1, <4>2
      <3> QED BY <2>2, <3>1, <3>2, <3>3
    <2>3. \A q : q \in DOMAIN Below(m, k) <=> q \in N /\ n \o q \in DOMAIN m
      BY <1>6
    <2>4. \A q : /\ q \in DOMAIN x <=> q \in N /\ n \o q \in DOMAIN a
                 /\ q \in DOMAIN y <=> q \in N /\ n \o q \in DOMAIN b
      BY <1>6
    <2>5. \A q : q \in DOMAIN Below(m, k) <=> q \in DOMAIN z
      BY <1>1, <2>1, <2>2, <2>3, <2>4
    <2>6. ASSUME NEW q \in DOMAIN z PROVE Below(m, k)[q] = z[q]
      <3>1. q \in N /\ n \o q \in DOMAIN m /\ Below(m, k)[q] = m[n \o q]
        BY <1>6, <2>3, <2>5
      <3>2. CASE q \in DOMAIN y
        <4>1. z[q] = y[q] /\ y[q] = b[n \o q] /\ n \o q \in DOMAIN b
          BY <1>6, <2>1, <2>4, <3>2
        <4> QED BY <1>1, <3>1, <4>1
      <3>3. CASE q \notin DOMAIN y
        <4>1. z[q] = x[q] /\ q \in DOMAIN x /\ n \o q \notin DOMAIN b
          BY <2>1, <2>4, <3>1, <3>3
        <4>2. x[q] = a[n \o q]
          BY <1>6, <4>1
        <4> QED BY <1>1, <3>1, <4>1, <4>2
      <3> QED BY <3>2, <3>3
    <2>7. Below(m, k) = [q \in DOMAIN Below(m, k) |-> Below(m, k)[q]]
      BY DEF Below
    <2>8. Below(m, k) = z
      BY <2>1, <2>5, <2>6, <2>7
    <2>9. m[n] = Map
      BY <1>1, <1>5, <1>11
    <2> QED BY <2>8, <2>9
  <1> QED BY <1>5, <1>9, <1>10, <1>11

-----------------------------------------------------------------------------
(* Types.                                                                  *)

InputOK ==
    /\ complex \in Content(Complex)
    /\ \A i \in 1..FileCount : files[i] \in ValueFile(File(i))
    /\ ignore \in BOOLEAN
    /\ maps["values"] \in FlatMap /\ maps["stringValues"] \in StringMap
    /\ lists["values"] \in FlatList /\ lists["stringValues"] \in StringList

StateOK ==
    /\ pc \in {"files", "values", "stringValues", "done", "failed"}
    /\ next \in Nat \ {0}
    /\ left \in SUBSET FlatValue
    /\ from.kind \in Kind \cup {"complex"} /\ from.place \in Nat
    /\ from.flat \in FlatValue
    /\ at \in 1..Len(from.flat) + 1

\* The parts of the type invariant.
LEMMA TypeParts == TypeOK <=> InputOK /\ StateOK /\ IsTree(values)
  BY Zenon DEF TypeOK, InputOK, StateOK, IsTree

\* No step changes the parameters of the call.
LEMMA InputIsConstant == InputOK /\ input' = input => InputOK'
  BY Zenon DEF InputOK, input, ValueFile, Content

\* The flat values of either kind.
LEMMA FlatTypes ==
    ASSUME InputOK, NEW kind \in Kind
    PROVE  /\ maps[kind] \subseteq FlatValue
           /\ lists[kind] \in Seq(FlatValue)
  <1>1. CASE kind = "values"
    <2>1. maps["values"] \in FlatMap /\ lists["values"] \in FlatList
      BY DEF InputOK
    <2>2. QED
      BY <1>1, <2>1, FlatValueAssumption, Zenon
  <1>2. CASE kind = "stringValues"
    <2>1. maps["stringValues"] \in StringMap /\ lists["stringValues"] \in StringList
      BY DEF InputOK
    <2>2. QED
      BY <1>2, <2>1, FlatValueAssumption, Zenon
  <1>3. QED
    BY <1>1, <1>2 DEF Kind

\* What an assignment sets is a path, or there is none.
LEMMA AssignmentType ==
    ASSUME StateOK, ~Parsed
    PROVE  at \in DOMAIN from.flat /\ from.flat[at] \in Path \cup {NoPath}
  <1>1. from.flat \in Seq(Path \cup {NoPath})
    BY DEF StateOK, FlatValue
  <1>2. at \in 1..Len(from.flat)
    BY <1>1 DEF StateOK, Parsed
  <1>3. QED
    BY <1>1, <1>2

\* Both loops over flat values start in a state of the right types.
LEMMA BeginType ==
    ASSUME InputOK, StateOK, NEW kind \in Kind, Begin(kind), UNCHANGED <<from, at>>
    PROVE  StateOK'
  <1>1. maps[kind] \in SUBSET FlatValue
    BY FlatTypes
  <1>2. left' \in SUBSET FlatValue /\ next' \in Nat \ {0}
    BY <1>1 DEF Begin
  <1>3. pc' \in {"files", "values", "stringValues", "done", "failed"}
    BY DEF Begin, Kind
  <1>4. QED
    BY <1>2, <1>3 DEF StateOK

\* The complex values are a tree, and nothing has been parsed.
LEMMA InitType == Init => TypeOK
  <1> SUFFICES ASSUME Init PROVE TypeOK
    OBVIOUS
  <1>1. InputOK
    <2>1. \A i \in 1..FileCount : files[i] \in ValueFile(File(i))
      BY Zenon DEF Init
    <2>2. maps["values"] \in FlatMap /\ maps["stringValues"] \in StringMap
      BY DEF Init, Kind
    <2>3. lists["values"] \in FlatList /\ lists["stringValues"] \in StringList
      BY DEF Init, Kind
    <2>4. QED
      BY <2>1, <2>2, <2>3 DEF Init, InputOK
  <1>2. StateOK
    <2>1. <<>> \in FlatValue
      BY DEF FlatValue
    <2>2. QED
      BY <2>1 DEF Init, StateOK, Complex, Structured
  <1>3. IsTree(values)
    <2>1. IsTree(complex)
      BY <1>1, ContentIsTree, Zenon DEF InputOK
    <2>2. IsTree(<<>>)
      BY DEF IsTree
    <2>3. QED
      BY <2>1, <2>2, MergeIsTree, Zenon DEF Init
  <1>4. QED
    BY <1>1, <1>2, <1>3, TypeParts

\* Every step keeps the types: merging and setting make trees of trees, and
\* strvals is given flat values of the parameters only.
LEMMA NextType == TypeOK /\ [Next]_vars => TypeOK'
  <1> SUFFICES ASSUME TypeOK, [Next]_vars PROVE TypeOK'
    OBVIOUS
  <1>0. InputOK /\ StateOK /\ IsTree(values)
    BY TypeParts
  <1>1. InputOK'
    <2>1. input' = input
      BY DEF Next, MergeFile, SkipFile, FailOnFile, EndFiles, TakeFromMap, TakeFromList,
             Assign, FailToAssign, EndKind, vars, input
    <2>2. QED
      BY <1>0, <2>1, InputIsConstant
  <1>2. StateOK' /\ IsTree(values)'
    <2>1. CASE MergeFile
      <3>1. StateOK'
        BY <2>1, <1>0 DEF MergeFile, StateOK
      <3>2. IsTree(files[next].content)
        <4>1. next \in 1..FileCount
          BY <2>1, <1>0, FileCountAssumption DEF MergeFile, StateOK
        <4>2. files[next] \in ValueFile(File(next)) /\ files[next].state = "readable"
          BY <4>1, <2>1, <1>0, Zenon DEF MergeFile, InputOK
        <4>3. files[next].content \in Content(File(next))
          BY <4>2 DEF ValueFile
        <4>4. QED
          BY <4>3, ContentIsTree, Zenon
      <3>3. IsTree(DeepMerge(files[next].content, values))
        BY <3>2, <1>0, MergeIsTree, Zenon
      <3>4. IsTree(values)'
        BY <3>3, <2>1, Zenon DEF MergeFile, IsTree
      <3>5. QED
        BY <3>1, <3>4
    <2>2. CASE SkipFile
      BY <2>2, <1>0 DEF SkipFile, StateOK, IsTree
    <2>3. CASE FailOnFile
      BY <2>3, <1>0 DEF FailOnFile, StateOK, IsTree
    <2>4. CASE EndFiles
      <3>1. StateOK'
        BY <2>4, <1>0, BeginType DEF EndFiles, Kind
      <3>2. QED
        BY <3>1, <2>4, <1>0, Zenon DEF EndFiles, IsTree
    <2>5. CASE TakeFromMap
      <3>1. PICK flat \in left : from' = FromMap(pc, flat) /\ left' = left \ {flat}
        BY <2>5 DEF TakeFromMap
      <3>2. flat \in FlatValue /\ Len(flat) \in Nat
        BY <1>0 DEF StateOK, FlatValue
      <3>3. from'.flat = flat /\ from'.kind \in Kind /\ from'.place = 0
        BY <3>1, <2>5 DEF TakeFromMap, FromMap
      <3>4. StateOK'
        BY <3>1, <3>2, <3>3, <2>5, <1>0 DEF TakeFromMap, StateOK
      <3>5. QED
        BY <3>4, <2>5, <1>0, Zenon DEF TakeFromMap, IsTree
    <2>6. CASE TakeFromList
      <3>1. lists[pc] \in Seq(FlatValue)
        BY <2>6, <1>0, FlatTypes DEF TakeFromList
      <3>2. lists[pc][next] \in FlatValue
        BY <3>1, <2>6, <1>0 DEF TakeFromList, StateOK
      <3>3. Len(lists[pc][next]) \in Nat
        BY <3>2 DEF FlatValue
      <3>4. from'.flat = lists[pc][next] /\ from'.kind \in Kind /\ from'.place = next
        BY <2>6 DEF TakeFromList, FromList
      <3>5. StateOK'
        BY <3>2, <3>3, <3>4, <2>6, <1>0 DEF TakeFromList, StateOK
      <3>6. QED
        BY <3>5, <2>6, <1>0, Zenon DEF TakeFromList, IsTree
    <2>7. CASE Assign
      <3>1. at \in DOMAIN from.flat /\ from.flat[at] \in Path
        BY <2>7, <1>0, AssignmentType DEF Assign
      <3>2. from.flat \in Seq(Path \cup {NoPath})
        BY <1>0 DEF StateOK, FlatValue
      <3>3. at + 1 \in 1..Len(from.flat) + 1
        BY <3>1, <3>2
      <3>4. StateOK'
        BY <3>3, <2>7, <1>0 DEF Assign, StateOK
      <3>5. IsTree(Set(values, from.flat[at], from))
        BY <3>1, <1>0, SetIsTree, Zenon
      <3>6. QED
        BY <3>4, <3>5, <2>7, Zenon DEF Assign, IsTree
    <2>8. CASE FailToAssign
      BY <2>8, <1>0 DEF FailToAssign, StateOK, IsTree
    <2>9. CASE EndKind
      <3>1. CASE pc = "values"
        <4>1. StateOK'
          BY <3>1, <2>9, <1>0, BeginType DEF EndKind, Kind
        <4>2. QED
          BY <4>1, <2>9, <1>0, Zenon DEF EndKind, IsTree
      <3>2. CASE pc # "values"
        BY <3>2, <2>9, <1>0 DEF EndKind, StateOK, IsTree
      <3>3. QED
        BY <3>1, <3>2
    <2>10. CASE UNCHANGED vars
      BY <2>10, <1>0 DEF vars, StateOK, IsTree
    <2>11. QED
      BY <2>1, <2>2, <2>3, <2>4, <2>5, <2>6, <2>7, <2>8, <2>9, <2>10 DEF Next
  <1>3. QED
    <2>1. (InputOK /\ StateOK /\ IsTree(values))' => TypeOK'
      BY Zenon DEF TypeOK, InputOK, StateOK, IsTree
    <2>2. QED
      BY <1>1, <1>2, <2>1

\* The values are a tree throughout the call, and strvals parses one flat value
\* of the parameters after the other.
THEOREM Typing == Spec => []TypeOK
  <1>1. QED
    BY InitType, NextType, PTL DEF Spec

-----------------------------------------------------------------------------
(* The invariant.                                                          *)

\* Whether the call has come to a source.
Taken(s) ==
    /\ s.kind = "file" /\ pc = "files" => s.place < next
    /\ s.kind \in Kind => pc # "files"
    /\ s.kind = "stringValues" => pc # "values"
    /\ s.kind = pc /\ s.place = 0 => s.flat \notin left
    /\ s.kind = pc /\ s.place # 0 => left = {} /\ s.place < next

\* The paths that a source has set so far.
Assigned(s) == {s.flat[i] : i \in {j \in DOMAIN s.flat : s = from => j < at}}

\* Having and NodeOf, of what has been taken and set so far.
HasNow(s, path) ==
    /\ s \in Sources /\ Taken(s)
    /\ \/ path \in DOMAIN TreeOf(s)
       \/ \E p \in Assigned(s) : IsPrefix(path, p)

NodeNow(s, path) ==
    IF s \in Trees THEN TreeOf(s)[path]
    ELSE IF path \in Assigned(s) THEN s
    ELSE Map

\* A source that has a path and above which no other has it.
IsTop(s, path) ==
    /\ HasNow(s, path)
    /\ \A t \in Sources : HasNow(t, path) => Rank(t) <= Rank(s)

\* How far the loops have come.
Position ==
    /\ pc = "files" => from = Complex
    /\ \/ from = Complex /\ at = 1
       \/ from \in FlatSources("values") \cup FlatSources("stringValues")
    /\ pc \in Kind => Taken(from) /\ left \subseteq maps[pc]
    /\ pc \in Kind /\ left # {} => next = 1
    /\ pc \in Kind /\ ~Parsed =>
           /\ from.kind = pc
           /\ IF from.place = 0 THEN next = 1 ELSE left = {} /\ next = from.place + 1
    /\ pc = "done" => Parsed

\* The paths of the values: those of the sources, but not below a leaf.
PathsMerged ==
    \A p \in Path :
        p \in DOMAIN values <=>
            /\ \E s \in Sources : HasNow(s, p)
            /\ \A q \in DOMAIN values : IsStrictPrefix(q, p) => values[q] = Map

\* The values are those of the highest of the sources taken so far.
NodesMerged ==
    \A p \in DOMAIN values :
        \E s \in Sources : IsTop(s, p) /\ values[p] = NodeNow(s, p)

\* What the source that is being parsed sets stands above all that was there.
LastWins ==
    from # Complex =>
        \A p \in DOMAIN values : HasNow(from, p) => values[p] = NodeNow(from, p)

Merged == PathsMerged /\ NodesMerged /\ LastWins

CallInv ==
    /\ Position
    /\ pc # "failed" => Merged
    /\ FailsForAReason

-----------------------------------------------------------------------------
(* Sources.                                                                *)

\* The sources of flat values.
LEMMA FlatSourceFacts ==
    ASSUME InputOK, NEW kind \in Kind, NEW s \in FlatSources(kind)
    PROVE  /\ s.kind = kind /\ s \notin Trees /\ s # Complex
           /\ s.flat \in FlatValue /\ TreeOf(s) = <<>>
           /\ \/ s.place = 0 /\ s.flat \in maps[kind] /\ s = FromMap(kind, s.flat)
              \/ s.place \in 1..Len(lists[kind]) /\ s = FromList(kind, s.place)
  <1>1. maps[kind] \subseteq FlatValue /\ lists[kind] \in Seq(FlatValue)
    BY FlatTypes
  <1>2. kind # "file" /\ kind # "complex"
    BY DEF Kind
  <1>3. ASSUME NEW flat \in maps[kind], s = FromMap(kind, flat)
        PROVE  s.kind = kind /\ s.place = 0 /\ s.flat = flat
    BY <1>3 DEF FromMap
  <1>4. ASSUME NEW i \in DOMAIN lists[kind], s = FromList(kind, i)
        PROVE  s.kind = kind /\ s.place = i /\ s.flat = lists[kind][i]
    BY <1>4 DEF FromList
  <1>5. \/ \E flat \in maps[kind] : s = FromMap(kind, flat)
        \/ \E i \in DOMAIN lists[kind] : s = FromList(kind, i)
    BY Zenon DEF FlatSources
  <1>6. DOMAIN lists[kind] = 1..Len(lists[kind])
    BY <1>1
  <1>7. s.kind = kind
    BY <1>3, <1>4, <1>5
  <1>8. s.flat \in FlatValue
    BY <1>1, <1>3, <1>4, <1>5
  <1>9. \/ s.place = 0 /\ s.flat \in maps[kind] /\ s = FromMap(kind, s.flat)
        \/ s.place \in 1..Len(lists[kind]) /\ s = FromList(kind, s.place)
    BY <1>3, <1>4, <1>5, <1>6
  <1>10. s \notin Trees /\ s # Complex
    BY <1>2, <1>7 DEF Trees, Complex, File, Structured
  <1>11. TreeOf(s) = <<>>
    BY <1>2, <1>7 DEF TreeOf
  <1>12. QED
    BY <1>7, <1>8, <1>9, <1>10, <1>11

\* The sources of trees.
LEMMA TreeSourceFacts ==
    ASSUME InputOK, NEW s \in Trees
    PROVE  /\ s.flat = <<>> /\ s.kind \notin Kind
           /\ \/ s = Complex /\ s.kind = "complex" /\ TreeOf(s) = complex
              \/ /\ s.place \in 1..FileCount /\ s.kind = "file" /\ s = File(s.place)
                 /\ TreeOf(s) = files[s.place].content
           /\ TreeOf(s) \in Content(s)
  <1>1. CASE s = Complex
    <2>1. s.kind = "complex" /\ s.flat = <<>>
      BY <1>1 DEF Complex, Structured
    <2>2. TreeOf(s) = complex
      BY <2>1 DEF TreeOf
    <2>3. complex \in Content(s)
      BY <1>1 DEF InputOK
    <2>4. QED
      BY <1>1, <2>1, <2>2, <2>3 DEF Kind
  <1>2. CASE s # Complex
    <2>1. PICK i \in 1..FileCount : files[i].state = "readable" /\ s = File(i)
      BY <1>2, Zenon DEF Trees
    <2>2. s.kind = "file" /\ s.flat = <<>> /\ s.place = i
      BY <2>1 DEF File, Structured
    <2>3. TreeOf(s) = files[i].content
      BY <2>2 DEF TreeOf
    <2>4. files[i] \in ValueFile(File(i)) /\ files[i].state = "readable"
      BY <2>1, Zenon DEF InputOK
    <2>5. files[i].content \in Content(s)
      BY <2>1, <2>4 DEF ValueFile
    <2>6. QED
      BY <2>1, <2>2, <2>3, <2>5 DEF Kind
  <1>3. QED
    BY <1>1, <1>2

\* A source is of either sort.
LEMMA SourceSorts ==
    \A s \in Sources : s \in Trees \/ s \in FlatSources("values") \/ s \in FlatSources("stringValues")
  BY DEF Sources

\* What is not a tree is a flat value of its kind.
LEMMA SourceIsFlat ==
    ASSUME InputOK, NEW s \in Sources, s \notin Trees
    PROVE  s.kind \in Kind /\ s \in FlatSources(s.kind)
  BY SourceSorts, FlatSourceFacts DEF Kind

\* The ranks of the sources: files from the last to the first, complex values,
\* and then the flat ones.
LEMMA Ranks ==
    ASSUME InputOK, NEW s \in Sources
    PROVE  /\ s.kind = "file" => /\ Rank(s) = FileCount - s.place
                                 /\ s.place \in 1..FileCount /\ s = File(s.place)
           /\ s.kind = "complex" => Rank(s) = FileCount /\ s = Complex
           /\ s.kind = "values" => /\ Rank(s) = FileCount + 1 + s.place
                                   /\ s.place \in 0..Len(lists["values"])
           /\ s.kind = "stringValues" =>
                  /\ Rank(s) = FileCount + 2 + Len(lists["values"]) + s.place
                  /\ s.place \in 0..Len(lists["stringValues"])
           /\ s.kind \in {"file", "complex", "values", "stringValues"}
           /\ Rank(s) \in Nat
  <1>1. /\ Len(lists["values"]) \in Nat
        /\ Len(lists["stringValues"]) \in Nat
    BY FlatTypes DEF Kind
  <1>2. CASE s \in Trees
    <2>1. CASE s.kind = "complex"
      BY <1>2, <2>1, TreeSourceFacts, FileCountAssumption DEF Rank
    <2>2. CASE s.kind = "file"
      BY <1>2, <2>2, TreeSourceFacts, FileCountAssumption DEF Rank
    <2>3. QED
      BY <1>2, <2>1, <2>2, TreeSourceFacts
  <1>3. CASE s \notin Trees
    <2>1. s.kind \in Kind /\ s \in FlatSources(s.kind)
      BY <1>3, SourceIsFlat
    <2>2. s.place \in 0..Len(lists[s.kind])
      BY <1>1, <2>1, FlatSourceFacts DEF Kind
    <2>3. CASE s.kind = "values"
      BY <1>1, <2>2, <2>3, FileCountAssumption DEF Rank
    <2>4. CASE s.kind = "stringValues"
      BY <1>1, <2>2, <2>4, FileCountAssumption DEF Rank
    <2>5. QED
      BY <2>1, <2>3, <2>4 DEF Kind
  <1>4. QED
    BY <1>2, <1>3

\* One sort of sources stands above the other.
LEMMA RankBounds ==
    ASSUME InputOK, NEW u \in Sources
    PROVE  /\ u.kind = "file" => Rank(u) < FileCount
           /\ u.kind = "complex" => Rank(u) = FileCount
           /\ u.kind = "values" =>
                  /\ FileCount < Rank(u)
                  /\ Rank(u) < FileCount + 2 + Len(lists["values"])
           /\ u.kind = "stringValues" => FileCount + 2 + Len(lists["values"]) <= Rank(u)
           /\ u.kind \in {"file", "complex", "values", "stringValues"}
           /\ Rank(u) \in Nat
  <1> DEFINE n == Len(lists["values"])
             m == Len(lists["stringValues"])
  <1>0. n \in Nat /\ m \in Nat
    BY FlatTypes DEF Kind
  <1> HIDE DEF n, m
  <1>1. CASE u.kind = "file"
    <2>1. Rank(u) = FileCount - u.place /\ u.place \in 1..FileCount
      BY <1>1, Ranks
    <2>2. Rank(u) < FileCount /\ Rank(u) \in Nat
      BY <2>1, FileCountAssumption
    <2>3. QED
      BY <1>1, <2>2
  <1>2. CASE u.kind = "complex"
    BY <1>2, Ranks
  <1>3. CASE u.kind = "values"
    <2>1. Rank(u) = FileCount + 1 + u.place
      BY <1>3, Ranks DEF n
    <2>2. u.place \in 0..n
      BY <1>3, Ranks DEF n
    <2>3. /\ FileCount < FileCount + 1 + u.place
          /\ FileCount + 1 + u.place < FileCount + 2 + n
          /\ FileCount + 1 + u.place \in Nat
      BY <1>0, <2>2, FileCountAssumption
    <2>4. QED
      BY <1>3, <2>1, <2>3, Zenon DEF n
  <1>4. CASE u.kind = "stringValues"
    <2>1. Rank(u) = FileCount + 2 + n + u.place
      BY <1>4, Ranks DEF n, m
    <2>2. u.place \in 0..m
      BY <1>4, Ranks DEF n, m
    <2>3. /\ FileCount + 2 + n <= FileCount + 2 + n + u.place
          /\ FileCount + 2 + n + u.place \in Nat
      BY <1>0, <2>2, FileCountAssumption
    <2>4. QED
      BY <1>4, <2>1, <2>3, Zenon DEF n
  <1>5. QED
    BY <1>1, <1>2, <1>3, <1>4, Ranks DEF n

\* Two sources of one rank are values of one map, or the same.
LEMMA SameRank ==
    ASSUME InputOK, NEW s \in Sources, NEW t \in Sources, Rank(s) = Rank(t)
    PROVE  \/ s = t
           \/ /\ s.kind \in Kind /\ t.kind = s.kind
              /\ s.flat \in maps[s.kind] /\ t.flat \in maps[s.kind] /\ s.flat # t.flat
  <1> DEFINE n == Len(lists["values"])
             m == Len(lists["stringValues"])
  <1>1. n \in Nat /\ m \in Nat
    BY FlatTypes DEF Kind
  <1> HIDE DEF n, m
  <1>2. t.kind = s.kind
    <2>1. /\ s.kind \in {"file", "complex", "values", "stringValues"}
          /\ t.kind \in {"file", "complex", "values", "stringValues"}
          /\ Rank(s) \in Nat
      BY RankBounds
    <2>2. /\ s.kind = "file" => Rank(s) < FileCount
          /\ s.kind = "complex" => Rank(s) = FileCount
          /\ s.kind = "values" => FileCount < Rank(s) /\ Rank(s) < FileCount + 2 + n
          /\ s.kind = "stringValues" => FileCount + 2 + n <= Rank(s)
      BY RankBounds, Zenon DEF n
    <2>3. /\ t.kind = "file" => Rank(s) < FileCount
          /\ t.kind = "complex" => Rank(s) = FileCount
          /\ t.kind = "values" => FileCount < Rank(s) /\ Rank(s) < FileCount + 2 + n
          /\ t.kind = "stringValues" => FileCount + 2 + n <= Rank(s)
      BY RankBounds, Zenon DEF n
    <2> DEFINE r == Rank(s)
    <2> HIDE DEF r
    <2>4. r \in Nat
      BY <2>1 DEF r
    <2>5. QED
      BY <2>1, <2>2, <2>3, <2>4, <1>1, FileCountAssumption DEF r
  <1>3. t.place = s.place \/ s.kind = "complex"
    <2>1. CASE s.kind = "file"
      <3>1. Rank(s) = FileCount - s.place /\ s.place \in 1..FileCount
        BY <2>1, Ranks
      <3>2. Rank(t) = FileCount - t.place /\ t.place \in 1..FileCount
        BY <1>2, <2>1, Ranks
      <3>3. FileCount - s.place = FileCount - t.place
        BY <3>1, <3>2
      <3>4. QED
        BY <3>1, <3>2, <3>3, FileCountAssumption
    <2>2. CASE s.kind = "values"
      <3>1. Rank(s) = FileCount + 1 + s.place /\ s.place \in 0..n
        BY <2>2, Ranks DEF n
      <3>2. Rank(t) = FileCount + 1 + t.place /\ t.place \in 0..n
        BY <1>2, <2>2, Ranks DEF n
      <3>3. FileCount + 1 + s.place = FileCount + 1 + t.place
        BY <3>1, <3>2
      <3>4. QED
        BY <1>1, <3>1, <3>2, <3>3, FileCountAssumption
    <2>3. CASE s.kind = "stringValues"
      <3>1. s.place \in 0..m /\ t.place \in 0..m
        BY <1>2, <2>3, Ranks DEF n, m
      <3>2. Rank(s) = FileCount + 2 + n + s.place /\ Rank(t) = FileCount + 2 + n + t.place
        BY <1>2, <2>3, Ranks DEF n, m
      <3>3. FileCount + 2 + n + s.place = FileCount + 2 + n + t.place
        BY <3>2
      <3>4. QED
        BY <1>1, <3>1, <3>3, FileCountAssumption
    <2>4. QED
      BY <2>1, <2>2, <2>3, RankBounds
  <1>4. CASE s.kind \notin Kind
    BY <1>2, <1>3, <1>4, Ranks DEF Kind
  <1>5. CASE s.kind \in Kind
    <2>1. s.place = t.place
      BY <1>3, <1>5 DEF Kind
    <2>2. s \notin Trees /\ t \notin Trees
      BY <1>2, <1>5, TreeSourceFacts
    <2>3. s \in FlatSources(s.kind) /\ t \in FlatSources(s.kind)
      BY <1>2, <2>2, SourceIsFlat
    <2>4. CASE s.place = 0
      <3>1. /\ s.flat \in maps[s.kind] /\ s = FromMap(s.kind, s.flat)
            /\ t.flat \in maps[s.kind] /\ t = FromMap(s.kind, t.flat)
        <4>1. s.flat \in maps[s.kind] /\ s = FromMap(s.kind, s.flat)
          BY <1>5, <2>3, <2>4, FlatSourceFacts
        <4>2. t.flat \in maps[s.kind] /\ t = FromMap(s.kind, t.flat)
          <5>1. t.place = 0
            BY <2>1, <2>4
          <5>2. \/ t.place = 0 /\ t.flat \in maps[s.kind] /\ t = FromMap(s.kind, t.flat)
                \/ t.place \in 1..Len(lists[s.kind])
            BY <1>5, <2>3, FlatSourceFacts
          <5>3. QED
            BY <5>1, <5>2
        <4>3. QED
          BY <4>1, <4>2
      <3>2. s.flat = t.flat => s = t
        BY <3>1
      <3>3. QED
        BY <1>2, <1>5, <3>1, <3>2
    <2>5. CASE s.place # 0
      <3>1. s = FromList(s.kind, s.place) /\ t = FromList(s.kind, t.place)
        BY <1>5, <2>1, <2>3, <2>5, FlatSourceFacts
      <3>2. QED
        BY <2>1, <3>1
    <2>6. QED
      BY <2>4, <2>5
  <1>6. QED
    BY <1>4, <1>5

-----------------------------------------------------------------------------
(* Steps.                                                                  *)

\* No step changes the sources, what they hold or how they are ranked.
LEMMA SourcesAreConstant ==
    ASSUME input' = input
    PROVE  /\ Trees' = Trees /\ Sources' = Sources
           /\ \A kind : FlatSources(kind)' = FlatSources(kind)
           /\ \A s : TreeOf(s)' = TreeOf(s) /\ Rank(s)' = Rank(s)
  <1>1. /\ complex' = complex /\ files' = files /\ ignore' = ignore
        /\ maps' = maps /\ lists' = lists
    BY DEF input
  <1>2. Trees' = Trees
    BY <1>1 DEF Trees
  <1>3. \A kind : FlatSources(kind)' = FlatSources(kind)
    BY <1>1, Zenon DEF FlatSources, FromList, FromMap
  <1>4. Sources' = Sources
    BY <1>2, <1>3, Zenon DEF Sources
  <1>5. \A s : TreeOf(s)' = TreeOf(s)
    BY <1>1, Zenon DEF TreeOf
  <1>6. \A s : Rank(s)' = Rank(s)
    BY <1>1, Zenon DEF Rank
  <1>7. QED
    BY <1>2, <1>3, <1>4, <1>5, <1>6

\* What has been taken and set says which source has which path.
LEMMA HasNowConstant ==
    ASSUME input' = input, NEW s \in Sources,
           \/ (Taken(s)' <=> Taken(s)) /\ Assigned(s)' = Assigned(s)
           \/ ~Taken(s) /\ Assigned(s)' = {} /\ TreeOf(s) = <<>>
    PROVE  /\ \A p : HasNow(s, p)' <=> HasNow(s, p)
           /\ \A p : HasNow(s, p) => NodeNow(s, p)' = NodeNow(s, p)
  <1>1. TreeOf(s)' = TreeOf(s) /\ s \in Sources' /\ (s \in Trees' <=> s \in Trees)
    BY SourcesAreConstant
  <1>2. CASE (Taken(s)' <=> Taken(s)) /\ Assigned(s)' = Assigned(s)
    BY <1>1, <1>2, Zenon DEF HasNow, NodeNow
  <1>3. CASE ~Taken(s) /\ Assigned(s)' = {} /\ TreeOf(s) = <<>>
    <2>1. DOMAIN TreeOf(s)' = {}
      BY <1>1, <1>3
    <2>2. \A p : ~HasNow(s, p)
      BY <1>3 DEF HasNow
    <2>3. \A p : ~HasNow(s, p)'
      BY <1>3, <2>1 DEF HasNow
    <2>4. QED
      BY <2>2, <2>3
  <1>4. QED
    BY <1>2, <1>3

\* A step that sets nothing keeps the invariant.
LEMMA NothingSet ==
    ASSUME input' = input, values' = values, Merged,
           \A s \in Sources :
               \/ (Taken(s)' <=> Taken(s)) /\ Assigned(s)' = Assigned(s)
               \/ ~Taken(s) /\ Assigned(s)' = {} /\ TreeOf(s) = <<>>,
           \/ from' = from
           \/ from' \in Sources /\ Assigned(from)' = {} /\ TreeOf(from') = <<>>
    PROVE  Merged'
  <1>1. /\ Sources' = Sources
        /\ \A s : Rank(s)' = Rank(s) /\ TreeOf(s)' = TreeOf(s)
    BY SourcesAreConstant
  <1>2. ASSUME NEW s \in Sources
        PROVE  /\ \A p : HasNow(s, p)' <=> HasNow(s, p)
               /\ \A p : HasNow(s, p) => NodeNow(s, p)' = NodeNow(s, p)
    BY HasNowConstant
  <1>3. PathsMerged'
    BY <1>1, <1>2, Zenon DEF Merged, PathsMerged
  <1>4. ASSUME NEW s \in Sources, NEW p, IsTop(s, p)
        PROVE  IsTop(s, p)' /\ NodeNow(s, p)' = NodeNow(s, p)
    BY <1>1, <1>2, <1>4, Zenon DEF IsTop
  <1>5. NodesMerged'
    BY <1>1, <1>4, Zenon DEF Merged, NodesMerged
  <1>6. LastWins'
    <2>1. CASE from' = from
      <3>1. ASSUME from # Complex, NEW p \in DOMAIN values, HasNow(from, p)'
            PROVE  values[p] = NodeNow(from, p)'
        <4>1. from \in Sources
          BY <1>1, <2>1, <3>1 DEF HasNow
        <4>2. HasNow(from, p) /\ NodeNow(from, p)' = NodeNow(from, p)
          BY <1>2, <2>1, <3>1, <4>1
        <4>3. QED
          BY <3>1, <4>2 DEF Merged, LastWins
      <3>2. QED
        BY <2>1, <3>1 DEF LastWins
    <2>2. CASE from' \in Sources /\ Assigned(from)' = {} /\ TreeOf(from') = <<>>
      <3>1. TreeOf(from)' = <<>>
        BY <1>1, <2>2, Zenon
      <3>2. \A p : ~HasNow(from, p)'
        BY <2>2, <3>1 DEF HasNow
      <3>3. QED
        BY <3>2 DEF LastWins
    <2>3. QED
      BY <2>1, <2>2
  <1>7. QED
    BY <1>3, <1>5, <1>6 DEF Merged

\* A source that has a path has all that is above it.
LEMMA HasNowAbove ==
    ASSUME InputOK, NEW s \in Sources, NEW p \in Path, NEW q \in Path,
           IsStrictPrefix(q, p), HasNow(s, p)
    PROVE  HasNow(s, q)
  <1>1. CASE p \in DOMAIN TreeOf(s)
    <2>1. s \in Trees
      <3>1. TreeOf(s) # <<>>
        BY <1>1
      <3>2. QED
        BY <3>1, SourceIsFlat, FlatSourceFacts
    <2>2. IsTree(TreeOf(s))
      BY <2>1, TreeSourceFacts, ContentIsTree
    <2>3. q \in DOMAIN TreeOf(s)
      BY <1>1, <2>2 DEF IsTree
    <2>4. QED
      BY <2>3 DEF HasNow
  <1>2. CASE \E r \in Assigned(s) : IsPrefix(p, r)
    <2>1. PICK r \in Assigned(s) : IsPrefix(p, r)
      BY <1>2
    <2>2. s.flat \in Seq(Path \cup {NoPath})
      <3>1. s.flat \in FlatValue
        <4>1. CASE s \in Trees
          <5>1. <<>> \in FlatValue
            BY DEF FlatValue
          <5>2. QED
            BY <4>1, <5>1, TreeSourceFacts
        <4>2. CASE s \notin Trees
          BY <4>2, SourceIsFlat, FlatSourceFacts
        <4>3. QED
          BY <4>1, <4>2
      <3>2. QED
        BY <3>1 DEF FlatValue
    <2>3. r \in Path \cup {NoPath}
      BY <2>2 DEF Assigned
    <2>4. IsPrefix(q, r)
      BY <2>1, <2>3, PathOrder
    <2>5. QED
      BY <2>1, <2>4 DEF HasNow
  <1>3. QED
    BY <1>1, <1>2 DEF HasNow

\* A value file is below all that has been merged before.
LEMMA MergeFileStep ==
    ASSUME InputOK, StateOK, IsTree(values), Position, Merged, MergeFile
    PROVE  Merged'
  <1>0. PICK f : f = File(next)
    OBVIOUS
  <1> DEFINE tree == files[next].content
             kept == {q \in DOMAIN tree : \A r \in DOMAIN values :
                          IsStrictPrefix(r, q) => values[r] = Map}
  <1>1. next \in 1..FileCount /\ files[next].state = "readable" /\ from = Complex
    BY FileCountAssumption DEF StateOK, MergeFile, Position
  <1>2. /\ input' = input /\ pc = "files" /\ pc' = "files"
        /\ left' = left /\ from' = from /\ at' = at /\ next' = next + 1
    BY DEF MergeFile
  <1>3. /\ f \in Trees /\ f \in Sources /\ f.kind = "file" /\ f.place = next
        /\ TreeOf(f) = tree
    <2>1. f.kind = "file" /\ f.place = next
      BY <1>0 DEF File, Structured
    <2>2. f \in Trees
      BY <1>0, <1>1 DEF Trees
    <2>3. QED
      BY <2>1, <2>2 DEF Sources, TreeOf
  <1>4. IsTree(tree) /\ DOMAIN tree \subseteq Path
    <2>1. tree \in Content(f)
      BY <1>3, TreeSourceFacts
    <2>2. QED
      BY <2>1, ContentIsTree DEF IsTree
  <1>5. /\ DOMAIN values' = DOMAIN values \cup kept
        /\ \A p \in DOMAIN values' :
               values'[p] = IF p \in DOMAIN values THEN values[p] ELSE tree[p]
    BY DEF MergeFile, DeepMerge
  <1>6. /\ Sources' = Sources /\ Trees' = Trees
        /\ \A s : Rank(s)' = Rank(s) /\ TreeOf(s)' = TreeOf(s)
    BY <1>2, SourcesAreConstant
  <1>7. \A s \in Sources : Taken(s)' <=> Taken(s) \/ s = f
    <2> SUFFICES ASSUME NEW s \in Sources PROVE Taken(s)' <=> Taken(s) \/ s = f
      OBVIOUS
    <2>1. CASE s.kind = "file"
      <3>1. s.place \in 1..FileCount /\ s = File(s.place)
        BY <2>1, Ranks
      <3>2. s.place < next + 1 <=> s.place < next \/ s.place = next
        BY <1>1, <3>1, FileCountAssumption
      <3>3. s.place = next <=> s = f
        BY <1>0, <1>3, <3>1
      <3>4. Taken(s) <=> s.place < next
        BY <1>2, <2>1 DEF Taken, Kind
      <3>5. Taken(s)' <=> s.place < next + 1
        BY <1>2, <2>1 DEF Taken, Kind
      <3>6. QED
        BY <3>2, <3>3, <3>4, <3>5
    <2>2. CASE s.kind # "file"
      BY <1>2, <1>3, <2>2, Ranks DEF Taken, Kind
    <2>3. QED
      BY <2>1, <2>2
  <1>8. \A s : Assigned(s)' = Assigned(s)
    BY <1>2 DEF Assigned
  <1>9. \A s \in Sources : \A p \in Path : NodeNow(s, p)' = NodeNow(s, p)
    BY <1>6, <1>8, Zenon DEF NodeNow
  <1>10. \A s \in Sources : \A p \in Path :
             HasNow(s, p)' <=> HasNow(s, p) \/ (s = f /\ p \in DOMAIN tree)
    <2>1. Assigned(f) = {}
      BY <1>3, TreeSourceFacts DEF Assigned
    <2>2. QED
      BY <1>3, <1>6, <1>7, <1>8, <2>1 DEF HasNow
  <1>11. ASSUME NEW s \in Sources, NEW p, HasNow(s, p) PROVE Rank(f) <= Rank(s)
    <2>1. s.kind = "file" \/ s.kind = "complex"
      BY <1>2, <1>11, Ranks DEF HasNow, Taken, Kind
    <2>2. Rank(f) = FileCount - next
      BY <1>3, Ranks
    <2>3. CASE s.kind = "file"
      <3>1. Rank(s) = FileCount - s.place
        BY <2>3, Ranks
      <3>2. s.place < next
        BY <1>2, <1>11, <2>3 DEF HasNow, Taken
      <3>3. s.place \in 1..FileCount
        BY <2>3, Ranks
      <3>4. FileCount - next <= FileCount - s.place
        BY <1>1, <3>2, <3>3, FileCountAssumption
      <3>5. QED
        BY <2>2, <3>1, <3>4, Zenon
    <2>4. CASE s.kind = "complex"
      <3>1. Rank(s) = FileCount
        BY <2>4, Ranks
      <3>2. FileCount - next <= FileCount
        BY <1>1, FileCountAssumption
      <3>3. QED
        BY <2>2, <3>1, <3>2, Zenon
    <2>5. QED
      BY <2>1, <2>3, <2>4
  <1>12. Rank(f) <= Rank(f)
    <2>1. Rank(f) = FileCount - next
      BY <1>3, Ranks
    <2>2. FileCount - next <= FileCount - next
      BY <1>1, FileCountAssumption
    <2>3. QED
      BY <2>1, <2>2, Zenon
  <1> HIDE DEF tree, kept
  <1>13. \A p \in kept : p \notin DOMAIN values => \A s \in Sources : ~HasNow(s, p)
    <2> SUFFICES ASSUME NEW p \in kept, p \notin DOMAIN values, NEW s \in Sources,
                        HasNow(s, p)
                 PROVE  FALSE
      OBVIOUS
    <2>1. p \in Path
      BY <1>4 DEF kept
    <2>2. PICK q \in DOMAIN values : IsStrictPrefix(q, p) /\ values[q] # Map
      BY <2>1 DEF Merged, PathsMerged
    <2>3. QED
      BY <2>2 DEF kept
  <1>14. PathsMerged'
    <2> SUFFICES ASSUME NEW p \in Path
                 PROVE  p \in DOMAIN values' <=>
                            /\ \E s \in Sources : HasNow(s, p)'
                            /\ \A q \in DOMAIN values' :
                                   IsStrictPrefix(q, p) => values'[q] = Map
      BY <1>6 DEF PathsMerged
    <2>1. ASSUME p \in DOMAIN values, NEW q \in DOMAIN values', IsStrictPrefix(q, p)
          PROVE  values'[q] = Map
      <3>1. q \in DOMAIN values /\ values[q] = Map
        <4>1. q \in Path
          BY <1>4, <1>5 DEF IsTree, kept
        <4>2. QED
          BY <2>1, <4>1 DEF IsTree
      <3>2. QED
        BY <1>5, <3>1
    <2>2. ASSUME p \in kept, NEW q \in DOMAIN values', IsStrictPrefix(q, p)
          PROVE  values'[q] = Map
      <3>1. CASE q \in DOMAIN values
        BY <1>5, <2>2, <3>1 DEF kept
      <3>2. CASE q \in kept /\ q \notin DOMAIN values
        <4>1. tree[q] = Map
          BY <1>4, <2>2, <3>2 DEF IsTree, kept
        <4>2. QED
          BY <1>5, <3>2, <4>1
      <3>3. QED
        BY <1>5, <3>1, <3>2
    <2>3. ASSUME p \in DOMAIN values' PROVE \E s \in Sources : HasNow(s, p)'
      <3>1. CASE p \in DOMAIN values
        <4>1. PICK s \in Sources : HasNow(s, p)
          BY <3>1 DEF Merged, PathsMerged
        <4>2. QED
          BY <1>10, <4>1
      <3>2. CASE p \in kept
        BY <1>3, <1>10, <3>2 DEF kept
      <3>3. QED
        BY <1>5, <2>3, <3>1, <3>2
    <2>4. ASSUME NEW s \in Sources, HasNow(s, p)',
                 \A q \in DOMAIN values' : IsStrictPrefix(q, p) => values'[q] = Map
          PROVE  p \in DOMAIN values'
      <3>1. \A q \in DOMAIN values : IsStrictPrefix(q, p) => values[q] = Map
        BY <1>5, <2>4
      <3>2. CASE HasNow(s, p)
        <4>1. p \in DOMAIN values
          BY <3>1, <3>2 DEF Merged, PathsMerged
        <4>2. QED
          BY <1>5, <4>1
      <3>3. CASE p \in DOMAIN tree
        <4>1. p \in kept
          BY <3>1, <3>3 DEF kept
        <4>2. QED
          BY <1>5, <4>1
      <3>4. QED
        BY <1>10, <2>4, <3>2, <3>3
    <2>5. QED
      BY <1>5, <2>1, <2>2, <2>3, <2>4
  <1>15. NodesMerged'
    <2> SUFFICES ASSUME NEW p \in DOMAIN values'
                 PROVE  \E s \in Sources : IsTop(s, p)' /\ values'[p] = NodeNow(s, p)'
      BY <1>6 DEF NodesMerged
    <2>0. p \in Path
      BY <1>4, <1>5 DEF IsTree, kept
    <2>1. CASE p \in DOMAIN values
      <3>1. PICK s \in Sources : IsTop(s, p) /\ values[p] = NodeNow(s, p)
        BY <2>1 DEF Merged, NodesMerged
      <3>2. HasNow(s, p)
        BY <3>1 DEF IsTop
      <3>3. \A t \in Sources : HasNow(t, p)' => Rank(t) <= Rank(s)
        BY <1>10, <1>11, <2>0, <3>1, <3>2 DEF IsTop
      <3>4. IsTop(s, p)'
        BY <1>6, <1>10, <2>0, <3>2, <3>3 DEF IsTop
      <3>5. values'[p] = NodeNow(s, p)'
        BY <1>5, <1>9, <2>0, <2>1, <3>1
      <3>6. QED
        BY <3>4, <3>5
    <2>2. CASE p \notin DOMAIN values
      <3>1. p \in kept
        BY <1>5, <2>2
      <3>2. \A t \in Sources : HasNow(t, p)' => t = f
        BY <1>10, <1>13, <2>0, <2>2, <3>1
      <3>3. HasNow(f, p)'
        BY <1>3, <1>10, <2>0, <3>1 DEF kept
      <3>4. IsTop(f, p)'
        BY <1>6, <1>12, <3>2, <3>3 DEF IsTop
      <3>5. NodeNow(f, p) = tree[p]
        BY <1>3 DEF NodeNow
      <3>6. values'[p] = NodeNow(f, p)'
        BY <1>3, <1>5, <1>9, <2>0, <2>2, <3>5
      <3>7. QED
        BY <1>3, <3>4, <3>6
    <2>3. QED
      BY <2>1, <2>2
  <1>16. LastWins'
    BY <1>1, <1>2 DEF LastWins, Complex
  <1>17. QED
    BY <1>14, <1>15, <1>16 DEF Merged

\* While strvals parses a flat value, nothing above it has been taken.
LEMMA TakenBelow ==
    ASSUME InputOK, StateOK, Position, pc \in Kind, ~Parsed
    PROVE  /\ from \in Sources /\ from \notin Trees /\ from.kind = pc /\ Taken(from)
           /\ \A s \in Sources : Taken(s) => Rank(s) <= Rank(from)
  <1> DEFINE n == Len(lists["values"])
             m == Len(lists["stringValues"])
  <1>1. n \in Nat /\ m \in Nat
    BY FlatTypes DEF Kind
  <1>2. from # Complex \/ at # 1
    BY DEF Parsed, Complex, Structured
  <1>3. from \in FlatSources("values") \cup FlatSources("stringValues")
    BY <1>2 DEF Position
  <1>4. from.kind = pc /\ Taken(from)
    BY DEF Position
  <1>5. from \in Sources /\ from \notin Trees
    BY <1>3, FlatSourceFacts DEF Sources, Kind
  <1>6. ASSUME NEW s \in Sources, Taken(s) PROVE Rank(s) <= Rank(from)
    <2> HIDE DEF n, m
    <2>1. CASE s.kind = pc
      <3>1. s.place <= from.place
        <4>1. s.place \in Nat /\ from.place \in Nat
          <5>1. \A t \in Sources : t.kind \in Kind => t.place \in Nat
            <6> SUFFICES ASSUME NEW t \in Sources, t.kind \in Kind PROVE t.place \in Nat
              OBVIOUS
            <6>1. t.place \in 0..n \/ t.place \in 0..m
              BY Ranks DEF Kind, n, m
            <6>2. QED
              BY <1>1, <6>1
          <5>2. QED
            BY <1>4, <1>5, <2>1, <5>1
        <4>2. CASE from.place = 0
          BY <1>4, <1>6, <2>1, <4>1, <4>2 DEF Position, Taken
        <4>3. CASE from.place # 0
          BY <1>4, <1>6, <2>1, <4>1, <4>3 DEF Position, Taken, StateOK
        <4>4. QED
          BY <4>2, <4>3
      <3>2. CASE pc = "values"
        <4>1. Rank(s) = FileCount + 1 + s.place /\ Rank(from) = FileCount + 1 + from.place
          BY <1>4, <1>5, <2>1, <3>2, Ranks
        <4>2. s.place \in 0..n /\ from.place \in 0..n
          BY <1>4, <1>5, <2>1, <3>2, Ranks DEF n
        <4>3. FileCount + 1 + s.place <= FileCount + 1 + from.place
          BY <1>1, <3>1, <4>2, FileCountAssumption
        <4>4. QED
          BY <4>1, <4>3, Zenon
      <3>3. CASE pc = "stringValues"
        <4>1. /\ Rank(s) = FileCount + 2 + n + s.place
              /\ Rank(from) = FileCount + 2 + n + from.place
          BY <1>4, <1>5, <2>1, <3>3, Ranks DEF n
        <4>2. s.place \in 0..m /\ from.place \in 0..m
          BY <1>4, <1>5, <2>1, <3>3, Ranks DEF m
        <4>3. FileCount + 2 + n + s.place <= FileCount + 2 + n + from.place
          BY <1>1, <3>1, <4>2, FileCountAssumption
        <4>4. QED
          BY <4>1, <4>3, Zenon
      <3>4. QED
        BY <3>2, <3>3 DEF Kind
    <2>2. CASE s.kind # pc
      <3>1. Rank(s) \in Nat /\ Rank(from) \in Nat
        BY <1>5, Ranks
      <3>2. CASE pc = "values"
        <4>1. s.kind \in {"file", "complex"}
          BY <1>6, <2>2, <3>2, Ranks DEF Taken, Kind
        <4>2. /\ s.kind = "file" => Rank(s) < FileCount
              /\ s.kind = "complex" => Rank(s) = FileCount
          BY RankBounds
        <4>3. FileCount < Rank(from)
          BY <1>4, <1>5, <3>2, RankBounds
        <4>4. QED
          BY <3>1, <4>1, <4>2, <4>3, FileCountAssumption
      <3>3. CASE pc = "stringValues"
        <4>1. s.kind \in {"file", "complex", "values"}
          BY <2>2, <3>3, Ranks
        <4>2. Rank(s) < FileCount + 2 + n
          <5>1. /\ s.kind = "file" => Rank(s) < FileCount
                /\ s.kind = "complex" => Rank(s) = FileCount
                /\ s.kind = "values" => Rank(s) < FileCount + 2 + n
            BY RankBounds DEF n
          <5>2. QED
            BY <1>1, <3>1, <4>1, <5>1, FileCountAssumption
        <4>3. FileCount + 2 + n <= Rank(from)
          BY <1>4, <1>5, <3>3, RankBounds DEF n
        <4>4. FileCount + 2 + n \in Nat
          BY <1>1, FileCountAssumption
        <4>5. QED
          BY <3>1, <4>2, <4>3, <4>4
      <3>4. QED
        BY <3>2, <3>3 DEF Kind
    <2>3. QED
      BY <2>1, <2>2
  <1>7. QED
    BY <1>4, <1>5, <1>6

\* What strvals sets is above all that has been merged before.
LEMMA AssignStep ==
    ASSUME InputOK, StateOK, IsTree(values), Position, Merged, Assign
    PROVE  Merged'
  <1>0. PICK u : u = from
    OBVIOUS
  <1>1. PICK path : path = from.flat[at]
    OBVIOUS
  <1> DEFINE kept == {q \in DOMAIN values : ~IsStrictPrefix(path, q)}
             made == {q \in Path : IsPrefix(q, path)}
  <1>2. /\ path \in Path /\ at \in DOMAIN from.flat /\ CanSet(values, path)
        /\ from.flat \in Seq(Path \cup {NoPath})
    BY <1>1, AssignmentType DEF Assign, StateOK, FlatValue
  <1>3. /\ input' = input /\ pc \in Kind /\ pc' = pc /\ ~Parsed
        /\ left' = left /\ next' = next /\ from' = from /\ at' = at + 1
    BY DEF Assign
  <1>4. /\ u \in Sources /\ u \notin Trees /\ u.kind = pc /\ Taken(u)
        /\ \A s \in Sources : Taken(s) => Rank(s) <= Rank(u)
    BY <1>0, <1>3, TakenBelow
  <1>5. u # Map /\ u # Complex
    BY <1>3, <1>4 DEF Map, Complex, Structured, Kind
  <1>6. /\ DOMAIN values' = kept \cup made
        /\ \A p \in DOMAIN values' :
               values'[p] = IF p = path THEN u
                            ELSE IF IsPrefix(p, path) THEN Map ELSE values[p]
    BY <1>0, <1>1 DEF Assign, Set
  <1>7. /\ Sources' = Sources /\ Trees' = Trees
        /\ \A s : Rank(s)' = Rank(s) /\ TreeOf(s)' = TreeOf(s)
    BY <1>3, SourcesAreConstant
  <1>8. \A s : Taken(s)' <=> Taken(s)
    BY <1>3 DEF Taken
  <1>9. /\ \A s : s # u => Assigned(s)' = Assigned(s)
        /\ Assigned(u)' = Assigned(u) \cup {path}
    <2>1. ASSUME NEW s, s # u PROVE Assigned(s)' = Assigned(s)
      BY <1>0, <1>3, <2>1 DEF Assigned
    <2>2. \A j \in DOMAIN u.flat : j < at + 1 <=> j < at \/ j = at
      BY <1>0, <1>2 DEF StateOK
    <2>3. Assigned(u)' = {u.flat[i] : i \in {j \in DOMAIN u.flat : j < at + 1}}
      BY <1>0, <1>3 DEF Assigned
    <2>4. Assigned(u) = {u.flat[i] : i \in {j \in DOMAIN u.flat : j < at}}
      BY <1>0 DEF Assigned
    <2>5. QED
      BY <1>0, <1>1, <1>2, <2>1, <2>2, <2>3, <2>4
  <1>10. \A s \in Sources : \A p :
             HasNow(s, p)' <=> HasNow(s, p) \/ (s = u /\ IsPrefix(p, path))
    BY <1>4, <1>7, <1>8, <1>9 DEF HasNow
  <1>11. /\ \A s \in Sources : \A p :
                s # u \/ p # path => NodeNow(s, p)' = NodeNow(s, p)
         /\ NodeNow(u, path)' = u
    BY <1>4, <1>7, <1>9 DEF NodeNow
  <1> HIDE DEF kept, made
  <1>12. ASSUME NEW p \in Path, IsStrictPrefix(p, path) PROVE NodeNow(u, p) = Map
    <2>1. p \notin Assigned(u)
      <3> SUFFICES ASSUME p \in Assigned(u) PROVE FALSE
        OBVIOUS
      <3>1. HasNow(u, p)
        BY <1>4, PathOrder DEF HasNow
      <3>2. CASE p \in DOMAIN values
        <4>1. values[p] = NodeNow(u, p)
          BY <1>0, <1>5, <3>1, <3>2 DEF Merged, LastWins
        <4>2. values[p] = u
          BY <1>4, <4>1 DEF NodeNow
        <4>3. QED
          BY <1>2, <1>5, <1>12, <3>2, <4>2 DEF CanSet
      <3>3. CASE p \notin DOMAIN values
        <4>1. PICK q \in DOMAIN values : IsStrictPrefix(q, p) /\ values[q] # Map
          BY <1>4, <3>1, <3>3 DEF Merged, PathsMerged
        <4>2. IsStrictPrefix(q, path)
          BY <1>2, <1>12, <4>1, PathOrder DEF IsTree
        <4>3. QED
          BY <1>2, <4>1, <4>2 DEF CanSet
      <3>4. QED
        BY <3>2, <3>3
    <2>2. QED
      BY <1>4, <2>1 DEF NodeNow
  <1>13. \A p \in made : values'[p] = NodeNow(u, p)'
    <2> SUFFICES ASSUME NEW p \in made PROVE values'[p] = NodeNow(u, p)'
      OBVIOUS
    <2>1. p \in Path /\ IsPrefix(p, path) /\ p \in DOMAIN values'
      BY <1>6 DEF made
    <2>2. CASE p = path
      BY <1>6, <1>11, <2>1, <2>2
    <2>3. CASE p # path
      <3>1. NodeNow(u, p)' = Map
        BY <1>4, <1>11, <1>12, <2>1, <2>3 DEF IsStrictPrefix
      <3>2. QED
        BY <1>6, <2>1, <2>3, <3>1
    <2>4. QED
      BY <2>2, <2>3
  <1>14. \A p \in DOMAIN values' :
             p \notin made => /\ p \in kept /\ ~IsPrefix(p, path) /\ p # path
                              /\ p \in DOMAIN values /\ values'[p] = values[p]
    <2> SUFFICES ASSUME NEW p \in DOMAIN values', p \notin made
                 PROVE  /\ p \in kept /\ ~IsPrefix(p, path) /\ p # path
                        /\ p \in DOMAIN values /\ values'[p] = values[p]
      OBVIOUS
    <2>1. p \in kept /\ p \in DOMAIN values /\ p \in Path
      BY <1>6 DEF kept, IsTree
    <2>2. ~IsPrefix(p, path) /\ p # path
      BY <1>2, <2>1, PathOrder DEF made
    <2>3. QED
      BY <1>6, <2>1, <2>2
  <1>15. PathsMerged'
    <2> SUFFICES ASSUME NEW p \in Path
                 PROVE  p \in DOMAIN values' <=>
                            /\ \E s \in Sources : HasNow(s, p)'
                            /\ \A q \in DOMAIN values' :
                                   IsStrictPrefix(q, p) => values'[q] = Map
      BY <1>7 DEF PathsMerged
    <2>1. ASSUME p \in DOMAIN values'
          PROVE  \E s \in Sources : HasNow(s, p)'
      <3>1. CASE p \in made
        BY <1>4, <1>10, <3>1 DEF made
      <3>2. CASE p \notin made
        <4>1. PICK s \in Sources : HasNow(s, p)
          BY <1>14, <2>1, <3>2 DEF Merged, PathsMerged
        <4>2. QED
          BY <1>10, <4>1
      <3>3. QED
        BY <3>1, <3>2
    <2>2. ASSUME p \in DOMAIN values', NEW q \in DOMAIN values', IsStrictPrefix(q, p)
          PROVE  values'[q] = Map
      <3>0. q \in Path
        BY <1>6 DEF kept, made, IsTree
      <3>1. CASE p \in made
        <4>1. IsStrictPrefix(q, path)
          BY <1>2, <2>2, <3>0, <3>1, PathOrder DEF made
        <4>2. QED
          BY <1>6, <4>1 DEF IsStrictPrefix
      <3>2. CASE p \notin made
        <4>1. p \in kept /\ p \in DOMAIN values
          BY <1>14, <2>2, <3>2
        <4>2. q # path
          BY <2>2, <4>1 DEF kept
        <4>3. values[q] = Map
          BY <2>2, <3>0, <4>1 DEF IsTree
        <4>4. QED
          BY <1>6, <4>2, <4>3
      <3>3. QED
        BY <3>1, <3>2
    <2>3. ASSUME NEW s \in Sources, HasNow(s, p)',
                 \A q \in DOMAIN values' : IsStrictPrefix(q, p) => values'[q] = Map
          PROVE  p \in DOMAIN values'
      <3> SUFFICES ASSUME p \notin DOMAIN values' PROVE FALSE
        OBVIOUS
      <3>1. ~IsPrefix(p, path) /\ HasNow(s, p)
        BY <1>6, <1>10, <2>3 DEF made
      <3>2. ~IsStrictPrefix(path, p)
        <4>1. path \in DOMAIN values' /\ values'[path] = u
          BY <1>2, <1>6, PathOrder DEF made
        <4>2. QED
          BY <1>5, <2>3, <4>1
      <3>3. p \notin DOMAIN values
        BY <1>6, <3>2 DEF kept
      <3>4. PICK q \in DOMAIN values : IsStrictPrefix(q, p) /\ values[q] # Map
        BY <3>1, <3>3 DEF Merged, PathsMerged
      <3>5. q \in Path
        BY DEF IsTree
      <3>6. ~IsStrictPrefix(path, q) /\ q # path
        <4>1. IsPrefix(path, q) => IsStrictPrefix(path, p)
          BY <1>2, <3>4, <3>5, PathOrder
        <4>2. QED
          BY <1>2, <3>2, <3>5, <4>1, PathOrder
      <3>7. q \in DOMAIN values' /\ values'[q] = Map
        BY <1>6, <2>3, <3>4, <3>6 DEF kept
      <3>8. IsPrefix(q, path)
        BY <1>6, <3>4, <3>6, <3>7
      <3>9. IsStrictPrefix(q, path)
        BY <3>6, <3>8 DEF IsStrictPrefix
      <3>10. QED
        BY <1>2, <3>4, <3>9 DEF CanSet
    <2>4. QED
      BY <2>1, <2>2, <2>3
  <1>16. NodesMerged'
    <2> SUFFICES ASSUME NEW p \in DOMAIN values'
                 PROVE  \E s \in Sources : IsTop(s, p)' /\ values'[p] = NodeNow(s, p)'
      BY <1>7 DEF NodesMerged
    <2>1. CASE p \in made
      <3>1. HasNow(u, p)'
        BY <1>4, <1>10, <2>1 DEF made
      <3>2. \A t \in Sources : HasNow(t, p)' => Rank(t) <= Rank(u)
        BY <1>4, <1>8 DEF HasNow
      <3>3. IsTop(u, p)'
        BY <1>7, <3>1, <3>2 DEF IsTop
      <3>4. QED
        BY <1>4, <1>13, <2>1, <3>3
    <2>2. CASE p \notin made
      <3>1. p \in DOMAIN values /\ ~IsPrefix(p, path) /\ p # path /\ values'[p] = values[p]
        BY <1>14, <2>2
      <3>2. PICK s \in Sources : IsTop(s, p) /\ values[p] = NodeNow(s, p)
        BY <3>1 DEF Merged, NodesMerged
      <3>3. IsTop(s, p)'
        BY <1>7, <1>10, <3>1, <3>2 DEF IsTop
      <3>4. NodeNow(s, p)' = NodeNow(s, p)
        BY <1>11, <3>1
      <3>5. QED
        BY <3>1, <3>2, <3>3, <3>4
    <2>3. QED
      BY <2>1, <2>2
  <1>17. LastWins'
    <2> SUFFICES ASSUME NEW p \in DOMAIN values', HasNow(u, p)'
                 PROVE  values'[p] = NodeNow(u, p)'
      BY <1>0, <1>3, Zenon DEF LastWins
    <2>1. CASE p \in made
      BY <1>13, <2>1
    <2>2. CASE p \notin made
      <3>1. p \in DOMAIN values /\ ~IsPrefix(p, path) /\ p # path /\ values'[p] = values[p]
        BY <1>14, <2>2
      <3>2. HasNow(u, p)
        BY <1>4, <1>10, <3>1
      <3>3. values[p] = NodeNow(u, p)
        BY <1>0, <1>5, <3>1, <3>2 DEF Merged, LastWins
      <3>4. QED
        BY <1>4, <1>11, <3>1, <3>3
    <2>3. QED
      BY <2>1, <2>2
  <1>18. QED
    BY <1>15, <1>16, <1>17 DEF Merged

\* Of the trees, those that have been merged are ranked, one by one.
LEMMA HighestTree ==
    ASSUME InputOK, StateOK, pc # "files", NEW p \in Path, NEW s \in Trees, IsTop(s, p)
    PROVE  Highest(Having(p) \cap Trees) = s
  <1> DEFINE S == Having(p) \cap Trees
  <1>1. s \in Sources /\ Trees \subseteq Sources
    BY DEF Sources
  <1>2. \A t \in Trees : t.kind \notin Kind /\ ToSet(t.flat) = {} /\ Assigned(t) = {}
    <2> SUFFICES ASSUME NEW t \in Trees
                 PROVE  t.kind \notin Kind /\ ToSet(t.flat) = {} /\ Assigned(t) = {}
      OBVIOUS
    <2>1. t.flat = <<>> /\ t.kind \notin Kind
      BY TreeSourceFacts
    <2>2. QED
      BY <2>1 DEF ToSet, Assigned
  <1>3. \A t \in Trees : t \in S <=> HasNow(t, p)
    <2> SUFFICES ASSUME NEW t \in Trees PROVE t \in S <=> HasNow(t, p)
      OBVIOUS
    <2>1. Taken(t)
      <3>1. t.kind = "file" \/ t.kind = "complex"
        BY <1>2, <1>1, Ranks DEF Kind
      <3>2. t.kind = pc => FALSE
        BY <3>1 DEF StateOK
      <3>3. QED
        BY <1>2, <3>1, <3>2 DEF Taken, Kind
    <2>2. QED
      BY <1>1, <1>2, <2>1 DEF HasNow, Having
  <1>4. s \in S /\ \A t \in S : Rank(t) <= Rank(s)
    BY <1>1, <1>3, Zenon DEF IsTop
  <1>5. PICK h : h = Highest(S)
    OBVIOUS
  <1>6. h \in S /\ \A t \in S : Rank(t) <= Rank(h)
    BY <1>4, <1>5, Zenon DEF Highest
  <1>7. Rank(h) <= Rank(s) /\ Rank(s) <= Rank(h)
    BY <1>4, <1>6, Zenon
  <1>8. Rank(h) \in Nat /\ Rank(s) \in Nat
    BY <1>1, <1>6, Ranks
  <1>9. Rank(h) = Rank(s)
    BY <1>7, <1>8
  <1>10. h = s
    BY <1>1, <1>2, <1>6, <1>9, SameRank
  <1>11. QED
    BY <1>5, <1>10

\* What a flat value cannot set has a reason in the parameters.
LEMMA AssignmentFails ==
    ASSUME InputOK, StateOK, IsTree(values), Position, Merged, FailToAssign
    PROVE  \E kind \in Kind : \E s \in FlatSources(kind) :
               \E p \in ToSet(s.flat) : p = NoPath \/ BelowLeaf(p)
  <1>1. PICK path : path = from.flat[at]
    OBVIOUS
  <1>2. /\ pc \in Kind /\ ~Parsed
        /\ path = NoPath \/ ~CanSet(values, path)
    BY <1>1 DEF FailToAssign
  <1>3. from \in FlatSources(pc)
    BY <1>2, TakenBelow, SourceIsFlat
  <1>4. path \in ToSet(from.flat) /\ path \in Path \cup {NoPath}
    BY <1>1, <1>2, AssignmentType DEF ToSet
  <1>5. ASSUME path # NoPath PROVE BelowLeaf(path)
    <2>1. PICK p \in DOMAIN values : IsStrictPrefix(p, path) /\ values[p] # Map
      BY <1>2, <1>5 DEF CanSet
    <2>2. p \in Path
      BY DEF IsTree
    <2>3. PICK s \in Sources : IsTop(s, p) /\ values[p] = NodeNow(s, p)
      BY <2>1 DEF Merged, NodesMerged
    <2>4. CASE s \in Trees
      <3>1. Highest(Having(p) \cap Trees) = s
        BY <1>2, <2>2, <2>3, <2>4, HighestTree DEF Kind
      <3>2. s \in Having(p) \cap Trees
        <4>1. s.flat = <<>>
          BY <2>4, TreeSourceFacts
        <4>2. Assigned(s) = {}
          BY <4>1 DEF Assigned
        <4>3. p \in DOMAIN TreeOf(s)
          BY <2>3, <4>2 DEF IsTop, HasNow
        <4>4. QED
          BY <2>4, <4>3 DEF Having
      <3>3. NodeOf(s, p) # Map
        BY <2>1, <2>3, <2>4 DEF NodeNow, NodeOf
      <3>4. QED
        BY <2>1, <2>2, <3>1, <3>2, <3>3 DEF BelowLeaf
    <2>5. CASE s \notin Trees
      <3>1. s.kind \in Kind /\ s \in FlatSources(s.kind)
        BY <2>5, SourceIsFlat
      <3>2. p \in ToSet(s.flat)
        BY <2>1, <2>3, <2>5 DEF NodeNow, Assigned, ToSet
      <3>3. QED
        BY <2>1, <2>2, <3>1, <3>2 DEF BelowLeaf
    <2>6. QED
      BY <2>4, <2>5
  <1>6. QED
    BY <1>2, <1>3, <1>4, <1>5

\* Why a call may fail; it is the parameters' doing.
Reason ==
    \/ \E i \in 1..FileCount :
           \/ files[i].state = "broken"
           \/ files[i].state = "missing" /\ ~ignore
    \/ \E kind \in Kind : \E s \in FlatSources(kind) :
           \E p \in ToSet(s.flat) : p = NoPath \/ BelowLeaf(p)

\* No step changes whether there is a reason to fail.
LEMMA ReasonIsConstant == input' = input => (Reason' <=> Reason)
  <1> SUFFICES ASSUME input' = input PROVE Reason' <=> Reason
    OBVIOUS
  <1>1. files' = files /\ ignore' = ignore
    BY DEF input
  <1>2. /\ Trees' = Trees /\ Sources' = Sources
        /\ \A kind : FlatSources(kind)' = FlatSources(kind)
        /\ \A s : TreeOf(s)' = TreeOf(s) /\ Rank(s)' = Rank(s)
    BY SourcesAreConstant
  <1>3. \A p : Having(p)' = Having(p)
    BY <1>2 DEF Having
  <1>4. \A S : Highest(S)' = Highest(S)
    BY <1>2, Zenon DEF Highest
  <1>5. \A s, p : NodeOf(s, p)' = NodeOf(s, p)
    BY <1>2, Zenon DEF NodeOf
  <1>6. \A p : NodeOf(Highest(Having(p) \cap Trees), p)' = NodeOf(Highest(Having(p) \cap Trees), p)
    BY <1>2, <1>3, <1>4, <1>5, Zenon
  <1>7. \A p : BelowLeaf(p)' <=> BelowLeaf(p)
    BY <1>2, <1>3, <1>6, Zenon DEF BelowLeaf
  <1>8. QED
    BY <1>1, <1>2, <1>7, Zenon DEF Reason

\* At the start there are complex values, and no other source has been taken.
LEMMA InitInv == Init /\ TypeOK => CallInv
  <1> SUFFICES ASSUME Init, TypeOK PROVE CallInv
    OBVIOUS
  <1>1. /\ pc = "files" /\ next = 1 /\ left = {} /\ from = Complex /\ at = 1
        /\ values = DeepMerge(complex, <<>>)
    BY DEF Init
  <1>2. InputOK /\ IsTree(complex)
    <2>1. InputOK
      BY TypeParts
    <2>2. QED
      BY <2>1, ContentIsTree DEF InputOK
  <1>3. DOMAIN values = DOMAIN complex /\ \A p \in DOMAIN values : values[p] = complex[p]
    BY <1>1 DEF DeepMerge
  <1>4. /\ Complex \in Sources /\ Complex \in Trees /\ TreeOf(Complex) = complex
        /\ Complex.kind = "complex" /\ Complex.flat = <<>>
    BY DEF Sources, Trees, TreeOf, Complex, Structured
  <1>5. \A s \in Sources : Taken(s) <=> s = Complex
    <2> SUFFICES ASSUME NEW s \in Sources PROVE Taken(s) <=> s = Complex
      OBVIOUS
    <2>1. CASE s.kind = "file"
      <3>1. s.place \in 1..FileCount
        BY <1>2, <2>1, Ranks
      <3>2. ~(s.place < 1)
        BY <3>1, FileCountAssumption
      <3>3. QED
        BY <1>1, <1>4, <2>1, <3>2 DEF Taken
    <2>2. CASE s.kind = "complex"
      <3>1. s = Complex
        BY <1>2, <2>2, Ranks
      <3>2. QED
        BY <1>1, <2>2, <3>1 DEF Taken, Kind
    <2>3. CASE s.kind \in Kind
      BY <1>1, <1>4, <2>3 DEF Taken, Kind
    <2>4. QED
      BY <1>2, <2>1, <2>2, <2>3, Ranks DEF Kind
  <1>6. Assigned(Complex) = {}
    BY <1>4 DEF Assigned
  <1>7. \A s \in Sources : \A p : HasNow(s, p) <=> s = Complex /\ p \in DOMAIN complex
    BY <1>4, <1>5, <1>6 DEF HasNow
  <1>8. Position
    BY <1>1 DEF Position, Kind
  <1>9. PathsMerged
    BY <1>2, <1>3, <1>4, <1>7 DEF PathsMerged, IsTree
  <1>10. NodesMerged
    <2>1. Rank(Complex) <= Rank(Complex)
      <3>1. Rank(Complex) \in Nat
        BY <1>2, <1>4, Ranks
      <3>2. QED
        BY <3>1
    <2>2. \A p \in DOMAIN values : IsTop(Complex, p)
      BY <1>3, <1>4, <1>7, <2>1 DEF IsTop
    <2>3. \A p \in DOMAIN values : values[p] = NodeNow(Complex, p)
      BY <1>3, <1>4 DEF NodeNow
    <2>4. QED
      BY <1>4, <2>2, <2>3 DEF NodesMerged
  <1>11. LastWins
    BY <1>1 DEF LastWins
  <1>12. FailsForAReason
    BY <1>1 DEF FailsForAReason
  <1>13. QED
    BY <1>8, <1>9, <1>10, <1>11, <1>12 DEF CallInv, Merged

\* Once a flat value has been parsed, all sources that have been taken have set
\* all they set.
LEMMA AllAssigned ==
    ASSUME StateOK, Parsed, NEW s
    PROVE  Assigned(s) = {s.flat[i] : i \in DOMAIN s.flat}
  <1>1. CASE s = from
    <2>1. from.flat \in Seq(Path \cup {NoPath})
      BY DEF StateOK, FlatValue
    <2>2. \A j \in DOMAIN from.flat : j < at
      BY <2>1 DEF StateOK, Parsed
    <2>3. QED
      BY <1>1, <2>2 DEF Assigned
  <1>2. CASE s # from
    BY <1>2 DEF Assigned
  <1>3. QED
    BY <1>1, <1>2

\* A file that is skipped is no source, so that nothing changes.
LEMMA SkipFileStep ==
    ASSUME InputOK, StateOK, Position, Merged, SkipFile
    PROVE  Merged'
  <1>1. /\ input' = input /\ pc = "files" /\ pc' = pc /\ left' = left /\ values' = values
        /\ from' = from /\ at' = at /\ next' = next + 1 /\ next \in Nat
        /\ files[next].state = "missing"
    BY DEF SkipFile, StateOK
  <1>2. ASSUME NEW s \in Sources PROVE Taken(s)' <=> Taken(s)
    <2>1. CASE s.kind = "file"
      <3>1. s.place \in 1..FileCount
        BY <2>1, Ranks
      <3>2. files[s.place].state = "readable"
        <4>1. PICK i \in 1..FileCount : files[i].state = "readable" /\ s = File(i)
          <5>1. s \in Trees
            BY <2>1, SourceIsFlat DEF Kind
          <5>2. s # Complex
            BY <2>1 DEF Complex, Structured
          <5>3. QED
            BY <5>1, <5>2, Zenon DEF Trees
        <4>2. s.place = i
          BY <4>1 DEF File, Structured
        <4>3. QED
          BY <4>1, <4>2
      <3>3. s.place # next
        BY <1>1, <3>2
      <3>4. s.place < next + 1 <=> s.place < next
        BY <1>1, <3>1, <3>3, FileCountAssumption
      <3>5. QED
        BY <1>1, <2>1, <3>4 DEF Taken, Kind
    <2>2. CASE s.kind # "file"
      BY <1>1, <2>2, Ranks DEF Taken, Kind
    <2>3. QED
      BY <2>1, <2>2
  <1>3. \A s : Assigned(s)' = Assigned(s)
    BY <1>1 DEF Assigned
  <1>4. QED
    BY <1>1, <1>2, <1>3, NothingSet

\* When a loop over flat values begins, none of its sources has been taken.
LEMMA NoneTaken ==
    ASSUME InputOK, NEW kind \in Kind, Begin(kind), input' = input,
           NEW s \in FlatSources(kind)
    PROVE  ~Taken(s)'
  <1>1. pc' = kind /\ next' = 1 /\ left' = maps[kind]
    BY DEF Begin
  <1>2. s.kind = kind
    BY FlatSourceFacts
  <1>3. CASE s.place = 0
    <2>1. Len(lists[kind]) \in Nat
      BY FlatTypes
    <2>2. ~(s.place \in 1..Len(lists[kind]))
      BY <1>3, <2>1
    <2>3. s.flat \in maps[kind]
      BY <2>2, FlatSourceFacts
    <2>4. QED
      BY <1>1, <1>2, <1>3, <2>3 DEF Taken
  <1>4. CASE s.place # 0
    <2>1. s.place \in 1..Len(lists[kind]) /\ Len(lists[kind]) \in Nat
      BY <1>4, FlatSourceFacts, FlatTypes
    <2>2. ~(s.place < 1)
      BY <2>1
    <2>3. QED
      BY <1>1, <1>2, <1>4, <2>2 DEF Taken
  <1>5. QED
    BY <1>3, <1>4

\* After the files, the loop over the first flat values begins with none taken.
LEMMA EndFilesStep ==
    ASSUME InputOK, StateOK, Position, Merged, EndFiles
    PROVE  Position' /\ Merged'
  <1>1. /\ input' = input /\ pc = "files" /\ next > FileCount /\ Begin("values")
        /\ pc' = "values" /\ next' = 1 /\ left' = maps["values"]
        /\ values' = values /\ from' = from /\ at' = at /\ from = Complex
    BY DEF EndFiles, Begin, Position
  <1>2. Parsed /\ at = 1
    <2>1. Complex \notin FlatSources("values") \cup FlatSources("stringValues")
      BY FlatSourceFacts DEF Kind
    <2>2. at = 1
      BY <1>1, <2>1 DEF Position
    <2>3. QED
      BY <1>1, <2>2 DEF Parsed, Complex, Structured
  <1>3. ASSUME NEW s \in Sources PROVE Taken(s)' <=> Taken(s)
    <2>1. CASE s.kind = "file"
      <3>1. s.place \in 1..FileCount
        BY <2>1, Ranks
      <3>2. s.place < next
        BY <1>1, <3>1, FileCountAssumption DEF StateOK
      <3>3. QED
        BY <1>1, <2>1, <3>2 DEF Taken, Kind
    <2>2. CASE s.kind = "complex"
      BY <1>1, <2>2 DEF Taken, Kind
    <2>3. CASE s.kind = "values"
      <3>1. s \in FlatSources("values")
        BY <2>3, SourceIsFlat, TreeSourceFacts DEF Kind
      <3>2. QED
        BY <1>1, <2>3, <3>1, NoneTaken DEF Taken, Kind
    <2>4. CASE s.kind = "stringValues"
      BY <1>1, <2>4 DEF Taken, Kind
    <2>5. QED
      BY <2>1, <2>2, <2>3, <2>4, Ranks
  <1>4. \A s : Assigned(s)' = Assigned(s)
    BY <1>1 DEF Assigned
  <1>5. Merged'
    BY <1>1, <1>3, <1>4, NothingSet
  <1>6. Taken(from)'
    BY <1>1 DEF Taken, Complex, Structured, Kind
  <1>7. maps' = maps
    BY <1>1 DEF input
  <1>8. Parsed'
    BY <1>1, <1>2 DEF Parsed
  <1>9. Position'
    BY <1>1, <1>2, <1>6, <1>7, <1>8 DEF Position
  <1>10. QED
    BY <1>5, <1>9

\* What a step that takes a flat value leaves as it was.
LEMMA OthersAssigned ==
    ASSUME StateOK, Parsed, NEW s, s # from'
    PROVE  Assigned(s)' = Assigned(s)
  <1>1. Assigned(s) = {s.flat[i] : i \in DOMAIN s.flat}
    BY AllAssigned
  <1>2. Assigned(s)' = {s.flat[i] : i \in DOMAIN s.flat}
    BY DEF Assigned
  <1>3. QED
    BY <1>1, <1>2

\* Nothing has been set of the value that is taken.
LEMMA NoneAssigned ==
    ASSUME NEW u, u.flat \in FlatValue, from' = u, at' = 1
    PROVE  Assigned(u)' = {}
  <1>1. DOMAIN u.flat = 1..Len(u.flat) /\ Len(u.flat) \in Nat
    BY DEF FlatValue
  <1>2. \A j \in DOMAIN u.flat : ~(j < 1)
    BY <1>1
  <1>3. QED
    BY <1>2 DEF Assigned

\* The value taken from a map has set nothing yet, whichever it is.
LEMMA TakeFromMapStep ==
    ASSUME InputOK, StateOK, Position, Merged, TakeFromMap
    PROVE  Position' /\ Merged'
  <1>1. PICK flat \in left : from' = FromMap(pc, flat) /\ left' = left \ {flat}
    BY DEF TakeFromMap
  <1>2. /\ input' = input /\ pc \in Kind /\ pc' = pc /\ Parsed /\ next' = next /\ at' = 1
        /\ values' = values /\ next = 1 /\ left \subseteq maps[pc]
    BY <1>1 DEF TakeFromMap, Position
  <1>3. PICK u : u = FromMap(pc, flat)
    OBVIOUS
  <1>4. /\ u \in FlatSources(pc) /\ u \in Sources /\ u.flat = flat /\ u.place = 0
        /\ u.kind = pc /\ TreeOf(u) = <<>> /\ u.flat \in FlatValue
    <2>1. u \in FlatSources(pc)
      BY <1>2, <1>3 DEF FlatSources
    <2>2. u.kind = pc /\ TreeOf(u) = <<>> /\ u.flat \in FlatValue
      BY <1>2, <2>1, FlatSourceFacts
    <2>3. u \in Sources
      BY <1>2, <2>1 DEF Sources, Kind
    <2>4. u.flat = flat /\ u.place = 0
      BY <1>3 DEF FromMap
    <2>5. QED
      BY <2>1, <2>2, <2>3, <2>4
  <1>5. ASSUME NEW s \in Sources, s # u PROVE Taken(s)' <=> Taken(s)
    <2>1. CASE s.kind = pc
      <3>1. s \in FlatSources(pc)
        BY <1>2, <2>1, SourceIsFlat, TreeSourceFacts
      <3>2. CASE s.place = 0
        <4>1. s = FromMap(pc, s.flat)
          <5>1. Len(lists[pc]) \in Nat
            BY <1>2, FlatTypes
          <5>2. ~(s.place \in 1..Len(lists[pc]))
            BY <3>2, <5>1
          <5>3. QED
            BY <1>2, <3>1, <5>2, FlatSourceFacts
        <4>2. s.flat # flat
          BY <1>3, <1>5, <4>1
        <4>3. QED
          BY <1>1, <1>2, <2>1, <3>2, <4>2 DEF Taken
      <3>3. CASE s.place # 0
        <4>1. s.place \in 1..Len(lists[pc]) /\ Len(lists[pc]) \in Nat
          BY <1>2, <3>1, <3>3, FlatSourceFacts, FlatTypes
        <4>2. ~(s.place < next)
          BY <1>2, <4>1
        <4>3. QED
          BY <1>2, <2>1, <3>3, <4>2 DEF Taken
      <3>4. QED
        BY <3>2, <3>3
    <2>2. CASE s.kind # pc
      BY <1>2, <2>2 DEF Taken, Kind
    <2>3. QED
      BY <2>1, <2>2
  <1>6. ~Taken(u) /\ Taken(u)'
    BY <1>1, <1>2, <1>4 DEF Taken, Kind
  <1>7. Assigned(u)' = {} /\ \A s : s # u => Assigned(s)' = Assigned(s)
    BY <1>1, <1>2, <1>3, <1>4, NoneAssigned, OthersAssigned
  <1>8. Merged'
    <2>1. from' = u
      BY <1>1, <1>3
    <2>2. from' \in Sources /\ Assigned(from)' = {} /\ TreeOf(from') = <<>>
      <3>1. Assigned(from)' = Assigned(u)'
        BY <2>1 DEF Assigned
      <3>2. QED
        BY <1>4, <1>7, <2>1, <3>1
    <2>3. \A s \in Sources :
              \/ (Taken(s)' <=> Taken(s)) /\ Assigned(s)' = Assigned(s)
              \/ ~Taken(s) /\ Assigned(s)' = {} /\ TreeOf(s) = <<>>
      BY <1>4, <1>5, <1>6, <1>7
    <2>4. QED
      BY <1>2, <2>2, <2>3, NothingSet
  <1>9. Position'
    <2>1. from' = u /\ from'.kind = pc /\ from'.place = 0 /\ maps' = maps
      BY <1>1, <1>2, <1>3, <1>4 DEF input
    <2>2. Taken(from)'
      BY <1>6, <2>1 DEF Taken
    <2>3. from' \in (FlatSources("values") \cup FlatSources("stringValues"))'
      BY <1>2, <1>4, <2>1, SourcesAreConstant DEF Kind
    <2>4. pc' \in Kind /\ pc' # "files" /\ pc' # "done" /\ left' \subseteq maps'[pc']
      BY <1>1, <1>2, <2>1 DEF Kind
    <2>5. QED
      BY <1>2, <2>1, <2>2, <2>3, <2>4 DEF Position
  <1>10. QED
    BY <1>8, <1>9

\* The value taken from a list is the one after those taken before.
LEMMA TakeFromListStep ==
    ASSUME InputOK, StateOK, Position, Merged, TakeFromList
    PROVE  Position' /\ Merged'
  <1>1. /\ input' = input /\ pc \in Kind /\ pc' = pc /\ Parsed /\ left = {} /\ left' = left
        /\ from' = FromList(pc, next) /\ next' = next + 1 /\ at' = 1 /\ values' = values
    BY DEF TakeFromList
  <1>2. next \in 1..Len(lists[pc]) /\ next \in DOMAIN lists[pc] /\ next \in Nat
    <2>1. lists[pc] \in Seq(FlatValue)
      BY <1>1, FlatTypes
    <2>2. next \in Nat \ {0} /\ next <= Len(lists[pc])
      BY DEF StateOK, TakeFromList
    <2>3. QED
      BY <2>1, <2>2
  <1>3. PICK u : u = FromList(pc, next)
    OBVIOUS
  <1>4. /\ u \in FlatSources(pc) /\ u \in Sources /\ u.place = next
        /\ u.kind = pc /\ TreeOf(u) = <<>> /\ u.flat \in FlatValue
    <2>1. u \in FlatSources(pc)
      BY <1>2, <1>3 DEF FlatSources
    <2>2. u.kind = pc /\ TreeOf(u) = <<>> /\ u.flat \in FlatValue
      BY <1>1, <2>1, FlatSourceFacts
    <2>3. u \in Sources
      BY <1>1, <2>1 DEF Sources, Kind
    <2>4. u.place = next
      BY <1>3 DEF FromList
    <2>5. QED
      BY <2>1, <2>2, <2>3, <2>4
  <1>5. ASSUME NEW s \in Sources, s # u PROVE Taken(s)' <=> Taken(s)
    <2>1. CASE s.kind = pc
      <3>1. s \in FlatSources(pc)
        BY <1>1, <2>1, SourceIsFlat, TreeSourceFacts
      <3>2. CASE s.place = 0
        BY <1>1, <2>1, <3>2 DEF Taken
      <3>3. CASE s.place # 0
        <4>1. s.place \in 1..Len(lists[pc]) /\ s = FromList(pc, s.place)
          BY <1>1, <3>1, <3>3, FlatSourceFacts
        <4>2. s.place # next
          BY <1>3, <1>5, <4>1
        <4>3. s.place \in Nat
          <5>1. Len(lists[pc]) \in Nat
            BY <1>1, FlatTypes
          <5>2. QED
            BY <4>1, <5>1
        <4>4. s.place < next + 1 <=> s.place < next
          BY <1>2, <4>2, <4>3
        <4>5. QED
          BY <1>1, <2>1, <3>3, <4>4 DEF Taken
      <3>4. QED
        BY <3>2, <3>3
    <2>2. CASE s.kind # pc
      <3>1. ~(s.kind = "file" /\ pc = "files")
        BY <1>1 DEF Kind
      <3>2. QED
        BY <1>1, <2>2, <3>1 DEF Taken, Kind
    <2>3. QED
      BY <2>1, <2>2
  <1>6. ~Taken(u) /\ Taken(u)'
    <2>1. u.place # 0 /\ ~(u.place < next) /\ u.place < next + 1
      BY <1>2, <1>4
    <2>2. QED
      BY <1>1, <1>4, <2>1 DEF Taken, Kind
  <1>7. Assigned(u)' = {} /\ \A s : s # u => Assigned(s)' = Assigned(s)
    BY <1>1, <1>3, <1>4, NoneAssigned, OthersAssigned
  <1>8. Merged'
    <2>1. from' = u
      BY <1>1, <1>3
    <2>2. from' \in Sources /\ Assigned(from)' = {} /\ TreeOf(from') = <<>>
      <3>1. Assigned(from)' = Assigned(u)'
        BY <2>1 DEF Assigned
      <3>2. QED
        BY <1>4, <1>7, <2>1, <3>1
    <2>3. \A s \in Sources :
              \/ (Taken(s)' <=> Taken(s)) /\ Assigned(s)' = Assigned(s)
              \/ ~Taken(s) /\ Assigned(s)' = {} /\ TreeOf(s) = <<>>
      BY <1>4, <1>5, <1>6, <1>7
    <2>4. QED
      BY <1>1, <2>2, <2>3, NothingSet
  <1>9. Position'
    <2>1. from' = u /\ from'.kind = pc /\ from'.place = next /\ next # 0
      BY <1>1, <1>2, <1>3, <1>4
    <2>2. Taken(from)'
      BY <1>6, <2>1 DEF Taken
    <2>3. from' \in (FlatSources("values") \cup FlatSources("stringValues"))'
      BY <1>1, <1>4, <2>1, SourcesAreConstant DEF Kind
    <2>4. pc' \in Kind /\ pc' # "files" /\ pc' # "done" /\ left' = {}
      BY <1>1 DEF Kind
    <2>5. QED
      BY <1>1, <2>1, <2>2, <2>3, <2>4 DEF Position
  <1>10. QED
    BY <1>8, <1>9

\* When a loop over flat values ends, all of its sources have been taken.
LEMMA AllTaken ==
    ASSUME InputOK, StateOK, pc \in Kind, left = {}, next > Len(lists[pc]),
           NEW s \in FlatSources(pc)
    PROVE  Taken(s)
  <1>1. s.kind = pc
    BY FlatSourceFacts
  <1>2. CASE s.place = 0
    BY <1>1, <1>2 DEF Taken, Kind
  <1>3. CASE s.place # 0
    <2>1. s.place \in 1..Len(lists[pc]) /\ Len(lists[pc]) \in Nat
      BY <1>3, FlatSourceFacts, FlatTypes
    <2>2. s.place < next
      BY <2>1 DEF StateOK
    <2>3. QED
      BY <1>1, <1>3, <2>2 DEF Taken, Kind
  <1>4. QED
    BY <1>2, <1>3

\* A loop over flat values ends when it has taken all of them.
LEMMA EndKindStep ==
    ASSUME InputOK, StateOK, Position, Merged, EndKind
    PROVE  Position' /\ Merged'
  <1>1. /\ input' = input /\ pc \in Kind /\ Parsed /\ left = {} /\ next > Len(lists[pc])
        /\ values' = values /\ from' = from /\ at' = at /\ Taken(from)
    BY DEF EndKind, Position
  <1>2. \A s : Assigned(s)' = Assigned(s)
    BY <1>1 DEF Assigned
  <1>3. Parsed' /\ maps' = maps
    BY <1>1 DEF Parsed, input
  <1>4. ASSUME NEW s \in Sources, s.kind = pc PROVE Taken(s)
    <2>1. s \in FlatSources(pc)
      BY <1>1, <1>4, SourceIsFlat, TreeSourceFacts
    <2>2. QED
      BY <1>1, <2>1, AllTaken
  <1>5. \/ from = Complex /\ at = 1
        \/ from \in (FlatSources("values") \cup FlatSources("stringValues"))'
    BY <1>1, SourcesAreConstant DEF Position
  <1>6. CASE pc = "values"
    <2>1. /\ Begin("stringValues") /\ pc' = "stringValues" /\ next' = 1
          /\ left' = maps["stringValues"]
      BY <1>6 DEF EndKind, Begin
    <2>2. ASSUME NEW s \in Sources PROVE Taken(s)' <=> Taken(s)
      <3>1. CASE s.kind = "file" \/ s.kind = "complex"
        BY <1>6, <2>1, <3>1 DEF Taken, Kind
      <3>2. CASE s.kind = "values"
        <4>1. Taken(s)
          BY <1>4, <1>6, <3>2
        <4>2. Taken(s)'
          BY <2>1, <3>2 DEF Taken
        <4>3. QED
          BY <4>1, <4>2
      <3>3. CASE s.kind = "stringValues"
        <4>1. s \in FlatSources("stringValues")
          BY <3>3, SourceIsFlat, TreeSourceFacts DEF Kind
        <4>2. ~Taken(s)'
          BY <1>1, <2>1, <4>1, NoneTaken DEF Kind
        <4>3. QED
          BY <1>6, <3>3, <4>2 DEF Taken, Kind
      <3>4. QED
        BY <3>1, <3>2, <3>3, Ranks
    <2>3. Merged'
      BY <1>1, <1>2, <2>2, NothingSet
    <2>4. Taken(from)'
      <3>1. CASE from = Complex
        BY <1>1, <2>1, <3>1 DEF Taken, Complex, Structured, Kind
      <3>2. CASE from # Complex
        <4>1. from \in Sources
          BY <3>2 DEF Position, Sources
        <4>2. PICK u : u = from
          OBVIOUS
        <4>3. Taken(u)'
          BY <1>1, <2>2, <4>1, <4>2
        <4>4. QED
          BY <1>1, <4>2, <4>3 DEF Taken
      <3>3. QED
        BY <3>1, <3>2
    <2>5. Position'
      BY <1>1, <1>3, <1>5, <2>1, <2>4 DEF Position
    <2>6. QED
      BY <2>3, <2>5
  <1>7. CASE pc # "values"
    <2>1. pc = "stringValues" /\ pc' = "done" /\ next' = next /\ left' = left
      BY <1>1, <1>7 DEF EndKind, Kind
    <2>2. ASSUME NEW s \in Sources PROVE Taken(s)' <=> Taken(s)
      <3>1. Taken(s)'
        BY <2>1, Ranks DEF Taken
      <3>2. CASE s.kind = "stringValues"
        BY <1>4, <2>1, <3>1, <3>2
      <3>3. CASE s.kind # "stringValues"
        BY <2>1, <3>1, <3>3 DEF Taken, Kind
      <3>4. QED
        BY <3>2, <3>3
    <2>3. Merged'
      BY <1>1, <1>2, <2>2, NothingSet
    <2>4. Position'
      BY <1>1, <1>3, <1>5, <2>1 DEF Position, Kind
    <2>5. QED
      BY <2>3, <2>4
  <1>8. QED
    BY <1>6, <1>7

-----------------------------------------------------------------------------
(* The theorems.                                                           *)

\* Between files only the place among them changes, and a failed call keeps
\* where it was.
LEMMA PositionKept ==
    ASSUME input' = input, from' = from, at' = at, left' = left, Position,
           \/ pc = "files" /\ pc' = "files"
           \/ pc' = "failed"
    PROVE  Position'
  <1>1. /\ FlatSources("values")' = FlatSources("values")
        /\ FlatSources("stringValues")' = FlatSources("stringValues")
    BY SourcesAreConstant
  <1>2. QED
    BY <1>1 DEF Position, Kind

\* An assignment leaves the loops where they are.
LEMMA AssignPosition ==
    ASSUME Position, Assign
    PROVE  Position'
  <1>1. /\ input' = input /\ pc \in Kind /\ ~Parsed /\ pc' = pc /\ next' = next
        /\ left' = left /\ from' = from /\ maps' = maps
    BY DEF Assign, input
  <1>2. /\ FlatSources("values")' = FlatSources("values")
        /\ FlatSources("stringValues")' = FlatSources("stringValues")
    BY <1>1, SourcesAreConstant
  <1>3. from # Complex \/ at # 1
    BY <1>1 DEF Parsed, Complex, Structured
  <1>4. Taken(from)'
    BY <1>1 DEF Position, Taken
  <1>5. QED
    BY <1>1, <1>2, <1>3, <1>4 DEF Position, Kind

\* A call fails for one of the reasons.
LEMMA Fails == FailsForAReason <=> (pc = "failed" => Reason)
  BY Zenon DEF FailsForAReason, Reason

\* A call that has not failed needs no reason, and one that has keeps its own.
LEMMA NoFailure ==
    ASSUME input' = input, pc' # "failed" \/ (pc = "failed" /\ FailsForAReason) \/ Reason
    PROVE  FailsForAReason'
  <1>1. pc' = "failed" => Reason'
    BY ReasonIsConstant, Fails
  <1>2. QED
    BY <1>1, Zenon DEF FailsForAReason, Reason

\* Every step keeps the invariant.
LEMMA NextInv == TypeOK /\ CallInv /\ [Next]_vars => CallInv'
  <1> SUFFICES ASSUME TypeOK, CallInv, [Next]_vars PROVE CallInv'
    OBVIOUS
  <1>0. /\ InputOK /\ StateOK /\ IsTree(values) /\ Position /\ FailsForAReason
        /\ pc # "failed" => Merged
    BY TypeParts DEF CallInv
  <1> HIDE DEF CallInv
  <1>1. CASE MergeFile
    <2>1. /\ input' = input /\ from' = from /\ at' = at /\ left' = left
          /\ pc = "files" /\ pc' = pc
      BY <1>1 DEF MergeFile
    <2>2. Position' /\ FailsForAReason'
      BY <1>0, <2>1, PositionKept, NoFailure
    <2>3. Merged'
      BY <1>0, <1>1, <2>1, MergeFileStep
    <2>4. QED
      BY <2>2, <2>3 DEF CallInv
  <1>2. CASE SkipFile
    <2>1. /\ input' = input /\ from' = from /\ at' = at /\ left' = left
          /\ pc = "files" /\ pc' = pc
      BY <1>2 DEF SkipFile
    <2>2. Position' /\ FailsForAReason'
      BY <1>0, <2>1, PositionKept, NoFailure
    <2>3. Merged'
      BY <1>0, <1>2, <2>1, SkipFileStep
    <2>4. QED
      BY <2>2, <2>3 DEF CallInv
  <1>3. CASE FailOnFile
    <2>1. /\ input' = input /\ from' = from /\ at' = at /\ left' = left
          /\ pc = "files" /\ pc' = "failed" /\ next <= FileCount
          /\ \/ files[next].state = "broken"
             \/ files[next].state = "missing" /\ ~ignore
      BY <1>3 DEF FailOnFile
    <2>2. next \in 1..FileCount
      BY <1>0, <2>1, FileCountAssumption DEF StateOK
    <2>3. Reason
      BY <2>1, <2>2 DEF Reason
    <2>4. Position' /\ FailsForAReason'
      BY <1>0, <2>1, <2>3, PositionKept, NoFailure
    <2>5. QED
      BY <2>1, <2>4 DEF CallInv
  <1>4. CASE EndFiles
    <2>1. input' = input /\ pc # "failed" /\ pc' # "failed"
      BY <1>4 DEF EndFiles, Begin
    <2>2. Position' /\ Merged'
      BY <1>0, <1>4, <2>1, EndFilesStep
    <2>3. FailsForAReason'
      BY <2>1, NoFailure
    <2>4. QED
      BY <2>2, <2>3 DEF CallInv
  <1>5. CASE TakeFromMap
    <2>1. input' = input /\ pc # "failed" /\ pc' # "failed"
      BY <1>5 DEF TakeFromMap, Kind
    <2>2. Position' /\ Merged'
      BY <1>0, <1>5, <2>1, TakeFromMapStep
    <2>3. FailsForAReason'
      BY <2>1, NoFailure
    <2>4. QED
      BY <2>2, <2>3 DEF CallInv
  <1>6. CASE TakeFromList
    <2>1. input' = input /\ pc # "failed" /\ pc' # "failed"
      BY <1>6 DEF TakeFromList, Kind
    <2>2. Position' /\ Merged'
      BY <1>0, <1>6, <2>1, TakeFromListStep
    <2>3. FailsForAReason'
      BY <2>1, NoFailure
    <2>4. QED
      BY <2>2, <2>3 DEF CallInv
  <1>7. CASE Assign
    <2>1. input' = input /\ pc # "failed" /\ pc' # "failed"
      BY <1>7 DEF Assign, Kind
    <2>2. Position'
      BY <1>0, <1>7, AssignPosition
    <2>3. Merged'
      BY <1>0, <1>7, <2>1, AssignStep
    <2>4. FailsForAReason'
      BY <2>1, NoFailure
    <2>5. QED
      BY <2>2, <2>3, <2>4 DEF CallInv
  <1>8. CASE FailToAssign
    <2>1. /\ input' = input /\ from' = from /\ at' = at /\ left' = left
          /\ pc # "failed" /\ pc' = "failed"
      BY <1>8 DEF FailToAssign, Kind
    <2>2. Reason
      BY <1>0, <1>8, <2>1, AssignmentFails DEF Reason
    <2>3. Position' /\ FailsForAReason'
      BY <1>0, <2>1, <2>2, PositionKept, NoFailure
    <2>4. QED
      BY <2>1, <2>3 DEF CallInv
  <1>9. CASE EndKind
    <2>1. input' = input /\ pc # "failed" /\ pc' # "failed"
      BY <1>9 DEF EndKind, Begin, Kind
    <2>2. Position' /\ Merged'
      BY <1>0, <1>9, <2>1, EndKindStep
    <2>3. FailsForAReason'
      BY <2>1, NoFailure
    <2>4. QED
      BY <2>2, <2>3 DEF CallInv
  <1>10. CASE UNCHANGED vars
    <2>1. /\ input' = input /\ pc' = pc /\ next' = next /\ left' = left /\ from' = from
          /\ at' = at /\ values' = values /\ maps' = maps
      BY <1>10 DEF vars, input
    <2>2. FailsForAReason'
      BY <1>0, <2>1, NoFailure
    <2>3. Position'
      <3>1. /\ FlatSources("values")' = FlatSources("values")
            /\ FlatSources("stringValues")' = FlatSources("stringValues")
        BY <2>1, SourcesAreConstant
      <3>2. Taken(from)' <=> Taken(from)
        BY <2>1 DEF Taken
      <3>3. Parsed' <=> Parsed
        BY <2>1 DEF Parsed
      <3>4. QED
        BY <1>0, <2>1, <3>1, <3>2, <3>3 DEF Position
    <2>4. Merged => Merged'
      <3>1. \A s : (Taken(s)' <=> Taken(s)) /\ Assigned(s)' = Assigned(s)
        BY <2>1 DEF Taken, Assigned
      <3>2. QED
        BY <2>1, <3>1, NothingSet
    <2>5. QED
      BY <1>0, <2>1, <2>2, <2>3, <2>4 DEF CallInv
  <1>11. QED
    BY <1>1, <1>2, <1>3, <1>4, <1>5, <1>6, <1>7, <1>8, <1>9, <1>10 DEF Next

\* At every point of a call that has not failed, every node of the values comes
\* from the highest of the sources taken so far that have it, whatever the order
\* in which the maps of flat values have been iterated.
THEOREM Merging == Spec => []CallInv
  <1>1. Init => TypeOK /\ CallInv
    BY InitType, InitInv
  <1>2. TypeOK /\ CallInv /\ [Next]_vars => TypeOK' /\ CallInv'
    BY NextType, NextInv
  <1>3. QED
    BY <1>1, <1>2, PTL DEF Spec

\* A call fails only for what is wrong with the parameters: a file that cannot
\* be read, a flat value that assigns nothing, or one that sets a path below a
\* leaf, be it of another flat value or of what the structured sources make.
THEOREM Failing == Spec => []FailsForAReason
  <1>1. CallInv => FailsForAReason
    BY DEF CallInv
  <1>2. QED
    BY <1>1, Merging, PTL

\* In the end all sources have been taken and have set all they set.
LEMMA AllHave ==
    ASSUME InputOK, StateOK, Position, pc = "done"
    PROVE  /\ \A s \in Sources, p \in Path : HasNow(s, p) <=> s \in Having(p)
           /\ \A s \in Sources, p \in Path : NodeNow(s, p) = NodeOf(s, p)
  <1>1. Parsed
    BY DEF Position
  <1>2. ASSUME NEW s \in Sources PROVE Taken(s) /\ Assigned(s) = ToSet(s.flat)
    <2>1. Assigned(s) = {s.flat[i] : i \in DOMAIN s.flat}
      BY <1>1, AllAssigned
    <2>2. Assigned(s) = ToSet(s.flat)
      BY <2>1 DEF ToSet
    <2>3. Taken(s)
      BY Ranks DEF Taken, Kind
    <2>4. QED
      BY <2>2, <2>3
  <1>3. ASSUME NEW s \in Sources, NEW p \in Path
        PROVE  HasNow(s, p) <=> s \in Having(p)
    BY <1>2, Zenon DEF HasNow, Having
  <1>4. ASSUME NEW s \in Sources, NEW p \in Path
        PROVE  NodeNow(s, p) = NodeOf(s, p)
    BY <1>2, Zenon DEF NodeNow, NodeOf
  <1>5. QED
    BY <1>3, <1>4

\* Values of one map that stand on one rank give a path they both have the same
\* node, if they do not overlap: a map.
LEMMA SameNode ==
    ASSUME InputOK, NoOverlap, NEW p \in Path, NEW s \in Having(p), NEW t \in Having(p),
           Rank(s) = Rank(t)
    PROVE  NodeOf(s, p) = NodeOf(t, p)
  <1>1. s \in Sources /\ t \in Sources
    BY DEF Having
  <1>2. CASE s = t
    BY <1>2
  <1>3. CASE s # t
    <2>1. /\ s.kind \in Kind /\ t.kind = s.kind
          /\ s.flat \in maps[s.kind] /\ t.flat \in maps[s.kind] /\ s.flat # t.flat
      BY <1>1, <1>3, SameRank
    <2>2. s \notin Trees /\ t \notin Trees
      BY <2>1, TreeSourceFacts
    <2>3. TreeOf(s) = <<>> /\ TreeOf(t) = <<>>
      BY <1>1, <2>1, <2>2, SourceIsFlat, FlatSourceFacts
    <2>4. PICK q \in ToSet(s.flat), r \in ToSet(t.flat) : IsPrefix(p, q) /\ IsPrefix(p, r)
      BY <2>3 DEF Having
    <2>5. q \in Path \cup {NoPath} /\ r \in Path \cup {NoPath}
      <3>1. s.flat \in FlatValue /\ t.flat \in FlatValue
        BY <1>1, <2>1, <2>2, SourceIsFlat, FlatSourceFacts
      <3>2. QED
        BY <2>4, <3>1 DEF FlatValue, ToSet
    <2>6. q # NoPath /\ r # NoPath /\ p # NoPath
      BY <2>4, PathOrder, PathAssumption
    <2> PICK map : map = maps[s.kind]
      OBVIOUS
    <2>o. ASSUME NEW f \in map, NEW g \in map, f # g,
                 NEW x \in ToSet(f) \ {NoPath}, NEW y \in ToSet(g)
          PROVE  ~IsPrefix(x, y)
      BY <2>1, <2>o, Zenon DEF NoOverlap
    <2>7. p \notin ToSet(s.flat)
      BY <2>1, <2>4, <2>6, <2>o
    <2>8. p \notin ToSet(t.flat)
      BY <2>1, <2>4, <2>6, <2>o, Zenon
    <2>9. QED
      BY <2>2, <2>7, <2>8, Zenon DEF NodeOf
  <1>4. QED
    BY <1>2, <1>3

\* What the invariant says of the end of a call.
LEMMA EndOfCall == TypeOK /\ CallInv => HighestSourceWins
  <1> SUFFICES ASSUME TypeOK, CallInv, pc = "done", NoOverlap
               PROVE  /\ DOMAIN values =
                             {p \in Path : /\ Having(p) # {}
                                           /\ \A q \in DOMAIN values :
                                                  IsStrictPrefix(q, p) => values[q] = Map}
                      /\ \A p \in DOMAIN values : values[p] = NodeOf(Highest(Having(p)), p)
    BY Zenon DEF HighestSourceWins
  <1>0. /\ InputOK /\ StateOK /\ Position /\ Merged
        /\ DOMAIN values \subseteq Path
    BY TypeParts DEF CallInv, IsTree
  <1>1. /\ \A s \in Sources, p \in Path : HasNow(s, p) <=> s \in Having(p)
        /\ \A s \in Sources, p \in Path : NodeNow(s, p) = NodeOf(s, p)
    BY <1>0, AllHave
  <1>2. \A p : Having(p) \subseteq Sources
    BY DEF Having
  <1>3. \A p \in Path : Having(p) # {} <=> \E s \in Sources : HasNow(s, p)
    BY <1>1, <1>2
  <1>4. DOMAIN values =
            {p \in Path : /\ Having(p) # {}
                          /\ \A q \in DOMAIN values :
                                 IsStrictPrefix(q, p) => values[q] = Map}
    BY <1>0, <1>3 DEF Merged, PathsMerged
  <1>5. ASSUME NEW p \in DOMAIN values
        PROVE  values[p] = NodeOf(Highest(Having(p)), p)
    <2>1. PICK s \in Sources : IsTop(s, p) /\ values[p] = NodeNow(s, p)
      BY <1>0, <1>5 DEF Merged, NodesMerged
    <2>2. p \in Path /\ s \in Having(p) /\ \A t \in Having(p) : Rank(t) <= Rank(s)
      BY <1>0, <1>1, <1>2, <1>5, <2>1, Zenon DEF IsTop
    <2>3. PICK h : h = Highest(Having(p))
      OBVIOUS
    <2>4. h \in Having(p) /\ \A t \in Having(p) : Rank(t) <= Rank(h)
      BY <2>2, <2>3, Zenon DEF Highest
    <2>5. Rank(s) \in Nat /\ Rank(h) \in Nat
      BY <1>0, <1>2, <2>2, <2>4, Ranks
    <2>6. Rank(h) <= Rank(s) /\ Rank(s) <= Rank(h)
      BY <2>2, <2>4
    <2>7. Rank(h) = Rank(s)
      BY <2>5, <2>6
    <2>8. NodeOf(h, p) = NodeOf(s, p)
      BY <1>0, <2>2, <2>4, <2>7, SameNode
    <2>9. QED
      BY <1>1, <2>1, <2>2, <2>3, <2>8, Zenon
  <1>6. QED
    BY <1>4, <1>5, Zenon

\* Every node of the result comes from the source that stands highest among those
\* that have one there, for values of any depth and any number of files: the order
\* in which the code merges is the order of precedence, and if the values of a map
\* do not overlap the result does not depend on the order of its iteration.
THEOREM Winning == Spec => []HighestSourceWins
  BY EndOfCall, Typing, Merging, PTL
=============================================================================
