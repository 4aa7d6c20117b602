---------------------------- MODULE IngestProofs ----------------------------
(***************************************************************************)
(* Theorems about ingestion (Ingest) and the temporal graph under it, for  *)
(* every sequence of names, every set of kinds and contents, and any       *)
(* number of batches.                                                      *)
(*                                                                         *)
(* Good says what holds of every graph, whatever the order of time: the    *)
(* indexes agree with what they index, placeholders have no content, and   *)
(* an open edge has both ends.  It is preserved operation by operation, so *)
(* that a batch may be cut anywhere.  GraphUpTo and GraphInOrder are what  *)
(* batches in the order of time add.  Truth is SnapshotIsTruth with the    *)
(* batch and the graph as parameters: it is established by one whole batch *)
(* and spans none of its operations.                                       *)
(***************************************************************************)
EXTENDS Ingest, FiniteSetTheorems, SequenceTheorems, WellFoundedInduction, TLAPS

-----------------------------------------------------------------------------
(* Induction.                                                              *)

LEMMA Least ==
  ASSUME NEW S \in SUBSET Nat, S # {}
  PROVE \E n \in S : \A m \in S : n <= m
<1>1. \E n \in S : \A m \in S : <<m, n>> \notin {ss \in Nat \X Nat : ss[1] < ss[2]}
  <2> DEFINE R == {ss \in Nat \X Nat : ss[1] < ss[2]}
  <2>1. IsWellFoundedOn(R, Nat)
    BY NatLessThanWellFounded, Zenon DEF OpToRel
  <2> HIDE DEF R
  <2>2. \E n \in S : \A m \in S : <<m, n>> \notin R
    BY <2>1, WFMin, Zenon
  <2> QED
    BY <2>2 DEF R
<1>2. PICK n \in S : \A m \in S : <<m, n>> \notin {ss \in Nat \X Nat : ss[1] < ss[2]}
  BY <1>1
<1>3. ASSUME NEW m \in S PROVE n <= m
  <2>1. m \in Nat /\ n \in Nat
    OBVIOUS
  <2>2. ~(m < n)
    <3>1. SUFFICES ASSUME m < n PROVE <<m, n>> \in {ss \in Nat \X Nat : ss[1] < ss[2]}
      BY <1>2
    <3> DEFINE p == <<m, n>>
    <3>2. p \in Nat \X Nat /\ p[1] = m /\ p[2] = n
      BY <2>1
    <3> QED
      BY <3>1, <3>2
  <2> QED
    BY <2>1, <2>2
<1> QED
  BY <1>3

LEMMA Induction ==
  ASSUME NEW S \in SUBSET Nat, 0 \in S, \A n \in S : n + 1 \in S
  PROVE S = Nat
<1>1. SUFFICES ASSUME Nat \ S # {} PROVE FALSE
  OBVIOUS
<1>2. PICK n \in Nat \ S : \A m \in Nat \ S : n <= m
  BY <1>1, Least
<1>3. n - 1 \in S
  BY <1>2
<1> QED
  BY <1>2, <1>3

LEMMA Greatest ==
  ASSUME NEW n \in Int, NEW s, s \subseteq Int, n \in s, \A m \in s : m <= n
  PROVE Max(s) = n
<1>1. \E x \in s : \A y \in s : x >= y
  OBVIOUS
<1>2. Max(s) \in s /\ \A y \in s : Max(s) >= y
  BY <1>1, Zenon DEF Max
<1> DEFINE x == Max(s)
<1>3. x \in s /\ x >= n
  BY <1>2
<1> HIDE DEF x
<1>4. x \in Int /\ x <= n
  BY <1>3
<1>5. x = n
  BY <1>3, <1>4
<1> QED
  BY <1>5 DEF x

-----------------------------------------------------------------------------
(* Sequences.                                                              *)

LEMMA MadeSeq ==
  ASSUME NEW S, NEW n \in Nat, NEW f \in [1 .. n -> S]
  PROVE f \in Seq(S) /\ Len(f) = n
<1>1. f \in Seq(S)
  BY SeqDef, Zenon
<1>2. Len(f) \in Nat /\ DOMAIN f = 1 .. Len(f)
  BY <1>1, LenProperties
<1>3. 1 .. Len(f) = 1 .. n
  BY <1>2
<1> QED
  BY <1>1, <1>2, <1>3

-----------------------------------------------------------------------------
(* The graph after each operation.                                         *)

Folding(h, ops, n, f) ==
  f = [s \in SUBSET (1 .. n) |->
         IF s = {} THEN h ELSE LET x == Max(s) IN Apply(f[s \ {x}], ops[x])]

LEMMA Unfold ==
  ASSUME NEW h, NEW ops, DOMAIN ops = 1 .. Len(ops)
  PROVE ApplyAll(h, ops) = (CHOOSE f : Folding(h, ops, Len(ops), f))[1 .. Len(ops)]
BY DEF ApplyAll, FoldLeft, MapThenFoldSet, Folding

LEMMA FoldingExists ==
  ASSUME NEW h, NEW ops, NEW n \in Nat
  PROVE \E f : Folding(h, ops, n, f)
<1> DEFINE S == {k \in Nat : \E f : Folding(h, ops, k, f)}
<1>1. 0 \in S
  <2> DEFINE f == [s \in SUBSET (1 .. 0) |-> h]
  <2>1. \A s \in SUBSET (1 .. 0) : s = {}
    OBVIOUS
  <2>2. Folding(h, ops, 0, f)
    BY <2>1 DEF Folding
  <2> QED
    BY <2>2
<1>2. ASSUME NEW k \in S PROVE k + 1 \in S
  <2>1. PICK f : Folding(h, ops, k, f)
    OBVIOUS
  <2> DEFINE e == [s \in SUBSET (1 .. k + 1) |->
                     IF k + 1 \in s THEN Apply(f[s \ {k + 1}], ops[k + 1]) ELSE f[s]]
             d == [s \in SUBSET (1 .. k + 1) |->
                     IF s = {} THEN h ELSE LET x == Max(s) IN Apply(e[s \ {x}], ops[x])]
  <2>2. k \in Nat
    OBVIOUS
  <2>3. ASSUME NEW s \in SUBSET (1 .. k) PROVE e[s] = f[s]
    BY <2>2
  <2>4. ASSUME NEW s \in SUBSET (1 .. k + 1), k + 1 \in s
        PROVE Max(s) = k + 1 /\ s \ {k + 1} \in SUBSET (1 .. k)
    <3>1. s \subseteq Int /\ k + 1 \in Int /\ \A m \in s : m <= k + 1
      BY <2>2
    <3>2. Max(s) = k + 1
      BY <2>4, <3>1, Greatest
    <3>3. s \ {k + 1} \subseteq 1 .. k
      BY <2>2
    <3> QED
      BY <3>2, <3>3
  <2>5. ASSUME NEW s \in SUBSET (1 .. k + 1) PROVE e[s] = d[s]
    <3>1. CASE k + 1 \in s
      <4>1. e[s] = Apply(f[s \ {k + 1}], ops[k + 1])
        BY <3>1
      <4>2. d[s] = Apply(e[s \ {k + 1}], ops[k + 1])
        <5> HIDE DEF e
        <5> QED
          BY <2>4, <3>1
      <4> HIDE DEF e, d
      <4> QED
        BY <2>3, <2>4, <3>1, <4>1, <4>2
    <3>2. CASE k + 1 \notin s
      <4>1. s \in SUBSET (1 .. k)
        BY <2>2, <3>2
      <4>2. e[s] = f[s]
        BY <2>3, <4>1
      <4>3. f[s] = IF s = {} THEN h ELSE LET x == Max(s) IN Apply(f[s \ {x}], ops[x])
        BY <2>1, <4>1 DEF Folding
      <4>4. \A x : e[s \ {x}] = f[s \ {x}]
        BY <2>3, <4>1
      <4> HIDE DEF e
      <4> QED
        BY <4>2, <4>3, <4>4
    <3> QED
      BY <3>1, <3>2
  <2>6. Folding(h, ops, k + 1, e)
    <3>1. e = d
      <4>1. DOMAIN e = SUBSET (1 .. k + 1) /\ e = [s \in SUBSET (1 .. k + 1) |-> e[s]]
        OBVIOUS
      <4>2. d = [s \in SUBSET (1 .. k + 1) |-> d[s]]
        OBVIOUS
      <4> HIDE DEF e, d
      <4> QED
        BY <2>5, <4>1, <4>2
    <3> HIDE DEF e
    <3> QED
      BY <3>1 DEF Folding
  <2> HIDE DEF e
  <2> QED
    BY <2>2, <2>6
<1> HIDE DEF S
<1>3. S = Nat
  BY <1>1, <1>2, Induction DEF S
<1> QED
  BY <1>3 DEF S

\* a[n] is the graph after n operations.
Runs(h, ops, a) ==
  /\ a[0] = h /\ a[Len(ops)] = ApplyAll(h, ops)
  /\ \A n \in 0 .. Len(ops) - 1 : a[n + 1] = Apply(a[n], ops[n + 1])

LEMMA Run ==
  ASSUME NEW h, NEW ops, DOMAIN ops = 1 .. Len(ops), Len(ops) \in Nat
  PROVE \E a : Runs(h, ops, a)
<1> DEFINE f == CHOOSE f : Folding(h, ops, Len(ops), f)
           a == [n \in 0 .. Len(ops) |-> f[1 .. n]]
<1>1. Folding(h, ops, Len(ops), f)
  BY FoldingExists
<1>2. ApplyAll(h, ops) = f[1 .. Len(ops)]
  BY Unfold
<1> HIDE DEF f
<1>3. ASSUME NEW s \in SUBSET (1 .. Len(ops))
      PROVE f[s] = IF s = {} THEN h ELSE LET x == Max(s) IN Apply(f[s \ {x}], ops[x])
  BY <1>1 DEF Folding
<1>4. a[0] = h
  <2>1. 1 .. 0 = {} /\ 0 \in 0 .. Len(ops)
    OBVIOUS
  <2>2. f[{}] = h
    BY <1>3
  <2> QED
    BY <2>1, <2>2
<1>5. ASSUME NEW n \in 0 .. Len(ops) - 1 PROVE a[n + 1] = Apply(a[n], ops[n + 1])
  <2>1. Max(1 .. n + 1) = n + 1 /\ (1 .. n + 1) \ {n + 1} = 1 .. n /\ 1 .. n + 1 # {}
    <3>1. 1 .. n + 1 \subseteq Int /\ n + 1 \in Int /\ n + 1 \in 1 .. n + 1 /\ \A m \in 1 .. n + 1 : m <= n + 1
      OBVIOUS
    <3>2. Max(1 .. n + 1) = n + 1
      BY <3>1, Greatest
    <3>3. (1 .. n + 1) \ {n + 1} = 1 .. n
      OBVIOUS
    <3> QED
      BY <3>1, <3>2, <3>3
  <2>2. (1 .. n + 1) \in SUBSET (1 .. Len(ops))
    OBVIOUS
  <2>3. f[1 .. n + 1] = Apply(f[1 .. n], ops[n + 1])
    BY <1>3, <2>1, <2>2
  <2> QED
    BY <2>3
<1>6. a[Len(ops)] = ApplyAll(h, ops)
  BY <1>2
<1> QED
  BY <1>4, <1>5, <1>6 DEF Runs

-----------------------------------------------------------------------------
(* Graphs, and the invariant of any graph that ingestion makes.            *)

NameSet == ToSet(Names)
Time == 1 .. scope.maxTs
Contents == scope.props \cup {NullProps}
Labels == scope.origins \cup {NoOrigin}
VersionType == [props : Contents, from : Time, to : Time \cup {T_MAX}, origin : Labels]
NodeType == [placeholder : BOOLEAN, versions : Seq(VersionType) \ {<<>>}]
EdgeType ==
  [src : NameSet, dst : NameSet, kind : Kinds, from : Time, to : Time \cup {T_MAX}, origin : Labels]

IsRecord(h) == h = [node |-> h.node, edge |-> h.edge, open |-> h.open, embedded |-> h.embedded]
IsTable(f) == f = [x \in DOMAIN f |-> f[x]]

Typed(h) ==
  /\ IsRecord(h) /\ IsTable(h.node) /\ IsTable(h.open)
  /\ DOMAIN h.node \subseteq NameSet
  /\ \A n \in DOMAIN h.node : h.node[n] \in NodeType
  /\ h.edge \in Seq(EdgeType)
  /\ \A i \in DOMAIN h.edge : h.edge[i].src \in DOMAIN h.node /\ h.edge[i].dst \in DOMAIN h.node

Current(vs) == vs # <<>> /\ IsOpen(Last(vs))

\* The index of open edges has them and no others.
EdgesIndexed(h) ==
  /\ \A t \in DOMAIN h.open :
       h.open[t] \in DOMAIN h.edge /\ IsOpen(h.edge[h.open[t]]) /\ Triple(h.edge[h.open[t]]) = t
  /\ \A i \in DOMAIN h.edge :
       IsOpen(h.edge[i]) => Triple(h.edge[i]) \in DOMAIN h.open /\ h.open[Triple(h.edge[i])] = i

\* So does that of embeddings.
NodesIndexed(h) ==
  \A n : n \in h.embedded <=>
           /\ n \in DOMAIN h.node /\ Current(h.node[n].versions)
           /\ Last(h.node[n].versions).props \in Embedding

PlaceholdersEmpty(h) ==
  \A n \in DOMAIN h.node :
    h.node[n].placeholder /\ Current(h.node[n].versions) => Last(h.node[n].versions).props = NullProps

EndsLive(h) ==
  \A i \in DOMAIN h.edge :
    IsOpen(h.edge[i]) => h.edge[i].src \in OpenNodes(h) /\ h.edge[i].dst \in OpenNodes(h)

Good(h) == Typed(h) /\ EdgesIndexed(h) /\ NodesIndexed(h) /\ PlaceholdersEmpty(h) /\ EndsLive(h)

LEMMA ScopeFacts ==
  ASSUME scope \in Scopes
  PROVE /\ T_MAX \in Nat /\ scope.maxTs \in Nat /\ scope.maxTs < T_MAX
        /\ Time \subseteq Nat /\ T_MAX \notin Time /\ 1 \in Time
        /\ \A t \in Time : t < T_MAX
        /\ scope.props \subseteq Props /\ NullProps \notin Props /\ Embedding \subseteq Props
BY ScopesAssumption, TimeAssumption, PropsAssumption DEF Time

LEMMA Fields ==
  ASSUME NEW a, NEW b, NEW c, NEW d, NEW h, h = [node |-> a, edge |-> b, open |-> c, embedded |-> d]
  PROVE h.node = a /\ h.edge = b /\ h.open = c /\ h.embedded = d /\ IsRecord(h)
BY DEF IsRecord

-----------------------------------------------------------------------------
(* The versions of a node.                                                 *)

LEMMA ClosedFacts ==
  ASSUME scope \in Scopes, NEW vs \in Seq(VersionType), NEW ts \in Time
  PROVE /\ Closed(vs, ts) \in Seq(VersionType) /\ Len(Closed(vs, ts)) = Len(vs)
        /\ ~Current(Closed(vs, ts))
        /\ \A i \in 1 .. Len(vs) :
             /\ Closed(vs, ts)[i].props = vs[i].props /\ Closed(vs, ts)[i].from = vs[i].from
             /\ Closed(vs, ts)[i].to = IF i = Len(vs) /\ IsOpen(vs[i]) THEN ts ELSE vs[i].to
<1> DEFINE cs == Closed(vs, ts)
<1>1. Len(vs) \in Nat /\ DOMAIN vs = 1 .. Len(vs) /\ T_MAX # ts
  BY ScopeFacts
<1>2. CASE Current(vs)
  <2>1. Len(vs) \in 1 .. Len(vs) /\ IsOpen(vs[Len(vs)])
    BY <1>1, <1>2 DEF Current, Last
  <2> DEFINE u == vs[Len(vs)]
             v == [u EXCEPT !.to = ts]
  <2>a. u \in VersionType
    BY <1>1, <2>1, ElementOfSeq
  <2>2. v \in VersionType /\ v.props = vs[Len(vs)].props /\ v.from = vs[Len(vs)].from /\ v.to = ts
    <3> HIDE DEF u
    <3>1. v \in VersionType /\ v.props = u.props /\ v.from = u.from /\ v.to = ts
      BY <2>a DEF VersionType
    <3> QED
      BY <3>1 DEF u
  <2>3. cs = [vs EXCEPT ![Len(vs)] = v]
    BY <1>2, <2>1 DEF Closed, Current, Last
  <2> HIDE DEF v, cs
  <2>4. cs \in Seq(VersionType) /\ Len(cs) = Len(vs)
        /\ \A i \in 1 .. Len(vs) : cs[i] = IF i = Len(vs) THEN v ELSE vs[i]
    BY <1>1, <2>1, <2>2, <2>3, ExceptSeq
  <2>5. ~Current(cs)
    <3>0. Len(cs) = Len(vs) /\ cs[Len(vs)] = v
      BY <2>1, <2>4
    <3>1. cs[Len(cs)] = v
      BY <3>0
    <3> QED
      BY <1>1, <2>2, <3>1 DEF Current, Last, IsOpen
  <2>6. ASSUME NEW i \in 1 .. Len(vs)
        PROVE /\ cs[i].props = vs[i].props /\ cs[i].from = vs[i].from
              /\ cs[i].to = IF i = Len(vs) /\ IsOpen(vs[i]) THEN ts ELSE vs[i].to
    <3>1. CASE i = Len(vs)
      BY <2>1, <2>2, <2>4, <3>1
    <3>2. CASE i # Len(vs)
      BY <2>4, <3>2
    <3> QED
      BY <3>1, <3>2
  <2> QED
    BY <2>4, <2>5, <2>6 DEF cs
<1>3. CASE ~Current(vs)
  <2>1. cs = vs
    BY <1>3 DEF Closed, Current
  <2>2. \A i \in 1 .. Len(vs) : i = Len(vs) => ~IsOpen(vs[i])
    BY <1>1, <1>3 DEF Current, Last
  <2> QED
    BY <1>3, <2>1, <2>2
<1> QED
  BY <1>2, <1>3

Opened(vs, ts, p, o) == Append(Closed(vs, ts), Version(p, ts, o))

LEMMA OpenedFacts ==
  ASSUME scope \in Scopes, NEW vs \in Seq(VersionType), NEW ts \in Time,
         NEW p \in Contents, NEW o \in Labels
  PROVE /\ Opened(vs, ts, p, o) \in Seq(VersionType) \ {<<>>}
        /\ Len(Opened(vs, ts, p, o)) = Len(vs) + 1
        /\ Current(Opened(vs, ts, p, o))
        /\ Last(Opened(vs, ts, p, o)) = Version(p, ts, o)
        /\ Opened(vs, ts, p, o)[Len(vs) + 1] = Version(p, ts, o)
        /\ \A i \in 1 .. Len(vs) : Opened(vs, ts, p, o)[i] = Closed(vs, ts)[i]
<1> DEFINE cs == Closed(vs, ts)
           v == Version(p, ts, o)
           os == Append(cs, v)
<1>1. cs \in Seq(VersionType) /\ Len(cs) = Len(vs)
  BY ClosedFacts
<1>2. v \in VersionType /\ v.to = T_MAX
  BY ScopeFacts DEF Version, VersionType
<1> HIDE DEF cs, v
<1>3. /\ os \in Seq(VersionType) \ {<<>>} /\ Len(os) = Len(vs) + 1 /\ os[Len(vs) + 1] = v
      /\ \A i \in 1 .. Len(vs) : os[i] = cs[i]
  BY <1>1, <1>2, AppendProperties
<1>4. Last(os) = v /\ Current(os)
  BY <1>2, <1>3 DEF Last, Current, IsOpen
<1> QED
  BY <1>3, <1>4 DEF Opened, cs, v

-----------------------------------------------------------------------------
(* A graph with another node, or another state of one.                     *)

WithNode(h, n, nd, emb) ==
  [node |-> Inserted(h.node, n, nd), edge |-> h.edge, open |-> h.open, embedded |-> emb]

LEMMA WithNodeFacts ==
  ASSUME NEW h, NEW n, NEW nd, NEW emb
  PROVE /\ IsRecord(WithNode(h, n, nd, emb)) /\ IsTable(WithNode(h, n, nd, emb).node)
        /\ DOMAIN WithNode(h, n, nd, emb).node = DOMAIN h.node \cup {n}
        /\ WithNode(h, n, nd, emb).node[n] = nd
        /\ \A m \in DOMAIN h.node : m # n => WithNode(h, n, nd, emb).node[m] = h.node[m]
        /\ WithNode(h, n, nd, emb).edge = h.edge /\ WithNode(h, n, nd, emb).open = h.open
        /\ WithNode(h, n, nd, emb).embedded = emb
<1> DEFINE k == WithNode(h, n, nd, emb)
<1>1. /\ k.node = Inserted(h.node, n, nd) /\ k.edge = h.edge /\ k.open = h.open
      /\ k.embedded = emb /\ IsRecord(k)
  BY Fields DEF WithNode
<1> HIDE DEF k
<1>2. k.node = [y \in DOMAIN h.node \cup {n} |-> IF y = n THEN nd ELSE h.node[y]]
  BY <1>1 DEF Inserted
<1>3. IsTable(k.node) /\ DOMAIN k.node = DOMAIN h.node \cup {n}
  BY <1>2 DEF IsTable
<1>4. k.node[n] = nd /\ \A m \in DOMAIN h.node : m # n => k.node[m] = h.node[m]
  BY <1>2
<1> QED
  BY <1>1, <1>3, <1>4 DEF k

LEMMA WithNodeGood ==
  ASSUME NEW h, Good(h), NEW n \in NameSet, NEW nd \in NodeType, NEW emb,
         \A m : m # n => (m \in emb <=> m \in h.embedded),
         n \in emb <=> Current(nd.versions) /\ Last(nd.versions).props \in Embedding,
         nd.placeholder /\ Current(nd.versions) => Last(nd.versions).props = NullProps,
         \/ Current(nd.versions)
         \/ \A i \in DOMAIN h.edge : IsOpen(h.edge[i]) => n \notin {h.edge[i].src, h.edge[i].dst}
  PROVE Good(WithNode(h, n, nd, emb))
<1> DEFINE k == WithNode(h, n, nd, emb)
<1>1. /\ IsRecord(k) /\ IsTable(k.node) /\ DOMAIN k.node = DOMAIN h.node \cup {n}
      /\ k.node[n] = nd /\ \A m \in DOMAIN h.node : m # n => k.node[m] = h.node[m]
      /\ k.edge = h.edge /\ k.open = h.open /\ k.embedded = emb
  BY WithNodeFacts
<1> HIDE DEF k
<1>2. Typed(h) /\ EdgesIndexed(h) /\ NodesIndexed(h) /\ PlaceholdersEmpty(h) /\ EndsLive(h)
  BY DEF Good
<1>3. Typed(k)
  BY <1>1, <1>2 DEF Typed
<1>4. EdgesIndexed(k)
  BY <1>1, <1>2 DEF EdgesIndexed
<1>5. NodesIndexed(k)
  <2>1. ASSUME NEW m
        PROVE m \in k.embedded <=> /\ m \in DOMAIN k.node /\ Current(k.node[m].versions)
                                   /\ Last(k.node[m].versions).props \in Embedding
    <3>1. CASE m = n
      BY <1>1, <3>1
    <3>2. CASE m # n
      BY <1>1, <1>2, <3>2 DEF NodesIndexed
    <3> QED
      BY <3>1, <3>2
  <2> QED
    BY <2>1 DEF NodesIndexed
<1>6. PlaceholdersEmpty(k)
  <2>1. ASSUME NEW m \in DOMAIN k.node, k.node[m].placeholder, Current(k.node[m].versions)
        PROVE Last(k.node[m].versions).props = NullProps
    <3>1. CASE m = n
      BY <1>1, <2>1, <3>1
    <3>2. CASE m # n
      BY <1>1, <1>2, <2>1, <3>2 DEF PlaceholdersEmpty
    <3> QED
      BY <3>1, <3>2
  <2> QED
    BY <2>1 DEF PlaceholdersEmpty
<1>7. EndsLive(k)
  <2>1. ASSUME NEW m \in OpenNodes(h), m # n \/ Current(nd.versions) PROVE m \in OpenNodes(k)
    BY <1>1, <2>1 DEF OpenNodes, HasOpenVersion, Current
  <2>2. ASSUME NEW i \in DOMAIN k.edge, IsOpen(k.edge[i])
        PROVE k.edge[i].src \in OpenNodes(k) /\ k.edge[i].dst \in OpenNodes(k)
    <3>1. h.edge[i].src \in OpenNodes(h) /\ h.edge[i].dst \in OpenNodes(h)
      BY <1>1, <1>2, <2>2 DEF EndsLive
    <3> QED
      BY <1>1, <2>1, <2>2, <3>1
  <2> QED
    BY <2>2 DEF EndsLive
<1> QED
  BY <1>3, <1>4, <1>5, <1>6, <1>7 DEF Good, k

\* What the operations on nodes make of a graph.
Prior(h, n) == IF n \in DOMAIN h.node THEN h.node[n].versions ELSE <<>>
WasPlaceholder(h, n) == n \in DOMAIN h.node => h.node[n].placeholder

LEMMA EnsureNodeIs ==
  ASSUME NEW h, Typed(h), NEW n \in NameSet, NEW ph \in BOOLEAN
  PROVE EnsureNode(h, n, ph) =
          WithNode(h, n, [placeholder |-> WasPlaceholder(h, n) /\ ph, versions |-> Prior(h, n)], h.embedded)
<1>1. IsRecord(h) /\ IsTable(h.node)
  BY DEF Typed
<1>2. CASE n \notin DOMAIN h.node
  <2>1. EnsureNode(h, n, ph) =
          [h EXCEPT !.node = Inserted(h.node, n, [placeholder |-> ph, versions |-> <<>>])]
    BY <1>2 DEF EnsureNode
  <2>2. WasPlaceholder(h, n) = TRUE /\ Prior(h, n) = <<>>
    BY <1>2 DEF WasPlaceholder, Prior
  <2> DEFINE f == Inserted(h.node, n, [placeholder |-> ph, versions |-> <<>>])
  <2>3. (WasPlaceholder(h, n) /\ ph) = ph
    BY <2>2
  <2>4. WithNode(h, n, [placeholder |-> WasPlaceholder(h, n) /\ ph, versions |-> Prior(h, n)], h.embedded)
          = [node |-> f, edge |-> h.edge, open |-> h.open, embedded |-> h.embedded]
    BY <2>2, <2>3 DEF WithNode
  <2> HIDE DEF f
  <2>5. [h EXCEPT !.node = f] = [node |-> f, edge |-> h.edge, open |-> h.open, embedded |-> h.embedded]
    BY <1>1 DEF IsRecord
  <2> QED
    BY <2>1, <2>4, <2>5 DEF f
<1>3. CASE n \in DOMAIN h.node
  <2> DEFINE u == h.node[n]
             nd == [placeholder |-> u.placeholder /\ ph, versions |-> u.versions]
             f == [h.node EXCEPT ![n] = nd]
  <2>1. u \in NodeType
    BY <1>3 DEF Typed
  <2>2. [u EXCEPT !.placeholder = u.placeholder /\ ph] = nd
    <3> HIDE DEF u
    <3> QED
      BY <2>1 DEF NodeType
  <2>3. EnsureNode(h, n, ph) = [h EXCEPT !.node = f]
    <3>1. EnsureNode(h, n, ph) = [h EXCEPT !.node[n].placeholder = @ /\ ph]
      BY <1>3 DEF EnsureNode
    <3>2. [h EXCEPT !.node[n].placeholder = @ /\ ph]
            = [h EXCEPT !.node = [h.node EXCEPT ![n] = [u EXCEPT !.placeholder = u.placeholder /\ ph]]]
      OBVIOUS
    <3> HIDE DEF u, nd, f
    <3> QED
      BY <2>2, <3>1, <3>2 DEF f
  <2>4. WasPlaceholder(h, n) = u.placeholder /\ Prior(h, n) = u.versions
    BY <1>3, <2>1 DEF WasPlaceholder, Prior, NodeType
  <2>5. f = Inserted(h.node, n, nd)
    <3> HIDE DEF nd
    <3>1. DOMAIN h.node \cup {n} = DOMAIN h.node
      BY <1>3
    <3>2. f = [y \in DOMAIN h.node |-> IF y = n THEN nd ELSE h.node[y]]
      BY <1>1 DEF IsTable
    <3> HIDE DEF f
    <3> QED
      BY <3>1, <3>2 DEF Inserted
  <2> HIDE DEF u
  <2>6. WithNode(h, n, [placeholder |-> WasPlaceholder(h, n) /\ ph, versions |-> Prior(h, n)], h.embedded)
          = [node |-> f, edge |-> h.edge, open |-> h.open, embedded |-> h.embedded]
    BY <2>4, <2>5 DEF WithNode
  <2> HIDE DEF f
  <2>7. [h EXCEPT !.node = f] = [node |-> f, edge |-> h.edge, open |-> h.open, embedded |-> h.embedded]
    BY <1>1 DEF IsRecord
  <2> QED
    BY <2>3, <2>6, <2>7
<1> QED
  BY <1>2, <1>3

Redated(e, n, ws) == [e EXCEPT !.node[n].versions = ws]
Reindexed(e, n, ws, emb) == [e EXCEPT !.node[n].versions = ws, !.embedded = emb]

LEMMA WithNodeAgain ==
  ASSUME NEW h, NEW n, NEW ph, NEW vs, NEW ws, NEW emb
  PROVE LET e == WithNode(h, n, [placeholder |-> ph, versions |-> vs], emb) IN
        /\ Redated(e, n, ws) = WithNode(h, n, [placeholder |-> ph, versions |-> ws], emb)
        /\ \A emb2 : Reindexed(e, n, ws, emb2) = WithNode(h, n, [placeholder |-> ph, versions |-> ws], emb2)
<1> DEFINE e == WithNode(h, n, [placeholder |-> ph, versions |-> vs], emb)
<1> SUFFICES ASSUME NEW emb2
             PROVE /\ Redated(e, n, ws) = WithNode(h, n, [placeholder |-> ph, versions |-> ws], emb)
                   /\ Reindexed(e, n, ws, emb2) = WithNode(h, n, [placeholder |-> ph, versions |-> ws], emb2)
  OBVIOUS
<1> DEFINE v == [placeholder |-> ph, versions |-> vs]
           w == [placeholder |-> ph, versions |-> ws]
           f == Inserted(h.node, n, w)
<1>1. /\ IsRecord(e) /\ IsTable(e.node) /\ DOMAIN e.node = DOMAIN h.node \cup {n}
      /\ e.node[n] = v /\ \A m \in DOMAIN h.node : m # n => e.node[m] = h.node[m]
      /\ e.edge = h.edge /\ e.open = h.open /\ e.embedded = emb
  <2> HIDE DEF v
  <2> QED
    BY WithNodeFacts DEF v
<1> HIDE DEF e
<1>2. [e.node[n] EXCEPT !.versions = ws] = w
  BY <1>1
<1>3. [e.node EXCEPT ![n] = w] = f
  <2> HIDE DEF w, v
  <2>1. [e.node EXCEPT ![n] = w] = [y \in DOMAIN h.node \cup {n} |-> IF y = n THEN w ELSE h.node[y]]
    <3>1. e.node = [y \in DOMAIN h.node \cup {n} |-> e.node[y]]
      BY <1>1 DEF IsTable
    <3> QED
      BY <1>1, <3>1
  <2> QED
    BY <2>1 DEF Inserted
<1>4. [e EXCEPT !.node[n].versions = ws, !.embedded = emb2]
        = [node |-> f, edge |-> h.edge, open |-> h.open, embedded |-> emb2]
  <2>1. [e EXCEPT !.node[n].versions = ws, !.embedded = emb2]
          = [e EXCEPT !.node = [e.node EXCEPT ![n] = [e.node[n] EXCEPT !.versions = ws]], !.embedded = emb2]
    <3>1. e = [node |-> e.node, edge |-> e.edge, open |-> e.open, embedded |-> e.embedded]
      BY <1>1 DEF IsRecord
    <3> QED
      BY <3>1
  <2>2. [e EXCEPT !.node[n].versions = ws, !.embedded = emb2] = [e EXCEPT !.node = f, !.embedded = emb2]
    <3> HIDE DEF w, f
    <3> QED
      BY <2>1, <1>2, <1>3
  <2> DEFINE en == e.node
  <2>3. e = [node |-> en, edge |-> h.edge, open |-> h.open, embedded |-> emb]
    BY <1>1 DEF IsRecord
  <2> HIDE DEF en, f
  <2> DEFINE d == [e EXCEPT !.node = f]
  <2>a. d = [node |-> f, edge |-> h.edge, open |-> h.open, embedded |-> emb]
    BY <2>3
  <2>b. [d EXCEPT !.embedded = emb2] = [node |-> f, edge |-> h.edge, open |-> h.open, embedded |-> emb2]
    <3> HIDE DEF d
    <3> QED
      BY <2>a
  <2>4. [e EXCEPT !.node = f, !.embedded = emb2] = [node |-> f, edge |-> h.edge, open |-> h.open, embedded |-> emb2]
    BY <2>b, Zenon
  <2> QED
    BY <2>2, <2>4
<1>5. [e EXCEPT !.node[n].versions = ws] = [node |-> f, edge |-> h.edge, open |-> h.open, embedded |-> emb]
  <2>1. [e EXCEPT !.node[n].versions = ws]
          = [e EXCEPT !.node = [e.node EXCEPT ![n] = [e.node[n] EXCEPT !.versions = ws]]]
    OBVIOUS
  <2>2. [e EXCEPT !.node[n].versions = ws] = [e EXCEPT !.node = f]
    <3> HIDE DEF w, f
    <3> QED
      BY <2>1, <1>2, <1>3
  <2> DEFINE en == e.node
  <2>3. e = [node |-> en, edge |-> h.edge, open |-> h.open, embedded |-> emb]
    BY <1>1 DEF IsRecord
  <2> HIDE DEF f, en
  <2>4. [e EXCEPT !.node = f] = [node |-> f, edge |-> h.edge, open |-> h.open, embedded |-> emb]
    BY <2>3
  <2> QED
    BY <2>2, <2>4
<1> QED
  BY <1>4, <1>5 DEF WithNode, Redated, Reindexed

Observed(h, n, p, ts, o) ==
  IF Current(Prior(h, n)) /\ Last(Prior(h, n)).props = p
  THEN WithNode(h, n, [placeholder |-> FALSE, versions |-> Prior(h, n)], h.embedded)
  ELSE WithNode(h, n, [placeholder |-> FALSE, versions |-> Opened(Prior(h, n), ts, p, o)],
                IF p \in Embedding THEN h.embedded \cup {n} ELSE h.embedded \ {n})

LEMMA ObserveNodeIs ==
  ASSUME NEW h, Typed(h), NEW n \in NameSet, NEW p, NEW ts, NEW o
  PROVE ObserveNode(h, n, p, ts, o) = Observed(h, n, p, ts, o)
<1> DEFINE vs == Prior(h, n)
           e == EnsureNode(h, n, FALSE)
           no == FALSE
           nd == [placeholder |-> no, versions |-> vs]
           emb == IF p \in Embedding THEN h.embedded \cup {n} ELSE h.embedded \ {n}
           ws == Append(Closed(vs, ts), Version(p, ts, o))
<1>1. e = WithNode(h, n, nd, h.embedded)
  <2>1. (WasPlaceholder(h, n) /\ FALSE) = FALSE
    OBVIOUS
  <2> QED
    BY <2>1, EnsureNodeIs
<1> HIDE DEF e
<1>2. e.node[n] = nd /\ e.embedded = h.embedded
  <2> HIDE DEF nd
  <2> QED
    BY <1>1, WithNodeFacts
<1>3. HasOpenVersion(e.node[n]) /\ Last(e.node[n].versions).props = p
        <=> Current(vs) /\ Last(vs).props = p
  BY <1>2 DEF HasOpenVersion, Current
<1>4. CASE Current(vs) /\ Last(vs).props = p
  <2>1. ObserveNode(h, n, p, ts, o) = e
    BY <1>3, <1>4 DEF ObserveNode, e
  <2> QED
    BY <1>1, <1>4, <2>1 DEF Observed
<1>5. CASE ~(Current(vs) /\ Last(vs).props = p)
  <2>1. ObserveNode(h, n, p, ts, o) =
          [e EXCEPT !.node[n].versions = Append(Closed(@, ts), Version(p, ts, o)),
                    !.embedded = IF p \in Embedding THEN @ \cup {n} ELSE @ \ {n}]
    BY <1>3, <1>5 DEF ObserveNode, e
  <2>2. e.node[n].versions = vs
    BY <1>2
  <2>3. ObserveNode(h, n, p, ts, o) = Reindexed(e, n, ws, emb)
    <3> HIDE DEF vs
    <3> QED
      BY <1>2, <2>1, <2>2 DEF Reindexed
  <2>4. ObserveNode(h, n, p, ts, o) = WithNode(h, n, [placeholder |-> no, versions |-> ws], emb)
    <3> HIDE DEF ws, emb, vs, no
    <3> QED
      BY <1>1, <2>3, WithNodeAgain
  <2>5. Observed(h, n, p, ts, o) = WithNode(h, n, [placeholder |-> FALSE, versions |-> ws], emb)
    BY <1>5 DEF Observed, Opened
  <2> QED
    BY <2>4, <2>5
<1> QED
  BY <1>4, <1>5

Placed(h, n, ts, o) ==
  WithNode(h, n, [placeholder |-> WasPlaceholder(h, n),
                  versions |-> IF Current(Prior(h, n)) THEN Prior(h, n)
                               ELSE Opened(Prior(h, n), ts, NullProps, o)], h.embedded)

LEMMA ObservePlaceholderIs ==
  ASSUME NEW h, Typed(h), NEW n \in NameSet, NEW ts, NEW o
  PROVE ObservePlaceholder(h, n, ts, o) = Placed(h, n, ts, o)
<1> DEFINE vs == Prior(h, n)
           ph == WasPlaceholder(h, n)
           e == EnsureNode(h, n, TRUE)
           nd == [placeholder |-> ph, versions |-> vs]
           ws == Append(vs, Version(NullProps, ts, o))
<1>1. e = WithNode(h, n, nd, h.embedded)
  <2>1. WasPlaceholder(h, n) \in BOOLEAN
    BY DEF WasPlaceholder, Typed, NodeType
  <2>2. (WasPlaceholder(h, n) /\ TRUE) = WasPlaceholder(h, n)
    BY <2>1
  <2> QED
    BY <2>2, EnsureNodeIs
<1> HIDE DEF e, ph
<1>2. e.node[n] = nd
  <2> HIDE DEF nd
  <2> QED
    BY <1>1, WithNodeFacts
<1>3. HasOpenVersion(e.node[n]) <=> Current(vs)
  BY <1>2 DEF HasOpenVersion, Current
<1>4. CASE Current(vs)
  <2>1. ObservePlaceholder(h, n, ts, o) = e
    BY <1>3, <1>4 DEF ObservePlaceholder, e
  <2> QED
    BY <1>1, <1>4, <2>1 DEF Placed, ph
<1>5. CASE ~Current(vs)
  <2>1. ObservePlaceholder(h, n, ts, o) =
          [e EXCEPT !.node[n].versions = Append(@, Version(NullProps, ts, o))]
    BY <1>3, <1>5 DEF ObservePlaceholder, e
  <2>2. e.node[n].versions = vs
    BY <1>2
  <2>3. ObservePlaceholder(h, n, ts, o) = Redated(e, n, ws)
    <3> HIDE DEF vs
    <3> QED
      BY <2>1, <2>2 DEF Redated
  <2>4. ObservePlaceholder(h, n, ts, o) = WithNode(h, n, [placeholder |-> ph, versions |-> ws], h.embedded)
    <3> HIDE DEF ws, vs
    <3> QED
      BY <1>1, <2>3, WithNodeAgain
  <2>5. Opened(vs, ts, NullProps, o) = ws
    BY <1>5 DEF Opened, Closed, Current
  <2>6. Placed(h, n, ts, o) = WithNode(h, n, [placeholder |-> ph, versions |-> ws], h.embedded)
    BY <1>5, <2>5 DEF Placed, ph
  <2> QED
    BY <2>4, <2>6
<1> QED
  BY <1>4, <1>5

\* What they do to intervals: those of one node may be changed, at ts.
NodeChange(h, k, n, ts) ==
  /\ k.edge = h.edge /\ DOMAIN k.node = DOMAIN h.node \cup {n}
  /\ \A m \in DOMAIN h.node : m # n => k.node[m] = h.node[m]
  /\ \/ k.node[n].versions = Prior(h, n)
     \/ k.node[n].versions = Closed(Prior(h, n), ts)
     \/ \E p \in Contents, o \in Labels : k.node[n].versions = Opened(Prior(h, n), ts, p, o)

LEMMA PriorType ==
  ASSUME NEW h, Typed(h), NEW n
  PROVE /\ Prior(h, n) \in Seq(VersionType) /\ WasPlaceholder(h, n) \in BOOLEAN
        /\ n \in DOMAIN h.node => Prior(h, n) # <<>>
<1>1. CASE n \in DOMAIN h.node
  <2> DEFINE u == h.node[n]
  <2>1. u \in NodeType
    BY <1>1 DEF Typed
  <2>2. Prior(h, n) = u.versions /\ WasPlaceholder(h, n) = u.placeholder
    <3>1. u.placeholder \in BOOLEAN
      BY <2>1 DEF NodeType
    <3> QED
      BY <1>1, <3>1 DEF Prior, WasPlaceholder
  <2> HIDE DEF u
  <2> QED
    BY <1>1, <2>1, <2>2 DEF NodeType
<1>2. CASE n \notin DOMAIN h.node
  BY <1>2 DEF Prior, WasPlaceholder
<1> QED
  BY <1>1, <1>2

LEMMA ObserveNodeGood ==
  ASSUME scope \in Scopes, NEW h, Good(h), NEW n \in NameSet, NEW p \in Contents,
         NEW ts \in Time, NEW o \in Labels, NEW k, k = ObserveNode(h, n, p, ts, o)
  PROVE /\ Good(k) /\ NodeChange(h, k, n, ts) /\ k.open = h.open
        /\ Current(k.node[n].versions) /\ ~k.node[n].placeholder /\ Last(k.node[n].versions).props = p
<1>1. Typed(h) /\ NodesIndexed(h)
  BY DEF Good
<1>2. k = Observed(h, n, p, ts, o)
  BY <1>1, ObserveNodeIs
<1> DEFINE vs == Prior(h, n)
           os == Opened(vs, ts, p, o)
<1>3. vs \in Seq(VersionType)
  BY <1>1, PriorType, Zenon
<1>4. os \in Seq(VersionType) \ {<<>>} /\ Current(os) /\ Last(os).props = p
  <2>1. os \in Seq(VersionType) \ {<<>>} /\ Current(os) /\ Last(os) = Version(p, ts, o)
    BY <1>3, OpenedFacts
  <2> HIDE DEF os
  <2> QED
    BY <2>1 DEF Version
<1>5. CASE Current(vs) /\ Last(vs).props = p
  <2> DEFINE nd == [placeholder |-> FALSE, versions |-> vs]
  <2>1. k = WithNode(h, n, nd, h.embedded)
    BY <1>2, <1>5 DEF Observed
  <2>2. nd \in NodeType /\ nd.versions = vs /\ nd.placeholder = FALSE
    BY <1>3, <1>5 DEF NodeType, Current
  <2>3. n \in h.embedded <=> Current(vs) /\ Last(vs).props \in Embedding
    BY <1>1, <1>5 DEF NodesIndexed, Prior, Current
  <2> HIDE DEF nd, vs
  <2>4. Good(k)
    BY <1>5, <2>1, <2>2, <2>3, WithNodeGood
  <2>5. /\ DOMAIN k.node = DOMAIN h.node \cup {n} /\ k.node[n] = nd /\ k.edge = h.edge /\ k.open = h.open
        /\ \A m \in DOMAIN h.node : m # n => k.node[m] = h.node[m]
    BY <2>1, WithNodeFacts
  <2> QED
    BY <1>5, <2>2, <2>4, <2>5 DEF NodeChange, vs
<1>6. CASE ~(Current(vs) /\ Last(vs).props = p)
  <2> DEFINE nd == [placeholder |-> FALSE, versions |-> os]
             emb == IF p \in Embedding THEN h.embedded \cup {n} ELSE h.embedded \ {n}
  <2>1. k = WithNode(h, n, nd, emb)
    BY <1>2, <1>6 DEF Observed
  <2>2. nd \in NodeType /\ nd.versions = os /\ nd.placeholder = FALSE
    <3> HIDE DEF os
    <3> QED
      BY <1>4 DEF NodeType
  <2>3. (n \in emb <=> p \in Embedding) /\ \A m : m # n => (m \in emb <=> m \in h.embedded)
    OBVIOUS
  <2> HIDE DEF nd, os, emb
  <2>4. Good(k)
    BY <1>4, <2>1, <2>2, <2>3, WithNodeGood
  <2>5. /\ DOMAIN k.node = DOMAIN h.node \cup {n} /\ k.node[n] = nd /\ k.edge = h.edge /\ k.open = h.open
        /\ \A m \in DOMAIN h.node : m # n => k.node[m] = h.node[m]
    BY <2>1, WithNodeFacts
  <2> QED
    BY <1>3, <1>4, <2>2, <2>4, <2>5 DEF NodeChange, os
<1> QED
  BY <1>5, <1>6

LEMMA ObservePlaceholderGood ==
  ASSUME scope \in Scopes, NEW h, Good(h), NEW n \in NameSet,
         NEW ts \in Time, NEW o \in Labels, NEW k, k = ObservePlaceholder(h, n, ts, o)
  PROVE /\ Good(k) /\ NodeChange(h, k, n, ts) /\ k.open = h.open
        /\ Current(k.node[n].versions) /\ k.node[n].placeholder = WasPlaceholder(h, n)
        /\ Current(Prior(h, n)) => k.node[n].versions = Prior(h, n)
<1>1. Typed(h) /\ NodesIndexed(h) /\ PlaceholdersEmpty(h)
  BY DEF Good
<1> DEFINE vs == Prior(h, n)
           ph == WasPlaceholder(h, n)
           os == Opened(vs, ts, NullProps, o)
           ws == IF Current(vs) THEN vs ELSE os
           nd == [placeholder |-> ph, versions |-> ws]
<1>2. k = WithNode(h, n, nd, h.embedded)
  BY <1>1, ObservePlaceholderIs DEF Placed
<1>3. vs \in Seq(VersionType) /\ ph \in BOOLEAN /\ NullProps \in Contents /\ NullProps \notin Embedding
  <2>1. vs \in Seq(VersionType) /\ ph \in BOOLEAN
    BY <1>1, PriorType, Zenon
  <2>2. NullProps \in Contents /\ NullProps \notin Embedding
    BY ScopeFacts DEF Contents
  <2> QED
    BY <2>1, <2>2
<1>4. os \in Seq(VersionType) \ {<<>>} /\ Current(os) /\ Last(os).props = NullProps
  <2>1. os \in Seq(VersionType) \ {<<>>} /\ Current(os) /\ Last(os) = Version(NullProps, ts, o)
    BY <1>3, OpenedFacts
  <2> HIDE DEF os
  <2> QED
    BY <2>1 DEF Version
<1>5. ws \in Seq(VersionType) \ {<<>>} /\ Current(ws)
  <2> HIDE DEF vs, os
  <2> QED
    BY <1>3, <1>4 DEF Current
<1>6. n \in h.embedded <=> Current(vs) /\ Last(vs).props \in Embedding
  BY <1>1 DEF NodesIndexed, Prior, Current
<1>7. ph /\ Current(vs) => Last(vs).props = NullProps
  BY <1>1 DEF PlaceholdersEmpty, Prior, WasPlaceholder, Current
<1> HIDE DEF vs, ph, os
<1>8. nd \in NodeType /\ nd.versions = ws /\ nd.placeholder = ph
  <2> HIDE DEF ws
  <2> QED
    BY <1>3, <1>5 DEF NodeType
<1>9. n \in h.embedded <=> Current(ws) /\ Last(ws).props \in Embedding
  BY <1>3, <1>4, <1>6
<1>10. ph /\ Current(ws) => Last(ws).props = NullProps
  BY <1>4, <1>7
<1>11. NodeChange(h, k, n, ts) /\ k.node[n] = nd /\ k.open = h.open
  <2> HIDE DEF nd, ws
  <2>1. /\ DOMAIN k.node = DOMAIN h.node \cup {n} /\ k.node[n] = nd /\ k.edge = h.edge /\ k.open = h.open
        /\ \A m \in DOMAIN h.node : m # n => k.node[m] = h.node[m]
    BY <1>2, WithNodeFacts
  <2>2. ws = vs \/ ws = os
    BY DEF ws
  <2> QED
    BY <1>3, <1>8, <2>1, <2>2 DEF NodeChange, vs, os
<1>12. Good(k)
  <2> HIDE DEF nd, ws
  <2> QED
    BY <1>2, <1>5, <1>8, <1>9, <1>10, WithNodeGood
<1> QED
  BY <1>5, <1>8, <1>11, <1>12 DEF vs, ph

-----------------------------------------------------------------------------
(* Edges.                                                                  *)

Ended(e, ts) == [e EXCEPT !.to = ts]

LEMMA EndedFacts ==
  ASSUME scope \in Scopes, NEW e \in EdgeType, NEW ts \in Time
  PROVE /\ Ended(e, ts) \in EdgeType /\ Triple(Ended(e, ts)) = Triple(e) /\ ~IsOpen(Ended(e, ts))
        /\ Ended(e, ts).from = e.from /\ Ended(e, ts).to = ts /\ Ended(e, ts).origin = e.origin
        /\ Ended(e, ts).src = e.src /\ Ended(e, ts).dst = e.dst
<1>1. ts # T_MAX
  BY ScopeFacts
<1>2. /\ Ended(e, ts).from = e.from /\ Ended(e, ts).to = ts /\ Ended(e, ts).origin = e.origin
      /\ Ended(e, ts).src = e.src /\ Ended(e, ts).dst = e.dst /\ Ended(e, ts).kind = e.kind
      /\ Ended(e, ts) \in EdgeType
  BY DEF Ended, EdgeType
<1> QED
  BY <1>1, <1>2 DEF Triple, IsOpen

LEMMA TripleFacts ==
  ASSUME NEW e \in EdgeType, NEW d \in EdgeType, Triple(e) = Triple(d)
  PROVE e.src = d.src /\ e.dst = d.dst /\ e.kind = d.kind
BY DEF Triple

LEMMA CloseEdgesGood ==
  ASSUME scope \in Scopes, NEW h, Good(h), NEW ts \in Time,
         NEW ids \in SUBSET {i \in DOMAIN h.edge : IsOpen(h.edge[i])}, NEW k, k = CloseEdges(h, ids, ts)
  PROVE /\ Good(k) /\ k.node = h.node /\ k.embedded = h.embedded /\ Len(k.edge) = Len(h.edge)
        /\ \A i \in DOMAIN h.edge : k.edge[i] = IF i \in ids THEN Ended(h.edge[i], ts) ELSE h.edge[i]
<1>1. Typed(h) /\ EdgesIndexed(h) /\ NodesIndexed(h) /\ PlaceholdersEmpty(h) /\ EndsLive(h)
  BY DEF Good
<1>2. IsRecord(h) /\ h.edge \in Seq(EdgeType)
  BY <1>1 DEF Typed
<1> DEFINE E == [i \in DOMAIN h.edge |-> IF i \in ids THEN Ended(h.edge[i], ts) ELSE h.edge[i]]
           T == {Triple(h.edge[i]) : i \in ids}
           O == Restrict(h.open, DOMAIN h.open \ T)
<1>3. k = [node |-> h.node, edge |-> E, open |-> O, embedded |-> h.embedded]
  <2>1. k = [h EXCEPT !.edge = E, !.open = O]
    BY DEF CloseEdges, Ended
  <2> HIDE DEF E, O
  <2> DEFINE d == [h EXCEPT !.edge = E]
             hn == h.node
             he == h.edge
             ho == h.open
             hm == h.embedded
  <2>2. h = [node |-> hn, edge |-> he, open |-> ho, embedded |-> hm]
    BY <1>2 DEF IsRecord
  <2>3. d = [node |-> hn, edge |-> E, open |-> ho, embedded |-> hm]
    <3> HIDE DEF hn, he, ho, hm
    <3> QED
      BY <2>2
  <2>4. [d EXCEPT !.open = O] = [node |-> hn, edge |-> E, open |-> O, embedded |-> hm]
    <3> HIDE DEF d, hn, he, ho, hm
    <3> QED
      BY <2>3
  <2>5. k = [d EXCEPT !.open = O]
    BY <2>1, Zenon
  <2> QED
    BY <2>4, <2>5
<1>4. k.node = h.node /\ k.edge = E /\ k.open = O /\ k.embedded = h.embedded /\ IsRecord(k)
  <2> HIDE DEF E, O
  <2> QED
    BY <1>3, Fields
<1>5. ASSUME NEW i \in DOMAIN h.edge PROVE h.edge[i] \in EdgeType /\ E[i] \in EdgeType
  <2>1. h.edge[i] \in EdgeType
    BY <1>2
  <2> QED
    BY <2>1, EndedFacts
<1>6. E \in Seq(EdgeType) /\ Len(E) = Len(h.edge) /\ DOMAIN E = DOMAIN h.edge
  <2>1. Len(h.edge) \in Nat /\ DOMAIN h.edge = 1 .. Len(h.edge)
    BY <1>2
  <2>2. \A i \in 1 .. Len(h.edge) : E[i] \in EdgeType
    BY <1>5, <2>1
  <2>3. E = [i \in 1 .. Len(h.edge) |-> E[i]]
    BY <2>1
  <2> HIDE DEF E
  <2> DEFINE len == Len(h.edge)
  <2> HIDE DEF len
  <2>4. E \in Seq(EdgeType) /\ Len(E) = len
    <3>1. E \in [1 .. len -> EdgeType] /\ len \in Nat
      BY <2>1, <2>2, <2>3 DEF len
    <3> QED
      BY <3>1, MadeSeq
  <2> QED
    BY <2>1, <2>4 DEF len
<1>7. ASSUME NEW i \in DOMAIN h.edge
      PROVE /\ E[i] = IF i \in ids THEN Ended(h.edge[i], ts) ELSE h.edge[i]
            /\ E[i].src = h.edge[i].src /\ E[i].dst = h.edge[i].dst /\ Triple(E[i]) = Triple(h.edge[i])
            /\ IsOpen(E[i]) <=> IsOpen(h.edge[i]) /\ i \notin ids
  <2>1. E[i] = IF i \in ids THEN Ended(h.edge[i], ts) ELSE h.edge[i]
    OBVIOUS
  <2> HIDE DEF E
  <2> QED
    BY <1>5, <2>1, EndedFacts
<1>8. /\ IsTable(O) /\ DOMAIN O = DOMAIN h.open \ T /\ \A t \in DOMAIN O : O[t] = h.open[t]
  BY DEF Restrict, IsTable
<1>9. ASSUME NEW i \in DOMAIN h.edge, IsOpen(h.edge[i])
      PROVE /\ Triple(h.edge[i]) \in DOMAIN h.open /\ h.open[Triple(h.edge[i])] = i
            /\ Triple(h.edge[i]) \in T <=> i \in ids
  <2>1. Triple(h.edge[i]) \in DOMAIN h.open /\ h.open[Triple(h.edge[i])] = i
    BY <1>1, <1>9 DEF EdgesIndexed
  <2>2. ASSUME NEW j \in ids, Triple(h.edge[j]) = Triple(h.edge[i]) PROVE i = j
    BY <1>1, <2>1, <2>2 DEF EdgesIndexed
  <2> QED
    BY <2>1, <2>2
<1> HIDE DEF E, O
<1>10. Typed(k)
  BY <1>1, <1>4, <1>6, <1>7, <1>8 DEF Typed
<1>11. EdgesIndexed(k)
  <2>1. ASSUME NEW t \in DOMAIN O
        PROVE O[t] \in DOMAIN E /\ IsOpen(E[O[t]]) /\ Triple(E[O[t]]) = t
    <3>1. t \in DOMAIN h.open /\ t \notin T /\ O[t] = h.open[t]
      BY <1>8
    <3>2. h.open[t] \in DOMAIN h.edge /\ IsOpen(h.edge[h.open[t]]) /\ Triple(h.edge[h.open[t]]) = t
      BY <1>1, <3>1 DEF EdgesIndexed
    <3>3. h.open[t] \notin ids
      BY <1>9, <3>1, <3>2
    <3> QED
      BY <1>6, <1>7, <3>1, <3>2, <3>3
  <2>2. ASSUME NEW i \in DOMAIN E, IsOpen(E[i]) PROVE Triple(E[i]) \in DOMAIN O /\ O[Triple(E[i])] = i
    <3>1. i \in DOMAIN h.edge /\ IsOpen(h.edge[i]) /\ i \notin ids /\ Triple(E[i]) = Triple(h.edge[i])
      BY <1>6, <1>7, <2>2
    <3> QED
      BY <1>8, <1>9, <3>1
  <2> QED
    BY <1>4, <2>1, <2>2 DEF EdgesIndexed
<1>12. NodesIndexed(k) /\ PlaceholdersEmpty(k)
  BY <1>1, <1>4 DEF NodesIndexed, PlaceholdersEmpty
<1>13. EndsLive(k)
  <2>1. OpenNodes(k) = OpenNodes(h)
    BY <1>4 DEF OpenNodes
  <2> QED
    BY <1>1, <1>4, <1>6, <1>7, <2>1 DEF EndsLive
<1> QED
  BY <1>4, <1>6, <1>7, <1>10, <1>11, <1>12, <1>13 DEF Good

\* What an operation at ts does to intervals: it ends open ones and begins new ones, at ts.
VersionsChange(vs, ws, ts) ==
  \/ ws = vs
  \/ ws = Closed(vs, ts)
  \/ \E p \in Contents, o \in Labels : ws = Opened(vs, ts, p, o)

EdgesChange(h, k, ts) ==
  /\ Len(k.edge) \in {Len(h.edge), Len(h.edge) + 1}
  /\ \A i \in DOMAIN h.edge :
       k.edge[i] = h.edge[i] \/ (IsOpen(h.edge[i]) /\ k.edge[i] = Ended(h.edge[i], ts))
  /\ Len(k.edge) = Len(h.edge) + 1 =>
       LET e == k.edge[Len(k.edge)] IN e.from = ts /\ IsOpen(e) /\ Triple(e) \notin DOMAIN h.open

Change(h, k, ts) ==
  /\ DOMAIN h.node \subseteq DOMAIN k.node
  /\ \A n \in DOMAIN k.node : VersionsChange(Prior(h, n), k.node[n].versions, ts)
  /\ EdgesChange(h, k, ts)

LEMMA NodeChanges ==
  ASSUME NEW h, Typed(h), NEW n, NEW ts, NEW k, NodeChange(h, k, n, ts)
  PROVE Change(h, k, ts)
<1>1. Len(h.edge) \in Nat /\ k.edge = h.edge
  BY DEF Typed, NodeChange
<1>2. EdgesChange(h, k, ts)
  BY <1>1 DEF EdgesChange
<1>3. ASSUME NEW m \in DOMAIN k.node PROVE VersionsChange(Prior(h, m), k.node[m].versions, ts)
  <2>1. CASE m = n
    BY <2>1 DEF NodeChange, VersionsChange
  <2>2. CASE m # n
    BY <2>2 DEF NodeChange, VersionsChange, Prior
  <2> QED
    BY <2>1, <2>2
<1>4. DOMAIN h.node \subseteq DOMAIN k.node
  BY DEF NodeChange
<1> QED
  BY <1>2, <1>3, <1>4 DEF Change

\* Within an observation the open nodes stay, and so do the open edges.
Grows(h, k) == OpenNodes(h) \subseteq OpenNodes(k) /\ DOMAIN h.open \subseteq DOMAIN k.open

LEMMA WithNodeSame ==
  ASSUME NEW h, Typed(h), NEW n \in DOMAIN h.node
  PROVE h = WithNode(h, n, [placeholder |-> h.node[n].placeholder, versions |-> h.node[n].versions], h.embedded)
<1> DEFINE u == h.node[n]
           nd == [placeholder |-> u.placeholder, versions |-> u.versions]
<1>1. u \in NodeType
  BY DEF Typed
<1>2. nd = u
  <2> HIDE DEF u
  <2> QED
    BY <1>1 DEF NodeType
<1> HIDE DEF nd
<1>3. Inserted(h.node, n, nd) = h.node
  <2>1. h.node = [y \in DOMAIN h.node |-> h.node[y]] /\ DOMAIN h.node \cup {n} = DOMAIN h.node
    BY DEF Typed, IsTable
  <2> QED
    BY <1>2, <2>1 DEF Inserted, u
<1>4. WithNode(h, n, nd, h.embedded) = [node |-> h.node, edge |-> h.edge, open |-> h.open, embedded |-> h.embedded]
  BY <1>3 DEF WithNode
<1> QED
  BY <1>4 DEF Typed, IsRecord, nd

LEMMA RetireNodeGood ==
  ASSUME scope \in Scopes, NEW h, Good(h), NEW n \in DOMAIN h.node,
         NEW ts \in Time, NEW k, k = RetireNode(h, n, ts)
  PROVE /\ Good(k) /\ Change(h, k, ts) /\ Len(k.edge) = Len(h.edge) /\ DOMAIN k.node = DOMAIN h.node
        /\ \A m \in DOMAIN h.node : m # n => k.node[m] = h.node[m]
        /\ k.node[n].placeholder = h.node[n].placeholder /\ ~Current(k.node[n].versions)
        /\ \A i \in DOMAIN h.edge :
             k.edge[i] = IF IsOpen(h.edge[i]) /\ n \in {h.edge[i].src, h.edge[i].dst}
                         THEN Ended(h.edge[i], ts) ELSE h.edge[i]
<1> DEFINE ids == {i \in DOMAIN h.edge : IsOpen(h.edge[i]) /\ n \in {h.edge[i].src, h.edge[i].dst}}
           c == CloseEdges(h, ids, ts)
           ws == Closed(h.node[n].versions, ts)
           ph == h.node[n].placeholder
           nd == [placeholder |-> ph, versions |-> ws]
           emb == c.embedded \ {n}
<1>1. k = [c EXCEPT !.node[n].versions = Closed(@, ts), !.embedded = @ \ {n}]
  <2> DEFINE r == [c EXCEPT !.node[n].versions = Closed(@, ts), !.embedded = @ \ {n}]
  <2>1. RetireNode(h, n, ts) = IF n \notin DOMAIN h.node THEN h ELSE r
    BY Zenon DEF RetireNode
  <2> QED
    BY <2>1, Zenon
<1>2. ids \in SUBSET {i \in DOMAIN h.edge : IsOpen(h.edge[i])}
  OBVIOUS
<1>3. /\ Good(c) /\ c.node = h.node /\ c.embedded = h.embedded /\ Len(c.edge) = Len(h.edge)
      /\ \A i \in DOMAIN h.edge : c.edge[i] = IF i \in ids THEN Ended(h.edge[i], ts) ELSE h.edge[i]
  <2> HIDE DEF ids
  <2> QED
    BY <1>2, CloseEdgesGood
<1> HIDE DEF c
<1>4. Typed(h) /\ Typed(c) /\ n \in DOMAIN c.node /\ NodesIndexed(c)
  BY <1>3 DEF Good
<1>5. h.node[n] \in NodeType /\ h.node[n].versions \in Seq(VersionType) \ {<<>>} /\ ph \in BOOLEAN
  <2>1. h.node[n] \in NodeType
    BY <1>4 DEF Typed
  <2> QED
    BY <2>1 DEF NodeType
<1>6. ws \in Seq(VersionType) \ {<<>>} /\ ~Current(ws)
  <2>1. ws \in Seq(VersionType) /\ Len(ws) = Len(h.node[n].versions) /\ ~Current(ws)
    BY <1>5, ClosedFacts
  <2>2. Len(ws) # 0
    BY <1>5, <2>1
  <2> HIDE DEF ws
  <2>3. ws # <<>>
    BY <2>2
  <2> QED
    BY <2>1, <2>3
<1>7. k = WithNode(c, n, nd, emb)
  <2>1. k = Reindexed(c, n, ws, emb)
    BY <1>1, <1>3 DEF Reindexed
  <2>2. c = WithNode(c, n, [placeholder |-> ph, versions |-> h.node[n].versions], c.embedded)
    BY <1>3, <1>4, WithNodeSame
  <2>3. \A w : Reindexed(c, n, ws, w) = WithNode(c, n, [placeholder |-> ph, versions |-> ws], w)
    <3> DEFINE vs == h.node[n].versions
    <3> HIDE DEF ws, ph, vs
    <3>1. LET e == WithNode(c, n, [placeholder |-> ph, versions |-> vs], c.embedded) IN
          \A w : Reindexed(e, n, ws, w) = WithNode(c, n, [placeholder |-> ph, versions |-> ws], w)
      BY WithNodeAgain
    <3> QED
      BY <2>2, <3>1 DEF vs
  <2> QED
    BY <2>1, <2>3
<1>8. nd \in NodeType /\ nd.versions = ws /\ nd.placeholder = ph
  <2> HIDE DEF ws, ph
  <2> QED
    BY <1>5, <1>6 DEF NodeType
<1> HIDE DEF nd, ws
<1>9. Len(h.edge) \in Nat /\ DOMAIN c.edge = DOMAIN h.edge
  BY <1>3, <1>4 DEF Typed
<1>10. ASSUME NEW i \in DOMAIN c.edge, IsOpen(c.edge[i]) PROVE n \notin {c.edge[i].src, c.edge[i].dst}
  <2>1. i \in DOMAIN h.edge /\ h.edge[i] \in EdgeType
    BY <1>4, <1>9 DEF Typed
  <2>2. i \notin ids
    <3> HIDE DEF ids
    <3> QED
      BY <1>3, <1>10, <2>1, EndedFacts
  <2>3. c.edge[i] = h.edge[i]
    BY <1>3, <2>1, <2>2
  <2> QED
    BY <1>10, <2>1, <2>2, <2>3
<1>11. n \in NameSet
  BY <1>4 DEF Typed
<1>12. Good(k)
  BY <1>3, <1>6, <1>7, <1>8, <1>10, <1>11, WithNodeGood
<1>13. /\ DOMAIN k.node = DOMAIN h.node \cup {n} /\ k.node[n] = nd /\ k.edge = c.edge
       /\ \A m \in DOMAIN h.node : m # n => k.node[m] = h.node[m]
  BY <1>3, <1>7, WithNodeFacts
<1>14. EdgesChange(h, k, ts)
  <2> HIDE DEF ids
  <2>1. \A i \in ids : IsOpen(h.edge[i])
    BY DEF ids
  <2> QED
    BY <1>3, <1>9, <1>13, <2>1 DEF EdgesChange
<1>15. ASSUME NEW m \in DOMAIN k.node PROVE VersionsChange(Prior(h, m), k.node[m].versions, ts)
  <2>1. CASE m = n
    BY <1>8, <1>13, <2>1 DEF VersionsChange, Prior, ws
  <2>2. CASE m # n
    BY <1>13, <2>2 DEF VersionsChange, Prior
  <2> QED
    BY <2>1, <2>2
<1>16. Change(h, k, ts)
  BY <1>13, <1>14, <1>15 DEF Change
<1>17. DOMAIN k.node = DOMAIN h.node /\ Len(k.edge) = Len(h.edge)
  BY <1>3, <1>13
<1>18. ASSUME NEW i \in DOMAIN h.edge
       PROVE k.edge[i] = IF IsOpen(h.edge[i]) /\ n \in {h.edge[i].src, h.edge[i].dst}
                         THEN Ended(h.edge[i], ts) ELSE h.edge[i]
  BY <1>3, <1>13
<1> QED
  BY <1>6, <1>8, <1>12, <1>13, <1>16, <1>17, <1>18

LEMMA SameChange ==
  ASSUME NEW h, Typed(h), NEW ts
  PROVE Change(h, h, ts) /\ Grows(h, h)
<1>1. Len(h.edge) \in Nat
  BY DEF Typed
<1>2. EdgesChange(h, h, ts)
  BY <1>1 DEF EdgesChange
<1> QED
  BY <1>2 DEF Change, VersionsChange, Prior, Grows

LEMMA EdgeChanges ==
  ASSUME NEW h, NEW ts, NEW k, k.node = h.node, EdgesChange(h, k, ts)
  PROVE Change(h, k, ts)
BY DEF Change, VersionsChange, Prior

LEMMA RetireEdgeGood ==
  ASSUME scope \in Scopes, NEW h, Good(h), NEW src, NEW dst, NEW kind,
         NEW ts \in Time, NEW k, k = RetireEdge(h, src, dst, kind, ts)
  PROVE /\ Good(k) /\ Change(h, k, ts) /\ k.node = h.node /\ Len(k.edge) = Len(h.edge)
        /\ \A i \in DOMAIN h.edge :
             k.edge[i] = IF IsOpen(h.edge[i]) /\ Triple(h.edge[i]) = <<src, dst, kind>>
                         THEN Ended(h.edge[i], ts) ELSE h.edge[i]
<1> DEFINE t == <<src, dst, kind>>
<1> HIDE DEF t
<1>1. Typed(h) /\ EdgesIndexed(h) /\ Len(h.edge) \in Nat
  BY DEF Good, Typed
<1>2. CASE t \in DOMAIN h.open
  <2> DEFINE j == h.open[t]
  <2>1. j \in DOMAIN h.edge /\ IsOpen(h.edge[j]) /\ Triple(h.edge[j]) = t
    BY <1>1, <1>2 DEF EdgesIndexed
  <2>2. k = CloseEdges(h, {j}, ts)
    BY <1>2 DEF RetireEdge, t
  <2>3. ASSUME NEW i \in DOMAIN h.edge, IsOpen(h.edge[i]), Triple(h.edge[i]) = t PROVE i = j
    BY <1>1, <2>3 DEF EdgesIndexed
  <2> HIDE DEF j
  <2>4. {j} \in SUBSET {i \in DOMAIN h.edge : IsOpen(h.edge[i])}
    BY <2>1
  <2>5. /\ Good(k) /\ k.node = h.node /\ Len(k.edge) = Len(h.edge)
        /\ \A i \in DOMAIN h.edge : k.edge[i] = IF i \in {j} THEN Ended(h.edge[i], ts) ELSE h.edge[i]
    BY <2>2, <2>4, CloseEdgesGood
  <2>6. EdgesChange(h, k, ts)
    BY <1>1, <2>1, <2>5 DEF EdgesChange
  <2>7. ASSUME NEW i \in DOMAIN h.edge
        PROVE k.edge[i] = IF IsOpen(h.edge[i]) /\ Triple(h.edge[i]) = t THEN Ended(h.edge[i], ts) ELSE h.edge[i]
    BY <2>1, <2>3, <2>5
  <2> QED
    BY <2>5, <2>6, <2>7, EdgeChanges DEF t
<1>3. CASE t \notin DOMAIN h.open
  <2>1. k = h
    BY <1>3 DEF RetireEdge, t
  <2>2. \A i \in DOMAIN h.edge : ~(IsOpen(h.edge[i]) /\ Triple(h.edge[i]) = t)
    BY <1>1, <1>3 DEF EdgesIndexed
  <2> QED
    BY <1>1, <2>1, <2>2, SameChange DEF t
<1> QED
  BY <1>2, <1>3

NewEdge(src, dst, kind, ts, origin) ==
  [src |-> src, dst |-> dst, kind |-> kind, from |-> ts, to |-> T_MAX, origin |-> origin]

LEMMA NewEdgeFacts ==
  ASSUME scope \in Scopes, NEW src \in NameSet, NEW dst \in NameSet, NEW kind \in Kinds,
         NEW ts \in Time, NEW o \in Labels
  PROVE LET e == NewEdge(src, dst, kind, ts, o) IN
        /\ e \in EdgeType /\ e.src = src /\ e.dst = dst /\ e.from = ts /\ e.origin = o /\ IsOpen(e)
        /\ Triple(e) = <<src, dst, kind>>
BY DEF NewEdge, EdgeType, IsOpen, Triple

EdgeAdded(h, k, e) == k.edge = IF Triple(e) \in DOMAIN h.open THEN h.edge ELSE Append(h.edge, e)

LEMMA ObserveEdgeGood ==
  ASSUME scope \in Scopes, NEW h, Good(h), NEW src \in OpenNodes(h), NEW dst \in OpenNodes(h),
         NEW kind \in Kinds, NEW ts \in Time, NEW o \in Labels, NEW k, k = ObserveEdge(h, src, dst, kind, ts, o)
  PROVE /\ Good(k) /\ Change(h, k, ts) /\ k.node = h.node /\ k.embedded = h.embedded
        /\ DOMAIN k.open = DOMAIN h.open \cup {<<src, dst, kind>>}
        /\ EdgeAdded(h, k, NewEdge(src, dst, kind, ts, o))
<1> DEFINE t == <<src, dst, kind>>
           e == NewEdge(src, dst, kind, ts, o)
<1>1. Typed(h) /\ EdgesIndexed(h) /\ NodesIndexed(h) /\ PlaceholdersEmpty(h) /\ EndsLive(h)
  BY DEF Good
<1>2. src \in DOMAIN h.node /\ dst \in DOMAIN h.node /\ src \in NameSet /\ dst \in NameSet
  BY <1>1 DEF OpenNodes, Typed
<1>3. k = IF t \in DOMAIN h.open THEN h
          ELSE [h EXCEPT !.edge = Append(@, e), !.open = Inserted(@, t, Len(h.edge) + 1)]
  <2>1. PlaceholderIfAbsent(PlaceholderIfAbsent(h, src, ts), dst, ts) = h
    BY <1>2 DEF PlaceholderIfAbsent
  <2> QED
    BY <2>1 DEF ObserveEdge, NewEdge
<1>4. e \in EdgeType /\ e.src = src /\ e.dst = dst /\ e.from = ts /\ IsOpen(e) /\ Triple(e) = t
  BY <1>2, NewEdgeFacts
<1> HIDE DEF e, t
<1>5. CASE t \in DOMAIN h.open
  <2>1. k = h
    BY <1>3, <1>5
  <2>2. EdgeAdded(h, k, e)
    BY <1>4, <1>5, <2>1 DEF EdgeAdded
  <2> QED
    BY <1>1, <1>5, <2>1, <2>2, SameChange DEF t, e
<1>6. CASE t \notin DOMAIN h.open
  <2> DEFINE len == Len(h.edge)
             E == Append(h.edge, e)
             O == Inserted(h.open, t, len + 1)
  <2>1. IsRecord(h) /\ len \in Nat /\ DOMAIN h.edge = 1 .. len /\ h.edge \in Seq(EdgeType)
    BY <1>1 DEF Typed
  <2>2. k = [node |-> h.node, edge |-> E, open |-> O, embedded |-> h.embedded]
    <3> DEFINE d == [h EXCEPT !.edge = E]
               hn == h.node
               he == h.edge
               ho == h.open
               hm == h.embedded
    <3>1. h = [node |-> hn, edge |-> he, open |-> ho, embedded |-> hm]
      BY <2>1 DEF IsRecord
    <3>2. k = [d EXCEPT !.open = O]
      <4>1. k = [h EXCEPT !.edge = E, !.open = O]
        <5>1. k = [h EXCEPT !.edge = Append(@, e), !.open = Inserted(@, t, Len(h.edge) + 1)]
          BY <1>3, <1>6
        <5> QED
          BY <5>1
      <4> HIDE DEF E, O
      <4> QED
        BY <4>1, Zenon
    <3> HIDE DEF E, O
    <3>3. d = [node |-> hn, edge |-> E, open |-> ho, embedded |-> hm]
      <4> HIDE DEF hn, he, ho, hm
      <4> QED
        BY <3>1
    <3> HIDE DEF d, hn, he, ho
    <3> QED
      BY <3>2, <3>3 DEF hn
  <2>3. k.node = h.node /\ k.edge = E /\ k.open = O /\ k.embedded = h.embedded /\ IsRecord(k)
    <3> HIDE DEF E, O
    <3> QED
      BY <2>2, Fields
  <2>4. /\ E \in Seq(EdgeType) /\ Len(E) = len + 1 /\ E[len + 1] = e
        /\ \A i \in 1 .. len : E[i] = h.edge[i]
    BY <1>4, <2>1, AppendProperties
  <2>5. DOMAIN E = 1 .. len + 1
    BY <2>4
  <2>6. /\ IsTable(O) /\ DOMAIN O = DOMAIN h.open \cup {t} /\ O[t] = len + 1
        /\ \A u \in DOMAIN h.open : u # t => O[u] = h.open[u]
    BY DEF Inserted, IsTable
  <2> HIDE DEF E, O, len
  <2>7. Typed(k)
    <3>1. \A i \in DOMAIN k.edge : k.edge[i].src \in DOMAIN k.node /\ k.edge[i].dst \in DOMAIN k.node
      BY <1>1, <1>2, <1>4, <2>1, <2>3, <2>4, <2>5 DEF Typed
    <3> QED
      BY <1>1, <2>3, <2>4, <2>6, <3>1 DEF Typed
  <2>8. EdgesIndexed(k)
    <3>1. ASSUME NEW u \in DOMAIN O PROVE O[u] \in DOMAIN E /\ IsOpen(E[O[u]]) /\ Triple(E[O[u]]) = u
      <4>1. CASE u = t
        BY <1>4, <2>1, <2>4, <2>5, <2>6, <4>1
      <4>2. CASE u # t
        <5>1. u \in DOMAIN h.open /\ O[u] = h.open[u]
          BY <2>6, <4>2
        <5>2. h.open[u] \in 1 .. len /\ IsOpen(h.edge[h.open[u]]) /\ Triple(h.edge[h.open[u]]) = u
          BY <1>1, <2>1, <5>1 DEF EdgesIndexed
        <5> QED
          BY <2>1, <2>4, <2>5, <5>1, <5>2
      <4> QED
        BY <4>1, <4>2
    <3>2. ASSUME NEW i \in DOMAIN E, IsOpen(E[i]) PROVE Triple(E[i]) \in DOMAIN O /\ O[Triple(E[i])] = i
      <4>1. CASE i = len + 1
        BY <1>4, <2>4, <2>6, <4>1
      <4>2. CASE i # len + 1
        <5>1. i \in 1 .. len
          BY <2>1, <2>5, <4>2
        <5>2. Triple(h.edge[i]) \in DOMAIN h.open /\ h.open[Triple(h.edge[i])] = i /\ E[i] = h.edge[i]
          BY <1>1, <2>1, <2>4, <3>2, <5>1 DEF EdgesIndexed
        <5> QED
          BY <1>6, <2>6, <5>2
      <4> QED
        BY <4>1, <4>2
    <3> QED
      BY <2>3, <3>1, <3>2 DEF EdgesIndexed
  <2>9. NodesIndexed(k) /\ PlaceholdersEmpty(k)
    BY <1>1, <2>3 DEF NodesIndexed, PlaceholdersEmpty
  <2>10. EndsLive(k)
    <3>1. OpenNodes(k) = OpenNodes(h)
      BY <2>3 DEF OpenNodes
    <3>2. ASSUME NEW i \in DOMAIN E, IsOpen(E[i]) PROVE E[i].src \in OpenNodes(h) /\ E[i].dst \in OpenNodes(h)
      <4>1. CASE i = len + 1
        BY <1>4, <2>4, <4>1
      <4>2. CASE i # len + 1
        BY <1>1, <2>1, <2>4, <2>5, <3>2, <4>2 DEF EndsLive
      <4> QED
        BY <4>1, <4>2
    <3> QED
      BY <2>3, <3>1, <3>2 DEF EndsLive
  <2>11. EdgesChange(h, k, ts)
    <3>1. Len(k.edge) = len + 1 /\ Len(h.edge) = len
      BY <2>3, <2>4 DEF len
    <3>2. \A i \in DOMAIN h.edge : k.edge[i] = h.edge[i]
      BY <2>1, <2>3, <2>4
    <3>3. k.edge[len + 1] = e
      BY <2>3, <2>4
    <3> QED
      BY <1>4, <1>6, <3>1, <3>2, <3>3 DEF EdgesChange
  <2>12. EdgeAdded(h, k, e)
    BY <1>4, <1>6, <2>3 DEF EdgeAdded, E
  <2> QED
    BY <2>3, <2>6, <2>7, <2>8, <2>9, <2>10, <2>11, <2>12, EdgeChanges DEF Good, e, t
<1> QED
  BY <1>5, <1>6

-----------------------------------------------------------------------------
(* What an operation at ts does to the answers of queries.                 *)

\* An interval of the sequence is alive at t with what x says.
Holds(vs, t, x) == \E i \in DOMAIN vs : vs[i].from <= t /\ t < vs[i].to /\ vs[i].props = x

LEMMA VersionsAt ==
  ASSUME scope \in Scopes, NEW vs \in Seq(VersionType), NEW ts \in Time, NEW t \in Nat, t < ts,
         NEW ws, VersionsChange(vs, ws, ts), NEW x
  PROVE Holds(ws, t, x) <=> Holds(vs, t, x)
<1>1. Len(vs) \in Nat /\ DOMAIN vs = 1 .. Len(vs) /\ ts \in Nat /\ T_MAX \in Nat /\ ts < T_MAX
  BY ScopeFacts
<1> DEFINE cs == Closed(vs, ts)
<1>2. /\ cs \in Seq(VersionType) /\ Len(cs) = Len(vs)
      /\ \A i \in 1 .. Len(vs) :
           /\ cs[i].props = vs[i].props /\ cs[i].from = vs[i].from
           /\ cs[i].to = IF i = Len(vs) /\ IsOpen(vs[i]) THEN ts ELSE vs[i].to
  BY ClosedFacts
<1> HIDE DEF cs
<1>3. ASSUME NEW i \in 1 .. Len(vs) PROVE t < cs[i].to <=> t < vs[i].to
  <2>1. CASE i = Len(vs) /\ IsOpen(vs[i])
    <3>1. cs[i].to = ts /\ vs[i].to = T_MAX
      BY <1>2, <2>1 DEF IsOpen
    <3> QED
      BY <1>1, <3>1
  <2>2. CASE ~(i = Len(vs) /\ IsOpen(vs[i]))
    <3>1. cs[i].to = vs[i].to
      BY <1>2, <2>2
    <3> QED
      BY <3>1
  <2> QED
    BY <2>1, <2>2
<1>4. Holds(cs, t, x) <=> Holds(vs, t, x)
  <2>1. DOMAIN cs = 1 .. Len(vs)
    BY <1>2
  <2>2. \A i \in 1 .. Len(vs) : cs[i].props = vs[i].props /\ cs[i].from = vs[i].from
    BY <1>2
  <2> QED
    BY <1>1, <1>3, <2>1, <2>2, Zenon DEF Holds
<1>5. ASSUME NEW p \in Contents, NEW o \in Labels, ws = Opened(vs, ts, p, o)
      PROVE Holds(ws, t, x) <=> Holds(cs, t, x)
  <2>1. /\ ws \in Seq(VersionType) /\ Len(ws) = Len(vs) + 1 /\ ws[Len(vs) + 1] = Version(p, ts, o)
        /\ \A i \in 1 .. Len(vs) : ws[i] = cs[i]
    BY <1>5, OpenedFacts DEF cs
  <2>2. ws[Len(vs) + 1].from = ts
    BY <2>1 DEF Version
  <2>3. DOMAIN ws = 1 .. Len(vs) + 1 /\ DOMAIN cs = 1 .. Len(vs)
    BY <1>2, <2>1
  <2>4. ~(ws[Len(vs) + 1].from <= t)
    BY <1>1, <2>2
  <2>5. \A i \in DOMAIN ws : i = Len(vs) + 1 \/ i \in DOMAIN cs
    BY <1>1, <2>3
  <2>6. DOMAIN cs \subseteq DOMAIN ws
    BY <1>1, <2>3
  <2> QED
    BY <2>1, <2>3, <2>4, <2>5, <2>6 DEF Holds
<1>6. CASE ws = vs
  BY <1>6
<1>7. CASE ws = cs
  BY <1>4, <1>7
<1>8. CASE \E p \in Contents, o \in Labels : ws = Opened(vs, ts, p, o)
  BY <1>4, <1>5, <1>8
<1> QED
  BY <1>6, <1>7, <1>8 DEF VersionsChange, cs

LEMMA EdgesAt ==
  ASSUME scope \in Scopes, NEW h, Typed(h), NEW k, Typed(k), NEW ts \in Time, NEW t \in Nat, t < ts,
         EdgesChange(h, k, ts)
  PROVE {Triple(e) : e \in Alive(k.edge, t)} = {Triple(e) : e \in Alive(h.edge, t)}
<1>1. /\ Len(h.edge) \in Nat /\ DOMAIN h.edge = 1 .. Len(h.edge) /\ DOMAIN k.edge = 1 .. Len(k.edge)
      /\ ts \in Nat /\ T_MAX \in Nat /\ ts < T_MAX
  BY ScopeFacts DEF Typed
<1>2. ASSUME NEW i \in DOMAIN h.edge
      PROVE /\ i \in DOMAIN k.edge /\ Triple(k.edge[i]) = Triple(h.edge[i]) /\ k.edge[i].from = h.edge[i].from
            /\ t < k.edge[i].to <=> t < h.edge[i].to
  <2>1. i \in DOMAIN k.edge
    BY <1>1 DEF EdgesChange
  <2> DEFINE e == h.edge[i]
  <2>2. e \in EdgeType
    BY DEF Typed
  <2>3. k.edge[i] = e \/ (IsOpen(e) /\ k.edge[i] = Ended(e, ts))
    BY DEF EdgesChange
  <2> HIDE DEF e
  <2>4. CASE k.edge[i] = e
    BY <2>1, <2>4 DEF e
  <2>5. CASE IsOpen(e) /\ k.edge[i] = Ended(e, ts)
    BY <1>1, <2>1, <2>2, <2>5, EndedFacts DEF e, IsOpen
  <2> QED
    BY <2>3, <2>4, <2>5
<1>3. ASSUME NEW i \in DOMAIN k.edge, i \notin DOMAIN h.edge PROVE ~(k.edge[i].from <= t)
  <2>1. Len(k.edge) = Len(h.edge) + 1 /\ i = Len(k.edge)
    BY <1>1, <1>3 DEF EdgesChange
  <2>2. k.edge[i].from = ts
    BY <2>1 DEF EdgesChange
  <2> QED
    BY <1>1, <2>2
<1>4. ASSUME NEW e \in Alive(k.edge, t) PROVE \E d \in Alive(h.edge, t) : Triple(e) = Triple(d)
  <2>1. PICK i \in DOMAIN k.edge : e = k.edge[i] /\ k.edge[i].from <= t /\ t < k.edge[i].to
    BY DEF Alive, ToSet
  <2>2. i \in DOMAIN h.edge
    BY <1>3, <2>1
  <2> QED
    BY <1>2, <2>1, <2>2 DEF Alive, ToSet
<1>5. ASSUME NEW e \in Alive(h.edge, t) PROVE \E d \in Alive(k.edge, t) : Triple(e) = Triple(d)
  <2>1. PICK i \in DOMAIN h.edge : e = h.edge[i] /\ h.edge[i].from <= t /\ t < h.edge[i].to
    BY DEF Alive, ToSet
  <2> QED
    BY <1>2, <2>1 DEF Alive, ToSet
<1> QED
  BY <1>4, <1>5

LEMMA ChangeKeepsPast ==
  ASSUME scope \in Scopes, NEW h, Typed(h), NEW k, Typed(k), NEW ts \in Time, NEW t \in Nat, t < ts,
         Change(h, k, ts)
  PROVE AsOf(k, t) = AsOf(h, t)
<1> DEFINE At(f) == UNION {{<<n, v.props>> : v \in Alive(f.node[n].versions, t)} : n \in DOMAIN f.node}
<1>1. ASSUME NEW n \in DOMAIN k.node, NEW x
      PROVE Holds(k.node[n].versions, t, x) <=> n \in DOMAIN h.node /\ Holds(h.node[n].versions, t, x)
  <2>1. Prior(h, n) \in Seq(VersionType) /\ VersionsChange(Prior(h, n), k.node[n].versions, ts)
    BY PriorType DEF Change
  <2>2. Holds(k.node[n].versions, t, x) <=> Holds(Prior(h, n), t, x)
    BY <2>1, VersionsAt
  <2>3. n \notin DOMAIN h.node => ~Holds(Prior(h, n), t, x)
    BY DEF Holds, Prior
  <2>4. n \in DOMAIN h.node => Prior(h, n) = h.node[n].versions
    BY DEF Prior
  <2> QED
    BY <2>2, <2>3, <2>4
<1>2. DOMAIN h.node \subseteq DOMAIN k.node /\ EdgesChange(h, k, ts)
  BY DEF Change
<1>3. ASSUME NEW f, NEW y
      PROVE y \in At(f) <=> \E n \in DOMAIN f.node : \E x : y = <<n, x>> /\ Holds(f.node[n].versions, t, x)
  BY DEF Alive, ToSet, Holds
<1> HIDE DEF At
<1>4. ASSUME NEW y PROVE y \in At(k) <=> y \in At(h)
  BY <1>1, <1>2, <1>3
<1>5. At(k) = At(h)
  BY <1>4
<1>6. {Triple(e) : e \in Alive(k.edge, t)} = {Triple(e) : e \in Alive(h.edge, t)}
  BY <1>2, EdgesAt
<1> QED
  BY <1>5, <1>6 DEF AsOf, At

-----------------------------------------------------------------------------
(* ... and to the order of intervals: if none of them reaches behind ts,   *)
(* they stay in order.                                                     *)

UpTo(vs, c) == \A i \in DOMAIN vs : vs[i].from <= c /\ (vs[i].to <= c \/ IsOpen(vs[i]))
InOrder(vs) ==
  /\ \A i \in DOMAIN vs : vs[i].from <= vs[i].to
  /\ \A i, j \in DOMAIN vs : i < j => vs[i].to <= vs[j].from

LEMMA VersionsInOrder ==
  ASSUME scope \in Scopes, NEW vs \in Seq(VersionType), NEW ts \in Time, NEW c \in Nat, c <= ts,
         UpTo(vs, c), InOrder(vs), NEW ws, VersionsChange(vs, ws, ts)
  PROVE UpTo(ws, ts) /\ InOrder(ws)
<1>1. Len(vs) \in Nat /\ DOMAIN vs = 1 .. Len(vs) /\ ts \in Nat /\ T_MAX \in Nat /\ ts < T_MAX
  BY ScopeFacts
<1> DEFINE cs == Closed(vs, ts)
<1>2. /\ cs \in Seq(VersionType) /\ Len(cs) = Len(vs) /\ ~Current(cs)
      /\ \A i \in 1 .. Len(vs) :
           /\ cs[i].from = vs[i].from
           /\ cs[i].to = IF i = Len(vs) /\ IsOpen(vs[i]) THEN ts ELSE vs[i].to
  BY ClosedFacts
<1>a. DOMAIN cs = 1 .. Len(vs)
  BY <1>2
<1> HIDE DEF cs
<1>3. ASSUME NEW i \in 1 .. Len(vs)
      PROVE vs[i].from \in Nat /\ vs[i].to \in Nat /\ vs[i].to <= T_MAX
  <2> DEFINE u == vs[i]
  <2>1. u \in VersionType
    BY <1>1
  <2> HIDE DEF u
  <2>2. u.from \in Time /\ u.to \in Time \cup {T_MAX}
    BY <2>1 DEF VersionType
  <2>3. Time \subseteq Nat /\ \A t \in Time : t < T_MAX
    BY ScopeFacts
  <2>4. u.from \in Nat
    BY <2>2, <2>3
  <2>5. u.to \in Nat /\ u.to <= T_MAX
    <3>1. CASE u.to \in Time
      <4>1. u.to \in Nat /\ u.to < T_MAX
        BY <2>3, <3>1, Zenon
      <4> QED
        BY <1>1, <4>1
    <3>2. CASE u.to = T_MAX
      BY <1>1, <3>2
    <3> QED
      BY <2>2, <3>1, <3>2
  <2> QED
    BY <2>4, <2>5 DEF u
<1>4. ASSUME NEW i \in 1 .. Len(vs)
      PROVE /\ vs[i].from <= c /\ (vs[i].to <= c \/ vs[i].to = T_MAX) /\ vs[i].from <= vs[i].to
            /\ \A j \in 1 .. Len(vs) : i < j => vs[i].to <= vs[j].from
  BY <1>1 DEF UpTo, InOrder, IsOpen
\* Only the last of them is open.
<1>5. ASSUME NEW i \in 1 .. Len(vs), i # Len(vs) PROVE vs[i].to <= c
  <2> DEFINE len == Len(vs)
  <2>0. len \in Nat /\ i \in 1 .. len /\ i # len
    BY <1>1, <1>5, Zenon
  <2> HIDE DEF len
  <2>a. len \in 1 .. len /\ i < len
    BY <2>0
  <2>1. Len(vs) \in 1 .. Len(vs) /\ i < Len(vs)
    BY <2>a DEF len
  <2>2. vs[i].to <= vs[Len(vs)].from /\ vs[Len(vs)].from <= c
    BY <1>4, <2>1
  <2> QED
    BY <1>3, <2>1, <2>2
<1>6. ASSUME NEW i \in 1 .. Len(vs)
      PROVE cs[i].to \in Nat /\ cs[i].to <= ts /\ cs[i].to <= vs[i].to /\ vs[i].from <= cs[i].to
  <2>1. CASE i = Len(vs) /\ IsOpen(vs[i])
    <3>1. cs[i].to = ts /\ vs[i].to = T_MAX
      BY <1>2, <2>1 DEF IsOpen
    <3> QED
      BY <1>1, <1>3, <1>4, <3>1
  <2>2. CASE ~(i = Len(vs) /\ IsOpen(vs[i]))
    <3>1. cs[i].to = vs[i].to
      BY <1>2, <2>2
    <3>2. vs[i].to <= c
      BY <1>4, <1>5, <2>2 DEF IsOpen
    <3> QED
      BY <1>1, <1>3, <1>4, <3>1, <3>2
  <2> QED
    BY <2>1, <2>2
<1>7. \A i \in 1 .. Len(vs) : vs[i].from <= ts
  BY <1>1, <1>3, <1>4
<1>8. UpTo(cs, ts)
  <2>1. ASSUME NEW i \in DOMAIN cs PROVE cs[i].from <= ts /\ cs[i].to <= ts
    <3>1. i \in 1 .. Len(vs)
      BY <1>a
    <3>2. cs[i].from = vs[i].from
      BY <1>2, <3>1
    <3> QED
      BY <1>6, <1>7, <3>1, <3>2
  <2> QED
    BY <2>1 DEF UpTo
<1>9. InOrder(cs)
  <2>1. \A i \in 1 .. Len(vs) : cs[i].from <= cs[i].to
    BY <1>2, <1>6
  <2>2. ASSUME NEW i \in 1 .. Len(vs), NEW j \in 1 .. Len(vs), i < j PROVE cs[i].to <= cs[j].from
    <3>1. vs[i].to <= vs[j].from /\ cs[j].from = vs[j].from
      BY <1>2, <1>4, <2>2
    <3> QED
      BY <1>3, <1>6, <3>1
  <2> QED
    BY <1>a, <2>1, <2>2 DEF InOrder
<1>10. ASSUME NEW p \in Contents, NEW o \in Labels, ws = Opened(vs, ts, p, o)
       PROVE UpTo(ws, ts) /\ InOrder(ws)
  <2> DEFINE len == Len(vs)
  <2>1. /\ ws \in Seq(VersionType) /\ Len(ws) = len + 1 /\ ws[len + 1] = Version(p, ts, o)
        /\ \A i \in 1 .. len : ws[i] = cs[i]
    BY <1>10, OpenedFacts DEF cs
  <2>2. ws[len + 1].from = ts /\ ws[len + 1].to = T_MAX
    BY <2>1 DEF Version
  <2>3. DOMAIN ws = 1 .. len + 1
    BY <2>1
  <2>4. UpTo(ws, ts)
    <3>1. ASSUME NEW i \in 1 .. len + 1 PROVE ws[i].from <= ts /\ (ws[i].to <= ts \/ IsOpen(ws[i]))
      <4>1. CASE i = len + 1
        BY <1>1, <2>2, <4>1 DEF IsOpen
      <4>2. CASE i # len + 1
        <5>1. i \in 1 .. len
          BY <1>1, <4>2
        <5> QED
          BY <1>2, <1>6, <1>7, <2>1, <5>1
      <4> QED
        BY <4>1, <4>2
    <3> QED
      BY <2>3, <3>1 DEF UpTo
  <2>5. InOrder(ws)
    <3>1. ASSUME NEW i \in 1 .. len + 1 PROVE ws[i].from <= ws[i].to
      <4>1. CASE i = len + 1
        BY <1>1, <2>2, <4>1
      <4>2. CASE i # len + 1
        <5>1. i \in 1 .. len
          BY <1>1, <4>2
        <5> QED
          BY <1>2, <1>6, <2>1, <5>1
      <4> QED
        BY <4>1, <4>2
    <3>2. ASSUME NEW i \in 1 .. len + 1, NEW j \in 1 .. len + 1, i < j PROVE ws[i].to <= ws[j].from
      <4>0. i \in 1 .. len
        BY <1>1, <3>2
      <4>1. CASE j = len + 1
        BY <1>6, <2>1, <2>2, <4>0, <4>1
      <4>2. CASE j # len + 1
        <5>1. j \in 1 .. len
          BY <1>1, <4>2
        <5> QED
          BY <1>9, <1>a, <2>1, <3>2, <4>0, <5>1 DEF InOrder
      <4> QED
        BY <4>1, <4>2
    <3> QED
      BY <2>3, <3>1, <3>2 DEF InOrder
  <2> QED
    BY <2>4, <2>5
<1>11. CASE ws = vs
  <2>1. \A i \in 1 .. Len(vs) : vs[i].to <= ts \/ IsOpen(vs[i])
    BY <1>1, <1>3, <1>4 DEF IsOpen
  <2> QED
    BY <1>1, <1>7, <1>11, <2>1 DEF UpTo
<1>12. CASE ws = cs
  BY <1>8, <1>9, <1>12
<1>13. CASE \E p \in Contents, o \in Labels : ws = Opened(vs, ts, p, o)
  BY <1>10, <1>13
<1> QED
  BY <1>11, <1>12, <1>13 DEF VersionsChange, cs

\* The same of a graph.
GraphUpTo(h, c) == (\A n \in DOMAIN h.node : UpTo(h.node[n].versions, c)) /\ UpTo(h.edge, c)
GraphInOrder(h) ==
  /\ \A n \in DOMAIN h.node : InOrder(h.node[n].versions)
  /\ \A i, j \in DOMAIN h.edge :
       i < j /\ Triple(h.edge[i]) = Triple(h.edge[j]) => h.edge[i].to <= h.edge[j].from

LEMMA ChangeInOrder ==
  ASSUME scope \in Scopes, NEW h, Typed(h), EdgesIndexed(h), NEW k, Typed(k), NEW ts \in Time,
         NEW c \in Nat, c <= ts, GraphUpTo(h, c), GraphInOrder(h), Change(h, k, ts)
  PROVE GraphUpTo(k, ts) /\ GraphInOrder(k)
<1>1. ASSUME NEW n \in DOMAIN k.node PROVE UpTo(k.node[n].versions, ts) /\ InOrder(k.node[n].versions)
  <2>1. Prior(h, n) \in Seq(VersionType) /\ VersionsChange(Prior(h, n), k.node[n].versions, ts)
    BY PriorType DEF Change
  <2>2. UpTo(Prior(h, n), c) /\ InOrder(Prior(h, n))
    <3>1. CASE n \in DOMAIN h.node
      BY <3>1 DEF Prior, GraphUpTo, GraphInOrder
    <3>2. CASE n \notin DOMAIN h.node
      BY <3>2 DEF Prior, UpTo, InOrder
    <3> QED
      BY <3>1, <3>2
  <2> QED
    BY <2>1, <2>2, VersionsInOrder
<1>2. /\ Len(h.edge) \in Nat /\ DOMAIN h.edge = 1 .. Len(h.edge) /\ DOMAIN k.edge = 1 .. Len(k.edge)
      /\ ts \in Nat /\ T_MAX \in Nat /\ ts < T_MAX /\ EdgesChange(h, k, ts) /\ UpTo(h.edge, c)
  BY ScopeFacts DEF Typed, Change, GraphUpTo
<1>3. ASSUME NEW i \in DOMAIN h.edge
      PROVE /\ i \in DOMAIN k.edge /\ Triple(k.edge[i]) = Triple(h.edge[i]) /\ k.edge[i].from = h.edge[i].from
            /\ h.edge[i].from \in Nat /\ h.edge[i].to \in Nat /\ k.edge[i].to \in Nat
            /\ k.edge[i].to <= h.edge[i].to
            /\ k.edge[i].from <= ts /\ (k.edge[i].to <= ts \/ IsOpen(k.edge[i]))
            /\ IsOpen(k.edge[i]) => IsOpen(h.edge[i])
  <2>1. i \in DOMAIN k.edge
    BY <1>2 DEF EdgesChange
  <2> DEFINE e == h.edge[i]
             d == k.edge[i]
  <2>2. e \in EdgeType
    BY DEF Typed
  <2>3. d = e \/ (IsOpen(e) /\ d = Ended(e, ts))
    BY <1>2 DEF EdgesChange
  <2>4. e.from <= c /\ (e.to <= c \/ IsOpen(e))
    BY <1>2 DEF UpTo
  <2> HIDE DEF e, d
  <2>5. e.from \in Time /\ e.to \in Time \cup {T_MAX}
    BY <2>2 DEF EdgeType
  <2>6. e.from \in Nat /\ e.to \in Nat
    BY <1>2, <2>5, ScopeFacts
  <2>7. CASE d = e
    <3>1. e.from <= ts /\ (e.to <= ts \/ IsOpen(e))
      BY <1>2, <2>4, <2>6
    <3>2. e.to <= e.to
      BY <2>6
    <3> QED
      BY <2>1, <2>6, <2>7, <3>1, <3>2 DEF e, d
  <2>8. CASE IsOpen(e) /\ d = Ended(e, ts)
    <3>1. Triple(d) = Triple(e) /\ d.from = e.from /\ d.to = ts /\ e.to = T_MAX
      BY <2>2, <2>8, EndedFacts DEF IsOpen
    <3> QED
      BY <1>2, <2>1, <2>4, <2>6, <2>8, <3>1 DEF e, d
  <2> QED
    BY <2>3, <2>7, <2>8
<1>4. ASSUME NEW j \in DOMAIN k.edge, j \notin DOMAIN h.edge
      PROVE /\ Len(k.edge) = Len(h.edge) + 1 /\ j = Len(k.edge) /\ k.edge[j].from = ts /\ IsOpen(k.edge[j])
            /\ Triple(k.edge[j]) \notin DOMAIN h.open
  <2>1. Len(k.edge) = Len(h.edge) + 1 /\ j = Len(k.edge)
    BY <1>2, <1>4 DEF EdgesChange
  <2> QED
    BY <1>2, <2>1 DEF EdgesChange
<1>5. UpTo(k.edge, ts)
  BY <1>2, <1>3, <1>4 DEF UpTo
<1>6. ASSUME NEW i \in DOMAIN k.edge, NEW j \in DOMAIN k.edge, i < j, Triple(k.edge[i]) = Triple(k.edge[j])
      PROVE k.edge[i].to <= k.edge[j].from
  <2>1. i \in DOMAIN h.edge
    BY <1>2, <1>4, <1>6
  <2>2. CASE j \in DOMAIN h.edge
    <3>1. h.edge[i].to <= h.edge[j].from
      BY <1>3, <1>6, <2>1, <2>2 DEF GraphInOrder
    <3> QED
      BY <1>3, <2>1, <2>2, <3>1
  <2>3. CASE j \notin DOMAIN h.edge
    <3>1. ~IsOpen(h.edge[i])
      BY <1>3, <1>4, <1>6, <2>1, <2>3 DEF EdgesIndexed
    <3> QED
      BY <1>3, <1>4, <2>1, <2>3, <3>1
  <2> QED
    BY <2>2, <2>3
<1> QED
  BY <1>1, <1>5, <1>6 DEF GraphUpTo, GraphInOrder

-----------------------------------------------------------------------------
(* Sequences of operations.                                                *)

LEMMA SetToSeqFacts ==
  ASSUME NEW S, IsFiniteSet(S)
  PROVE /\ SetToSeq(S) \in Seq(S) /\ ToSet(SetToSeq(S)) = S
        /\ \A i, j \in DOMAIN SetToSeq(S) : SetToSeq(S)[i] = SetToSeq(S)[j] => i = j
<1> DEFINE n == Cardinality(S)
           f == SetToSeq(S)
<1>1. n \in Nat /\ ExistsBijection(1 .. n, S)
  BY FS_CardinalityType
<1>2. PICK b \in [1 .. n -> S] :
        (\A i, j \in 1 .. n : b[i] = b[j] => i = j) /\ \A y \in S : \E i \in 1 .. n : b[i] = y
  BY <1>1 DEF ExistsBijection, Bijection, Injection, Surjection, IsInjective
<1>3. IsInjective(b)
  BY <1>2 DEF IsInjective
<1>4. f \in [1 .. n -> S] /\ IsInjective(f)
  BY <1>3 DEF SetToSeq
<1> HIDE DEF f
<1>5. f \in Seq(S) /\ DOMAIN f = 1 .. n
  BY <1>1, <1>4, MadeSeq
<1>6. f \in Injection(1 .. n, S)
  BY <1>4 DEF IsInjective, Injection
<1>7. IsFiniteSet(1 .. n) /\ Cardinality(1 .. n) = n
  BY <1>1, FS_Interval
<1>8. f \in Surjection(1 .. n, S)
  BY <1>6, <1>7, FS_Injection
<1>9. ToSet(f) = S
  <2>1. \A y \in S : \E i \in 1 .. n : f[i] = y
    BY <1>8 DEF Surjection
  <2> QED
    BY <1>4, <1>5, <2>1 DEF ToSet
<1>10. \A i, j \in DOMAIN f : f[i] = f[j] => i = j
  BY <1>4 DEF IsInjective
<1> QED
  BY <1>5, <1>9, <1>10 DEF f

Flattening(ss, n, f) == f = [i \in 1 .. n |-> IF i = 1 THEN ss[i] ELSE f[i - 1] \o ss[i]]

LEMMA FlatteningExists ==
  ASSUME NEW ss, NEW n \in Nat
  PROVE \E f : Flattening(ss, n, f)
<1> DEFINE S == {k \in Nat : \E f : Flattening(ss, k, f)}
<1>1. 0 \in S
  <2> DEFINE f == [i \in 1 .. 0 |-> ss]
  <2>1. \A i \in 1 .. 0 : FALSE
    OBVIOUS
  <2>2. Flattening(ss, 0, f)
    BY <2>1 DEF Flattening
  <2> QED
    BY <2>2
<1>2. ASSUME NEW k \in S PROVE k + 1 \in S
  <2>1. PICK f : Flattening(ss, k, f)
    OBVIOUS
  <2>2. k \in Nat
    OBVIOUS
  <2> DEFINE e == [i \in 1 .. k + 1 |->
                     IF i = k + 1 THEN (IF i = 1 THEN ss[i] ELSE f[k] \o ss[i]) ELSE f[i]]
             d == [i \in 1 .. k + 1 |-> IF i = 1 THEN ss[i] ELSE e[i - 1] \o ss[i]]
  <2>3. ASSUME NEW i \in 1 .. k PROVE e[i] = f[i] /\ f[i] = IF i = 1 THEN ss[i] ELSE f[i - 1] \o ss[i]
    <3>1. e[i] = f[i]
      BY <2>2
    <3>2. f[i] = IF i = 1 THEN ss[i] ELSE f[i - 1] \o ss[i]
      BY <2>1 DEF Flattening
    <3> QED
      BY <3>1, <3>2
  <2>4. ASSUME NEW i \in 1 .. k + 1 PROVE e[i] = d[i]
    <3>1. CASE i = k + 1
      <4>1. e[i] = IF i = 1 THEN ss[i] ELSE f[k] \o ss[i]
        BY <3>1
      <4>2. d[i] = IF i = 1 THEN ss[i] ELSE e[i - 1] \o ss[i]
        <5> HIDE DEF e
        <5> QED
          OBVIOUS
      <4>3. i # 1 => i - 1 = k /\ k \in 1 .. k
        BY <2>2, <3>1
      <4> HIDE DEF e, d
      <4> QED
        BY <2>3, <4>1, <4>2, <4>3
    <3>2. CASE i # k + 1
      <4>1. i \in 1 .. k
        BY <2>2, <3>2
      <4>2. d[i] = IF i = 1 THEN ss[i] ELSE e[i - 1] \o ss[i]
        <5> HIDE DEF e
        <5> QED
          OBVIOUS
      <4>3. i # 1 => i - 1 \in 1 .. k
        BY <4>1
      <4> HIDE DEF e, d
      <4> QED
        BY <2>3, <4>1, <4>2, <4>3
    <3> QED
      BY <3>1, <3>2
  <2>5. e = [i \in 1 .. k + 1 |-> e[i]] /\ d = [i \in 1 .. k + 1 |-> d[i]]
    OBVIOUS
  <2>6. e = d
    <3> HIDE DEF e, d
    <3> QED
      BY <2>4, <2>5
  <2>7. Flattening(ss, k + 1, e)
    <3> HIDE DEF e
    <3> QED
      BY <2>6 DEF Flattening
  <2> HIDE DEF e
  <2> QED
    BY <2>2, <2>7
<1> HIDE DEF S
<1>3. S = Nat
  BY <1>1, <1>2, Induction DEF S
<1> QED
  BY <1>3 DEF S

\* c[n] is the concatenation of the first n.
Flattens(ss, c) ==
  /\ c[0] = <<>> /\ c[Len(ss)] = FlattenSeq(ss)
  /\ \A n \in 0 .. Len(ss) - 1 : c[n + 1] = c[n] \o ss[n + 1]

LEMMA Flat ==
  ASSUME NEW S, NEW ss \in Seq(Seq(S))
  PROVE \E c : Flattens(ss, c) /\ \A n \in 0 .. Len(ss) : c[n] \in Seq(S)
<1>1. Len(ss) \in Nat /\ DOMAIN ss = 1 .. Len(ss)
  OBVIOUS
<1> DEFINE f == CHOOSE f : Flattening(ss, Len(ss), f)
           c == [n \in 0 .. Len(ss) |-> IF n = 0 THEN <<>> ELSE f[n]]
<1>2. Flattening(ss, Len(ss), f)
  BY <1>1, FlatteningExists
<1>3. FlattenSeq(ss) = IF Len(ss) = 0 THEN ss ELSE f[Len(ss)]
  BY DEF FlattenSeq, Flattening
<1> HIDE DEF f
<1>4. ASSUME NEW i \in 1 .. Len(ss) PROVE f[i] = IF i = 1 THEN ss[i] ELSE f[i - 1] \o ss[i]
  BY <1>2 DEF Flattening
<1>5. c[0] = <<>> /\ \A n \in 1 .. Len(ss) : c[n] = f[n]
  BY <1>1
<1>6. c[Len(ss)] = FlattenSeq(ss)
  <2>1. CASE Len(ss) = 0
    <3>1. ss = <<>>
      BY <2>1
    <3> QED
      BY <1>3, <1>5, <2>1, <3>1
  <2>2. CASE Len(ss) # 0
    <3>1. Len(ss) \in 1 .. Len(ss)
      BY <1>1, <2>2
    <3> QED
      BY <1>3, <1>5, <2>2, <3>1
  <2> QED
    BY <2>1, <2>2
<1> HIDE DEF c
<1>7. ASSUME NEW n \in 0 .. Len(ss) - 1 PROVE c[n + 1] = c[n] \o ss[n + 1]
  <2> DEFINE i == n + 1
  <2>1. i \in 1 .. Len(ss) /\ (n # 0 => n \in 1 .. Len(ss)) /\ i - 1 = n /\ (i = 1 <=> n = 0)
    BY <1>1
  <2>2. ss[i] \in Seq(S)
    BY <1>1, <2>1
  <2> HIDE DEF i
  <2>3. <<>> \o ss[i] = ss[i]
    BY <2>2
  <2>4. c[i] = c[n] \o ss[i]
    BY <1>4, <1>5, <2>1, <2>3
  <2> QED
    BY <2>4 DEF i
<1>8. \A n \in 0 .. Len(ss) : c[n] \in Seq(S)
  <2> DEFINE T == {n \in Nat : n <= Len(ss) => c[n] \in Seq(S)}
  <2>1. 0 \in T
    BY <1>5, EmptySeq
  <2>2. ASSUME NEW n \in T PROVE n + 1 \in T
    <3>1. CASE n + 1 <= Len(ss)
      <4>1. n \in 0 .. Len(ss) - 1 /\ n + 1 \in 1 .. Len(ss) /\ c[n] \in Seq(S)
        BY <1>1, <3>1
      <4>2. ss[n + 1] \in Seq(S)
        BY <1>1, <4>1
      <4>3. c[n] \o ss[n + 1] \in Seq(S)
        BY <4>1, <4>2, ConcatProperties
      <4>4. c[n + 1] = c[n] \o ss[n + 1]
        BY <1>7, <4>1
      <4>5. c[n + 1] \in Seq(S) /\ n + 1 \in Nat
        BY <4>3, <4>4
      <4> QED
        BY <4>5
    <3>2. CASE ~(n + 1 <= Len(ss))
      BY <3>2
    <3> QED
      BY <3>1, <3>2
  <2> HIDE DEF T
  <2>3. T = Nat
    BY <2>1, <2>2, Induction DEF T
  <2>4. ASSUME NEW n \in 0 .. Len(ss) PROVE c[n] \in Seq(S)
    <3>1. n \in Nat /\ n <= Len(ss)
      BY <1>1
    <3> QED
      BY <2>3, <3>1 DEF T
  <2> QED
    BY <2>4
<1> QED
  BY <1>5, <1>6, <1>7, <1>8 DEF Flattens

LEMMA ConcatMembers ==
  ASSUME NEW S, NEW s \in Seq(S), NEW t \in Seq(S)
  PROVE ToSet(s \o t) = ToSet(s) \cup ToSet(t)
<1>1. Range(s \o t) = Range(s) \cup Range(t)
  BY RangeConcatenation
<1> QED
  BY <1>1, Zenon DEF Range, ToSet

LEMMA FlattenMembers ==
  ASSUME NEW S, NEW ss \in Seq(Seq(S))
  PROVE FlattenSeq(ss) \in Seq(S) /\ ToSet(FlattenSeq(ss)) = UNION {ToSet(ss[i]) : i \in DOMAIN ss}
<1>1. PICK c : Flattens(ss, c) /\ \A n \in 0 .. Len(ss) : c[n] \in Seq(S)
  BY Flat
<1>2. Len(ss) \in Nat /\ DOMAIN ss = 1 .. Len(ss)
  OBVIOUS
<1> DEFINE T == {n \in Nat : n <= Len(ss) => ToSet(c[n]) = UNION {ToSet(ss[i]) : i \in 1 .. n}}
<1>3. 0 \in T
  <2>1. c[0] = <<>> /\ 1 .. 0 = {}
    BY <1>1 DEF Flattens
  <2>2. ToSet(<<>>) = {}
    BY DEF ToSet
  <2> QED
    BY <2>1, <2>2
<1>4. ASSUME NEW n \in T PROVE n + 1 \in T
  <2>1. SUFFICES ASSUME n + 1 <= Len(ss)
                 PROVE ToSet(c[n + 1]) = UNION {ToSet(ss[i]) : i \in 1 .. n + 1}
    OBVIOUS
  <2>2. n \in 0 .. Len(ss) - 1 /\ n + 1 \in 1 .. Len(ss) /\ ToSet(c[n]) = UNION {ToSet(ss[i]) : i \in 1 .. n}
    BY <1>2, <2>1
  <2>3. c[n + 1] = c[n] \o ss[n + 1] /\ c[n] \in Seq(S) /\ ss[n + 1] \in Seq(S)
    <3>1. n \in 0 .. Len(ss)
      BY <1>2, <2>2
    <3>2. c[n] \in Seq(S)
      BY <1>1, <3>1
    <3>3. c[n + 1] = c[n] \o ss[n + 1]
      BY <1>1, <2>2 DEF Flattens
    <3>4. ss[n + 1] \in Seq(S)
      BY <1>2, <2>2
    <3> QED
      BY <3>2, <3>3, <3>4
  <2>4. ToSet(c[n + 1]) = ToSet(c[n]) \cup ToSet(ss[n + 1])
    BY <2>3, ConcatMembers
  <2>5. 1 .. n + 1 = (1 .. n) \cup {n + 1}
    BY <2>2
  <2> QED
    BY <2>2, <2>4, <2>5
<1> HIDE DEF T
<1>5. T = Nat
  BY <1>3, <1>4, Induction DEF T
<1>6. ToSet(c[Len(ss)]) = UNION {ToSet(ss[i]) : i \in 1 .. Len(ss)}
  <2>1. Len(ss) \in T /\ Len(ss) <= Len(ss)
    BY <1>2, <1>5
  <2> QED
    BY <2>1 DEF T
<1> QED
  BY <1>1, <1>2, <1>6 DEF Flattens

-----------------------------------------------------------------------------
(* Runs of operations, one after another.                                  *)

LEMMA RunOf ==
  ASSUME NEW S, NEW ops \in Seq(S), NEW h
  PROVE \E a : Runs(h, ops, a)
<1>1. DOMAIN ops = 1 .. Len(ops) /\ Len(ops) \in Nat
  BY LenProperties
<1> QED
  BY <1>1, Run, Zenon

\* The graph after n operations is that of any run.
LEMMA RunsAgree ==
  ASSUME NEW h, NEW ops, NEW a, Runs(h, ops, a), Len(ops) \in Nat,
         NEW len \in Nat, len <= Len(ops),
         NEW b, b[0] = h, \A n \in 0 .. len - 1 : b[n + 1] = Apply(b[n], ops[n + 1])
  PROVE b[len] = a[len]
<1> DEFINE T == {n \in Nat : n <= len => b[n] = a[n]}
<1>1. 0 \in T
  BY DEF Runs
<1>2. ASSUME NEW n \in T PROVE n + 1 \in T
  <2>1. n \in Nat /\ n + 1 \in Nat
    OBVIOUS
  <2>2. ASSUME n + 1 <= len PROVE b[n + 1] = a[n + 1]
    <3>1. n \in 0 .. len - 1 /\ n \in 0 .. Len(ops) - 1 /\ b[n] = a[n]
      BY <2>1, <2>2
    <3>2. b[n + 1] = Apply(b[n], ops[n + 1])
      BY <3>1
    <3>3. a[n + 1] = Apply(a[n], ops[n + 1])
      BY <3>1 DEF Runs
    <3> QED
      BY <3>1, <3>2, <3>3
  <2> QED
    BY <2>1, <2>2
<1> HIDE DEF T
<1>3. T = Nat
  BY <1>1, <1>2, Induction DEF T
<1>4. len \in T /\ len <= len
  BY <1>3
<1> QED
  BY <1>4 DEF T

LEMMA ApplyNone ==
  ASSUME NEW h
  PROVE ApplyAll(h, <<>>) = h
<1>1. PICK a : Runs(h, <<>>, a)
  BY RunOf, EmptySeq
<1> QED
  BY <1>1, EmptySeq DEF Runs

LEMMA ApplyPrefix ==
  ASSUME NEW S, NEW ops \in Seq(S), NEW h, NEW a, Runs(h, ops, a), NEW n \in 0 .. Len(ops)
  PROVE ApplyAll(h, SubSeq(ops, 1, n)) = a[n]
<1> DEFINE s == SubSeq(ops, 1, n)
<1>1. Len(ops) \in Nat /\ n \in Nat /\ n <= Len(ops)
  OBVIOUS
<1>2. s \in Seq(S) /\ Len(s) = n /\ \A i \in 1 .. n : s[i] = ops[i]
  OBVIOUS
<1> HIDE DEF s
<1>3. PICK b : Runs(h, s, b)
  BY <1>2, RunOf
<1>4. b[0] = h /\ b[n] = ApplyAll(h, s)
  BY <1>2, <1>3 DEF Runs
<1>5. ASSUME NEW i \in 0 .. n - 1 PROVE b[i + 1] = Apply(b[i], ops[i + 1])
  <2>1. i + 1 \in 1 .. n
    BY <1>1
  <2> QED
    BY <1>2, <1>3, <2>1 DEF Runs
<1>6. b[n] = a[n]
  BY <1>1, <1>4, <1>5, RunsAgree
<1> QED
  BY <1>4, <1>6 DEF s

LEMMA ApplyConcat ==
  ASSUME NEW S, NEW s \in Seq(S), NEW t \in Seq(S), NEW h
  PROVE ApplyAll(h, s \o t) = ApplyAll(ApplyAll(h, s), t)
<1> DEFINE st == s \o t
           m == Len(s)
           l == Len(t)
<1>1. /\ st \in Seq(S) /\ Len(st) = m + l /\ m \in Nat /\ l \in Nat
      /\ \A i \in 1 .. m : st[i] = s[i]
      /\ \A i \in 1 .. l : st[m + i] = t[i]
  OBVIOUS
<1>2. PICK a : Runs(h, s, a)
  BY RunOf
<1>3. PICK b : Runs(ApplyAll(h, s), t, b)
  BY RunOf
<1>4. PICK c : Runs(h, st, c)
  BY <1>1, RunOf
<1> HIDE DEF st, m, l
<1>5. a[0] = h /\ a[m] = ApplyAll(h, s) /\ b[0] = a[m] /\ b[l] = ApplyAll(ApplyAll(h, s), t)
      /\ c[m + l] = ApplyAll(h, st)
  BY <1>1, <1>2, <1>3, <1>4 DEF Runs, m, l
<1> DEFINE d == [n \in 0 .. m + l |-> IF n <= m THEN a[n] ELSE b[n - m]]
<1>6. d[0] = h
  BY <1>1, <1>5
<1>7. ASSUME NEW n \in 0 .. (m + l) - 1 PROVE d[n + 1] = Apply(d[n], st[n + 1])
  <2>1. CASE n < m
    <3>1. n \in 0 .. m - 1 /\ n + 1 \in 1 .. m
      BY <1>1, <2>1
    <3>2. d[n + 1] = a[n + 1] /\ d[n] = a[n]
      BY <1>1, <3>1
    <3>3. a[n + 1] = Apply(a[n], s[n + 1])
      BY <1>2, <3>1 DEF Runs, m
    <3> HIDE DEF d
    <3> QED
      BY <1>1, <3>1, <3>2, <3>3
  <2>2. CASE ~(n < m)
    <3> DEFINE i == n - m
    <3>1. i \in 0 .. l - 1 /\ i + 1 \in 1 .. l /\ m + (i + 1) = n + 1
      BY <1>1, <2>2
    <3>2. d[n + 1] = b[i + 1]
      BY <1>1, <2>2
    <3>3. d[n] = b[i]
      <4>1. CASE n = m
        <5>1. d[n] = a[m] /\ i = 0
          BY <1>1, <4>1
        <5> QED
          BY <1>5, <5>1
      <4>2. CASE n # m
        BY <1>1, <2>2, <4>2
      <4> QED
        BY <4>1, <4>2
    <3> HIDE DEF d, i
    <3>4. b[i + 1] = Apply(b[i], t[i + 1])
      BY <1>3, <3>1 DEF Runs, l
    <3>5. st[n + 1] = t[i + 1]
      <4> DEFINE j == i + 1
      <4>1. j \in 1 .. l /\ m + j = n + 1
        BY <3>1
      <4> HIDE DEF j
      <4>2. st[m + j] = t[j]
        BY <1>1, <4>1
      <4> QED
        BY <4>1, <4>2 DEF j
    <3> QED
      BY <3>2, <3>3, <3>4, <3>5
  <2> QED
    BY <2>1, <2>2
<1>8. d[m + l] = b[l]
  <2>1. CASE l = 0
    <3>1. d[m + l] = a[m]
      BY <1>1, <2>1
    <3> QED
      BY <1>5, <2>1, <3>1
  <2>2. CASE l # 0
    BY <1>1, <2>2
  <2> QED
    BY <2>1, <2>2
<1> HIDE DEF d
<1>9. d[m + l] = c[m + l]
  <2>1. m + l \in Nat /\ m + l <= Len(st) /\ Len(st) \in Nat
    BY <1>1
  <2> DEFINE len == m + l
  <2>2. len \in Nat /\ len <= Len(st) /\ \A n \in 0 .. len - 1 : d[n + 1] = Apply(d[n], st[n + 1])
    BY <1>7, <2>1
  <2> HIDE DEF len
  <2>3. d[len] = c[len]
    BY <1>4, <1>6, <2>1, <2>2, RunsAgree
  <2> QED
    BY <2>3 DEF len
<1> QED
  BY <1>5, <1>8, <1>9 DEF st

LEMMA ApplyFlat ==
  ASSUME NEW S, NEW ss \in Seq(Seq(S)), NEW h
  PROVE \E a : /\ a[0] = h /\ a[Len(ss)] = ApplyAll(h, FlattenSeq(ss))
               /\ \A n \in 0 .. Len(ss) - 1 : a[n + 1] = ApplyAll(a[n], ss[n + 1])
<1>1. PICK c : Flattens(ss, c) /\ \A n \in 0 .. Len(ss) : c[n] \in Seq(S)
  BY Flat
<1>2. Len(ss) \in Nat /\ DOMAIN ss = 1 .. Len(ss)
  OBVIOUS
<1> DEFINE a == [n \in 0 .. Len(ss) |-> ApplyAll(h, c[n])]
<1>3. a[0] = h
  BY <1>1, <1>2, ApplyNone DEF Flattens
<1>4. a[Len(ss)] = ApplyAll(h, FlattenSeq(ss))
  BY <1>1, <1>2 DEF Flattens
<1>5. ASSUME NEW n \in 0 .. Len(ss) - 1 PROVE a[n + 1] = ApplyAll(a[n], ss[n + 1])
  <2>1. n \in 0 .. Len(ss) /\ n + 1 \in 0 .. Len(ss) /\ n + 1 \in 1 .. Len(ss)
    BY <1>2
  <2>2. a[n] = ApplyAll(h, c[n]) /\ a[n + 1] = ApplyAll(h, c[n + 1])
    BY <2>1
  <2> HIDE DEF a
  <2>3. c[n] \in Seq(S) /\ ss[n + 1] \in Seq(S)
    BY <1>1, <1>2, <2>1
  <2>4. c[n + 1] = c[n] \o ss[n + 1]
    BY <1>1 DEF Flattens
  <2> QED
    BY <2>2, <2>3, <2>4, ApplyConcat
<1> QED
  BY <1>3, <1>4, <1>5

LEMMA ConcatPrefix ==
  ASSUME NEW S, NEW s \in Seq(S), NEW t \in Seq(S), NEW n \in 0 .. Len(s \o t)
  PROVE \/ n \in 0 .. Len(s) /\ SubSeq(s \o t, 1, n) = SubSeq(s, 1, n)
        \/ n - Len(s) \in 0 .. Len(t) /\ SubSeq(s \o t, 1, n) = s \o SubSeq(t, 1, n - Len(s))
<1> DEFINE st == s \o t
           m == Len(s)
           l == Len(t)
           p == SubSeq(st, 1, n)
<1>1. /\ st \in Seq(S) /\ Len(st) = m + l /\ m \in Nat /\ l \in Nat
      /\ \A i \in 1 .. m : st[i] = s[i]
      /\ \A i \in 1 .. l : st[m + i] = t[i]
  OBVIOUS
<1> HIDE DEF m, l
<1>2. n \in 0 .. m + l
  BY <1>1
<1>3. p \in Seq(S) /\ Len(p) = n /\ \A i \in 1 .. n : p[i] = st[i]
  <2> HIDE DEF st
  <2>1. n \in 0 .. Len(st)
    BY <1>1, <1>2
  <2> QED
    BY <1>1, <2>1
<1>4. CASE n <= m
  <2> DEFINE q == SubSeq(s, 1, n)
  <2>1. n \in 0 .. m
    BY <1>1, <1>2, <1>4
  <2>2. q \in Seq(S) /\ Len(q) = n /\ \A i \in 1 .. n : q[i] = s[i]
    BY <2>1 DEF m
  <2> HIDE DEF q, p, st
  <2>3. \A i \in 1 .. n : p[i] = q[i]
    BY <1>1, <1>3, <2>1, <2>2
  <2>4. p = q
    BY <1>3, <2>2, <2>3, SeqEqual
  <2> QED
    BY <2>1, <2>4 DEF m, p, q, st
<1>5. CASE ~(n <= m)
  <2> DEFINE k == n - m
             u == SubSeq(t, 1, k)
             q == s \o u
  <2>1. k \in 0 .. l /\ n = m + k
    BY <1>1, <1>2, <1>5
  <2>2. u \in Seq(S) /\ Len(u) = k /\ \A i \in 1 .. k : u[i] = t[i]
    <3> HIDE DEF k
    <3> QED
      BY <2>1 DEF l
  <2> HIDE DEF u, p, st, k
  <2>3. /\ q \in Seq(S) /\ Len(q) = m + k
        /\ \A i \in 1 .. m : q[i] = s[i]
        /\ \A i \in 1 .. k : q[m + i] = u[i]
    BY <2>2 DEF m
  <2>4. ASSUME NEW i \in 1 .. n PROVE p[i] = q[i]
    <3>1. CASE i <= m
      <4>1. i \in 1 .. m /\ i \in 1 .. n
        BY <1>1, <1>2, <3>1
      <4>2. p[i] = st[i] /\ st[i] = s[i] /\ q[i] = s[i]
        BY <1>1, <1>3, <2>3, <4>1
      <4> QED
        BY <4>2
    <3>2. CASE ~(i <= m)
      <4> DEFINE j == i - m
      <4>1. j \in 1 .. k /\ j \in 1 .. l /\ m + j = i
        BY <1>1, <2>1, <3>2
      <4> HIDE DEF j
      <4>2. st[m + j] = t[j] /\ q[m + j] = u[j] /\ u[j] = t[j]
        BY <1>1, <2>2, <2>3, <4>1
      <4> QED
        BY <1>3, <4>1, <4>2
    <3> QED
      BY <3>1, <3>2
  <2> HIDE DEF q
  <2>5. p = q
    BY <1>3, <2>1, <2>3, <2>4, SeqEqual
  <2> QED
    BY <2>1, <2>5 DEF m, l, p, q, st, u, k
<1> QED
  BY <1>4, <1>5

-----------------------------------------------------------------------------
(* The operations of a batch.                                              *)

LEMMA OpFacts ==
  ASSUME NEW n, NEW p, NEW ts, NEW o, NEW src, NEW dst, NEW kind
  PROVE /\ NodeOp(n, p, ts, o).op = "ObserveNode" /\ NodeOp(n, p, ts, o).name = n
        /\ PlaceholderOp(n, ts, o).op = "ObservePlaceholder" /\ PlaceholderOp(n, ts, o).name = n
        /\ EdgeOp(src, dst, kind, ts, o).op = "ObserveEdge"
        /\ EdgeOp(src, dst, kind, ts, o).src = src /\ EdgeOp(src, dst, kind, ts, o).dst = dst
BY DEF NodeOp, PlaceholderOp, EdgeOp

LEMMA ApplyOp ==
  ASSUME NEW h, NEW n, NEW p, NEW ts, NEW o, NEW src, NEW dst, NEW kind
  PROVE /\ Apply(h, NodeOp(n, p, ts, o)) = ObserveNode(h, n, p, ts, o)
        /\ Apply(h, PlaceholderOp(n, ts, o)) = ObservePlaceholder(h, n, ts, o)
        /\ Apply(h, EdgeOp(src, dst, kind, ts, o)) = ObserveEdge(h, src, dst, kind, ts, o)
        /\ Apply(h, RetireNodeOp(n, ts)) = RetireNode(h, n, ts)
        /\ Apply(h, RetireEdgeOp(src, dst, kind, ts)) = RetireEdge(h, src, dst, kind, ts)
<1>1. Apply(h, NodeOp(n, p, ts, o)) = ObserveNode(h, n, p, ts, o)
  BY DEF Apply, NodeOp
<1>2. Apply(h, PlaceholderOp(n, ts, o)) = ObservePlaceholder(h, n, ts, o)
  BY DEF Apply, PlaceholderOp
<1>3. Apply(h, EdgeOp(src, dst, kind, ts, o)) = ObserveEdge(h, src, dst, kind, ts, o)
  BY DEF Apply, EdgeOp
<1>4. Apply(h, RetireNodeOp(n, ts)) = RetireNode(h, n, ts)
  BY DEF Apply, RetireNodeOp
<1>5. Apply(h, RetireEdgeOp(src, dst, kind, ts)) = RetireEdge(h, src, dst, kind, ts)
  BY DEF Apply, RetireEdgeOp
<1> QED
  BY <1>1, <1>2, <1>3, <1>4, <1>5

Batch(b) ==
  /\ DOMAIN b = NameSet
  /\ \A n \in Asserted(b) :
       /\ n \in NameSet /\ b[n].props \in scope.props /\ b[n].props \in Contents /\ b[n].origin \in Labels
       /\ b[n].edges \subseteq (NameSet \ {n}) \X Kinds

LEMMA SnapshotFacts ==
  ASSUME scope \in Scopes, NEW b \in Snapshots[scope]
  PROVE Batch(b)
<1>1. /\ b \in [NameSet -> UNION {Entities(scope, n) : n \in NameSet} \cup {Absent}]
      /\ \A n \in NameSet : b[n] = Absent \/ b[n] \in Entities(scope, n)
  BY DEF Snapshots, NameSet
<1>2. ASSUME NEW n \in Asserted(b)
      PROVE /\ n \in NameSet /\ b[n].props \in scope.props /\ b[n].origin \in scope.origins
            /\ b[n].edges \subseteq (NameSet \ {n}) \X Kinds
  <2>1. n \in NameSet /\ b[n].present
    BY <1>1 DEF Asserted
  <2> DEFINE e == b[n]
  <2>2. e = Absent \/ e \in Entities(scope, n)
    BY <1>1, <2>1
  <2> HIDE DEF e
  <2>3. ~Absent.present
    BY DEF Absent
  <2>4. e \in Entities(scope, n)
    BY <2>1, <2>2, <2>3 DEF e
  <2>5. e.props \in scope.props /\ e.origin \in scope.origins /\ e.edges \subseteq (NameSet \ {n}) \X Kinds
    BY <2>4 DEF Entities, NameSet
  <2> QED
    BY <2>1, <2>5 DEF e
<1> QED
  BY <1>1, <1>2 DEF Batch, Contents, Labels

NodeOps(b, ts) == {NodeOp(n, b[n].props, ts, b[n].origin) : n \in Asserted(b)}
PlaceOps(b, ts) == {PlaceholderOp(e[2], ts, b[e[1]].origin) : e \in AssertedEdges(b)}
EdgeOps(b, ts) == {EdgeOp(e[1], e[2], e[3], ts, b[e[1]].origin) : e \in AssertedEdges(b)}
Observations(b, ts) == NodeOps(b, ts) \cup PlaceOps(b, ts) \cup EdgeOps(b, ts)
Retirements(ts) ==
  {RetireEdgeOp(e[1], e[2], e[3], ts) : e \in NameSet \X NameSet \X Kinds}
    \cup {RetireNodeOp(n, ts) : n \in NameSet}

\* Both ends of an edge are observed before it.
Ground(ops, j) ==
  ops[j].op = "ObserveEdge" =>
    /\ \E i \in 1 .. j - 1 : ops[i].op = "ObserveNode" /\ ops[i].name = ops[j].src
    /\ \E i \in 1 .. j - 1 : ops[i].op = "ObservePlaceholder" /\ ops[i].name = ops[j].dst
Grounded(ops) == \A j \in 1 .. Len(ops) : Ground(ops, j)

LEMMA EdgeFacts ==
  ASSUME NEW b, Batch(b), NEW e \in AssertedEdges(b)
  PROVE /\ e[1] \in Asserted(b) /\ e[1] \in NameSet /\ e[2] \in NameSet /\ e[3] \in Kinds
        /\ e = <<e[1], e[2], e[3]>> /\ b[e[1]].origin \in Labels
<1>0. PICK n \in Asserted(b) : \E d \in b[n].edges : e = <<n, d[1], d[2]>>
  BY DEF AssertedEdges
<1>1. PICK d \in b[n].edges : e = <<n, d[1], d[2]>>
  BY <1>0
<1>2. n \in NameSet /\ d \in (NameSet \ {n}) \X Kinds /\ b[n].origin \in Labels
  BY DEF Batch
<1>3. d[1] \in NameSet /\ d[2] \in Kinds
  BY <1>2
<1> QED
  BY <1>1, <1>2, <1>3

LEMMA GroundedConcat ==
  ASSUME NEW S, NEW s \in Seq(S), NEW t \in Seq(S), Grounded(s),
         \A j \in 1 .. Len(t) : Ground(s \o t, Len(s) + j)
  PROVE Grounded(s \o t)
<1> DEFINE st == s \o t
           m == Len(s)
           l == Len(t)
<1>1. /\ Len(st) = m + l /\ m \in Nat /\ l \in Nat
      /\ \A i \in 1 .. m : st[i] = s[i]
  OBVIOUS
<1>2. \A j \in 1 .. l : Ground(st, m + j)
  OBVIOUS
<1>3. \A j \in 1 .. m : Ground(s, j)
  BY DEF Grounded
<1> HIDE DEF st, m, l
<1>4. ASSUME NEW j \in 1 .. m PROVE Ground(st, j)
  <2>1. j \in 1 .. m /\ \A i \in 1 .. j - 1 : i \in 1 .. m
    BY <1>1
  <2>2. st[j] = s[j] /\ \A i \in 1 .. j - 1 : st[i] = s[i]
    BY <1>1, <2>1
  <2>3. Ground(s, j)
    BY <1>3
  <2> QED
    BY <2>2, <2>3, Zenon DEF Ground
<1>5. ASSUME NEW j \in 1 .. m + l PROVE Ground(st, j)
  <2>1. CASE j \in 1 .. m
    BY <1>4, <2>1
  <2>2. CASE j \notin 1 .. m
    <3> DEFINE i == j - m
    <3>1. i \in 1 .. l /\ m + i = j
      BY <1>1, <2>2
    <3> HIDE DEF i
    <3>2. Ground(st, m + i)
      BY <1>2, <3>1
    <3> QED
      BY <3>1, <3>2
  <2> QED
    BY <2>1, <2>2
<1> QED
  BY <1>1, <1>5 DEF Grounded, st

LEMMA GroundedAfter ==
  ASSUME NEW S, NEW s \in Seq(S), NEW t \in Seq(S), Grounded(s), Grounded(t)
  PROVE Grounded(s \o t)
<1> DEFINE st == s \o t
           m == Len(s)
           l == Len(t)
<1>1. /\ m \in Nat /\ l \in Nat
      /\ \A i \in 1 .. l : st[m + i] = t[i]
  OBVIOUS
<1>2. \A j \in 1 .. l : Ground(t, j)
  BY DEF Grounded
<1> HIDE DEF st, m, l
<1>3. ASSUME NEW j \in 1 .. l PROVE Ground(st, m + j)
  <2>1. st[m + j] = t[j]
    BY <1>1
  <2>2. ASSUME NEW i \in 1 .. j - 1 PROVE m + i \in 1 .. (m + j) - 1 /\ st[m + i] = t[i]
    <3>1. i \in 1 .. l /\ m + i \in 1 .. (m + j) - 1
      BY <1>1
    <3> QED
      BY <1>1, <3>1
  <2>3. SUFFICES ASSUME t[j].op = "ObserveEdge"
                 PROVE /\ \E i \in 1 .. (m + j) - 1 : st[i].op = "ObserveNode" /\ st[i].name = t[j].src
                       /\ \E i \in 1 .. (m + j) - 1 : st[i].op = "ObservePlaceholder" /\ st[i].name = t[j].dst
    BY <2>1 DEF Ground
  <2>4. PICK i \in 1 .. j - 1 : t[i].op = "ObserveNode" /\ t[i].name = t[j].src
    BY <1>2, <2>3 DEF Ground
  <2>5. PICK k \in 1 .. j - 1 : t[k].op = "ObservePlaceholder" /\ t[k].name = t[j].dst
    BY <1>2, <2>3 DEF Ground
  <2>6. st[m + i].op = "ObserveNode" /\ st[m + i].name = t[j].src /\ m + i \in 1 .. (m + j) - 1
    BY <2>2, <2>4
  <2>7. st[m + k].op = "ObservePlaceholder" /\ st[m + k].name = t[j].dst /\ m + k \in 1 .. (m + j) - 1
    BY <2>2, <2>5
  <2> QED
    BY <2>6, <2>7
<1> QED
  BY <1>3, GroundedConcat DEF st, m, l

\* The operations of one entity; of it alone, S are its observations.
OfEntity(b, n, ts) ==
  {NodeOp(n, b[n].props, ts, b[n].origin)}
    \cup {PlaceholderOp(d[1], ts, b[n].origin) : d \in b[n].edges}
    \cup {EdgeOp(n, d[1], d[2], ts, b[n].origin) : d \in b[n].edges}

LEMMA EntityOpsFacts ==
  ASSUME NEW b, NEW n, NEW ts, IsFiniteSet(b[n].edges)
  PROVE /\ EntityOps(n, b[n], ts) \in Seq(OfEntity(b, n, ts))
        /\ ToSet(EntityOps(n, b[n], ts)) = OfEntity(b, n, ts)
        /\ Grounded(EntityOps(n, b[n], ts))
<1> DEFINE S == OfEntity(b, n, ts)
           ds == SetToSeq(b[n].edges)
           o == b[n].origin
           node == NodeOp(n, b[n].props, ts, o)
           place(d) == PlaceholderOp(d[1], ts, o)
           edge(d) == EdgeOp(n, d[1], d[2], ts, o)
           ss == [i \in DOMAIN ds |-> <<place(ds[i]), edge(ds[i])>>]
           head == <<node>>
<1>1. /\ ds \in Seq(b[n].edges) /\ ToSet(ds) = b[n].edges /\ Len(ds) \in Nat /\ DOMAIN ds = 1 .. Len(ds)
      /\ \A i \in 1 .. Len(ds) : ds[i] \in b[n].edges
  <2>1. ds \in Seq(b[n].edges) /\ ToSet(ds) = b[n].edges
    BY SetToSeqFacts
  <2> HIDE DEF ds
  <2> QED
    BY <2>1
<1>2. node \in S /\ \A d \in b[n].edges : place(d) \in S /\ edge(d) \in S
  BY DEF OfEntity
<1>3. EntityOps(n, b[n], ts) = head \o FlattenSeq(ss)
  BY DEF EntityOps
<1> HIDE DEF ds
<1>4. ss \in Seq(Seq(S)) /\ Len(ss) = Len(ds) /\ DOMAIN ss = 1 .. Len(ds)
  <2>1. ASSUME NEW i \in 1 .. Len(ds) PROVE <<place(ds[i]), edge(ds[i])>> \in Seq(S)
    <3>1. place(ds[i]) \in S /\ edge(ds[i]) \in S
      BY <1>1, <1>2
    <3> HIDE DEF S, place, edge
    <3> QED
      BY <3>1
  <2>2. ss \in [1 .. Len(ds) -> Seq(S)]
    <3> HIDE DEF S, place, edge
    <3> QED
      BY <1>1, <2>1
  <2> HIDE DEF ss
  <2> QED
    BY <1>1, <2>2, MadeSeq
<1>5. head \in Seq(S) /\ Len(head) = 1 /\ head[1] = node
  <2> HIDE DEF S, node
  <2> QED
    BY <1>2
<1>6. /\ node.op = "ObserveNode" /\ node.name = n
      /\ \A d : /\ place(d).op = "ObservePlaceholder" /\ place(d).name = d[1]
                /\ edge(d).op = "ObserveEdge" /\ edge(d).src = n /\ edge(d).dst = d[1]
  BY OpFacts
<1>7. ASSUME NEW i \in 1 .. Len(ds) PROVE ss[i] = <<place(ds[i]), edge(ds[i])>>
  BY <1>1
<1>8. PICK c : Flattens(ss, c) /\ \A k \in 0 .. Len(ss) : c[k] \in Seq(S)
  BY <1>4, Flat
<1> HIDE DEF ss, S
<1> DEFINE T == {k \in Nat : k <= Len(ds) => Grounded(head \o c[k])}
<1>9. 0 \in T
  <2>1. head \o c[0] = head
    BY <1>5, <1>8 DEF Flattens
  <2>2. Ground(head, 1)
    BY <1>5, <1>6 DEF Ground
  <2>3. Grounded(head)
    <3>1. 1 .. Len(head) = {1}
      BY <1>5
    <3> HIDE DEF head
    <3> QED
      BY <2>2, <3>1 DEF Grounded
  <2> QED
    BY <2>1, <2>3
<1>10. ASSUME NEW k \in T PROVE k + 1 \in T
  <2>1. SUFFICES ASSUME k + 1 <= Len(ds) PROVE Grounded(head \o c[k + 1])
    OBVIOUS
  <2>2. k \in Nat /\ k + 1 \in 1 .. Len(ds) /\ k \in 0 .. Len(ds) - 1 /\ k \in 0 .. Len(ss) /\ Grounded(head \o c[k])
    BY <1>1, <1>4, <2>1
  <2> DEFINE d == ds[k + 1]
             s == head \o c[k]
             t == ss[k + 1]
             len == Len(c[k])
             st == s \o t
             pl == place(d)
             ed == edge(d)
  <2>3. c[k + 1] = c[k] \o t /\ c[k] \in Seq(S)
    BY <1>4, <1>8, <2>2 DEF Flattens
  <2>4. t = <<pl, ed>>
    BY <1>7, <2>2
  <2>5. t \in Seq(S)
    BY <1>4, <2>2
  <2>6. len \in Nat /\ s \in Seq(S) /\ Len(s) = 1 + len /\ s[1] = node
    <3> HIDE DEF head
    <3>1. s \in Seq(S) /\ Len(s) = 1 + len
      <4> DEFINE x == c[k]
      <4>1. head \in Seq(S) /\ x \in Seq(S)
        BY <1>5, <2>3
      <4> HIDE DEF x
      <4>2. head \o x \in Seq(S) /\ Len(head \o x) = Len(head) + Len(x)
        BY <4>1, ConcatProperties
      <4> QED
        BY <1>5, <4>2 DEF x
    <3>2. s[1] = head[1]
      <4>1. 1 \in 1 .. Len(head) + Len(c[k]) /\ 1 <= Len(head)
        BY <1>5, <2>3
      <4> QED
        BY <1>5, <2>3, <4>1, ConcatProperties
    <3> QED
      BY <1>5, <2>3, <3>1, <3>2
  <2>7. /\ pl.op = "ObservePlaceholder" /\ pl.name = d[1]
        /\ ed.op = "ObserveEdge" /\ ed.src = n /\ ed.dst = d[1]
    BY <1>6
  <2> HIDE DEF s, d, len, pl, ed, node
  <2>8. Len(t) = 2 /\ t[1] = pl /\ t[2] = ed
    BY <2>4
  <2>9. st[1] = node /\ st[len + 2] = pl /\ st[len + 3] = ed
    <3> HIDE DEF t
    <3>1. st[1] = s[1]
      BY <2>5, <2>6
    <3>2. st[(1 + len) + 1] = t[1] /\ st[(1 + len) + 2] = t[2]
      <4> DEFINE m == 1 + len
      <4>1. Len(s) = m /\ m \in Nat
        BY <2>6
      <4> HIDE DEF m
      <4>2. \A i \in 1 .. m + 2 : st[i] = IF i <= m THEN s[i] ELSE t[i - m]
        BY <2>5, <2>6, <2>8, <4>1, ConcatProperties
      <4>3. m + 1 \in 1 .. m + 2 /\ m + 2 \in 1 .. m + 2 /\ ~(m + 1 <= m) /\ ~(m + 2 <= m)
            /\ (m + 1) - m = 1 /\ (m + 2) - m = 2
        BY <4>1
      <4> HIDE DEF st
      <4>4. st[m + 1] = t[1] /\ st[m + 2] = t[2]
        BY <4>2, <4>3
      <4> QED
        BY <4>4 DEF m
    <3>3. (1 + len) + 1 = len + 2 /\ (1 + len) + 2 = len + 3
      BY <2>6
    <3> QED
      BY <2>6, <2>8, <3>1, <3>2, <3>3
  <2> HIDE DEF st, t
  <2>10. Ground(st, len + 2) /\ Ground(st, len + 3)
    <3>1. 1 \in 1 .. (len + 3) - 1 /\ len + 2 \in 1 .. (len + 3) - 1
      BY <2>6
    <3> QED
      BY <1>6, <2>7, <2>9, <3>1 DEF Ground
  <2>11. \A j \in 1 .. Len(t) : Ground(s \o t, Len(s) + j)
    <3>1. ASSUME NEW j \in 1 .. Len(t) PROVE Ground(st, Len(s) + j)
      <4>1. j = 1 \/ j = 2
        BY <2>8
      <4>2. (1 + len) + 1 = len + 2 /\ (1 + len) + 2 = len + 3
        BY <2>6
      <4> QED
        BY <2>6, <2>10, <4>1, <4>2
    <3> QED
      BY <3>1 DEF st
  <2>12. Grounded(s \o t)
    <3>1. Grounded(s)
      BY <2>2 DEF s
    <3> QED
      BY <2>5, <2>6, <2>11, <3>1, GroundedConcat
  <2>13. s \o t = head \o c[k + 1]
    <3> HIDE DEF head
    <3> QED
      <4>1. (head \o c[k]) \o t = head \o (c[k] \o t)
        <5> DEFINE x == c[k]
        <5>1. head \in Seq(S) /\ x \in Seq(S) /\ t \in Seq(S)
          BY <1>5, <2>3, <2>5
        <5> HIDE DEF x, t
        <5>2. (head \o x) \o t = head \o (x \o t)
          BY <5>1, ConcatAssociative
        <5> QED
          BY <5>2 DEF x
      <4> QED
        BY <2>3, <4>1 DEF s
  <2> QED
    BY <2>12, <2>13
<1> HIDE DEF T
<1>11. T = Nat
  BY <1>9, <1>10, Induction DEF T
<1>12. Grounded(head \o FlattenSeq(ss))
  <2>1. Len(ds) \in T /\ Len(ds) <= Len(ds)
    BY <1>1, <1>11
  <2>2. c[Len(ds)] = FlattenSeq(ss)
    BY <1>4, <1>8 DEF Flattens
  <2> QED
    BY <2>1, <2>2 DEF T
<1>13. FlattenSeq(ss) \in Seq(S) /\ ToSet(FlattenSeq(ss)) = UNION {ToSet(ss[i]) : i \in 1 .. Len(ds)}
  BY <1>4, FlattenMembers
<1>14. head \o FlattenSeq(ss) \in Seq(S)
  <2> HIDE DEF head
  <2> QED
    BY <1>5, <1>13, ConcatProperties
<1>15. ToSet(head \o FlattenSeq(ss)) = S
  <2>1. ToSet(head) = {node}
    <3> HIDE DEF node
    <3>1. DOMAIN head = {1}
      OBVIOUS
    <3> QED
      BY <3>1 DEF ToSet
  <2>2. ToSet(head \o FlattenSeq(ss)) = ToSet(head) \cup ToSet(FlattenSeq(ss))
    <3> HIDE DEF head
    <3> QED
      BY <1>5, <1>13, ConcatMembers
  <2>3. ASSUME NEW i \in 1 .. Len(ds) PROVE ToSet(ss[i]) = {place(ds[i]), edge(ds[i])}
    <3> DEFINE p == place(ds[i])
               e == edge(ds[i])
    <3>1. ss[i] = <<p, e>>
      BY <1>7
    <3> HIDE DEF p, e
    <3>2. DOMAIN <<p, e>> = {1, 2}
      OBVIOUS
    <3>3. ToSet(ss[i]) = {p, e}
      BY <3>1, <3>2 DEF ToSet
    <3> QED
      BY <3>3 DEF p, e
  <2>4. \A d : d \in b[n].edges <=> \E i \in 1 .. Len(ds) : d = ds[i]
    BY <1>1 DEF ToSet
  <2> DEFINE U == UNION {ToSet(ss[i]) : i \in 1 .. Len(ds)}
  <2>5. ASSUME NEW y PROVE y \in U <=> \E d \in b[n].edges : y = place(d) \/ y = edge(d)
    <3>1. y \in U <=> \E i \in 1 .. Len(ds) : y \in ToSet(ss[i])
      OBVIOUS
    <3> HIDE DEF place, edge, U
    <3>2. y \in U <=> \E i \in 1 .. Len(ds) : y = place(ds[i]) \/ y = edge(ds[i])
      BY <2>3, <3>1
    <3> QED
      BY <2>4, <3>2
  <2>6. \A y : y \in S <=> y = node \/ \E d \in b[n].edges : y = place(d) \/ y = edge(d)
    <3> HIDE DEF U
    <3> QED
      BY DEF S, OfEntity
  <2> HIDE DEF node, place, edge, U
  <2>7. ToSet(FlattenSeq(ss)) = U
    BY <1>13 DEF U
  <2>8. ASSUME NEW y PROVE y \in {node} \cup U <=> y \in S
    BY <2>5, <2>6
  <2> QED
    BY <2>1, <2>2, <2>7, <2>8
<1> QED
  BY <1>3, <1>12, <1>14, <1>15 DEF S

LEMMA NamesFacts ==
  /\ Names \in Seq(NameSet) /\ Len(Names) \in Nat /\ DOMAIN Names = 1 .. Len(Names)
  /\ \A n : n \in NameSet <=> \E i \in 1 .. Len(Names) : n = Names[i]
  /\ IsFiniteSet(NameSet) /\ IsFiniteSet(Kinds)
<1>1. Names \in Seq(NameSet) /\ IsFiniteSet(Kinds)
  BY NamesAssumption DEF NameSet
<1>2. Len(Names) \in Nat /\ DOMAIN Names = 1 .. Len(Names) /\ Names \in [1 .. Len(Names) -> NameSet]
  BY <1>1, LenProperties
<1>3. \A n : n \in NameSet <=> \E i \in 1 .. Len(Names) : n = Names[i]
  BY <1>2 DEF NameSet, ToSet
<1>4. Names \in Surjection(1 .. Len(Names), NameSet)
  BY <1>2, <1>3 DEF Surjection
<1>5. IsFiniteSet(1 .. Len(Names))
  BY <1>2, FS_Interval
<1>6. IsFiniteSet(NameSet)
  BY <1>4, <1>5, FS_Surjection
<1> QED
  BY <1>1, <1>2, <1>3, <1>6

LEMMA ObservationsOf ==
  ASSUME NEW b, Batch(b), NEW ts
  PROVE \A y : y \in Observations(b, ts) <=> \E n \in Asserted(b) : y \in OfEntity(b, n, ts)
<1> SUFFICES ASSUME NEW y
             PROVE y \in Observations(b, ts) <=> \E n \in Asserted(b) : y \in OfEntity(b, n, ts)
  OBVIOUS
<1>1. \A e : e \in AssertedEdges(b) <=> \E n \in Asserted(b) : \E d \in b[n].edges : e = <<n, d[1], d[2]>>
  BY DEF AssertedEdges
<1>2. ASSUME y \in Observations(b, ts) PROVE \E n \in Asserted(b) : y \in OfEntity(b, n, ts)
  <2>1. CASE y \in NodeOps(b, ts)
    BY <2>1 DEF NodeOps, OfEntity
  <2>2. CASE y \in PlaceOps(b, ts)
    <3>1. PICK e \in AssertedEdges(b) : y = PlaceholderOp(e[2], ts, b[e[1]].origin)
      BY <2>2 DEF PlaceOps
    <3>2. PICK n \in Asserted(b) : \E d \in b[n].edges : e = <<n, d[1], d[2]>>
      BY <1>1, <3>1
    <3>3. PICK d \in b[n].edges : e = <<n, d[1], d[2]>>
      BY <3>2
    <3>4. y = PlaceholderOp(d[1], ts, b[n].origin)
      BY <3>1, <3>3
    <3> QED
      BY <3>4 DEF OfEntity
  <2>3. CASE y \in EdgeOps(b, ts)
    <3>1. PICK e \in AssertedEdges(b) : y = EdgeOp(e[1], e[2], e[3], ts, b[e[1]].origin)
      BY <2>3 DEF EdgeOps
    <3>2. PICK n \in Asserted(b) : \E d \in b[n].edges : e = <<n, d[1], d[2]>>
      BY <1>1, <3>1
    <3>3. PICK d \in b[n].edges : e = <<n, d[1], d[2]>>
      BY <3>2
    <3>4. y = EdgeOp(n, d[1], d[2], ts, b[n].origin)
      BY <3>1, <3>3
    <3> QED
      BY <3>4 DEF OfEntity
  <2> QED
    BY <1>2, <2>1, <2>2, <2>3 DEF Observations
<1>3. ASSUME NEW n \in Asserted(b), y \in OfEntity(b, n, ts) PROVE y \in Observations(b, ts)
  <2>1. CASE y = NodeOp(n, b[n].props, ts, b[n].origin)
    BY <2>1 DEF Observations, NodeOps
  <2>2. ASSUME NEW d \in b[n].edges
        PROVE /\ PlaceholderOp(d[1], ts, b[n].origin) \in PlaceOps(b, ts)
              /\ EdgeOp(n, d[1], d[2], ts, b[n].origin) \in EdgeOps(b, ts)
    <3> DEFINE e == <<n, d[1], d[2]>>
    <3>1. e \in AssertedEdges(b) /\ e[1] = n /\ e[2] = d[1] /\ e[3] = d[2]
      BY <1>1
    <3> HIDE DEF e
    <3>2. PlaceholderOp(e[2], ts, b[e[1]].origin) \in PlaceOps(b, ts)
      BY <3>1 DEF PlaceOps
    <3>3. EdgeOp(e[1], e[2], e[3], ts, b[e[1]].origin) \in EdgeOps(b, ts)
      BY <3>1 DEF EdgeOps
    <3> QED
      BY <3>1, <3>2, <3>3
  <2>3. CASE \E d \in b[n].edges : y = PlaceholderOp(d[1], ts, b[n].origin) \/ y = EdgeOp(n, d[1], d[2], ts, b[n].origin)
    BY <2>2, <2>3 DEF Observations
  <2> QED
    BY <1>3, <2>1, <2>3 DEF OfEntity
<1> QED
  BY <1>2, <1>3

LEMMA BatchOpsFacts ==
  ASSUME NEW b, Batch(b), NEW ts
  PROVE /\ BatchOps(b, ts) \in Seq(Observations(b, ts)) /\ ToSet(BatchOps(b, ts)) = Observations(b, ts)
        /\ Grounded(BatchOps(b, ts))
<1> DEFINE S == Observations(b, ts)
           len == Len(Names)
           block(i) == IF Names[i] \in Asserted(b) THEN EntityOps(Names[i], b[Names[i]], ts) ELSE <<>>
           ss == [i \in DOMAIN Names |-> block(i)]
<1>1. BatchOps(b, ts) = FlattenSeq(ss)
  BY DEF BatchOps
<1>2. len \in Nat /\ DOMAIN Names = 1 .. len
  BY NamesFacts
<1>3. ASSUME NEW n \in Asserted(b)
      PROVE /\ EntityOps(n, b[n], ts) \in Seq(S) /\ ToSet(EntityOps(n, b[n], ts)) = OfEntity(b, n, ts)
            /\ Grounded(EntityOps(n, b[n], ts))
  <2>1. b[n].edges \subseteq (NameSet \ {n}) \X Kinds
    BY DEF Batch
  <2>2. IsFiniteSet(NameSet \X Kinds) /\ b[n].edges \in SUBSET (NameSet \X Kinds)
    BY <2>1, NamesFacts, FS_Product
  <2>3. IsFiniteSet(b[n].edges)
    BY <2>2, FS_Subset
  <2>4. /\ EntityOps(n, b[n], ts) \in Seq(OfEntity(b, n, ts))
        /\ ToSet(EntityOps(n, b[n], ts)) = OfEntity(b, n, ts) /\ Grounded(EntityOps(n, b[n], ts))
    BY <2>3, EntityOpsFacts
  <2>5. OfEntity(b, n, ts) \subseteq S
    BY ObservationsOf
  <2> HIDE DEF S
  <2> QED
    BY <2>4, <2>5, SeqMonotonic
<1>4. Grounded(<<>>) /\ <<>> \in Seq(S) /\ ToSet(<<>>) = {}
  <2>1. 1 .. Len(<<>>) = {}
    OBVIOUS
  <2>2. Grounded(<<>>)
    BY <2>1 DEF Grounded
  <2>3. ToSet(<<>>) = {}
    BY DEF ToSet
  <2> HIDE DEF S
  <2> QED
    BY <2>2, <2>3, EmptySeq
<1> HIDE DEF S, len
<1>5. ASSUME NEW i \in 1 .. len PROVE block(i) \in Seq(S) /\ Grounded(block(i))
  BY <1>3, <1>4
<1>6. ss \in Seq(Seq(S)) /\ Len(ss) = len /\ DOMAIN ss = 1 .. len /\ \A i \in 1 .. len : ss[i] = block(i)
  <2> HIDE DEF block
  <2>1. ss \in [1 .. len -> Seq(S)]
    BY <1>2, <1>5
  <2>2. \A i \in 1 .. len : ss[i] = block(i)
    BY <1>2
  <2> HIDE DEF ss
  <2> QED
    BY <1>2, <2>1, <2>2, MadeSeq
<1>7. PICK c : Flattens(ss, c) /\ \A k \in 0 .. Len(ss) : c[k] \in Seq(S)
  BY <1>6, Flat
<1> HIDE DEF ss, block
<1> DEFINE T == {k \in Nat : k <= len => Grounded(c[k])}
<1>8. 0 \in T
  BY <1>4, <1>7 DEF Flattens
<1>9. ASSUME NEW k \in T PROVE k + 1 \in T
  <2>1. SUFFICES ASSUME k + 1 <= len PROVE Grounded(c[k + 1])
    OBVIOUS
  <2>2. k \in 0 .. len - 1 /\ k \in 0 .. len /\ k + 1 \in 1 .. len /\ Grounded(c[k])
    BY <1>2, <2>1
  <2>3. c[k + 1] = c[k] \o ss[k + 1] /\ c[k] \in Seq(S)
    BY <1>6, <1>7, <2>2 DEF Flattens
  <2>4. ss[k + 1] \in Seq(S) /\ Grounded(ss[k + 1])
    BY <1>5, <1>6, <2>2
  <2> QED
    BY <2>2, <2>3, <2>4, GroundedAfter
<1> HIDE DEF T
<1>10. T = Nat
  BY <1>8, <1>9, Induction DEF T
<1>11. Grounded(FlattenSeq(ss))
  <2>1. len \in T /\ len <= len
    BY <1>2, <1>10
  <2>2. c[len] = FlattenSeq(ss)
    BY <1>6, <1>7 DEF Flattens
  <2> QED
    BY <2>1, <2>2 DEF T
<1>12. FlattenSeq(ss) \in Seq(S) /\ ToSet(FlattenSeq(ss)) = UNION {ToSet(ss[i]) : i \in 1 .. len}
  BY <1>6, FlattenMembers
<1>13. UNION {ToSet(ss[i]) : i \in 1 .. len} = S
  <2> DEFINE U == UNION {ToSet(ss[i]) : i \in 1 .. len}
  <2>1. ASSUME NEW y PROVE y \in U <=> \E i \in 1 .. len : y \in ToSet(ss[i])
    OBVIOUS
  <2>2. ASSUME NEW i \in 1 .. len, NEW y
        PROVE y \in ToSet(ss[i]) <=> Names[i] \in Asserted(b) /\ y \in OfEntity(b, Names[i], ts)
    <3>1. CASE Names[i] \in Asserted(b)
      BY <1>3, <1>6, <3>1 DEF block
    <3>2. CASE Names[i] \notin Asserted(b)
      BY <1>4, <1>6, <3>2 DEF block
    <3> QED
      BY <3>1, <3>2
  <2> HIDE DEF U
  <2>3. ASSUME NEW y PROVE y \in U <=> y \in S
    <3>1. \A n \in Asserted(b) : \E i \in 1 .. len : n = Names[i]
      BY NamesFacts DEF Batch, len
    <3>2. y \in S <=> \E n \in Asserted(b) : y \in OfEntity(b, n, ts)
      BY ObservationsOf DEF S
    <3> QED
      BY <2>1, <2>2, <3>1, <3>2
  <2> QED
    BY <2>3 DEF U
<1> QED
  BY <1>1, <1>11, <1>12, <1>13 DEF S

-----------------------------------------------------------------------------
(* What a run of operations at ts does to a graph.                         *)

Later(h, k, ts) ==
  /\ Good(k)
  /\ \A t \in Nat : t < ts => AsOf(k, t) = AsOf(h, t)
  /\ GraphUpTo(h, ts) /\ GraphInOrder(h) => GraphUpTo(k, ts) /\ GraphInOrder(k)

LEMMA LaterSelf ==
  ASSUME NEW h, Good(h), NEW ts
  PROVE Later(h, h, ts)
BY DEF Later

LEMMA LaterStep ==
  ASSUME scope \in Scopes, NEW ts \in Time, NEW h, NEW x, Later(h, x, ts), NEW k, Good(k), Change(x, k, ts)
  PROVE Later(h, k, ts)
<1>1. Typed(x) /\ EdgesIndexed(x) /\ Typed(k) /\ ts \in Nat
  BY ScopeFacts DEF Later, Good
<1>2. ASSUME NEW t \in Nat, t < ts PROVE AsOf(k, t) = AsOf(h, t)
  <2>1. AsOf(k, t) = AsOf(x, t)
    BY <1>1, <1>2, ChangeKeepsPast
  <2> QED
    BY <1>2, <2>1 DEF Later
<1>3. ASSUME GraphUpTo(h, ts), GraphInOrder(h) PROVE GraphUpTo(k, ts) /\ GraphInOrder(k)
  <2>1. GraphUpTo(x, ts) /\ GraphInOrder(x) /\ ts <= ts
    BY <1>1, <1>3 DEF Later
  <2> QED
    BY <1>1, <2>1, ChangeInOrder
<1> QED
  BY <1>2, <1>3 DEF Later

LEMMA LaterAgain ==
  ASSUME NEW ts, NEW h, NEW x, Later(h, x, ts), NEW k, Later(x, k, ts)
  PROVE Later(h, k, ts)
<1>1. ASSUME NEW t \in Nat, t < ts PROVE AsOf(k, t) = AsOf(h, t)
  <2>1. AsOf(k, t) = AsOf(x, t)
    BY <1>1 DEF Later
  <2>2. AsOf(x, t) = AsOf(h, t)
    BY <1>1 DEF Later
  <2> QED
    BY <2>1, <2>2
<1> QED
  BY <1>1 DEF Later

\* What an observation said is still so.
Shows(b, x, n) ==
  n \in OpenNodes(x) /\ ~x.node[n].placeholder /\ Last(x.node[n].versions).props = b[n].props
Stands(b, x, o) ==
  /\ o.op = "ObserveNode" => Shows(b, x, o.name)
  /\ o.op = "ObservePlaceholder" => o.name \in OpenNodes(x)
  /\ o.op = "ObserveEdge" => <<o.src, o.dst, o.kind>> \in DOMAIN x.open

LEMMA OpenNode ==
  ASSUME NEW h, NEW n
  PROVE n \in OpenNodes(h) <=> n \in DOMAIN h.node /\ Current(h.node[n].versions)
BY DEF OpenNodes, HasOpenVersion, Current

LEMMA ObserveStep ==
  ASSUME scope \in Scopes, NEW b, Batch(b), NEW ts \in Time, NEW x, Good(x),
         NEW o \in Observations(b, ts),
         o.op = "ObserveEdge" => o.src \in OpenNodes(x) /\ o.dst \in OpenNodes(x),
         NEW k, k = Apply(x, o)
  PROVE /\ Good(k) /\ Change(x, k, ts) /\ Stands(b, k, o)
        /\ \A oo : Stands(b, x, oo) => Stands(b, k, oo)
<1>1. Typed(x)
  BY DEF Good
\* It is enough that the open nodes, what they say, and the open edges stay.
<1>2. ASSUME \A n \in OpenNodes(x) : n \in OpenNodes(k), \A n : Shows(b, x, n) => Shows(b, k, n),
             \A t \in DOMAIN x.open : t \in DOMAIN k.open
      PROVE \A oo : Stands(b, x, oo) => Stands(b, k, oo)
  BY <1>2 DEF Stands
<1>3. CASE o \in NodeOps(b, ts)
  <2>1. PICK n \in Asserted(b) : o = NodeOp(n, b[n].props, ts, b[n].origin)
    BY <1>3 DEF NodeOps
  <2> DEFINE p == b[n].props
             l == b[n].origin
  <2>2. n \in NameSet /\ p \in Contents /\ l \in Labels
    BY DEF Batch
  <2>3. k = ObserveNode(x, n, p, ts, l)
    BY <2>1, ApplyOp
  <2> HIDE DEF p, l
  <2>4. /\ Good(k) /\ NodeChange(x, k, n, ts) /\ k.open = x.open
        /\ Current(k.node[n].versions) /\ ~k.node[n].placeholder /\ Last(k.node[n].versions).props = p
    BY <2>2, <2>3, ObserveNodeGood
  <2>5. Change(x, k, ts)
    BY <1>1, <2>4, NodeChanges
  <2>6. DOMAIN k.node = DOMAIN x.node \cup {n} /\ \A m \in DOMAIN x.node : m # n => k.node[m] = x.node[m]
    BY <2>4 DEF NodeChange
  <2>7. n \in OpenNodes(k) /\ Shows(b, k, n)
    BY <2>4, <2>6, OpenNode DEF Shows, p
  <2>8. ASSUME NEW m, m # n, m \in OpenNodes(x) PROVE m \in OpenNodes(k) /\ k.node[m] = x.node[m]
    BY <2>6, <2>8, OpenNode
  <2>9. \A m \in OpenNodes(x) : m \in OpenNodes(k)
    BY <2>7, <2>8
  <2>10. ASSUME NEW m, Shows(b, x, m) PROVE Shows(b, k, m)
    BY <2>7, <2>8, <2>10 DEF Shows
  <2>11. o.op = "ObserveNode" /\ o.name = n
    BY <2>1, OpFacts
  <2>12. Stands(b, k, o)
    BY <2>7, <2>11 DEF Stands
  <2> QED
    BY <1>2, <2>4, <2>5, <2>9, <2>10, <2>12
<1>4. CASE o \in PlaceOps(b, ts)
  <2>1. PICK e \in AssertedEdges(b) : o = PlaceholderOp(e[2], ts, b[e[1]].origin)
    BY <1>4 DEF PlaceOps
  <2> DEFINE n == e[2]
             l == b[e[1]].origin
  <2>2. n \in NameSet /\ l \in Labels
    BY EdgeFacts
  <2>3. k = ObservePlaceholder(x, n, ts, l)
    BY <2>1, ApplyOp
  <2> HIDE DEF n, l
  <2>4. /\ Good(k) /\ NodeChange(x, k, n, ts) /\ k.open = x.open
        /\ Current(k.node[n].versions) /\ k.node[n].placeholder = WasPlaceholder(x, n)
        /\ Current(Prior(x, n)) => k.node[n].versions = Prior(x, n)
    BY <2>2, <2>3, ObservePlaceholderGood
  <2>5. Change(x, k, ts)
    BY <1>1, <2>4, NodeChanges
  <2>6. DOMAIN k.node = DOMAIN x.node \cup {n} /\ \A m \in DOMAIN x.node : m # n => k.node[m] = x.node[m]
    BY <2>4 DEF NodeChange
  <2>7. n \in OpenNodes(k)
    BY <2>4, <2>6, OpenNode
  <2>8. ASSUME NEW m, m # n, m \in OpenNodes(x) PROVE m \in OpenNodes(k) /\ k.node[m] = x.node[m]
    BY <2>6, <2>8, OpenNode
  <2>9. \A m \in OpenNodes(x) : m \in OpenNodes(k)
    BY <2>7, <2>8
  <2>10. ASSUME NEW m, Shows(b, x, m) PROVE Shows(b, k, m)
    <3>1. CASE m = n
      <4>1. n \in DOMAIN x.node /\ Current(x.node[n].versions) /\ ~x.node[n].placeholder
        BY <2>10, <3>1, OpenNode DEF Shows
      <4>2. k.node[n].versions = x.node[n].versions /\ ~k.node[n].placeholder
        BY <2>4, <4>1 DEF Prior, WasPlaceholder
      <4> QED
        BY <2>7, <2>10, <3>1, <4>2 DEF Shows
    <3>2. CASE m # n
      BY <2>8, <2>10, <3>2 DEF Shows
    <3> QED
      BY <3>1, <3>2
  <2>11. o.op = "ObservePlaceholder" /\ o.name = n
    BY <2>1, OpFacts DEF n
  <2>12. Stands(b, k, o)
    BY <2>7, <2>11 DEF Stands
  <2> QED
    BY <1>2, <2>4, <2>5, <2>9, <2>10, <2>12
<1>5. CASE o \in EdgeOps(b, ts)
  <2>1. PICK e \in AssertedEdges(b) : o = EdgeOp(e[1], e[2], e[3], ts, b[e[1]].origin)
    BY <1>5 DEF EdgeOps
  <2> DEFINE src == e[1]
             dst == e[2]
             kind == e[3]
             l == b[e[1]].origin
  <2>2. kind \in Kinds /\ l \in Labels
    BY EdgeFacts
  <2>3. k = ObserveEdge(x, src, dst, kind, ts, l)
    BY <2>1, ApplyOp
  <2> HIDE DEF src, dst, kind, l
  <2>4. o.op = "ObserveEdge" /\ o.src = src /\ o.dst = dst /\ o.kind = kind
    BY <2>1 DEF EdgeOp, src, dst, kind
  <2>5. src \in OpenNodes(x) /\ dst \in OpenNodes(x)
    BY <2>4
  <2>6. /\ Good(k) /\ Change(x, k, ts) /\ k.node = x.node
        /\ DOMAIN k.open = DOMAIN x.open \cup {<<src, dst, kind>>}
    BY <2>2, <2>3, <2>5, ObserveEdgeGood
  <2>7. OpenNodes(k) = OpenNodes(x) /\ \A m : Shows(b, x, m) => Shows(b, k, m)
    BY <2>6 DEF OpenNodes, Shows
  <2>8. Stands(b, k, o)
    BY <2>4, <2>6 DEF Stands
  <2> QED
    BY <1>2, <2>6, <2>7, <2>8
<1> QED
  BY <1>3, <1>4, <1>5 DEF Observations

LEMMA ObserveRun ==
  ASSUME scope \in Scopes, NEW b, Batch(b), NEW ts \in Time, NEW h, Good(h),
         NEW ops \in Seq(Observations(b, ts)), Grounded(ops), NEW a, Runs(h, ops, a)
  PROVE \A n \in 0 .. Len(ops) : Later(h, a[n], ts) /\ \A i \in 1 .. n : Stands(b, a[n], ops[i])
<1> DEFINE T == {n \in Nat : n <= Len(ops) => Later(h, a[n], ts) /\ \A i \in 1 .. n : Stands(b, a[n], ops[i])}
<1>0. Len(ops) \in Nat /\ DOMAIN ops = 1 .. Len(ops)
  BY LenProperties
<1>1. 0 \in T
  <2>1. a[0] = h /\ \A i \in 1 .. 0 : FALSE
    BY DEF Runs
  <2> QED
    BY <2>1, LaterSelf
<1>2. ASSUME NEW n \in T PROVE n + 1 \in T
  <2>1. SUFFICES ASSUME n + 1 <= Len(ops)
                 PROVE Later(h, a[n + 1], ts) /\ \A i \in 1 .. n + 1 : Stands(b, a[n + 1], ops[i])
    OBVIOUS
  <2> DEFINE x == a[n]
             k == a[n + 1]
             o == ops[n + 1]
  <2>2. n \in 0 .. Len(ops) - 1 /\ n + 1 \in 1 .. Len(ops)
    BY <1>0, <2>1
  <2>3. Later(h, x, ts) /\ \A i \in 1 .. n : Stands(b, x, ops[i])
    BY <1>0, <2>1
  <2>4. k = Apply(x, o) /\ o \in Observations(b, ts) /\ Ground(ops, n + 1)
    BY <1>0, <2>2 DEF Runs, Grounded
  <2>5. o.op = "ObserveEdge" => o.src \in OpenNodes(x) /\ o.dst \in OpenNodes(x)
    <3>1. SUFFICES ASSUME o.op = "ObserveEdge" PROVE o.src \in OpenNodes(x) /\ o.dst \in OpenNodes(x)
      OBVIOUS
    <3>2. (n + 1) - 1 = n
      BY <2>2
    <3>3. PICK i \in 1 .. n : ops[i].op = "ObserveNode" /\ ops[i].name = o.src
      BY <2>4, <3>1, <3>2 DEF Ground
    <3>4. PICK j \in 1 .. n : ops[j].op = "ObservePlaceholder" /\ ops[j].name = o.dst
      BY <2>4, <3>1, <3>2 DEF Ground
    <3>5. Stands(b, x, ops[i]) /\ Stands(b, x, ops[j])
      BY <2>3
    <3>6. Shows(b, x, ops[i].name)
      BY <3>3, <3>5 DEF Stands
    <3>7. ops[j].name \in OpenNodes(x)
      BY <3>4, <3>5 DEF Stands
    <3> QED
      BY <3>3, <3>4, <3>6, <3>7 DEF Shows
  <2> HIDE DEF x, k, o, T
  <2>6. Good(x)
    BY <2>3 DEF Later
  <2>7. /\ Good(k) /\ Change(x, k, ts) /\ Stands(b, k, o)
        /\ \A oo : Stands(b, x, oo) => Stands(b, k, oo)
    BY <2>4, <2>5, <2>6, ObserveStep
  <2>8. Later(h, k, ts)
    BY <2>3, <2>7, LaterStep
  <2>9. ASSUME NEW i \in 1 .. n + 1 PROVE Stands(b, k, ops[i])
    <3>1. CASE i = n + 1
      BY <2>7, <3>1 DEF o
    <3>2. CASE i # n + 1
      <4>1. i \in 1 .. n
        BY <2>2, <3>2
      <4> QED
        BY <2>3, <2>7, <4>1
    <3> QED
      BY <3>1, <3>2
  <2> QED
    BY <2>8, <2>9 DEF k
<1> HIDE DEF T
<1>3. T = Nat
  BY <1>1, <1>2, Induction DEF T
<1>4. ASSUME NEW n \in 0 .. Len(ops) PROVE Later(h, a[n], ts) /\ \A i \in 1 .. n : Stands(b, a[n], ops[i])
  <2>1. n \in T /\ n <= Len(ops)
    BY <1>0, <1>3
  <2> QED
    BY <2>1 DEF T
<1> QED
  BY <1>4

LEMMA RetireStep ==
  ASSUME scope \in Scopes, NEW ts \in Time, NEW x, Good(x), NEW o \in Retirements(ts), NEW k, k = Apply(x, o)
  PROVE Good(k) /\ Change(x, k, ts)
<1>1. Typed(x)
  BY DEF Good
<1>2. CASE \E e \in NameSet \X NameSet \X Kinds : o = RetireEdgeOp(e[1], e[2], e[3], ts)
  <2>1. PICK e \in NameSet \X NameSet \X Kinds : o = RetireEdgeOp(e[1], e[2], e[3], ts)
    BY <1>2
  <2>2. k = RetireEdge(x, e[1], e[2], e[3], ts)
    BY <2>1, ApplyOp
  <2> QED
    BY <2>2, RetireEdgeGood
<1>3. CASE \E n \in NameSet : o = RetireNodeOp(n, ts)
  <2>1. PICK n \in NameSet : o = RetireNodeOp(n, ts)
    BY <1>3
  <2>2. k = RetireNode(x, n, ts)
    BY <2>1, ApplyOp
  <2>3. CASE n \in DOMAIN x.node
    BY <2>2, <2>3, RetireNodeGood
  <2>4. CASE n \notin DOMAIN x.node
    <3>1. k = x
      BY <2>2, <2>4 DEF RetireNode
    <3> QED
      BY <1>1, <3>1, SameChange
  <2> QED
    BY <2>3, <2>4
<1> QED
  BY <1>2, <1>3 DEF Retirements

LEMMA RetireRun ==
  ASSUME scope \in Scopes, NEW ts \in Time, NEW h, Good(h),
         NEW ops \in Seq(Retirements(ts)), NEW a, Runs(h, ops, a)
  PROVE \A n \in 0 .. Len(ops) : Later(h, a[n], ts)
<1> DEFINE T == {n \in Nat : n <= Len(ops) => Later(h, a[n], ts)}
<1>0. Len(ops) \in Nat /\ DOMAIN ops = 1 .. Len(ops)
  BY LenProperties
<1>1. 0 \in T
  BY LaterSelf DEF Runs
<1>2. ASSUME NEW n \in T PROVE n + 1 \in T
  <2>1. SUFFICES ASSUME n + 1 <= Len(ops) PROVE Later(h, a[n + 1], ts)
    OBVIOUS
  <2>2. n \in 0 .. Len(ops) - 1 /\ n + 1 \in 1 .. Len(ops) /\ Later(h, a[n], ts)
    BY <1>0, <2>1
  <2>3. a[n + 1] = Apply(a[n], ops[n + 1]) /\ ops[n + 1] \in Retirements(ts)
    BY <1>0, <2>2 DEF Runs
  <2>4. Good(a[n])
    BY <2>2 DEF Later
  <2>5. Good(a[n + 1]) /\ Change(a[n], a[n + 1], ts)
    BY <2>3, <2>4, RetireStep
  <2> QED
    BY <2>2, <2>5, LaterStep
<1> HIDE DEF T
<1>3. T = Nat
  BY <1>1, <1>2, Induction DEF T
<1>4. ASSUME NEW n \in 0 .. Len(ops) PROVE Later(h, a[n], ts)
  <2>1. n \in T /\ n <= Len(ops)
    BY <1>0, <1>3
  <2> QED
    BY <2>1 DEF T
<1> QED
  BY <1>4

-----------------------------------------------------------------------------
(* Reconciliation: stale edges, then stale nodes.                          *)

Stale(h, b) ==
  {i \in UNION {OpenOutEdges(h, n) : n \in Asserted(b)} : Triple(h.edge[i]) \notin AssertedEdges(b)}

LEMMA StaleFacts ==
  ASSUME NEW h, NEW b, NEW i
  PROVE i \in Stale(h, b) <=>
          /\ i \in DOMAIN h.edge /\ IsOpen(h.edge[i]) /\ h.edge[i].src \in Asserted(b)
          /\ Triple(h.edge[i]) \notin AssertedEdges(b)
BY DEF Stale, OpenOutEdges

LEMMA RetirementOps ==
  ASSUME NEW ts
  PROVE /\ \A n \in NameSet : RetireNodeOp(n, ts) \in Retirements(ts)
        /\ \A e \in EdgeType : RetireEdgeOp(e.src, e.dst, e.kind, ts) \in Retirements(ts)
<1>1. ASSUME NEW e \in EdgeType PROVE RetireEdgeOp(e.src, e.dst, e.kind, ts) \in Retirements(ts)
  <2> DEFINE d == <<e.src, e.dst, e.kind>>
  <2>1. d \in NameSet \X NameSet \X Kinds
    BY DEF EdgeType
  <2>2. RetireEdgeOp(d[1], d[2], d[3], ts) \in Retirements(ts)
    <3> HIDE DEF d
    <3> QED
      BY <2>1 DEF Retirements
  <2> QED
    BY <2>2
<1>2. ASSUME NEW n \in NameSet PROVE RetireNodeOp(n, ts) \in Retirements(ts)
  BY DEF Retirements
<1> QED
  BY <1>1, <1>2

LEMMA StaleEdgeSeq ==
  ASSUME NEW h, Typed(h), NEW b, NEW ts
  PROVE /\ StaleEdgeOps(h, b, ts) \in Seq(Retirements(ts))
        /\ \E seq : /\ Len(seq) = Len(StaleEdgeOps(h, b, ts))
                    /\ \A i : i \in Stale(h, b) <=> \E j \in 1 .. Len(seq) : i = seq[j]
                    /\ \A j \in 1 .. Len(seq) : StaleEdgeOps(h, b, ts)[j] =
                         RetireEdgeOp(h.edge[seq[j]].src, h.edge[seq[j]].dst, h.edge[seq[j]].kind, ts)
<1> DEFINE S == Stale(h, b)
           seq == SetToSeq(S)
           op(i) == RetireEdgeOp(h.edge[i].src, h.edge[i].dst, h.edge[i].kind, ts)
           ops == [j \in DOMAIN seq |-> op(seq[j])]
<1>1. Len(h.edge) \in Nat /\ DOMAIN h.edge = 1 .. Len(h.edge) /\ \A i \in DOMAIN h.edge : h.edge[i] \in EdgeType
  BY DEF Typed
<1>2. IsFiniteSet(S)
  <2>1. S \in SUBSET (1 .. Len(h.edge))
    BY <1>1, StaleFacts
  <2>2. IsFiniteSet(1 .. Len(h.edge))
    BY <1>1, FS_Interval
  <2> QED
    BY <2>1, <2>2, FS_Subset
<1>3. StaleEdgeOps(h, b, ts) = ops
  BY DEF StaleEdgeOps, Stale
<1>4. \A i \in S : i \in DOMAIN h.edge
  BY StaleFacts
<1> HIDE DEF S
<1>5. seq \in Seq(S) /\ ToSet(seq) = S
  BY <1>2, SetToSeqFacts
<1> HIDE DEF seq
<1>6. /\ Len(seq) \in Nat /\ DOMAIN seq = 1 .. Len(seq) /\ \A j \in 1 .. Len(seq) : seq[j] \in S
      /\ \A i : i \in S <=> \E j \in 1 .. Len(seq) : i = seq[j]
  BY <1>5 DEF ToSet
<1>7. \A j \in 1 .. Len(seq) : op(seq[j]) \in Retirements(ts)
  BY <1>1, <1>4, <1>6, RetirementOps
<1> HIDE DEF op
<1>8. ops \in [1 .. Len(seq) -> Retirements(ts)] /\ \A j \in 1 .. Len(seq) : ops[j] = op(seq[j])
  BY <1>6, <1>7
<1> HIDE DEF ops
<1>9. ops \in Seq(Retirements(ts)) /\ Len(ops) = Len(seq)
  BY <1>6, <1>8, MadeSeq
<1> QED
  BY <1>3, <1>6, <1>8, <1>9 DEF S, op

LEMMA StaleEdgeRun ==
  ASSUME scope \in Scopes, NEW ts \in Time, NEW h, Good(h), NEW b, NEW k,
         k = ApplyAll(h, StaleEdgeOps(h, b, ts))
  PROVE /\ Later(h, k, ts) /\ k.node = h.node /\ DOMAIN k.edge = DOMAIN h.edge
        /\ \A i \in DOMAIN h.edge : k.edge[i] = IF i \in Stale(h, b) THEN Ended(h.edge[i], ts) ELSE h.edge[i]
<1> DEFINE ops == StaleEdgeOps(h, b, ts)
<1>1. Typed(h) /\ EdgesIndexed(h)
  BY DEF Good
<1>2. ops \in Seq(Retirements(ts))
  BY <1>1, StaleEdgeSeq
<1>3. PICK seq : /\ Len(seq) = Len(ops)
                 /\ \A i : i \in Stale(h, b) <=> \E j \in 1 .. Len(seq) : i = seq[j]
                 /\ \A j \in 1 .. Len(seq) :
                      ops[j] = RetireEdgeOp(h.edge[seq[j]].src, h.edge[seq[j]].dst, h.edge[seq[j]].kind, ts)
  BY <1>1, StaleEdgeSeq
<1> DEFINE len == Len(ops)
<1>4. PICK a : Runs(h, ops, a)
  BY <1>2, RunOf
<1>5. len \in Nat /\ a[len] = k /\ a[0] = h
  BY <1>2, <1>4 DEF Runs
<1> HIDE DEF ops
<1>6. \A n \in 0 .. len : Later(h, a[n], ts)
  BY <1>2, <1>4, RetireRun
<1> DEFINE Done(n) == {seq[j] : j \in 1 .. n}
           P(n) == /\ a[n].node = h.node /\ Len(a[n].edge) = Len(h.edge)
                   /\ \A i \in DOMAIN h.edge : a[n].edge[i] = IF i \in Done(n) THEN Ended(h.edge[i], ts) ELSE h.edge[i]
           T == {n \in Nat : n <= len => P(n)}
<1>7. 0 \in T
  <2>1. Done(0) = {}
    OBVIOUS
  <2> HIDE DEF Done
  <2> QED
    BY <1>5, <2>1
<1>8. ASSUME NEW n \in T PROVE n + 1 \in T
  <2>1. SUFFICES ASSUME n + 1 <= len PROVE P(n + 1)
    OBVIOUS
  <2>2. n \in 0 .. len - 1 /\ n \in 0 .. len /\ n + 1 \in 1 .. len /\ P(n)
    BY <1>5, <2>1
  <2> DEFINE x == a[n]
             y == a[n + 1]
             s == seq[n + 1]
             e == h.edge[s]
  <2>3. y = Apply(x, ops[n + 1])
    BY <1>4, <2>2 DEF Runs
  <2>4. ops[n + 1] = RetireEdgeOp(e.src, e.dst, e.kind, ts)
    BY <1>3, <2>2
  <2>5. y = RetireEdge(x, e.src, e.dst, e.kind, ts)
    <3> HIDE DEF x, y, e
    <3> QED
      BY <2>3, <2>4, ApplyOp
  <2>6. s \in Stale(h, b)
    BY <1>3, <2>2
  <2>7. s \in DOMAIN h.edge /\ IsOpen(e)
    BY <2>6, StaleFacts
  <2>8. Good(x)
    BY <1>6, <2>2 DEF Later
  <2> DEFINE D == Done(n)
  <2>9. Done(n + 1) = D \cup {s}
    <3>1. 1 .. n + 1 = (1 .. n) \cup {n + 1}
      BY <2>2
    <3> QED
      BY <3>1
  <2>10. /\ x.node = h.node /\ Len(x.edge) = Len(h.edge)
         /\ \A i \in DOMAIN h.edge : x.edge[i] = IF i \in D THEN Ended(h.edge[i], ts) ELSE h.edge[i]
    BY <2>2
  <2> HIDE DEF x, y, D, Done
  <2>11. Triple(e) = <<e.src, e.dst, e.kind>>
    BY DEF Triple
  <2> HIDE DEF s, e
  <2>12. /\ y.node = x.node /\ Len(y.edge) = Len(x.edge)
         /\ \A i \in DOMAIN x.edge :
              y.edge[i] = IF IsOpen(x.edge[i]) /\ Triple(x.edge[i]) = Triple(e)
                          THEN Ended(x.edge[i], ts) ELSE x.edge[i]
    BY <2>5, <2>8, <2>11, RetireEdgeGood
  <2>13. DOMAIN x.edge = DOMAIN h.edge
    BY <1>1, <2>8, <2>10 DEF Good, Typed
  <2>14. ASSUME NEW i \in DOMAIN h.edge
         PROVE y.edge[i] = IF i \in D \cup {s} THEN Ended(h.edge[i], ts) ELSE h.edge[i]
    <3> DEFINE d == h.edge[i]
    <3>1. d \in EdgeType
      BY <1>1 DEF Typed
    <3>2. IsOpen(d) => Triple(d) \in DOMAIN h.open /\ h.open[Triple(d)] = i
      BY <1>1 DEF EdgesIndexed
    <3>3. Triple(e) \in DOMAIN h.open /\ h.open[Triple(e)] = s
      BY <1>1, <2>7 DEF EdgesIndexed, e
    <3>a. i = s => d = e
      BY DEF e
    <3>b. x.edge[i] = IF i \in D THEN Ended(d, ts) ELSE d
      BY <2>10
    <3>c. y.edge[i] = IF IsOpen(x.edge[i]) /\ Triple(x.edge[i]) = Triple(e)
                      THEN Ended(x.edge[i], ts) ELSE x.edge[i]
      BY <2>12, <2>13
    <3> HIDE DEF d
    <3>4. CASE i \in D
      <4>1. ~IsOpen(x.edge[i])
        BY <3>1, <3>b, <3>4, EndedFacts
      <4> QED
        BY <3>4, <3>b, <3>c, <4>1 DEF d
    <3>5. CASE i \notin D /\ i = s
      BY <2>7, <3>5, <3>a, <3>b, <3>c DEF d, e
    <3>6. CASE i \notin D /\ i # s
      <4>1. ~(IsOpen(d) /\ Triple(d) = Triple(e))
        BY <3>2, <3>3, <3>6
      <4> QED
        BY <3>6, <3>b, <3>c, <4>1 DEF d
    <3> QED
      BY <3>4, <3>5, <3>6
  <2> QED
    BY <2>9, <2>10, <2>12, <2>14 DEF y
<1> HIDE DEF T, P
<1>9. T = Nat
  BY <1>7, <1>8, Induction DEF T
<1>10. P(len)
  <2>1. len \in T /\ len <= len
    BY <1>5, <1>9
  <2> QED
    BY <2>1 DEF T
<1>11. \A i : i \in Done(len) <=> i \in Stale(h, b)
  BY <1>3
<1>12. Later(h, k, ts)
  BY <1>5, <1>6
<1>13. DOMAIN k.edge = DOMAIN h.edge
  <2>1. Len(k.edge) = Len(h.edge)
    BY <1>5, <1>10 DEF P
  <2> QED
    BY <1>1, <1>12, <2>1 DEF Later, Good, Typed
<1> QED
  BY <1>5, <1>10, <1>11, <1>12, <1>13 DEF P

LEMMA StaleNodeSeq ==
  ASSUME NEW h, Typed(h), NEW b, NEW ts
  PROVE /\ StaleNodeOps(h, b, ts) \in Seq(Retirements(ts))
        /\ \E seq : /\ Len(seq) = Len(StaleNodeOps(h, b, ts))
                    /\ \A n : n \in StaleNodes(h, Asserted(b), ts) <=> \E j \in 1 .. Len(seq) : n = seq[j]
                    /\ \A j \in 1 .. Len(seq) : StaleNodeOps(h, b, ts)[j] = RetireNodeOp(seq[j], ts)
<1> DEFINE S == StaleNodes(h, Asserted(b), ts)
           seq == SetToSeq(S)
           ops == [j \in DOMAIN seq |-> RetireNodeOp(seq[j], ts)]
<1>1. S \in SUBSET NameSet
  BY DEF StaleNodes, Typed
<1>2. IsFiniteSet(S)
  BY <1>1, NamesFacts, FS_Subset
<1>3. StaleNodeOps(h, b, ts) = ops
  BY DEF StaleNodeOps
<1> HIDE DEF S
<1>5. seq \in Seq(S) /\ ToSet(seq) = S
  BY <1>2, SetToSeqFacts
<1> HIDE DEF seq
<1>6. /\ Len(seq) \in Nat /\ DOMAIN seq = 1 .. Len(seq) /\ \A j \in 1 .. Len(seq) : seq[j] \in S
      /\ \A i : i \in S <=> \E j \in 1 .. Len(seq) : i = seq[j]
  BY <1>5 DEF ToSet
<1>7. \A j \in 1 .. Len(seq) : RetireNodeOp(seq[j], ts) \in Retirements(ts)
  BY <1>1, <1>6, RetirementOps
<1>8. ops \in [1 .. Len(seq) -> Retirements(ts)] /\ \A j \in 1 .. Len(seq) : ops[j] = RetireNodeOp(seq[j], ts)
  BY <1>6, <1>7
<1> HIDE DEF ops
<1>9. ops \in Seq(Retirements(ts)) /\ Len(ops) = Len(seq)
  BY <1>6, <1>8, MadeSeq
<1> QED
  BY <1>3, <1>6, <1>8, <1>9 DEF S

\* Without the nodes in D, and their edges.
Without(h, k, D) ==
  /\ DOMAIN k.node = DOMAIN h.node /\ DOMAIN k.edge = DOMAIN h.edge
  /\ \A n \in DOMAIN h.node :
       /\ n \notin D => k.node[n] = h.node[n]
       /\ n \in D => ~Current(k.node[n].versions)
  /\ \A i \in DOMAIN h.edge :
       /\ k.edge[i].src = h.edge[i].src /\ k.edge[i].dst = h.edge[i].dst /\ Triple(k.edge[i]) = Triple(h.edge[i])
       /\ IsOpen(k.edge[i]) <=> IsOpen(h.edge[i]) /\ h.edge[i].src \notin D /\ h.edge[i].dst \notin D

LEMMA WithoutOneMore ==
  ASSUME scope \in Scopes, NEW ts \in Time, NEW h, Typed(h), NEW x, Good(x), NEW D, Without(h, x, D),
         NEW s \in DOMAIN h.node, NEW y, y = RetireNode(x, s, ts)
  PROVE Without(h, y, D \cup {s})
<1>0. s \in DOMAIN x.node /\ DOMAIN x.node = DOMAIN h.node /\ DOMAIN x.edge = DOMAIN h.edge
  BY DEF Without
<1>1. /\ Good(y) /\ Len(y.edge) = Len(x.edge) /\ DOMAIN y.node = DOMAIN x.node
      /\ \A m \in DOMAIN x.node : m # s => y.node[m] = x.node[m]
      /\ ~Current(y.node[s].versions)
      /\ \A i \in DOMAIN x.edge :
           y.edge[i] = IF IsOpen(x.edge[i]) /\ s \in {x.edge[i].src, x.edge[i].dst}
                       THEN Ended(x.edge[i], ts) ELSE x.edge[i]
  BY <1>0, RetireNodeGood
<1>2. DOMAIN y.edge = DOMAIN x.edge
  BY <1>1 DEF Good, Typed
<1>3. ASSUME NEW n \in DOMAIN h.node
      PROVE /\ n \notin D \cup {s} => y.node[n] = h.node[n]
            /\ n \in D \cup {s} => ~Current(y.node[n].versions)
  BY <1>0, <1>1 DEF Without
<1>4. ASSUME NEW i \in DOMAIN h.edge
      PROVE /\ y.edge[i].src = h.edge[i].src /\ y.edge[i].dst = h.edge[i].dst
            /\ Triple(y.edge[i]) = Triple(h.edge[i])
            /\ IsOpen(y.edge[i]) <=>
                 IsOpen(h.edge[i]) /\ h.edge[i].src \notin D \cup {s} /\ h.edge[i].dst \notin D \cup {s}
  <2> DEFINE d == x.edge[i]
             e == h.edge[i]
             f == y.edge[i]
  <2>1. d \in EdgeType
    BY <1>0 DEF Good, Typed
  <2>2. /\ d.src = e.src /\ d.dst = e.dst /\ Triple(d) = Triple(e)
        /\ IsOpen(d) <=> IsOpen(e) /\ e.src \notin D /\ e.dst \notin D
    BY DEF Without
  <2>3. f = IF IsOpen(d) /\ s \in {d.src, d.dst} THEN Ended(d, ts) ELSE d
    BY <1>0, <1>1
  <2> HIDE DEF d, e, f
  <2>4. /\ f.src = e.src /\ f.dst = e.dst /\ Triple(f) = Triple(e)
        /\ IsOpen(f) <=> IsOpen(e) /\ e.src \notin D \cup {s} /\ e.dst \notin D \cup {s}
    <3>1. CASE IsOpen(d) /\ s \in {d.src, d.dst}
      BY <2>1, <2>2, <2>3, <3>1, EndedFacts
    <3>2. CASE ~(IsOpen(d) /\ s \in {d.src, d.dst})
      BY <2>2, <2>3, <3>2
    <3> QED
      BY <3>1, <3>2
  <2> QED
    BY <2>4 DEF e, f
<1> QED
  BY <1>0, <1>1, <1>2, <1>3, <1>4 DEF Without

LEMMA StaleNodeRun ==
  ASSUME scope \in Scopes, NEW ts \in Time, NEW h, Good(h), NEW b, NEW k,
         k = ApplyAll(h, StaleNodeOps(h, b, ts))
  PROVE Later(h, k, ts) /\ Without(h, k, StaleNodes(h, Asserted(b), ts))
<1> DEFINE ops == StaleNodeOps(h, b, ts)
           S == StaleNodes(h, Asserted(b), ts)
<1>1. Typed(h) /\ S \subseteq DOMAIN h.node
  BY DEF Good, StaleNodes
<1>2. ops \in Seq(Retirements(ts))
  BY <1>1, StaleNodeSeq
<1>3. PICK seq : /\ Len(seq) = Len(ops) /\ \A n : n \in S <=> \E j \in 1 .. Len(seq) : n = seq[j]
                 /\ \A j \in 1 .. Len(seq) : ops[j] = RetireNodeOp(seq[j], ts)
  BY <1>1, StaleNodeSeq
<1> DEFINE len == Len(ops)
<1>4. PICK a : Runs(h, ops, a)
  BY <1>2, RunOf
<1>5. len \in Nat /\ a[len] = k /\ a[0] = h
  BY <1>2, <1>4 DEF Runs
<1> HIDE DEF ops
<1>6. \A n \in 0 .. len : Later(h, a[n], ts)
  BY <1>2, <1>4, RetireRun
<1> DEFINE Done(n) == {seq[j] : j \in 1 .. n}
           T == {n \in Nat : n <= len => Without(h, a[n], Done(n))}
<1>7. 0 \in T
  <2>1. Done(0) = {}
    OBVIOUS
  <2>2. Without(h, h, {})
    BY DEF Without
  <2> HIDE DEF Done
  <2> QED
    BY <1>5, <2>1, <2>2
<1>8. ASSUME NEW n \in T PROVE n + 1 \in T
  <2>1. SUFFICES ASSUME n + 1 <= len PROVE Without(h, a[n + 1], Done(n + 1))
    OBVIOUS
  <2>2. n \in 0 .. len - 1 /\ n \in 0 .. len /\ n + 1 \in 1 .. len /\ Without(h, a[n], Done(n))
    BY <1>5, <2>1
  <2> DEFINE s == seq[n + 1]
  <2>3. a[n + 1] = Apply(a[n], ops[n + 1])
    BY <1>4, <2>2 DEF Runs
  <2>4. ops[n + 1] = RetireNodeOp(s, ts)
    BY <1>3, <2>2
  <2>5. a[n + 1] = RetireNode(a[n], s, ts)
    <3> HIDE DEF s
    <3> QED
      BY <2>3, <2>4, ApplyOp
  <2>6. s \in DOMAIN h.node
    BY <1>1, <1>3, <2>2
  <2>7. Good(a[n])
    BY <1>6, <2>2 DEF Later
  <2>8. Done(n + 1) = Done(n) \cup {s}
    <3>1. 1 .. n + 1 = (1 .. n) \cup {n + 1}
      BY <2>2
    <3> QED
      BY <3>1
  <2> HIDE DEF s, Done, S
  <2>9. Without(h, a[n + 1], Done(n) \cup {s})
    BY <1>1, <2>2, <2>5, <2>6, <2>7, WithoutOneMore
  <2> QED
    BY <2>8, <2>9
<1> HIDE DEF T
<1>9. T = Nat
  BY <1>7, <1>8, Induction DEF T
<1>10. Without(h, a[len], Done(len))
  <2>1. len \in T /\ len <= len
    BY <1>5, <1>9
  <2> QED
    BY <2>1 DEF T
<1>11. Done(len) = S
  BY <1>3
<1>12. Later(h, k, ts)
  BY <1>5, <1>6
<1> QED
  BY <1>5, <1>10, <1>11, <1>12

LEMMA ObserveBatch ==
  ASSUME scope \in Scopes, NEW b, Batch(b), NEW ts \in Time, NEW h, Good(h), NEW k,
         k = ApplyAll(h, BatchOps(b, ts))
  PROVE /\ Later(h, k, ts) /\ \A n \in Asserted(b) : Shows(b, k, n)
        /\ \A n \in Asserted(b) : \A e \in b[n].edges : <<n, e[1], e[2]>> \in DOMAIN k.open
<1> DEFINE ops == BatchOps(b, ts)
<1>1. ops \in Seq(Observations(b, ts)) /\ ToSet(ops) = Observations(b, ts) /\ Grounded(ops)
  BY BatchOpsFacts
<1> HIDE DEF ops
<1>2. PICK a : Runs(h, ops, a)
  BY <1>1, RunOf
<1>3. Len(ops) \in Nat /\ DOMAIN ops = 1 .. Len(ops) /\ a[Len(ops)] = k
  BY <1>1, <1>2 DEF Runs, ops
<1>4. Later(h, k, ts) /\ \A i \in 1 .. Len(ops) : Stands(b, k, ops[i])
  <2>1. Len(ops) \in 0 .. Len(ops)
    BY <1>3
  <2> QED
    BY <1>1, <1>2, <1>3, <2>1, ObserveRun
<1>5. \A o \in Observations(b, ts) : Stands(b, k, o)
  BY <1>1, <1>3, <1>4 DEF ToSet
<1>6. ASSUME NEW n \in Asserted(b) PROVE Shows(b, k, n)
  <2> DEFINE o == NodeOp(n, b[n].props, ts, b[n].origin)
  <2>1. o \in Observations(b, ts)
    BY DEF Observations, NodeOps
  <2>2. o.op = "ObserveNode" /\ o.name = n
    BY OpFacts
  <2> HIDE DEF o
  <2>3. Stands(b, k, o)
    BY <1>5, <2>1
  <2> QED
    BY <2>2, <2>3 DEF Stands
<1>7. ASSUME NEW n \in Asserted(b), NEW e \in b[n].edges PROVE <<n, e[1], e[2]>> \in DOMAIN k.open
  <2> DEFINE o == EdgeOp(n, e[1], e[2], ts, b[n].origin)
  <2>1. o \in Observations(b, ts)
    <3>1. o \in OfEntity(b, n, ts)
      BY DEF OfEntity
    <3> QED
      BY <3>1, ObservationsOf
  <2>2. o.op = "ObserveEdge" /\ o.src = n /\ o.dst = e[1] /\ o.kind = e[2]
    BY DEF EdgeOp
  <2> HIDE DEF o
  <2>3. Stands(b, k, o)
    BY <1>5, <2>1
  <2> QED
    BY <2>2, <2>3 DEF Stands
<1> QED
  BY <1>4, <1>6, <1>7

\* SnapshotIsTruth, of any graph.
Truth(b, k) ==
  /\ {n \in OpenNodes(k) : ~k.node[n].placeholder} = Asserted(b)
  /\ \A n \in Asserted(b) :
       LET open == {Triple(k.edge[i]) : i \in OpenOutEdges(k, n)}
       IN /\ Last(k.node[n].versions).props = b[n].props
          /\ open \subseteq AssertedEdges(b)
          /\ \A e \in b[n].edges : e[1] \in Asserted(b) => <<n, e[1], e[2]>> \in open

LEMMA Reconciled ==
  ASSUME scope \in Scopes, NEW b, Batch(b), NEW ts \in Time, NEW h, Good(h), GraphUpTo(h, ts), GraphInOrder(h),
         NEW h1, h1 = ApplyAll(h, BatchOps(b, ts)), NEW h2, h2 = ApplyAll(h1, StaleEdgeOps(h1, b, ts)),
         NEW k, k = ApplyAll(h2, StaleNodeOps(h2, b, ts))
  PROVE Truth(b, k)
<1>1. /\ Later(h, h1, ts) /\ \A n \in Asserted(b) : Shows(b, h1, n)
      /\ \A n \in Asserted(b) : \A e \in b[n].edges : <<n, e[1], e[2]>> \in DOMAIN h1.open
  BY ObserveBatch
<1>2. Good(h1) /\ GraphUpTo(h1, ts) /\ GraphInOrder(h1)
  BY <1>1 DEF Later
<1>3. /\ Later(h1, h2, ts) /\ h2.node = h1.node /\ DOMAIN h2.edge = DOMAIN h1.edge
      /\ \A i \in DOMAIN h1.edge : h2.edge[i] = IF i \in Stale(h1, b) THEN Ended(h1.edge[i], ts) ELSE h1.edge[i]
  BY <1>2, StaleEdgeRun
<1>4. Good(h2) /\ GraphUpTo(h2, ts)
  BY <1>2, <1>3 DEF Later
<1> DEFINE R == StaleNodes(h2, Asserted(b), ts)
<1>5. Without(h2, k, R)
  BY <1>4, StaleNodeRun
<1>6. /\ Typed(h2) /\ Typed(h1) /\ EdgesIndexed(h1) /\ ts \in Nat /\ T_MAX \in Nat /\ ts < T_MAX
  BY <1>2, <1>4, ScopeFacts DEF Good
<1>7. \A n \in Asserted(b) : n \notin R
  BY DEF StaleNodes
<1>8. ASSUME NEW n \in Asserted(b) PROVE Shows(b, k, n)
  <2>1. Shows(b, h2, n)
    BY <1>1, <1>3 DEF Shows, OpenNodes
  <2>2. n \in DOMAIN h2.node /\ Current(h2.node[n].versions)
    BY <2>1, OpenNode DEF Shows
  <2>3. k.node[n] = h2.node[n] /\ n \in DOMAIN k.node
    BY <1>5, <1>7, <2>2 DEF Without
  <2> QED
    BY <2>1, <2>2, <2>3, OpenNode DEF Shows
<1>9. ASSUME NEW n \in OpenNodes(k), ~k.node[n].placeholder PROVE n \in Asserted(b)
  <2>1. n \in DOMAIN h2.node /\ Current(k.node[n].versions)
    BY <1>5, OpenNode DEF Without
  <2>2. n \notin R /\ k.node[n] = h2.node[n]
    BY <1>5, <2>1 DEF Without
  <2> DEFINE nd == h2.node[n]
             vs == nd.versions
  <2>3. nd \in NodeType
    BY <1>6, <2>1 DEF Typed
  <2>4. Current(vs) /\ UpTo(vs, ts) /\ vs \in Seq(VersionType) \ {<<>>}
    <3>1. UpTo(nd.versions, ts)
      BY <1>4, <2>1 DEF GraphUpTo
    <3>2. nd.versions \in Seq(VersionType) \ {<<>>}
      <4> HIDE DEF nd
      <4> QED
        BY <2>3 DEF NodeType
    <3> QED
      BY <2>1, <2>2, <3>1, <3>2
  <2>5. AliveAt(nd, ts)
    <3> DEFINE len == Len(vs)
    <3> HIDE DEF nd
    <3>1. len \in DOMAIN vs
      BY <2>4
    <3>2. vs[len].from <= ts
      BY <2>4, <3>1 DEF UpTo
    <3>3. vs[len].to = T_MAX
      BY <2>4 DEF Current, Last, IsOpen
    <3>4. vs[len].from <= ts /\ ts < vs[len].to
      BY <1>6, <3>2, <3>3
    <3> HIDE DEF len
    <3> QED
      BY <3>1, <3>4 DEF AliveAt
  <2> QED
    BY <1>9, <2>1, <2>2, <2>5 DEF StaleNodes
<1> HIDE DEF R
<1>10. {n \in OpenNodes(k) : ~k.node[n].placeholder} = Asserted(b)
  <2>1. \A n \in Asserted(b) : n \in OpenNodes(k) /\ ~k.node[n].placeholder
    BY <1>8 DEF Shows
  <2> QED
    BY <1>9, <2>1
<1>11. ASSUME NEW i \in DOMAIN h1.edge
       PROVE /\ i \in DOMAIN k.edge /\ Triple(k.edge[i]) = Triple(h1.edge[i]) /\ k.edge[i].src = h1.edge[i].src
             /\ IsOpen(k.edge[i]) <=> /\ IsOpen(h1.edge[i]) /\ i \notin Stale(h1, b)
                                      /\ h1.edge[i].src \notin R /\ h1.edge[i].dst \notin R
  <2> DEFINE e == h1.edge[i]
             d == h2.edge[i]
  <2>1. e \in EdgeType
    BY <1>6 DEF Typed
  <2>2. d = IF i \in Stale(h1, b) THEN Ended(e, ts) ELSE e
    BY <1>3
  <2>3. /\ i \in DOMAIN k.edge /\ Triple(k.edge[i]) = Triple(d) /\ k.edge[i].src = d.src
        /\ IsOpen(k.edge[i]) <=> IsOpen(d) /\ d.src \notin R /\ d.dst \notin R
    BY <1>3, <1>5 DEF Without
  <2> HIDE DEF e, d
  <2>4. d.src = e.src /\ d.dst = e.dst /\ Triple(d) = Triple(e) /\ (IsOpen(d) <=> IsOpen(e) /\ i \notin Stale(h1, b))
    BY <2>1, <2>2, EndedFacts
  <2> QED
    BY <2>3, <2>4 DEF e
<1>12. DOMAIN k.edge = DOMAIN h1.edge
  BY <1>3, <1>5 DEF Without
<1>13. ASSUME NEW n \in Asserted(b)
       PROVE LET open == {Triple(k.edge[i]) : i \in OpenOutEdges(k, n)}
             IN /\ Last(k.node[n].versions).props = b[n].props
                /\ open \subseteq AssertedEdges(b)
                /\ \A e \in b[n].edges : e[1] \in Asserted(b) => <<n, e[1], e[2]>> \in open
  <2>1. Last(k.node[n].versions).props = b[n].props
    BY <1>8 DEF Shows
  <2>2. ASSUME NEW i \in OpenOutEdges(k, n) PROVE Triple(k.edge[i]) \in AssertedEdges(b)
    <3>1. i \in DOMAIN h1.edge /\ IsOpen(k.edge[i]) /\ k.edge[i].src = n
      BY <1>12 DEF OpenOutEdges
    <3>2. IsOpen(h1.edge[i]) /\ i \notin Stale(h1, b) /\ h1.edge[i].src = n /\ Triple(k.edge[i]) = Triple(h1.edge[i])
      BY <1>11, <3>1
    <3> QED
      BY <3>1, <3>2, StaleFacts
  <2>3. ASSUME NEW e \in b[n].edges, e[1] \in Asserted(b)
        PROVE \E i \in OpenOutEdges(k, n) : <<n, e[1], e[2]>> = Triple(k.edge[i])
    <3> DEFINE t == <<n, e[1], e[2]>>
               i == h1.open[t]
    <3>1. t \in DOMAIN h1.open /\ t \in AssertedEdges(b)
      BY <1>1 DEF AssertedEdges
    <3>2. i \in DOMAIN h1.edge /\ IsOpen(h1.edge[i]) /\ Triple(h1.edge[i]) = t
      BY <1>6, <3>1 DEF EdgesIndexed
    <3>3. h1.edge[i].src = n /\ h1.edge[i].dst = e[1]
      <4> HIDE DEF i
      <4> QED
        BY <3>2 DEF Triple
    <3> HIDE DEF i, t
    <3>4. i \notin Stale(h1, b)
      BY <3>1, <3>2, StaleFacts
    <3>5. IsOpen(k.edge[i]) /\ k.edge[i].src = n /\ Triple(k.edge[i]) = t /\ i \in DOMAIN k.edge
      BY <1>7, <1>11, <2>3, <3>2, <3>3, <3>4
    <3> QED
      BY <3>5 DEF OpenOutEdges, t
  <2> QED
    BY <2>1, <2>2, <2>3
<1> QED
  BY <1>10, <1>13 DEF Truth

-----------------------------------------------------------------------------
(* A batch, to its end or to where the process died.                       *)

\* The graph after any number of the operations.
AllLater(h, ops, ts) == \A n \in 0 .. Len(ops) : Later(h, ApplyAll(h, SubSeq(ops, 1, n)), ts)

LEMMA AllLaterConcat ==
  ASSUME NEW S, NEW s \in Seq(S), NEW t \in Seq(S), NEW ts, NEW h,
         AllLater(h, s, ts), NEW k, k = ApplyAll(h, s), AllLater(k, t, ts)
  PROVE AllLater(h, s \o t, ts)
<1>1. Len(s) \in Nat /\ Len(t) \in Nat /\ SubSeq(s, 1, Len(s)) = s
  BY SubSeqFull
<1>2. Later(h, k, ts)
  <2>1. Len(s) \in 0 .. Len(s)
    BY <1>1
  <2> QED
    BY <1>1, <2>1 DEF AllLater
<1>3. ASSUME NEW n \in 0 .. Len(s \o t) PROVE Later(h, ApplyAll(h, SubSeq(s \o t, 1, n)), ts)
  <2>1. CASE n \in 0 .. Len(s) /\ SubSeq(s \o t, 1, n) = SubSeq(s, 1, n)
    BY <2>1 DEF AllLater
  <2>2. CASE n - Len(s) \in 0 .. Len(t) /\ SubSeq(s \o t, 1, n) = s \o SubSeq(t, 1, n - Len(s))
    <3> DEFINE m == n - Len(s)
               u == SubSeq(t, 1, m)
    <3>1. m \in 0 .. Len(t) /\ m \in Int
      <4>1. m \in 0 .. Len(t)
        BY <2>2
      <4> HIDE DEF m
      <4> QED
        BY <1>1, <4>1
    <3>2. u \in Seq(S)
      <4> HIDE DEF m
      <4>1. \A i \in 1 .. m : t[i] \in S
        BY <1>1, <3>1
      <4> QED
        BY <3>1, <4>1, SubSeqProperties
    <3>3. Later(k, ApplyAll(k, u), ts)
      BY <3>1 DEF AllLater
    <3> HIDE DEF u
    <3>4. ApplyAll(h, s \o u) = ApplyAll(k, u)
      BY <3>2, ApplyConcat
    <3>5. Later(h, ApplyAll(k, u), ts)
      <4> DEFINE x == ApplyAll(k, u)
      <4>1. Later(k, x, ts)
        BY <3>3
      <4> HIDE DEF x
      <4>2. Later(h, x, ts)
        BY <1>2, <4>1, LaterAgain
      <4> QED
        BY <4>2 DEF x
    <3> QED
      BY <2>2, <3>4, <3>5 DEF u
  <2> QED
    BY <2>1, <2>2, ConcatPrefix
<1> QED
  BY <1>3 DEF AllLater

LEMMA ObserveAll ==
  ASSUME scope \in Scopes, NEW b, Batch(b), NEW ts \in Time, NEW h, Good(h)
  PROVE AllLater(h, BatchOps(b, ts), ts)
<1> DEFINE ops == BatchOps(b, ts)
<1>1. ops \in Seq(Observations(b, ts)) /\ Grounded(ops)
  BY BatchOpsFacts
<1> HIDE DEF ops
<1>2. PICK a : Runs(h, ops, a)
  BY <1>1, RunOf
<1>3. \A n \in 0 .. Len(ops) : Later(h, a[n], ts)
  BY <1>1, <1>2, ObserveRun
<1>4. \A n \in 0 .. Len(ops) : ApplyAll(h, SubSeq(ops, 1, n)) = a[n]
  BY <1>1, <1>2, ApplyPrefix
<1> QED
  BY <1>3, <1>4 DEF AllLater, ops

LEMMA RetireAll ==
  ASSUME scope \in Scopes, NEW ts \in Time, NEW h, Good(h), NEW ops \in Seq(Retirements(ts))
  PROVE AllLater(h, ops, ts)
<1>1. PICK a : Runs(h, ops, a)
  BY RunOf
<1>2. \A n \in 0 .. Len(ops) : Later(h, a[n], ts)
  BY <1>1, RetireRun
<1>3. \A n \in 0 .. Len(ops) : ApplyAll(h, SubSeq(ops, 1, n)) = a[n]
  BY <1>1, ApplyPrefix
<1> QED
  BY <1>2, <1>3 DEF AllLater

LEMMA SnapshotRun ==
  ASSUME scope \in Scopes, NEW b, Batch(b), NEW ts \in Time, NEW h, Good(h), NEW r \in BOOLEAN
  PROVE /\ AllLater(h, SnapshotOps(h, b, ts, r), ts) /\ Len(SnapshotOps(h, b, ts, r)) \in Nat
        /\ Later(h, ApplyAll(h, SnapshotOps(h, b, ts, r)), ts)
        /\ r /\ GraphUpTo(h, ts) /\ GraphInOrder(h) => Truth(b, ApplyAll(h, SnapshotOps(h, b, ts, r)))
<1> DEFINE observe == BatchOps(b, ts)
           h1 == ApplyAll(h, observe)
           edges == StaleEdgeOps(h1, b, ts)
           h2 == ApplyAll(h1, edges)
           nodes == StaleNodeOps(h2, b, ts)
           k == ApplyAll(h2, nodes)
           S == Observations(b, ts) \cup Retirements(ts)
           ops == SnapshotOps(h, b, ts, r)
<1>1. ops = IF r THEN (observe \o edges) \o nodes ELSE observe
  BY DEF SnapshotOps
<1>2. observe \in Seq(S)
  BY BatchOpsFacts, SeqMonotonic
<1>3. Later(h, h1, ts) /\ Good(h1) /\ AllLater(h, observe, ts)
  BY ObserveBatch, ObserveAll DEF Later
<1> HIDE DEF observe
<1>4. edges \in Seq(Retirements(ts)) /\ edges \in Seq(S)
  BY <1>3, StaleEdgeSeq, SeqMonotonic DEF Good
<1>5. Later(h1, h2, ts) /\ Good(h2)
  BY <1>3, StaleEdgeRun DEF Later
<1>6. nodes \in Seq(Retirements(ts)) /\ nodes \in Seq(S)
  BY <1>5, StaleNodeSeq, SeqMonotonic DEF Good
<1>7. Later(h2, k, ts)
  BY <1>5, StaleNodeRun
<1>8. AllLater(h1, edges, ts) /\ AllLater(h2, nodes, ts)
  BY <1>3, <1>4, <1>5, <1>6, RetireAll
<1>9. Later(h, h2, ts) /\ Later(h, k, ts)
  BY <1>3, <1>5, <1>7, LaterAgain
<1>10. GraphUpTo(h, ts) /\ GraphInOrder(h) => Truth(b, k)
  BY Reconciled DEF observe
<1> HIDE DEF edges, nodes, h1, h2, k, S
<1>11. h1 = ApplyAll(h, observe) /\ h2 = ApplyAll(h1, edges) /\ k = ApplyAll(h2, nodes)
  BY DEF h1, h2, k
<1>12. observe \o edges \in Seq(S) /\ ApplyAll(h, observe \o edges) = h2
  BY <1>2, <1>4, <1>11, ApplyConcat
<1>13. ApplyAll(h, (observe \o edges) \o nodes) = k
  <2> DEFINE s == observe \o edges
  <2>1. s \in Seq(S) /\ ApplyAll(h, s) = h2
    BY <1>12
  <2> HIDE DEF s
  <2>2. ApplyAll(h, s \o nodes) = ApplyAll(ApplyAll(h, s), nodes)
    BY <1>6, <2>1, ApplyConcat
  <2> QED
    BY <1>11, <2>1, <2>2 DEF s
<1>14. AllLater(h, observe \o edges, ts)
  BY <1>2, <1>3, <1>4, <1>8, <1>11, AllLaterConcat
<1>15. AllLater(h, (observe \o edges) \o nodes, ts)
  BY <1>6, <1>8, <1>12, <1>14, AllLaterConcat
<1> HIDE DEF ops
<1>16. CASE r
  <2>1. ops = (observe \o edges) \o nodes
    BY <1>1, <1>16
  <2>2. Len(ops) \in Nat
    BY <1>6, <1>12, <2>1, ConcatProperties, LenProperties
  <2> QED
    BY <1>9, <1>10, <1>13, <1>15, <2>1, <2>2 DEF ops
<1>17. CASE ~r
  <2>1. ops = observe /\ ApplyAll(h, ops) = h1 /\ Len(ops) \in Nat
    BY <1>1, <1>2, <1>11, <1>17, LenProperties
  <2> QED
    BY <1>3, <1>17, <2>1 DEF ops
<1> QED
  BY <1>16, <1>17

-----------------------------------------------------------------------------
(* The invariant.                                                          *)

LEMMA EmptyGraphFacts ==
  /\ Good(EmptyGraph) /\ GraphInOrder(EmptyGraph) /\ OpenNodes(EmptyGraph) = {}
  /\ \A c : GraphUpTo(EmptyGraph, c)
  /\ DOMAIN EmptyGraph.node = {} /\ EmptyGraph.edge = <<>> /\ DOMAIN EmptyGraph.open = {}
<1>1. EmptyGraph.node = <<>> /\ EmptyGraph.edge = <<>> /\ EmptyGraph.open = <<>> /\ EmptyGraph.embedded = {}
      /\ IsRecord(EmptyGraph)
  BY DEF EmptyGraph, IsRecord
<1>2. DOMAIN EmptyGraph.node = {} /\ DOMAIN EmptyGraph.edge = {} /\ DOMAIN EmptyGraph.open = {}
      /\ EmptyGraph.edge \in Seq(EdgeType) /\ IsTable(<<>>)
  BY <1>1 DEF IsTable
<1>3. OpenNodes(EmptyGraph) = {}
  BY <1>2 DEF OpenNodes
<1>4. Typed(EmptyGraph)
  BY <1>1, <1>2 DEF Typed
<1>5. EdgesIndexed(EmptyGraph) /\ NodesIndexed(EmptyGraph) /\ PlaceholdersEmpty(EmptyGraph) /\ EndsLive(EmptyGraph)
  BY <1>1, <1>2 DEF EdgesIndexed, NodesIndexed, PlaceholdersEmpty, EndsLive
<1>6. GraphInOrder(EmptyGraph) /\ \A c : GraphUpTo(EmptyGraph, c)
  BY <1>2 DEF GraphInOrder, GraphUpTo, UpTo
<1> QED
  BY <1>1, <1>2, <1>3, <1>4, <1>5, <1>6 DEF Good

LEMMA GraphUpToLater ==
  ASSUME scope \in Scopes, NEW h, Typed(h), NEW c \in Nat, GraphUpTo(h, c), NEW d \in Nat, c <= d
  PROVE GraphUpTo(h, d)
<1>1. ASSUME NEW n \in DOMAIN h.node PROVE UpTo(h.node[n].versions, d)
  <2> DEFINE nd == h.node[n]
             vs == nd.versions
  <2>1. nd \in NodeType /\ UpTo(vs, c)
    BY DEF Typed, GraphUpTo
  <2> HIDE DEF nd
  <2>2. vs \in Seq(VersionType)
    BY <2>1 DEF NodeType
  <2> HIDE DEF vs
  <2>3. ASSUME NEW i \in DOMAIN vs PROVE vs[i].from <= d /\ (vs[i].to <= d \/ IsOpen(vs[i]))
    <3> DEFINE v == vs[i]
    <3>1. v \in VersionType /\ v.from <= c /\ (v.to <= c \/ IsOpen(v))
      BY <2>1, <2>2, ElementOfSeq DEF UpTo
    <3> HIDE DEF v
    <3>2. v.from \in Nat /\ v.to \in Nat
      BY <3>1, ScopeFacts DEF VersionType
    <3>3. v.from <= d /\ (v.to <= d \/ IsOpen(v))
      BY <3>1, <3>2
    <3> QED
      BY <3>3 DEF v
  <2> QED
    BY <2>3 DEF UpTo, vs, nd
<1>2. ASSUME NEW i \in DOMAIN h.edge PROVE h.edge[i].from <= d /\ (h.edge[i].to <= d \/ IsOpen(h.edge[i]))
  <2> DEFINE e == h.edge[i]
  <2>1. e \in EdgeType /\ e.from <= c /\ (e.to <= c \/ IsOpen(e))
    <3>1. h.edge \in Seq(EdgeType) /\ UpTo(h.edge, c)
      BY DEF Typed, GraphUpTo
    <3> QED
      BY <3>1, ElementOfSeq DEF UpTo
  <2> HIDE DEF e
  <2>2. e.from \in Nat /\ e.to \in Nat
    BY <2>1, ScopeFacts DEF EdgeType
  <2>3. e.from <= d /\ (e.to <= d \/ IsOpen(e))
    BY <2>1, <2>2
  <2> QED
    BY <2>3 DEF e
<1> QED
  BY <1>1, <1>2 DEF GraphUpTo, UpTo

IngestInv ==
  /\ scope \in Scopes /\ clock \in 1 .. scope.maxTs /\ batches \in 0 .. scope.maxBatches
  /\ Good(g)
  /\ scope.inOrder => GraphUpTo(g, clock) /\ GraphInOrder(g)
  /\ scope.inOrder /\ truth # NoTruth => Truth(truth, g)

LEMMA GoodNext ==
  ASSUME scope' = scope, Good(g')
  PROVE Good(g)'
<1>1. Time' = Time /\ Contents' = Contents /\ Labels' = Labels
  BY DEF Time, Contents, Labels
<1>2. VersionType' = VersionType /\ EdgeType' = EdgeType
  BY <1>1 DEF VersionType, EdgeType
<1>3. NodeType' = NodeType
  BY <1>2 DEF NodeType
<1>4. Typed(g)'
  BY <1>2, <1>3 DEF Good, Typed
<1> QED
  BY <1>4 DEF Good

\* What a step at ts does.
LEMMA StepFacts ==
  ASSUME IngestInv, NEW ts \in Timestamps, Tick(ts)
  PROVE /\ scope' = scope /\ ts \in Time /\ ts \in Nat
        /\ clock' \in 1 .. scope.maxTs /\ batches' \in 0 .. scope.maxBatches
        /\ scope.inOrder => clock' = ts /\ GraphUpTo(g, ts) /\ GraphInOrder(g)
<1>1. scope \in Scopes /\ scope.maxTs \in Nat /\ scope.maxBatches \in Nat
  BY ScopesAssumption DEF IngestInv
<1>2. scope' = scope /\ ts \in Time /\ ts \in Nat /\ (scope.inOrder => clock <= ts)
  BY <1>1 DEF IngestInv, Timestamps, Tick, Time
<1>3. clock' \in 1 .. scope.maxTs /\ batches' \in 0 .. scope.maxBatches /\ (scope.inOrder => clock' = ts)
  BY <1>1, <1>2 DEF IngestInv, Tick, Time
<1>4. ASSUME scope.inOrder PROVE GraphUpTo(g, ts) /\ GraphInOrder(g)
  <2>1. Typed(g) /\ GraphUpTo(g, clock) /\ GraphInOrder(g) /\ clock \in Nat /\ clock <= ts
    BY <1>2, <1>4 DEF IngestInv, Good
  <2> QED
    BY <1>1, <1>2, <2>1, GraphUpToLater
<1> QED
  BY <1>2, <1>3, <1>4

\* A step makes a later graph.
LEMMA StepIsLater ==
  ASSUME IngestInv, NEW b \in Snapshots[scope], NEW ts \in Timestamps, NEW r \in BOOLEAN,
         IngestAll(b, ts, r) \/ IngestCut(b, ts, r)
  PROVE Later(g, g', ts)
<1>1. Tick(ts)
  BY DEF IngestAll, IngestCut
<1>2. scope \in Scopes /\ Good(g) /\ ts \in Time /\ Batch(b)
  BY <1>1, StepFacts, SnapshotFacts DEF IngestInv
<1> DEFINE ops == SnapshotOps(g, b, ts, r)
<1>3. AllLater(g, ops, ts) /\ Later(g, ApplyAll(g, ops), ts) /\ Len(ops) \in Nat
  BY <1>2, SnapshotRun
<1>4. CASE IngestAll(b, ts, r)
  BY <1>3, <1>4 DEF IngestAll
<1>5. CASE IngestCut(b, ts, r)
  <2>1. PICK n \in 1 .. Len(ops) - 1 : g' = ApplyAll(g, SubSeq(ops, 1, n))
    BY <1>5 DEF IngestCut
  <2> HIDE DEF ops
  <2>2. n \in 0 .. Len(ops)
    BY <1>3
  <2> QED
    BY <1>3, <2>1, <2>2 DEF AllLater
<1> QED
  BY <1>4, <1>5

LEMMA InitInv == Init => IngestInv
<1> SUFFICES ASSUME Init PROVE IngestInv
  OBVIOUS
<1>1. scope \in Scopes /\ clock \in 1 .. scope.maxTs /\ batches \in 0 .. scope.maxBatches
  BY ScopesAssumption DEF Init
<1> QED
  BY <1>1, EmptyGraphFacts DEF Init, IngestInv

LEMMA NextInv == IngestInv /\ [Next]_vars => IngestInv'
<1> SUFFICES ASSUME IngestInv, [Next]_vars PROVE IngestInv'
  OBVIOUS
<1>1. CASE UNCHANGED vars
  <2>1. scope' = scope /\ Good(g') /\ g' = g /\ clock' = clock /\ batches' = batches /\ truth' = truth
    BY <1>1 DEF IngestInv, vars
  <2>2. Good(g)'
    BY <2>1, GoodNext
  <2> QED
    BY <2>1, <2>2 DEF IngestInv
<1>2. ASSUME NEW b \in Snapshots[scope], NEW ts \in Timestamps, NEW r \in BOOLEAN,
             IngestAll(b, ts, r) \/ IngestCut(b, ts, r)
      PROVE IngestInv'
  <2>1. Tick(ts)
    BY <1>2 DEF IngestAll, IngestCut
  <2>2. /\ scope' = scope /\ ts \in Time /\ clock' \in 1 .. scope.maxTs /\ batches' \in 0 .. scope.maxBatches
        /\ scope.inOrder => clock' = ts /\ GraphUpTo(g, ts) /\ GraphInOrder(g)
    BY <2>1, StepFacts
  <2>3. Later(g, g', ts)
    BY <1>2, StepIsLater
  <2>4. Good(g)'
    BY <2>2, <2>3, GoodNext DEF Later
  <2>5. scope.inOrder => GraphUpTo(g', clock') /\ GraphInOrder(g')
    BY <2>2, <2>3 DEF Later
  <2>6. ASSUME scope.inOrder, truth' # NoTruth PROVE Truth(truth', g')
    <3>1. r /\ truth' = b /\ g' = ApplyAll(g, SnapshotOps(g, b, ts, r))
      BY <1>2, <2>6 DEF IngestAll, IngestCut
    <3>2. scope \in Scopes /\ Good(g) /\ Batch(b) /\ GraphUpTo(g, ts) /\ GraphInOrder(g)
      BY <2>2, <2>6, SnapshotFacts DEF IngestInv
    <3>3. Truth(b, ApplyAll(g, SnapshotOps(g, b, ts, r)))
      BY <2>2, <3>1, <3>2, SnapshotRun
    <3> QED
      BY <3>1, <3>3
  <2>7. scope' \in Scopes
    BY <2>2 DEF IngestInv
  <2> QED
    BY <2>2, <2>4, <2>5, <2>6, <2>7 DEF IngestInv
<1> QED
  BY <1>1, <1>2 DEF Next

LEMMA SpecInv == Spec => []IngestInv
BY InitInv, NextInv, PTL DEF Spec

\* Both indexes say what the data they index say, after every batch, and after
\* every prefix of one.
THEOREM IndexesAgreeAlways == Spec => []IndexesAgree
<1>1. IngestInv => IndexesAgree
  <2> SUFFICES ASSUME IngestInv PROVE IndexesAgree
    OBVIOUS
  <2>1. EdgesIndexed(g) /\ NodesIndexed(g)
    BY DEF IngestInv, Good
  <2>2. ASSUME NEW i \in DOMAIN g.edge
        PROVE IsOpen(g.edge[i]) <=> Triple(g.edge[i]) \in DOMAIN g.open /\ g.open[Triple(g.edge[i])] = i
    <3> DEFINE t == Triple(g.edge[i])
    <3>1. IsOpen(g.edge[i]) => t \in DOMAIN g.open /\ g.open[t] = i
      BY <2>1 DEF EdgesIndexed
    <3>2. t \in DOMAIN g.open => IsOpen(g.edge[g.open[t]])
      BY <2>1 DEF EdgesIndexed
    <3> HIDE DEF t
    <3>3. IsOpen(g.edge[i]) <=> t \in DOMAIN g.open /\ g.open[t] = i
      BY <3>1, <3>2
    <3> QED
      BY <3>3 DEF t
  <2>3. \A n : n \in g.embedded <=> n \in OpenNodes(g) /\ Last(g.node[n].versions).props \in Embedding
    BY <2>1, OpenNode DEF NodesIndexed
  <2>4. g.embedded = {n \in OpenNodes(g) : Last(g.node[n].versions).props \in Embedding}
    BY <2>3
  <2> QED
    BY <2>2, <2>4 DEF IndexesAgree
<1> QED
  BY <1>1, SpecInv, PTL

\* No open edge ends at a node that is not there, and intervals follow each
\* other in time when batches do.
THEOREM WellFormedAlways == Spec => []WellFormed
<1>1. IngestInv => WellFormed
  <2> SUFFICES ASSUME IngestInv PROVE WellFormed
    OBVIOUS
  <2>1. Typed(g) /\ EndsLive(g)
    BY DEF IngestInv, Good
  <2>2. ASSUME NEW n \in DOMAIN g.node
        PROVE /\ g.node[n].placeholder \in BOOLEAN /\ g.node[n].versions # <<>>
              /\ \A v \in ToSet(g.node[n].versions) :
                   v.props \in scope.props \cup {NullProps} /\ v.origin \in scope.origins \cup {NoOrigin}
    <3> DEFINE nd == g.node[n]
               vs == nd.versions
    <3>1. nd \in NodeType
      BY <2>1 DEF Typed
    <3> HIDE DEF nd
    <3>2. nd.placeholder \in BOOLEAN /\ vs # <<>> /\ vs \in Seq(VersionType)
      BY <3>1 DEF NodeType
    <3> HIDE DEF vs
    <3>3. ASSUME NEW v \in ToSet(vs) PROVE v.props \in Contents /\ v.origin \in Labels
      <4>1. PICK i \in DOMAIN vs : v = vs[i]
        BY DEF ToSet
      <4>2. v \in VersionType
        BY <3>2, <4>1, ElementOfSeq
      <4> QED
        BY <4>2 DEF VersionType
    <3> QED
      BY <3>2, <3>3 DEF Contents, Labels, vs, nd
  <2>3. TypeOK
    BY <2>1, <2>2 DEF TypeOK, IngestInv, Typed, NameSet
  <2>4. OpenEdgeEndsLive
    BY <2>1 DEF OpenEdgeEndsLive, EndsLive, ToSet
  <2>5. ASSUME scope.inOrder PROVE IntervalsOrdered
    <3>1. GraphInOrder(g)
      BY <2>5 DEF IngestInv
    <3> QED
      BY <3>1 DEF GraphInOrder, InOrder, IntervalsOrdered
  <2> QED
    BY <2>3, <2>4, <2>5 DEF WellFormed
<1> QED
  BY <1>1, SpecInv, PTL

\* After a complete snapshot the present is what it said.
THEOREM SnapshotIsTruthAlways == Spec => []SnapshotIsTruth
<1>1. IngestInv => SnapshotIsTruth
  <2> SUFFICES ASSUME IngestInv, scope.inOrder, truth # NoTruth PROVE SnapshotIsTruth
    BY DEF SnapshotIsTruth
  <2>1. Truth(truth, g)
    BY DEF IngestInv
  <2> QED
    BY <2>1 DEF Truth, SnapshotIsTruth
<1> QED
  BY <1>1, SpecInv, PTL

\* Whatever is ingested, queries of an earlier time are answered as before.
THEOREM PastIsFixedAlways == Spec => PastIsFixed
<1>1. IngestInv /\ [Next]_vars =>
        [scope.inOrder => \A t \in 1 .. clock' - 1 : AsOf(g, t)' = AsOf(g, t)]_vars
  <2> SUFFICES ASSUME IngestInv, Next, scope.inOrder, NEW t \in 1 .. clock' - 1
               PROVE AsOf(g, t)' = AsOf(g, t)
    OBVIOUS
  <2>1. PICK b \in Snapshots[scope] : \E ts \in Timestamps : \E r \in BOOLEAN :
               IngestAll(b, ts, r) \/ IngestCut(b, ts, r)
    BY DEF Next
  <2>2. PICK ts \in Timestamps : \E r \in BOOLEAN : IngestAll(b, ts, r) \/ IngestCut(b, ts, r)
    BY <2>1
  <2>3. PICK r \in BOOLEAN : IngestAll(b, ts, r) \/ IngestCut(b, ts, r)
    BY <2>2
  <2>4. Tick(ts)
    BY <2>3 DEF IngestAll, IngestCut
  <2>5. clock' = ts /\ ts \in Nat
    BY <2>4, StepFacts
  <2>6. t \in Nat /\ t < ts
    BY <2>5
  <2>7. Later(g, g', ts)
    BY <2>3, StepIsLater
  <2> QED
    BY <2>6, <2>7 DEF Later
<1> QED
  BY <1>1, SpecInv, PTL DEF Spec, PastIsFixed

-----------------------------------------------------------------------------
(* A log rewritten: first the open nodes, one by one, ...                  *)

LEMMA ApplyOne ==
  ASSUME NEW h, NEW o
  PROVE ApplyAll(h, <<o>>) = Apply(h, o)
<1> DEFINE ops == <<o>>
<1>1. ops \in Seq({o}) /\ Len(ops) = 1 /\ ops[1] = o
  OBVIOUS
<1> HIDE DEF ops
<1>2. PICK a : Runs(h, ops, a)
  BY <1>1, RunOf
<1>3. a[0] = h /\ a[1] = ApplyAll(h, ops)
  BY <1>1, <1>2 DEF Runs
<1>4. 0 \in 0 .. Len(ops) - 1 /\ 0 + 1 = 1
  BY <1>1
<1>5. a[0 + 1] = Apply(a[0], ops[0 + 1])
  BY <1>2, <1>4 DEF Runs
<1>6. ApplyAll(h, ops) = Apply(h, o)
  BY <1>1, <1>3, <1>4, <1>5
<1> QED
  BY <1>6 DEF ops

KeptNode(h, n) == [placeholder |-> h.node[n].placeholder, versions |-> <<Last(h.node[n].versions)>>]

LEMMA LastFacts ==
  ASSUME scope \in Scopes, NEW h, Good(h), NEW n \in OpenNodes(h), NEW v, v = Last(h.node[n].versions)
  PROVE /\ n \in NameSet /\ n \in DOMAIN h.node
        /\ v.props \in Contents /\ v.from \in Time /\ v.origin \in Labels /\ IsOpen(v)
        /\ v = Version(v.props, v.from, v.origin)
        /\ h.node[n].placeholder \in BOOLEAN /\ (h.node[n].placeholder => v.props = NullProps)
        /\ Current(KeptNode(h, n).versions) /\ Last(KeptNode(h, n).versions) = v
        /\ KeptNode(h, n).placeholder = h.node[n].placeholder
<1> DEFINE nd == h.node[n]
           vs == nd.versions
<1>1. n \in DOMAIN h.node /\ Current(vs)
  BY OpenNode
<1>2. nd \in NodeType /\ n \in NameSet
  BY <1>1 DEF Good, Typed
<1>3. nd.placeholder => v.props = NullProps
  BY <1>1 DEF Good, PlaceholdersEmpty
<1>4. v = Last(vs)
  OBVIOUS
<1> HIDE DEF nd
<1>5. vs \in Seq(VersionType) /\ vs # <<>> /\ nd.placeholder \in BOOLEAN
  BY <1>2 DEF NodeType
<1> HIDE DEF vs
<1>6. v \in VersionType /\ IsOpen(v)
  <2>1. Len(vs) \in DOMAIN vs
    BY <1>5
  <2>2. v = vs[Len(vs)]
    BY <1>4 DEF Last
  <2>3. v \in VersionType
    BY <1>5, <2>1, <2>2, ElementOfSeq
  <2> QED
    BY <1>1, <1>4, <2>3 DEF Current
<1>7. v = Version(v.props, v.from, v.origin)
  BY <1>6 DEF VersionType, Version, IsOpen
<1>8. v.props \in Contents /\ v.from \in Time /\ v.origin \in Labels
  BY <1>6 DEF VersionType
<1>9. KeptNode(h, n).versions = <<v>> /\ KeptNode(h, n).placeholder = nd.placeholder
  BY DEF KeptNode, nd
<1>10. Last(<<v>>) = v /\ Current(<<v>>)
  BY <1>6 DEF Last, Current
<1> QED
  BY <1>1, <1>2, <1>3, <1>5, <1>6, <1>7, <1>8, <1>9, <1>10 DEF nd

Restored(h, x, N) ==
  /\ Good(x) /\ DOMAIN x.node = N /\ (\A n \in N : x.node[n] = KeptNode(h, n))
  /\ x.edge = <<>> /\ DOMAIN x.open = {}

LEMMA RestoredOneMore ==
  ASSUME scope \in Scopes, NEW h, Good(h), NEW N, NEW x, Restored(h, x, N),
         NEW n \in OpenNodes(h), n \notin N, NEW y, y = Apply(x, OpenNodeOp(h, n))
  PROVE Restored(h, y, N \cup {n})
<1> DEFINE v == Last(h.node[n].versions)
           ph == h.node[n].placeholder
<1>1. /\ n \in NameSet /\ v.props \in Contents /\ v.from \in Time /\ v.origin \in Labels
      /\ v = Version(v.props, v.from, v.origin) /\ ph \in BOOLEAN /\ (ph => v.props = NullProps)
  BY LastFacts
<1>2. KeptNode(h, n) = [placeholder |-> ph, versions |-> <<v>>]
  BY DEF KeptNode
<1>3. OpenNodeOp(h, n) = IF ph THEN PlaceholderOp(n, v.from, v.origin)
                              ELSE NodeOp(n, v.props, v.from, v.origin)
  BY DEF OpenNodeOp
<1> HIDE DEF v, ph
<1>4. Prior(x, n) = <<>> /\ WasPlaceholder(x, n) = TRUE /\ ~Current(<<>>)
  BY DEF Prior, WasPlaceholder, Restored, Current
<1>5. \A p, ts, o : Opened(<<>>, ts, p, o) = <<Version(p, ts, o)>>
  BY DEF Opened, Closed
<1>6. Good(x) /\ Typed(x)
  BY DEF Restored, Good
<1>7. Good(y) /\ \E emb : y = WithNode(x, n, KeptNode(h, n), emb)
  <2>1. CASE ph
    <3>1. y = ObservePlaceholder(x, n, v.from, v.origin)
      BY <1>3, <2>1, ApplyOp
    <3>2. Good(y)
      BY <1>1, <1>6, <3>1, ObservePlaceholderGood
    <3>3. y = Placed(x, n, v.from, v.origin)
      BY <1>1, <1>6, <3>1, ObservePlaceholderIs
    <3>4. Placed(x, n, v.from, v.origin) =
            WithNode(x, n, [placeholder |-> TRUE, versions |-> <<Version(NullProps, v.from, v.origin)>>], x.embedded)
      BY <1>4, <1>5 DEF Placed
    <3>5. Version(NullProps, v.from, v.origin) = v /\ ph = TRUE
      BY <1>1, <2>1
    <3>6. KeptNode(h, n) = [placeholder |-> TRUE, versions |-> <<v>>]
      BY <1>2, <3>5
    <3> QED
      BY <3>2, <3>3, <3>4, <3>5, <3>6
  <2>2. CASE ~ph
    <3>1. y = ObserveNode(x, n, v.props, v.from, v.origin)
      BY <1>3, <2>2, ApplyOp
    <3>2. Good(y)
      BY <1>1, <1>6, <3>1, ObserveNodeGood
    <3>3. y = Observed(x, n, v.props, v.from, v.origin)
      BY <1>1, <1>6, <3>1, ObserveNodeIs
    <3> DEFINE emb == IF v.props \in Embedding THEN x.embedded \cup {n} ELSE x.embedded \ {n}
    <3>4. Observed(x, n, v.props, v.from, v.origin) =
            WithNode(x, n, [placeholder |-> FALSE,
                            versions |-> <<Version(v.props, v.from, v.origin)>>], emb)
      BY <1>4, <1>5 DEF Observed
    <3>5. ph = FALSE
      BY <1>1, <2>2
    <3>6. KeptNode(h, n) = [placeholder |-> FALSE, versions |-> <<v>>]
      BY <1>2, <3>5
    <3> HIDE DEF emb
    <3> QED
      BY <1>1, <3>2, <3>3, <3>4, <3>6
  <2> QED
    BY <2>1, <2>2
<1>8. PICK emb : y = WithNode(x, n, KeptNode(h, n), emb)
  BY <1>7
<1>9. /\ DOMAIN y.node = DOMAIN x.node \cup {n} /\ y.node[n] = KeptNode(h, n)
      /\ \A m \in DOMAIN x.node : m # n => y.node[m] = x.node[m]
      /\ y.edge = x.edge /\ y.open = x.open
  <2> DEFINE nd == KeptNode(h, n)
  <2> HIDE DEF nd
  <2> QED
    BY <1>8, WithNodeFacts DEF nd
<1> QED
  BY <1>7, <1>9 DEF Restored

LEMMA NodesRestored ==
  ASSUME scope \in Scopes, NEW h, Good(h), NEW N \in SUBSET OpenNodes(h), NEW ops,
         ops = [i \in DOMAIN SetToSeq(N) |-> OpenNodeOp(h, SetToSeq(N)[i])], NEW x, x = ApplyAll(EmptyGraph, ops)
  PROVE Restored(h, x, N) /\ ops \in Seq({OpenNodeOp(h, n) : n \in N})
<1> DEFINE seq == SetToSeq(N)
           S == {OpenNodeOp(h, n) : n \in N}
<1>1. IsFiniteSet(N)
  <2>1. N \subseteq NameSet /\ IsFiniteSet(NameSet)
    BY LastFacts, NamesFacts
  <2> QED
    BY <2>1, FS_Subset
<1>2. seq \in Seq(N) /\ ToSet(seq) = N /\ \A i, j \in DOMAIN seq : seq[i] = seq[j] => i = j
  BY <1>1, SetToSeqFacts
<1>3. ops = [i \in DOMAIN seq |-> OpenNodeOp(h, seq[i])]
  OBVIOUS
<1> HIDE DEF seq
<1>4. Len(seq) \in Nat /\ DOMAIN seq = 1 .. Len(seq)
  BY <1>2
<1>5. ops \in Seq(S) /\ Len(ops) = Len(seq)
  <2>1. \A i \in 1 .. Len(seq) : seq[i] \in N
    BY <1>2, <1>4
  <2>2. ops \in [1 .. Len(seq) -> S]
    BY <1>3, <1>4, <2>1
  <2> QED
    BY <1>4, <2>2, MadeSeq
<1>6. PICK a : Runs(EmptyGraph, ops, a)
  BY <1>5, RunOf
<1> DEFINE Done(j) == {seq[i] : i \in 1 .. j}
           T == {j \in Nat : j <= Len(seq) => Restored(h, a[j], Done(j))}
<1>7. 0 \in T
  <2>1. Done(0) = {} /\ a[0] = EmptyGraph
    BY <1>6 DEF Runs
  <2>2. Restored(h, EmptyGraph, {})
    BY EmptyGraphFacts DEF Restored
  <2> QED
    BY <2>1, <2>2
<1>8. ASSUME NEW j \in T PROVE j + 1 \in T
  <2>1. SUFFICES ASSUME j + 1 <= Len(seq) PROVE Restored(h, a[j + 1], Done(j + 1))
    OBVIOUS
  <2>2. j \in Nat /\ Restored(h, a[j], Done(j)) /\ j + 1 \in DOMAIN seq /\ j \in 0 .. Len(ops) - 1
    BY <1>4, <1>5, <2>1
  <2>3. a[j + 1] = Apply(a[j], OpenNodeOp(h, seq[j + 1]))
    BY <1>3, <1>6, <2>2 DEF Runs
  <2>4. seq[j + 1] \notin Done(j) /\ seq[j + 1] \in N /\ seq[j + 1] \in OpenNodes(h)
    BY <1>2, <1>4, <2>2
  <2>5. Done(j + 1) = Done(j) \cup {seq[j + 1]}
    <3>1. 1 .. j + 1 = (1 .. j) \cup {j + 1}
      BY <2>2
    <3> QED
      BY <3>1
  <2> DEFINE D == Done(j)
             s == seq[j + 1]
             y == a[j + 1]
             w == a[j]
  <2>6. Restored(h, w, D) /\ s \in OpenNodes(h) /\ s \notin D /\ y = Apply(w, OpenNodeOp(h, s))
    BY <2>2, <2>3, <2>4
  <2> HIDE DEF D, s, y, w
  <2>7. Restored(h, y, D \cup {s})
    BY <2>6, RestoredOneMore
  <2> QED
    BY <2>5, <2>7 DEF D, s, y
<1> HIDE DEF T
<1>9. T = Nat
  BY <1>7, <1>8, Induction DEF T
<1>10. Restored(h, a[Len(seq)], Done(Len(seq)))
  <2> DEFINE n == Len(seq)
  <2>1. n \in T /\ n <= Len(seq)
    BY <1>4, <1>9
  <2> HIDE DEF n, Done
  <2>2. Restored(h, a[n], Done(n))
    BY <2>1 DEF T
  <2> QED
    BY <2>2 DEF n
<1>11. a[Len(seq)] = x
  BY <1>5, <1>6 DEF Runs
<1>12. Done(Len(seq)) = N
  BY <1>2, <1>4 DEF ToSet
<1> QED
  BY <1>5, <1>10, <1>11, <1>12

\* ... and then the open edges between them.
Survives(h, D, i) ==
  LET gone == DroppedNodes(h, D)
      e == h.edge[i]
  IN IsOpen(e) /\ e.origin \notin D /\ e.src \notin gone /\ e.dst \notin gone

Rejoined(h, D, y, x, m) ==
  /\ Good(x) /\ x.node = y.node
  /\ \A t : t \in DOMAIN x.open <=> \E i \in 1 .. m : Survives(h, D, i) /\ t = Triple(h.edge[i])
  /\ \A e : e \in ToSet(x.edge) <=> \E i \in 1 .. m : Survives(h, D, i) /\ e = h.edge[i]

LEMMA AppendMembers ==
  ASSUME NEW S, NEW s \in Seq(S), NEW x, NEW y
  PROVE y \in ToSet(Append(s, x)) <=> y \in ToSet(s) \/ y = x
<1> DEFINE u == Append(s, x)
<1>1. Len(s) \in Nat /\ DOMAIN s = 1 .. Len(s)
  OBVIOUS
<1>2. DOMAIN u = 1 .. Len(s) + 1 /\ u[Len(s) + 1] = x /\ \A i \in 1 .. Len(s) : u[i] = s[i]
  BY <1>1
<1> HIDE DEF u
<1>3. 1 .. Len(s) + 1 = (1 .. Len(s)) \cup {Len(s) + 1}
  BY <1>1
<1>4. y \in ToSet(u) <=> \E i \in (1 .. Len(s)) \cup {Len(s) + 1} : y = u[i]
  BY <1>2, <1>3 DEF ToSet
<1>5. y \in ToSet(s) <=> \E i \in 1 .. Len(s) : y = s[i]
  BY <1>1 DEF ToSet
<1>6. y \in ToSet(u) <=> y \in ToSet(s) \/ y = x
  BY <1>2, <1>4, <1>5
<1> QED
  BY <1>6 DEF u

LEMMA RejoinedOneMore ==
  ASSUME scope \in Scopes, NEW h, Good(h), NEW D, NEW y, Restored(h, y, OpenNodes(h) \ DroppedNodes(h, D)),
         NEW m \in Nat, m + 1 \in DOMAIN h.edge, NEW x, Rejoined(h, D, y, x, m), Survives(h, D, m + 1),
         NEW z, z = Apply(x, OpenEdgeOp(h.edge[m + 1]))
  PROVE Rejoined(h, D, y, z, m + 1)
<1> DEFINE e == h.edge[m + 1]
           gone == DroppedNodes(h, D)
           t == Triple(e)
<1>1. e \in EdgeType
  BY ElementOfSeq DEF Good, Typed
<1>2. e.src \in NameSet /\ e.dst \in NameSet /\ e.kind \in Kinds /\ e.from \in Time /\ e.origin \in Labels
  <2> HIDE DEF e
  <2> QED
    BY <1>1 DEF EdgeType
<1>3. IsOpen(e) /\ e.src \in OpenNodes(h) \ gone /\ e.dst \in OpenNodes(h) \ gone
  <2>1. IsOpen(e) /\ e.src \notin gone /\ e.dst \notin gone
    BY DEF Survives
  <2> QED
    BY <2>1 DEF Good, EndsLive
<1>4. \A n \in OpenNodes(h) \ gone : n \in OpenNodes(x)
  <2>1. ASSUME NEW n \in OpenNodes(h) \ gone PROVE n \in OpenNodes(x)
    <3>1. x.node = y.node /\ n \in DOMAIN y.node /\ y.node[n] = KeptNode(h, n)
      BY DEF Rejoined, Restored
    <3>2. Current(KeptNode(h, n).versions)
      BY LastFacts
    <3> QED
      BY <3>1, <3>2, OpenNode
  <2> QED
    BY <2>1
<1>5. \A i \in 1 .. m : ~(Survives(h, D, i) /\ t = Triple(h.edge[i]))
  <2>1. ASSUME NEW i \in 1 .. m, Survives(h, D, i), t = Triple(h.edge[i]) PROVE FALSE
    <3>1. i \in DOMAIN h.edge
      BY DEF Good, Typed
    <3>2. IsOpen(h.edge[i])
      BY <2>1 DEF Survives
    <3>3. h.open[t] = i /\ h.open[t] = m + 1
      BY <1>3, <2>1, <3>1, <3>2 DEF Good, EdgesIndexed
    <3> QED
      BY <3>3
  <2> QED
    BY <2>1
<1>6. t \notin DOMAIN x.open
  BY <1>5 DEF Rejoined
<1>7. z = ObserveEdge(x, e.src, e.dst, e.kind, e.from, e.origin)
  BY ApplyOp DEF OpenEdgeOp
<1>8. t = <<e.src, e.dst, e.kind>>
  BY DEF Triple
<1>9. NewEdge(e.src, e.dst, e.kind, e.from, e.origin) = e
  <2> HIDE DEF e
  <2> QED
    BY <1>1, <1>3 DEF NewEdge, EdgeType, IsOpen
<1>10. Triple(NewEdge(e.src, e.dst, e.kind, e.from, e.origin)) = t
  BY <1>9
<1>11. Good(x) /\ x.node = y.node
  BY DEF Rejoined
<1>12. e.src \in OpenNodes(x) /\ e.dst \in OpenNodes(x)
  BY <1>3, <1>4
<1> DEFINE src == e.src
           dst == e.dst
           kind == e.kind
           from == e.from
           origin == e.origin
<1>13. Good(z) /\ z.node = x.node /\ DOMAIN z.open = DOMAIN x.open \cup {t}
       /\ EdgeAdded(x, z, NewEdge(src, dst, kind, from, origin))
  <2>1. src \in OpenNodes(x) /\ dst \in OpenNodes(x) /\ kind \in Kinds /\ from \in Time /\ origin \in Labels
        /\ z = ObserveEdge(x, src, dst, kind, from, origin) /\ t = <<src, dst, kind>>
    BY <1>2, <1>7, <1>8, <1>12
  <2> HIDE DEF src, dst, kind, from, origin, t
  <2> QED
    BY <1>11, <2>1, ObserveEdgeGood
<1>14. z.edge = Append(x.edge, e)
  <2> DEFINE w == NewEdge(src, dst, kind, from, origin)
  <2>1. w = e /\ Triple(w) = t /\ EdgeAdded(x, z, w)
    BY <1>9, <1>10, <1>13
  <2> HIDE DEF w, e, t
  <2> QED
    BY <1>6, <2>1 DEF EdgeAdded
<1>15. \A d : d \in ToSet(z.edge) <=> d \in ToSet(x.edge) \/ d = e
  <2>1. x.edge \in Seq(EdgeType)
    BY <1>11 DEF Good, Typed
  <2> QED
    BY <1>14, <2>1, AppendMembers
<1>16. 1 .. m + 1 = (1 .. m) \cup {m + 1}
  OBVIOUS
<1>17. \A d : d \in ToSet(z.edge) <=> \E i \in 1 .. m + 1 : Survives(h, D, i) /\ d = h.edge[i]
  <2>1. \A d : d \in ToSet(x.edge) <=> \E i \in 1 .. m : Survives(h, D, i) /\ d = h.edge[i]
    BY DEF Rejoined
  <2> QED
    BY <1>15, <1>16, <2>1
<1>18. \A u : u \in DOMAIN z.open <=> \E i \in 1 .. m + 1 : Survives(h, D, i) /\ u = Triple(h.edge[i])
  <2>1. \A u : u \in DOMAIN x.open <=> \E i \in 1 .. m : Survives(h, D, i) /\ u = Triple(h.edge[i])
    BY DEF Rejoined
  <2>2. \A u : u \in DOMAIN z.open <=> u \in DOMAIN x.open \/ u = t
    BY <1>13
  <2> QED
    BY <1>16, <2>1, <2>2
<1> QED
  BY <1>11, <1>13, <1>17, <1>18 DEF Rejoined

LEMMA EdgesRejoined ==
  ASSUME scope \in Scopes, NEW h, Good(h), NEW D, NEW y, Restored(h, y, OpenNodes(h) \ DroppedNodes(h, D)),
         NEW ss, ss = [i \in DOMAIN h.edge |-> IF Survives(h, D, i) THEN <<OpenEdgeOp(h.edge[i])>> ELSE <<>>],
         NEW x, x = ApplyAll(y, FlattenSeq(ss))
  PROVE /\ Rejoined(h, D, y, x, Len(h.edge))
        /\ ss \in Seq(Seq({OpenEdgeOp(h.edge[i]) : i \in DOMAIN h.edge}))
<1> DEFINE S == {OpenEdgeOp(h.edge[i]) : i \in DOMAIN h.edge}
           len == Len(h.edge)
<1>1. len \in Nat /\ DOMAIN h.edge = 1 .. len
  BY DEF Good, Typed
<1> HIDE DEF len
<1>2. ss \in Seq(Seq(S)) /\ Len(ss) = len
  <2>1. ASSUME NEW i \in 1 .. len PROVE ss[i] \in Seq(S)
    <3> DEFINE o == OpenEdgeOp(h.edge[i])
    <3>1. o \in S /\ (ss[i] = <<o>> \/ ss[i] = <<>>)
      BY <1>1
    <3> HIDE DEF o, S
    <3>2. <<o>> \in Seq(S) /\ <<>> \in Seq(S)
      BY <3>1
    <3> QED
      BY <3>1, <3>2
  <2>2. ss = [i \in 1 .. len |-> ss[i]]
    BY <1>1
  <2> DEFINE Q == Seq(S)
  <2>3. \A i \in 1 .. len : ss[i] \in Q
    BY <2>1
  <2> HIDE DEF Q
  <2>4. ss \in [1 .. len -> Q]
    BY <2>2, <2>3
  <2>5. ss \in Seq(Q) /\ Len(ss) = len
    BY <1>1, <2>4, MadeSeq
  <2> QED
    BY <2>5 DEF Q
<1> HIDE DEF S
<1>3. PICK a : /\ a[0] = y /\ a[Len(ss)] = ApplyAll(y, FlattenSeq(ss))
               /\ \A n \in 0 .. Len(ss) - 1 : a[n + 1] = ApplyAll(a[n], ss[n + 1])
  <2>1. ASSUME NEW us \in Seq(Seq(S))
        PROVE \E a : /\ a[0] = y /\ a[Len(us)] = ApplyAll(y, FlattenSeq(us))
                     /\ \A n \in 0 .. Len(us) - 1 : a[n + 1] = ApplyAll(a[n], us[n + 1])
    BY ONLY <2>1, ApplyFlat
  <2>2. ss \in Seq(Seq(S))
    BY <1>2
  <2> QED
    BY <2>1, <2>2
<1> DEFINE T == {n \in Nat : n <= len => Rejoined(h, D, y, a[n], n)}
<1>4. 0 \in T
  <2>1. a[0] = y /\ 1 .. 0 = {}
    BY <1>3
  <2>2. Good(y) /\ DOMAIN y.open = {} /\ ToSet(y.edge) = {}
    BY DEF Restored, ToSet
  <2>3. Rejoined(h, D, y, y, 0)
    BY <2>1, <2>2 DEF Rejoined
  <2> QED
    BY <2>1, <2>3
<1>5. ASSUME NEW n \in T PROVE n + 1 \in T
  <2>1. SUFFICES ASSUME n + 1 <= len PROVE Rejoined(h, D, y, a[n + 1], n + 1)
    OBVIOUS
  <2>2. n \in Nat /\ Rejoined(h, D, y, a[n], n) /\ n + 1 \in DOMAIN h.edge /\ n \in 0 .. Len(ss) - 1
    BY <1>1, <1>2, <2>1
  <2> DEFINE w == a[n]
             z == a[n + 1]
             o == OpenEdgeOp(h.edge[n + 1])
  <2>3. z = ApplyAll(w, ss[n + 1]) /\ ss[n + 1] = IF Survives(h, D, n + 1) THEN <<o>> ELSE <<>>
    BY <1>3, <2>2
  <2>4. Rejoined(h, D, y, w, n)
    BY <2>2
  <2> HIDE DEF w, z
  <2>5. CASE Survives(h, D, n + 1)
    <3>1. z = Apply(w, o)
      <4> HIDE DEF o
      <4> QED
        BY <2>3, <2>5, ApplyOne
    <3>2. Rejoined(h, D, y, z, n + 1)
      BY <2>2, <2>4, <2>5, <3>1, RejoinedOneMore
    <3> QED
      BY <3>2 DEF z
  <2>6. CASE ~Survives(h, D, n + 1)
    <3>1. z = w
      BY <2>3, <2>6, ApplyNone
    <3>2. 1 .. n + 1 = (1 .. n) \cup {n + 1}
      BY <2>2
    <3>3. Rejoined(h, D, y, w, n + 1)
      <4> DEFINE k == n + 1
                 K == 1 .. k
      <4>1. K = (1 .. n) \cup {k} /\ ~Survives(h, D, k)
        BY <2>6, <3>2
      <4> HIDE DEF k
      <4>2. \A t : t \in DOMAIN w.open <=> \E i \in K : Survives(h, D, i) /\ t = Triple(h.edge[i])
        BY <2>4, <4>1 DEF Rejoined
      <4>3. \A e : e \in ToSet(w.edge) <=> \E i \in K : Survives(h, D, i) /\ e = h.edge[i]
        BY <2>4, <4>1 DEF Rejoined
      <4>4. Rejoined(h, D, y, w, k)
        BY <2>4, <4>2, <4>3 DEF Rejoined
      <4> QED
        BY <4>4 DEF k
    <3> QED
      BY <3>1, <3>3 DEF z
  <2> QED
    BY <2>5, <2>6
<1> HIDE DEF T
<1>6. T = Nat
  BY <1>4, <1>5, Induction DEF T
<1>7. Rejoined(h, D, y, a[len], len)
  BY <1>1, <1>6 DEF T
<1>8. a[len] = x
  BY <1>2, <1>3
<1> QED
  BY <1>2, <1>7, <1>8 DEF S, len

\* The graph that the rewritten log gives.
LEMMA RebuiltFacts ==
  ASSUME scope \in Scopes, Good(g), NEW D, NEW k, k = Rebuilt(D),
         NEW gone, gone = DroppedNodes(g, D)
  PROVE /\ DOMAIN k.node = OpenNodes(g) \ gone /\ OpenNodes(k) = OpenNodes(g) \ gone
        /\ \A n \in DOMAIN k.node : /\ k.node[n].placeholder = g.node[n].placeholder
                                    /\ Last(k.node[n].versions) = Last(g.node[n].versions)
        /\ \A e : e \in ToSet(k.edge) <=>
             e \in ToSet(g.edge) /\ IsOpen(e) /\ e.origin \notin D /\ e.src \notin gone /\ e.dst \notin gone
        /\ k.embedded = g.embedded \ gone
<1> DEFINE N == OpenNodes(g) \ gone
           seq == SetToSeq(N)
           nodes == [i \in DOMAIN seq |-> OpenNodeOp(g, seq[i])]
           ss == [i \in DOMAIN g.edge |-> IF Survives(g, D, i) THEN <<OpenEdgeOp(g.edge[i])>> ELSE <<>>]
           y == ApplyAll(EmptyGraph, nodes)
           S1 == {OpenNodeOp(g, n) : n \in N}
           S2 == {OpenEdgeOp(g.edge[i]) : i \in DOMAIN g.edge}
           S == S1 \cup S2
<1>1. OpenStateOps(g, D) = nodes \o FlattenSeq(ss)
  BY DEF OpenStateOps, Survives
<1>2. k = ApplyAll(EmptyGraph, nodes \o FlattenSeq(ss))
  BY <1>1 DEF Rebuilt
<1>3. nodes = [i \in DOMAIN SetToSeq(N) |-> OpenNodeOp(g, SetToSeq(N)[i])] /\ N \in SUBSET OpenNodes(g)
  OBVIOUS
<1> HIDE DEF seq
<1>4. Restored(g, y, N) /\ nodes \in Seq(S1)
  <2> HIDE DEF nodes
  <2>1. N \in SUBSET OpenNodes(g) /\ nodes = [i \in DOMAIN SetToSeq(N) |-> OpenNodeOp(g, SetToSeq(N)[i])]
    BY <1>3
  <2> HIDE DEF N
  <2> QED
    BY <2>1, NodesRestored
<1> HIDE DEF nodes, y
<1> DEFINE z == ApplyAll(y, FlattenSeq(ss))
<1>5. Rejoined(g, D, y, z, Len(g.edge)) /\ ss \in Seq(Seq(S2))
  <2>1. ss = [i \in DOMAIN g.edge |-> IF Survives(g, D, i) THEN <<OpenEdgeOp(g.edge[i])>> ELSE <<>>]
    OBVIOUS
  <2>2. Restored(g, y, OpenNodes(g) \ DroppedNodes(g, D))
    BY <1>4
  <2> HIDE DEF ss, N
  <2> QED
    BY <2>1, <2>2, EdgesRejoined
<1> HIDE DEF ss, S1, S2
<1>6. FlattenSeq(ss) \in Seq(S2)
  BY <1>5, FlattenMembers
<1> DEFINE edges == FlattenSeq(ss)
<1>7. nodes \in Seq(S) /\ edges \in Seq(S)
  BY <1>4, <1>6, SeqMonotonic
<1>8. k = z
  <2>1. k = ApplyAll(EmptyGraph, nodes \o edges) /\ y = ApplyAll(EmptyGraph, nodes)
    BY <1>2 DEF y
  <2> HIDE DEF edges, S
  <2>2. ApplyAll(EmptyGraph, nodes \o edges) = ApplyAll(ApplyAll(EmptyGraph, nodes), edges)
    BY <1>7, ApplyConcat
  <2> QED
    BY <2>1, <2>2 DEF edges
<1> HIDE DEF z
<1>9. Good(k) /\ k.node = y.node
  BY <1>5, <1>8 DEF Rejoined
<1>10. DOMAIN k.node = N /\ \A n \in N : k.node[n] = KeptNode(g, n)
  BY <1>4, <1>9 DEF Restored
<1>11. ASSUME NEW n \in N
       PROVE /\ k.node[n].placeholder = g.node[n].placeholder
             /\ Last(k.node[n].versions) = Last(g.node[n].versions)
             /\ Current(k.node[n].versions)
  <2>1. n \in OpenNodes(g) /\ k.node[n] = KeptNode(g, n)
    BY <1>10
  <2> HIDE DEF N
  <2> QED
    BY <2>1, LastFacts
<1>12. OpenNodes(k) = N
  BY <1>10, <1>11, OpenNode
<1>13. ASSUME NEW e
       PROVE e \in ToSet(k.edge) <=>
               e \in ToSet(g.edge) /\ IsOpen(e) /\ e.origin \notin D /\ e.src \notin gone /\ e.dst \notin gone
  <2>1. e \in ToSet(k.edge) <=> \E i \in 1 .. Len(g.edge) : Survives(g, D, i) /\ e = g.edge[i]
    BY <1>5, <1>8 DEF Rejoined
  <2>2. DOMAIN g.edge = 1 .. Len(g.edge)
    BY DEF Good, Typed
  <2> QED
    BY <2>1, <2>2 DEF ToSet, Survives
<1>14. k.embedded = g.embedded \ gone
  <2>1. ASSUME NEW n PROVE n \in k.embedded <=> n \in g.embedded /\ n \notin gone
    <3>1. n \in k.embedded <=> n \in OpenNodes(k) /\ Last(k.node[n].versions).props \in Embedding
      BY <1>9, OpenNode DEF Good, NodesIndexed
    <3>2. n \in g.embedded <=> n \in OpenNodes(g) /\ Last(g.node[n].versions).props \in Embedding
      BY OpenNode DEF Good, NodesIndexed
    <3> QED
      BY <1>11, <1>12, <3>1, <3>2
  <2> QED
    BY <2>1
<1> QED
  BY <1>10, <1>11, <1>12, <1>13, <1>14

\* Compaction keeps the present, and purging an origin removes what came from
\* it and what hangs on that, and nothing else.
THEOREM RewriteIsExactAlways == Spec => []RewriteIsExact
<1>1. IngestInv => RewriteIsExact
  <2> SUFFICES ASSUME IngestInv PROVE RewriteIsExact
    OBVIOUS
  <2>1. scope \in Scopes /\ Good(g)
    BY DEF IngestInv
  <2>2. CompactionKeepsPresent
    <3> DEFINE k == Rebuilt({})
               gone == DroppedNodes(g, {})
    <3>1. gone = {}
      BY DEF DroppedNodes
    <3>2. /\ DOMAIN k.node = OpenNodes(g) \ gone /\ OpenNodes(k) = OpenNodes(g) \ gone
          /\ \A n \in DOMAIN k.node : /\ k.node[n].placeholder = g.node[n].placeholder
                                      /\ Last(k.node[n].versions) = Last(g.node[n].versions)
          /\ \A e : e \in ToSet(k.edge) <=>
               e \in ToSet(g.edge) /\ IsOpen(e) /\ e.origin \notin {} /\ e.src \notin gone /\ e.dst \notin gone
          /\ k.embedded = g.embedded \ gone
      BY <2>1, RebuiltFacts
    <3> HIDE DEF k, gone
    <3>3. /\ OpenNodes(k) = OpenNodes(g)
          /\ \A n \in OpenNodes(g) : /\ k.node[n].placeholder = g.node[n].placeholder
                                     /\ Last(k.node[n].versions) = Last(g.node[n].versions)
      BY <3>1, <3>2
    <3>4. {[name |-> n, placeholder |-> k.node[n].placeholder, version |-> Last(k.node[n].versions)] : n \in OpenNodes(k)}
            = {[name |-> n, placeholder |-> g.node[n].placeholder, version |-> Last(g.node[n].versions)] : n \in OpenNodes(g)}
      BY <3>3
    <3>5. {e \in ToSet(k.edge) : IsOpen(e)} = {e \in ToSet(g.edge) : IsOpen(e)}
      BY <3>1, <3>2
    <3>6. k.embedded = g.embedded
      BY <3>1, <3>2
    <3> QED
      BY <3>4, <3>5, <3>6 DEF CompactionKeepsPresent, OpenView, k
  <2>3. ASSUME NEW o \in scope.origins
        PROVE LET h == Rebuilt({o})
                  gone == DroppedNodes(g, {o})
              IN /\ DOMAIN h.node = OpenNodes(g) \ gone
                 /\ \A n \in DOMAIN h.node : Last(h.node[n].versions) = Last(g.node[n].versions)
                 /\ ToSet(h.edge) =
                      {e \in ToSet(g.edge) : IsOpen(e) /\ e.origin # o /\ {e.src, e.dst} \cap gone = {}}
                 /\ h.embedded = g.embedded \ gone
    <3> DEFINE k == Rebuilt({o})
               gone == DroppedNodes(g, {o})
    <3>1. /\ DOMAIN k.node = OpenNodes(g) \ gone
          /\ \A n \in DOMAIN k.node : Last(k.node[n].versions) = Last(g.node[n].versions)
          /\ \A e : e \in ToSet(k.edge) <=>
               e \in ToSet(g.edge) /\ IsOpen(e) /\ e.origin \notin {o} /\ e.src \notin gone /\ e.dst \notin gone
          /\ k.embedded = g.embedded \ gone
      BY <2>1, RebuiltFacts
    <3> HIDE DEF k, gone
    <3>2. ToSet(k.edge) = {e \in ToSet(g.edge) : IsOpen(e) /\ e.origin # o /\ {e.src, e.dst} \cap gone = {}}
      BY <3>1
    <3> QED
      BY <3>1, <3>2 DEF k, gone
  <2>4. PurgeIsExact
    BY <2>3 DEF PurgeIsExact
  <2> QED
    BY <2>2, <2>4 DEF RewriteIsExact
<1> QED
  BY <1>1, SpecInv, PTL
=============================================================================
