-------------------------- MODULE PlasticityProofs --------------------------
(***************************************************************************)
(* Theorems about Plasticity and the operators of Spread, for all tables   *)
(* of edges, weights and configurations.  The first part is about what is  *)
(* derived from the configuration and what is forgotten, whatever the      *)
(* weights are (IInv); then come the folds, sums and orders that Spread is *)
(* made of, the spreading of activation firing by firing and hop by hop,   *)
(* the walk back along a trace, and what each request makes of the weights *)
(* (WInv); the theorems are at the end.                                    *)
(***************************************************************************)
EXTENDS Plasticity, FiniteSetTheorems, SequenceTheorems, WellFoundedInduction, TLAPS

-----------------------------------------------------------------------------
(* The inductive invariant.                                                *)

\* A column, whatever it weighs.
IsColumn(c) == DOMAIN c = {"w", "t", "dead"} /\ c.dead \in BOOLEAN
IsHomeostat(h) == DOMAIN h = {"setpoint", "ewma", "integral", "primed"}
IsList(f, n) == n \in Nat /\ DOMAIN f = 1 .. n /\ f \in Seq({f[i] : i \in 1 .. n})

\* Tables that are indexed by edge ids.
Tables ==
  /\ \E n \in Nat : IsList(cols, n) /\ IsList(valid, n) /\ IsList(rate, n)
  /\ Len(cols) <= Len(EdgeTable)
  /\ \A i \in Ids : IsColumn(cols[i]) /\ DOMAIN valid[i] = {"from", "to"}
  /\ IsHomeostat(homeo)

\* The sidecar has the first edges, each under its key.
Sidecar ==
  /\ IsHomeostat(saved.homeo)
  /\ \E m \in 0 .. Len(cols) :
       /\ DOMAIN saved.keys = 1 .. m /\ DOMAIN saved.cols = 1 .. m
       /\ \A j \in 1 .. m : saved.keys[j] = Key(j) /\ IsColumn(saved.cols[j])

\* Its setpoint is that of the configuration, until it is noted not to be.
SidecarIsCurrent ==
  saved = NoSidecar \/ "sidecar" \in outdated \/ saved.homeo.setpoint = cfg.setpoint

\* What is forgotten, and was saved since, is so in the sidecar: there only
\* pruning is final.
InSidecar(i) == \E j \in DOMAIN saved.keys : saved.keys[j] = Key(i) /\ saved.cols[j].dead
Forgotten == \A i \in Ids : cols[i].dead => i \in unsaved \/ InSidecar(i)

IInv == Tables /\ DerivedIsCurrent /\ Sidecar /\ SidecarIsCurrent /\ Forgotten

-----------------------------------------------------------------------------
(* Least and greatest numbers.                                             *)

LEMMA Least ==
  ASSUME NEW S \in SUBSET Nat, S # {}
  PROVE \E n \in S : \A m \in S : n <= m
<1>1. \E n \in S : \A m \in S : <<m, n>> \notin {ss \in Nat \X Nat : ss[1] < ss[2]}
  <2> DEFINE R == {ss \in Nat \X Nat : ss[1] < ss[2]}
  <2>1. IsWellFoundedOn(R, Nat)
    BY NatLessThanWellFounded, Zenon DEF OpToRel
  <2> HIDE DEF R
  <2>2. \E n \in S : \A m \in S : <<m, n>> \notin R
    BY <2>1, WFMin, Zenon
  <2> QED
    BY <2>2 DEF R
<1>2. PICK n \in S : \A m \in S : <<m, n>> \notin {ss \in Nat \X Nat : ss[1] < ss[2]}
  BY <1>1
<1>3. ASSUME NEW m \in S PROVE n <= m
  <2>1. m \in Nat /\ n \in Nat
    OBVIOUS
  <2>2. ~(m < n)
    <3>1. SUFFICES ASSUME m < n PROVE <<m, n>> \in {ss \in Nat \X Nat : ss[1] < ss[2]}
      BY <1>2
    <3> DEFINE p == <<m, n>>
    <3>2. p \in Nat \X Nat /\ p[1] = m /\ p[2] = n
      BY <2>1
    <3> QED
      BY <3>1, <3>2
  <2> QED
    BY <2>1, <2>2
<1> QED
  BY <1>3

-----------------------------------------------------------------------------
(* Lists and tables.                                                       *)

LEMMA ListMade ==
  ASSUME NEW n \in Nat, NEW f, f = [i \in 1 .. n |-> f[i]]
  PROVE IsList(f, n) /\ Len(f) = n
<1> DEFINE S == {f[i] : i \in 1 .. n}
<1>1. f \in [1 .. n -> S]
  <2>1. \A i \in 1 .. n : f[i] \in S
    OBVIOUS
  <2> HIDE DEF S
  <2> QED
    BY <2>1
<1>2. f \in Seq(S) /\ Len(f) = n /\ DOMAIN f = 1 .. n
  <2> HIDE DEF S
  <2> QED
    BY <1>1
<1> QED
  BY <1>2 DEF IsList

LEMMA ListFacts ==
  ASSUME NEW f, NEW n, IsList(f, n)
  PROVE Len(f) = n /\ n \in Nat /\ DOMAIN f = 1 .. n /\ f = [i \in 1 .. n |-> f[i]]
<1> DEFINE S == {f[i] : i \in 1 .. n}
<1>1. f \in Seq(S) /\ n \in Nat /\ DOMAIN f = 1 .. n
  BY DEF IsList
<1> HIDE DEF S
<1> QED
  BY <1>1

IsLonger(g, f, n, x) ==
  IsList(g, n + 1) /\ (\A i \in 1 .. n : g[i] = f[i]) /\ g[n + 1] = x

LEMMA ListLonger ==
  ASSUME NEW f, NEW n, IsList(f, n), NEW x
  PROVE IsLonger(Append(f, x), f, n, x)
<1> DEFINE S == {f[i] : i \in 1 .. n} \cup {x}
           g == Append(f, x)
<1>1. n \in Nat /\ Len(f) = n
  BY ListFacts
<1>2. f \in Seq(S)
  BY SeqMonotonic DEF IsList
<1>3. x \in S
  OBVIOUS
<1> HIDE DEF S
<1>4. g \in Seq(S) /\ Len(g) = n + 1 /\ (\A i \in 1 .. n : g[i] = f[i]) /\ g[n + 1] = x
  BY <1>1, <1>2, <1>3, AppendProperties
<1> HIDE DEF g
<1>5. g = [i \in 1 .. n + 1 |-> g[i]]
  BY <1>1, <1>4
<1>6. IsList(g, n + 1)
  BY <1>1, <1>5, ListMade
<1> QED
  BY <1>4, <1>6 DEF g, IsLonger

\* The columns of the same edges; and none that was pruned is back.
SameEdges(c) == c = [i \in Ids |-> c[i]] /\ \A i \in Ids : IsColumn(c[i])
Follows(c) == SameEdges(c) /\ \A i \in Ids : cols[i].dead => c[i].dead

\* Intervals may end, and begin when they began.
SameStarts ==
  /\ valid' = [i \in Ids |-> valid'[i]]
  /\ \A i \in Ids : DOMAIN valid'[i] = {"from", "to"} /\ valid'[i].from = valid[i].from

LEMMA TableFacts ==
  ASSUME Tables
  PROVE /\ Len(cols) \in Nat /\ Ids = 1 .. Len(cols)
        /\ IsList(cols, Len(cols)) /\ IsList(valid, Len(cols)) /\ IsList(rate, Len(cols))
        /\ Len(valid) = Len(cols)
<1>1. PICK n \in Nat : IsList(cols, n) /\ IsList(valid, n) /\ IsList(rate, n)
  BY DEF Tables
<1>2. Len(cols) = n /\ Len(valid) = n
  BY <1>1, ListFacts
<1> QED
  BY <1>1, <1>2 DEF Ids

LEMMA SameLen ==
  ASSUME Tables, NEW c, SameEdges(c)
  PROVE Len(c) = Len(cols) /\ IsList(c, Len(cols))
<1>1. c = [i \in 1 .. Len(cols) |-> c[i]] /\ Len(cols) \in Nat
  BY TableFacts DEF SameEdges
<1> QED
  BY <1>1, ListMade

LEMMA FollowsItself ==
  ASSUME Tables
  PROVE Follows(cols)
<1>1. Ids = 1 .. Len(cols) /\ IsList(cols, Len(cols))
  BY TableFacts
<1>2. cols = [i \in 1 .. Len(cols) |-> cols[i]]
  BY <1>1, ListFacts
<1>3. \A i \in Ids : IsColumn(cols[i])
  BY DEF Tables
<1> QED
  BY <1>1, <1>2, <1>3 DEF Follows, SameEdges

LEMMA StartsStay ==
  ASSUME Tables, UNCHANGED valid
  PROVE SameStarts
<1>1. Ids = 1 .. Len(cols) /\ IsList(valid, Len(cols))
  BY TableFacts
<1>2. valid = [i \in 1 .. Len(cols) |-> valid[i]]
  BY <1>1, ListFacts
<1>3. \A i \in Ids : DOMAIN valid[i] = {"from", "to"}
  BY DEF Tables
<1> QED
  BY <1>1, <1>2, <1>3 DEF SameStarts

\* A step of the same edges.
LEMMA TablesKept ==
  ASSUME Tables, SameEdges(cols'), SameStarts, IsHomeostat(homeo'), IsList(rate', Len(cols))
  PROVE Tables' /\ Len(cols') = Len(cols) /\ Ids' = Ids /\ \A i \in Ids : Key(i)' = Key(i)
<1>1. Len(cols) \in Nat /\ Ids = 1 .. Len(cols) /\ Len(cols) <= Len(EdgeTable)
  BY TableFacts DEF Tables
<1>2. Len(cols') = Len(cols) /\ IsList(cols', Len(cols))
  BY SameLen
<1>3. IsList(valid', Len(cols))
  <2>1. valid' = [i \in 1 .. Len(cols) |-> valid'[i]]
    BY <1>1 DEF SameStarts
  <2> QED
    BY <1>1, <2>1, ListMade
<1>4. \A i \in Ids : IsColumn(cols'[i]) /\ DOMAIN valid'[i] = {"from", "to"}
  BY DEF SameEdges, SameStarts
<1>5. Ids' = Ids
  BY <1>2 DEF Ids
<1>6. Tables'
  <2>1. \E n \in Nat : IsList(cols', n) /\ IsList(valid', n) /\ IsList(rate', n)
    BY <1>1, <1>2, <1>3
  <2> QED
    BY <1>1, <1>2, <1>4, <1>5, <2>1 DEF Tables
<1>7. \A i \in Ids : Key(i)' = Key(i)
  BY DEF Key, SameStarts
<1> QED
  BY <1>2, <1>5, <1>6, <1>7

\* A step that leaves the sidecar alone, and may add edges.
LEMMA SidecarKept ==
  ASSUME Tables, Sidecar, UNCHANGED saved,
         Len(cols') \in Nat, Len(cols) <= Len(cols'), \A i \in Ids : Key(i)' = Key(i)
  PROVE Sidecar'
<1>1. PICK m \in 0 .. Len(cols) :
        /\ DOMAIN saved.keys = 1 .. m /\ DOMAIN saved.cols = 1 .. m
        /\ \A j \in 1 .. m : saved.keys[j] = Key(j) /\ IsColumn(saved.cols[j])
  BY DEF Sidecar
<1>2. Len(cols) \in Nat /\ Ids = 1 .. Len(cols)
  BY TableFacts
<1>3. \A j \in 1 .. m : j \in Ids
  BY <1>2
<1>4. m \in 0 .. Len(cols')
  BY <1>2
<1>5. /\ DOMAIN saved'.keys = 1 .. m /\ DOMAIN saved'.cols = 1 .. m
      /\ \A j \in 1 .. m : saved'.keys[j] = Key(j)' /\ IsColumn(saved'.cols[j])
  BY <1>1, <1>3
<1>6. IsHomeostat(saved'.homeo)
  BY DEF Sidecar
<1> QED
  BY <1>4, <1>5, <1>6 DEF Sidecar

LEMMA SaveStep ==
  ASSUME IInv, Follows(cols'), SameStarts, Save, UNCHANGED <<derived, config, homeo>>
  PROVE IInv'
<1>1. Tables /\ DerivedIsCurrent /\ IsHomeostat(homeo)
  BY DEF IInv, Tables
<1>2. UNCHANGED <<rate, masked, cfg, distrusted, homeo>> /\ ("memory" \in outdated' <=> "memory" \in outdated)
  BY DEF derived, config, Save
<1>3. Tables' /\ Len(cols') = Len(cols) /\ Ids' = Ids /\ \A i \in Ids : Key(i)' = Key(i)
  <2>1. SameEdges(cols')
    BY DEF Follows
  <2>2. IsList(rate', Len(cols)) /\ IsHomeostat(homeo')
    BY <1>1, <1>2, TableFacts
  <2> QED
    BY <1>1, <2>1, <2>2, TablesKept
<1>4. DerivedIsCurrent'
  BY <1>1, <1>2, <1>3 DEF DerivedIsCurrent
<1>5. /\ saved'.keys = [i \in Ids |-> Key(i)] /\ saved'.cols = cols' /\ saved'.homeo = homeo
      /\ Ids = 1 .. Len(cols) /\ Len(cols) \in 0 .. Len(cols)
  BY <1>1, TableFacts DEF Save
<1>6. DOMAIN cols' = Ids /\ \A i \in Ids : IsColumn(cols'[i])
  BY DEF Follows, SameEdges
<1>7. Sidecar'
  <2>1. DOMAIN saved'.keys = 1 .. Len(cols) /\ DOMAIN saved'.cols = 1 .. Len(cols)
    BY <1>5, <1>6
  <2>2. \A j \in 1 .. Len(cols) : saved'.keys[j] = Key(j)' /\ IsColumn(saved'.cols[j])
    BY <1>3, <1>5, <1>6
  <2>3. IsHomeostat(saved'.homeo)
    BY <1>1, <1>5
  <2>4. PICK m \in 0 .. Len(cols') : m = Len(cols)
    BY <1>3, <1>5
  <2>5. /\ DOMAIN saved'.keys = 1 .. m /\ DOMAIN saved'.cols = 1 .. m
        /\ \A j \in 1 .. m : saved'.keys[j] = Key(j)' /\ IsColumn(saved'.cols[j])
    BY <2>1, <2>2, <2>4
  <2> QED
    BY <2>3, <2>5 DEF Sidecar
<1>8. Forgotten'
  <2>1. ASSUME NEW i \in Ids, cols'[i].dead
        PROVE InSidecar(i)'
    <3>1. i \in DOMAIN saved'.keys /\ saved'.keys[i] = Key(i)' /\ saved'.cols[i].dead
      BY <1>3, <1>5, <2>1
    <3> QED
      BY <3>1 DEF InSidecar
  <2> QED
    BY <1>3, <2>1 DEF Forgotten
<1>9. SidecarIsCurrent'
  <2>1. "memory" \notin outdated => homeo.setpoint = cfg.setpoint
    BY <1>1 DEF DerivedIsCurrent
  <2>2. "memory" \in outdated => "sidecar" \in outdated'
    BY DEF Save
  <2> QED
    BY <1>2, <1>5, <2>1, <2>2 DEF SidecarIsCurrent
<1> QED
  BY <1>3, <1>4, <1>7, <1>8, <1>9 DEF IInv

\* A step that saves nothing, and notes what it prunes.
LEMMA QuietStep ==
  ASSUME IInv, Follows(cols'), \A i \in Ids : cols'[i].dead => cols[i].dead \/ i \in unsaved',
         SameStarts, IsHomeostat(homeo'), homeo'.setpoint = homeo.setpoint,
         unsaved \subseteq unsaved', UNCHANGED <<derived, config, saved, outdated>>
  PROVE IInv'
<1>1. Tables /\ DerivedIsCurrent /\ Sidecar /\ SidecarIsCurrent /\ Forgotten
  BY DEF IInv
<1>2. UNCHANGED <<rate, masked, cfg, distrusted, outdated, saved>>
  BY DEF derived, config
<1>3. Tables' /\ Len(cols') = Len(cols) /\ Ids' = Ids /\ \A i \in Ids : Key(i)' = Key(i)
  <2>1. SameEdges(cols')
    BY DEF Follows
  <2>2. IsList(rate', Len(cols)) /\ IsHomeostat(homeo')
    BY <1>1, <1>2, TableFacts
  <2> QED
    BY <1>1, <2>1, <2>2, TablesKept
<1>4. DerivedIsCurrent'
  BY <1>1, <1>2, <1>3 DEF DerivedIsCurrent
<1>5. Sidecar'
  BY <1>1, <1>2, <1>3, TableFacts, SidecarKept
<1>6. Forgotten'
  <2>1. ASSUME NEW i \in Ids, InSidecar(i) PROVE InSidecar(i)'
    BY <1>2, <1>3, <2>1 DEF InSidecar
  <2> QED
    BY <1>1, <1>3, <2>1 DEF Forgotten
<1>7. SidecarIsCurrent'
  BY <1>1, <1>2 DEF SidecarIsCurrent
<1> QED
  BY <1>3, <1>4, <1>5, <1>6, <1>7 DEF IInv

\* A request that prunes, or none, and then tries to save.
LEMMA NoSaveStep ==
  ASSUME IInv, Follows(cols'), SameStarts, NoSave, UNCHANGED <<derived, config, homeo>>
  PROVE IInv'
<1>1. IsHomeostat(homeo') /\ homeo'.setpoint = homeo.setpoint
  BY DEF IInv, Tables
<1>2. /\ unsaved' = unsaved \cup {i \in Ids : cols'[i].dead /\ ~cols[i].dead}
      /\ UNCHANGED <<saved, outdated>>
  BY DEF NoSave
<1>3. ASSUME NEW i \in Ids, cols'[i].dead PROVE cols[i].dead \/ i \in unsaved'
  BY <1>2, <1>3
<1>4. unsaved \subseteq unsaved'
  BY <1>2
<1> QED
  BY <1>1, <1>2, <1>3, <1>4, QuietStep

LEMMA TrySaveStep ==
  ASSUME IInv, Follows(cols'), SameStarts, TrySave, UNCHANGED <<derived, config, homeo>>
  PROVE IInv'
BY SaveStep, NoSaveStep DEF TrySave

\* Edges end, and begin when they began.
LEMMA EndedStarts ==
  ASSUME Tables, NEW edges, NEW t, valid' = Ended(edges, t)
  PROVE SameStarts
<1>1. Ids = 1 .. Len(cols) /\ DOMAIN valid = Ids
  BY TableFacts, ListFacts
<1>2. valid' = [i \in Ids |-> valid'[i]]
  BY <1>1 DEF Ended
<1>3. ASSUME NEW i \in Ids
      PROVE DOMAIN valid'[i] = {"from", "to"} /\ valid'[i].from = valid[i].from
  <2>1. DOMAIN valid[i] = {"from", "to"}
    BY DEF Tables
  <2>2. valid'[i] = [valid[i] EXCEPT !.to = t] \/ valid'[i] = valid[i]
    BY <1>1 DEF Ended
  <2> QED
    BY <2>1, <2>2
<1> QED
  BY <1>2, <1>3 DEF SameStarts


-----------------------------------------------------------------------------
(* What the operations make of the columns.                                *)

LEMMA FreshFacts ==
  ASSUME NEW i, NEW t
  PROVE IsColumn(Fresh(i, t)) /\ ~Fresh(i, t).dead
<1> DEFINE c == Fresh(i, t)
<1>1. DOMAIN c = {"w", "t", "dead"} /\ c.dead = FALSE
  BY DEF Fresh
<1> HIDE DEF c
<1>2. IsColumn(c) /\ ~c.dead
  BY <1>1 DEF IsColumn
<1> QED
  BY <1>2 DEF c

LEMMA TouchedFollows ==
  ASSUME Tables, NEW edges, NEW r, NEW t
  PROVE /\ Follows(Touched(edges, r, t))
        /\ \A i \in Ids : Touched(edges, r, t)[i].dead => cols[i].dead
<1> DEFINE c == Touched(edges, r, t)
<1>1. c = [i \in Ids |-> c[i]]
  BY DEF Touched
<1>2. ASSUME NEW i \in Ids PROVE IsColumn(c[i]) /\ c[i].dead = cols[i].dead
  <2>1. IsColumn(cols[i])
    BY DEF Tables
  <2>2. CASE i \notin edges \/ cols[i].dead
    <3>1. c[i] = cols[i]
      BY <2>2 DEF Touched
    <3> QED
      BY <2>1, <3>1
  <2>3. CASE i \in edges /\ ~cols[i].dead
    <3>1. PICK w : c[i] = [w |-> w, t |-> t, dead |-> FALSE]
      BY <2>3 DEF Touched
    <3>2. c[i].dead = FALSE /\ cols[i].dead = FALSE
      BY <2>1, <2>3, <3>1 DEF IsColumn
    <3> QED
      BY <3>1, <3>2 DEF IsColumn
  <2> QED
    BY <2>2, <2>3
<1> HIDE DEF c
<1>3. Follows(c)
  BY <1>1, <1>2 DEF Follows, SameEdges
<1> QED
  BY <1>2, <1>3 DEF c

LEMMA PrunedFollows ==
  ASSUME Tables, NEW edges, edges \subseteq Live, NEW w, NEW t, NEW weak
  PROVE Follows(Pruned(AsOf(edges, w, t), weak))
<1> DEFINE a == AsOf(edges, w, t)
           c == Pruned(a, weak)
<1>1. ASSUME NEW i \in Ids PROVE IsColumn(a[i]) /\ (cols[i].dead => a[i].dead)
  <2>1. IsColumn(cols[i])
    BY DEF Tables
  <2>2. CASE i \in edges
    <3>1. a[i] = [w |-> w[i], t |-> t, dead |-> FALSE] /\ ~cols[i].dead
      BY <2>2 DEF AsOf, Live
    <3> QED
      BY <3>1 DEF IsColumn
  <2>3. CASE i \notin edges
    BY <2>1, <2>3 DEF AsOf
  <2> QED
    BY <2>2, <2>3
<1> HIDE DEF a
<1>2. c = [i \in Ids |-> c[i]]
  BY DEF Pruned
<1>3. ASSUME NEW i \in Ids PROVE IsColumn(c[i]) /\ (cols[i].dead => c[i].dead)
  <2>1. CASE i \in weak
    <3>1. c[i] = [a[i] EXCEPT !.w = 0, !.dead = TRUE]
      BY <2>1 DEF Pruned
    <3>2. c[i].dead = TRUE /\ DOMAIN c[i] = {"w", "t", "dead"}
      BY <1>1, <3>1 DEF IsColumn
    <3> QED
      BY <3>2 DEF IsColumn
  <2>2. CASE i \notin weak
    BY <1>1, <2>2 DEF Pruned
  <2> QED
    BY <2>1, <2>2
<1> HIDE DEF c
<1>4. Follows(c)
  BY <1>2, <1>3 DEF Follows, SameEdges
<1> QED
  BY <1>4 DEF a, c

LEMMA RenormalizedFollows ==
  ASSUME NEW c, Follows(c)
  PROVE Follows(Renormalized(c))
<1> DEFINE d == Renormalized(c)
<1>1. d = [i \in Ids |-> d[i]]
  BY DEF Renormalized
<1>2. ASSUME NEW i \in Ids PROVE d[i] = c[i] \/ \E x : d[i] = [c[i] EXCEPT !.w = x]
  BY DEF Renormalized
<1> HIDE DEF d
<1>3. ASSUME NEW i \in Ids PROVE IsColumn(d[i]) /\ (cols[i].dead => d[i].dead)
  <2>1. IsColumn(c[i]) /\ (cols[i].dead => c[i].dead)
    BY DEF Follows, SameEdges
  <2>2. CASE d[i] = c[i]
    BY <2>1, <2>2
  <2>3. CASE \E x : d[i] = [c[i] EXCEPT !.w = x]
    <3>1. PICK x : d[i] = [c[i] EXCEPT !.w = x]
      BY <2>3
    <3>2. d[i].dead = c[i].dead /\ DOMAIN d[i] = DOMAIN c[i]
      BY <2>1, <3>1 DEF IsColumn
    <3> QED
      BY <2>1, <3>2 DEF IsColumn
  <2> QED
    BY <1>2, <2>2, <2>3
<1>4. Follows(d)
  BY <1>1, <1>3 DEF Follows, SameEdges
<1> QED
  BY <1>4 DEF d

\* The greatest of some ids.
LEMMA Greatest ==
  ASSUME NEW n \in Nat, NEW S \in SUBSET (1 .. n), S # {}
  PROVE Max(S) \in S
<1> DEFINE T == {k \in Nat : \A s \in S : s <= k}
<1>1. n \in T
  OBVIOUS
<1>2. PICK k \in T : \A m \in T : k <= m
  BY <1>1, Least
<1>3. k \in S
  <2>1. SUFFICES ASSUME k \notin S PROVE FALSE
    OBVIOUS
  <2>2. PICK s \in S : TRUE
    OBVIOUS
  <2>3. \A x \in S : x <= k - 1
    BY <1>2, <2>1
  <2>4. k - 1 \in T
    BY <1>2, <2>2, <2>3
  <2> QED
    BY <1>2, <2>4
<1>4. \E x \in S : \A y \in S : x >= y
  BY <1>2, <1>3
<1> QED
  BY <1>4, Zenon DEF Max

LEMMA GreatestOfOne ==
  ASSUME NEW i \in Nat
  PROVE Max({i}) = i
<1>1. \E x \in {i} : \A y \in {i} : x >= y
  OBVIOUS
<1>2. Max({i}) \in {i}
  BY <1>1, Zenon DEF Max
<1> QED
  BY <1>2

-----------------------------------------------------------------------------
(* Each request.                                                           *)

Remembers ==
  \A i \in Ids \ unsaved :
    cols[i].dead /\ (\A j \in Ids \ {i} : Key(j) # Key(i)) => cols'[i].dead

LEMMA ObserveStep ==
  ASSUME IInv, NEW t, Observe(t)
  PROVE IInv' /\ Remembers
<1> DEFINE n == Len(cols)
           i == Len(valid) + 1
<1>1. Tables /\ DerivedIsCurrent /\ Sidecar /\ SidecarIsCurrent /\ Forgotten
  BY DEF IInv
<1>2. /\ n \in Nat /\ Ids = 1 .. n /\ Len(valid) = n /\ i = n + 1
      /\ IsList(cols, n) /\ IsList(valid, n) /\ IsList(rate, n)
  BY <1>1, TableFacts
<1>3. /\ i <= Len(EdgeTable)
      /\ valid' = Append(valid, [from |-> t, to |-> Open])
      /\ cols' = Append(cols, Fresh(i, t))
      /\ rate' = Append(rate, cfg.rate[EdgeTable[i].kind])
      /\ masked' = Joined(i)
      /\ UNCHANGED <<cfg, distrusted, homeo, saved, unsaved, outdated>>
  BY DEF Observe, config, control, disk
<1>4. /\ IsList(cols', n + 1) /\ IsList(valid', n + 1) /\ IsList(rate', n + 1)
      /\ \A k \in 1 .. n : cols'[k] = cols[k] /\ valid'[k] = valid[k] /\ rate'[k] = rate[k]
      /\ cols'[n + 1] = Fresh(i, t) /\ valid'[n + 1] = [from |-> t, to |-> Open]
      /\ rate'[n + 1] = cfg.rate[EdgeTable[i].kind]
  <2>1. IsLonger(cols', cols, n, Fresh(i, t))
    BY <1>2, <1>3, ListLonger
  <2>2. IsLonger(valid', valid, n, [from |-> t, to |-> Open])
    BY <1>2, <1>3, ListLonger
  <2>3. IsLonger(rate', rate, n, cfg.rate[EdgeTable[i].kind])
    BY <1>2, <1>3, ListLonger
  <2> QED
    BY <2>1, <2>2, <2>3 DEF IsLonger
<1> HIDE DEF n, i
<1>5. Len(cols') = n + 1 /\ Ids' = 1 .. n + 1
  BY <1>4, ListFacts DEF Ids
<1>6. IsColumn(Fresh(i, t)) /\ ~Fresh(i, t).dead
  BY FreshFacts
<1>7. Tables'
  <2>1. \E k \in Nat : IsList(cols', k) /\ IsList(valid', k) /\ IsList(rate', k)
    BY <1>2, <1>4
  <2>2. ASSUME NEW k \in 1 .. n + 1
        PROVE IsColumn(cols'[k]) /\ DOMAIN valid'[k] = {"from", "to"}
    <3>1. CASE k = n + 1
      BY <1>4, <1>6, <3>1
    <3>2. CASE k # n + 1
      <4>1. k \in Ids
        BY <1>2, <3>2
      <4> QED
        BY <1>1, <1>2, <1>4, <4>1 DEF Tables
    <3> QED
      BY <3>1, <3>2
  <2>3. IsHomeostat(homeo')
    BY <1>1, <1>3 DEF Tables
  <2>4. Len(cols') <= Len(EdgeTable)
    BY <1>2, <1>3, <1>5
  <2> QED
    BY <1>5, <2>1, <2>2, <2>3, <2>4 DEF Tables
<1>8. \A k \in Ids : Key(k)' = Key(k)
  BY <1>2, <1>4 DEF Key
<1>9. DerivedIsCurrent'
  <2>1. rate = Rates(cfg, n) /\ masked = Masked(distrusted, n)
    BY <1>1 DEF DerivedIsCurrent, n
  <2>2. rate' = Rates(cfg, n + 1)
    <3>1. rate' = [k \in 1 .. n + 1 |-> rate'[k]]
      BY <1>4, ListFacts
    <3>2. ASSUME NEW k \in 1 .. n + 1 PROVE rate'[k] = cfg.rate[EdgeTable[k].kind]
      <4>1. CASE k = n + 1
        BY <1>2, <1>4, <4>1
      <4>2. CASE k # n + 1
        <5>1. k \in 1 .. n
          BY <1>2, <4>2
        <5> QED
          BY <1>4, <2>1, <5>1 DEF Rates
      <4> QED
        BY <4>1, <4>2
    <3> QED
      BY <3>1, <3>2 DEF Rates
  <2>3. masked' = Masked(distrusted, n + 1)
    BY <1>2, <1>3, <2>1 DEF Joined, Masked
  <2> QED
    BY <1>1, <1>3, <1>5, <2>2, <2>3 DEF DerivedIsCurrent
<1>10. Sidecar'
  <2>1. Len(cols') \in Nat /\ Len(cols) <= Len(cols')
    BY <1>2, <1>5 DEF n
  <2> QED
    BY <1>1, <1>3, <1>8, <2>1, SidecarKept
<1>11. Forgotten'
  <2>1. SUFFICES ASSUME NEW k \in 1 .. n + 1, cols'[k].dead
                 PROVE k \in unsaved' \/ InSidecar(k)'
    BY <1>5 DEF Forgotten
  <2>2. k # n + 1
    BY <1>4, <1>6, <2>1
  <2>3. k \in Ids /\ cols[k].dead
    BY <1>2, <1>4, <2>1, <2>2
  <2>4. k \in unsaved \/ InSidecar(k)
    BY <1>1, <2>3 DEF Forgotten
  <2>5. InSidecar(k) => InSidecar(k)'
    BY <1>3, <1>8, <2>3 DEF InSidecar
  <2> QED
    BY <1>3, <2>4, <2>5
<1>12. Remembers
  BY <1>2, <1>4 DEF Remembers
<1>13. SidecarIsCurrent'
  BY <1>1, <1>3 DEF SidecarIsCurrent
<1> QED
  BY <1>7, <1>9, <1>10, <1>11, <1>12, <1>13 DEF IInv

LEMMA RetireStep ==
  ASSUME IInv, NEW i \in Ids, NEW t, Retire(i, t)
  PROVE IInv' /\ Remembers
<1>1. Tables
  BY DEF IInv
<1>2. /\ valid' = [valid EXCEPT ![i].to = t]
      /\ UNCHANGED <<cols, derived, config, homeo, saved, unsaved, outdated>>
  BY DEF Retire, control, disk
<1>3. Follows(cols) /\ IsHomeostat(homeo)
  BY <1>1, FollowsItself DEF Tables
<1>4. SameStarts
  <2>1. Ids = 1 .. Len(cols) /\ DOMAIN valid = Ids
    BY <1>1, TableFacts, ListFacts
  <2>2. \A k \in Ids : DOMAIN valid[k] = {"from", "to"}
    BY <1>1 DEF Tables
  <2>3. valid' = [k \in Ids |-> valid'[k]]
    BY <1>2, <2>1
  <2>4. ASSUME NEW k \in Ids
        PROVE DOMAIN valid'[k] = {"from", "to"} /\ valid'[k].from = valid[k].from
    <3>1. valid'[k] = IF k = i THEN [valid[k] EXCEPT !.to = t] ELSE valid[k]
      BY <1>2, <2>1
    <3> QED
      BY <2>2, <3>1
  <2> QED
    BY <2>3, <2>4 DEF SameStarts
<1>5. Follows(cols') /\ (\A k \in Ids : cols'[k].dead => cols[k].dead) /\ IsHomeostat(homeo')
  <2>1. cols' = cols /\ homeo' = homeo
    BY <1>2
  <2> QED
    BY <1>3, <2>1
<1>6. IInv'
  BY <1>2, <1>4, <1>5, QuietStep
<1> QED
  BY <1>5, <1>6 DEF Follows, Remembers

LEMMA TouchStep ==
  ASSUME IInv, NEW i, NEW r, NEW t, Touch(i, r, t)
  PROVE IInv' /\ Remembers
<1>1. Tables
  BY DEF IInv
<1>2. /\ cols' = Touched({i}, [j \in Ids |-> r], t)
      /\ UNCHANGED <<valid, derived, config, homeo, saved, unsaved, outdated>>
  BY DEF Touch, control, disk
<1>3. Follows(cols') /\ (\A k \in Ids : cols'[k].dead => cols[k].dead)
  BY <1>1, <1>2, TouchedFollows
<1>4. SameStarts /\ IsHomeostat(homeo')
  BY <1>1, <1>2, StartsStay DEF Tables
<1>5. IInv'
  BY <1>2, <1>3, <1>4, QuietStep
<1> QED
  BY <1>3, <1>5 DEF Follows, Remembers

LEMMA RetrieveStep ==
  ASSUME IInv, NEW seeds, NEW t, Retrieve(seeds, t)
  PROVE IInv' /\ Remembers
<1>1. Tables
  BY DEF IInv
<1>2. UNCHANGED <<cols, valid, derived, config, saved, unsaved, outdated>>
  BY DEF Retrieve, disk
<1>3. IsHomeostat(homeo') /\ homeo'.setpoint = homeo.setpoint
  <2>1. IsHomeostat(homeo)
    BY <1>1 DEF Tables
  <2>2. ASSUME NEW m PROVE IsHomeostat(Observed(m)) /\ Observed(m).setpoint = homeo.setpoint
    BY <2>1 DEF Observed, IsHomeostat
  <2>3. homeo' = Observed(Mass(trace')) \/ homeo' = homeo
    BY DEF Retrieve, control
  <2> QED
    BY <2>1, <2>2, <2>3
<1>4. Follows(cols') /\ (\A k \in Ids : cols'[k].dead => cols[k].dead) /\ SameStarts
  <2>1. Follows(cols) /\ cols' = cols
    BY <1>1, <1>2, FollowsItself
  <2>2. SameStarts
    BY <1>1, <1>2, StartsStay
  <2> QED
    BY <2>1, <2>2
<1>5. IInv'
  BY <1>2, <1>3, <1>4, QuietStep
<1> QED
  BY <1>4, <1>5 DEF Follows, Remembers

LEMMA LearnStep ==
  ASSUME IInv, NEW tr, NEW credit, NEW t, Learn(tr, credit, t)
  PROVE IInv' /\ Remembers
<1>1. Tables
  BY DEF IInv
<1>2. TrySave /\ UNCHANGED <<valid, derived, config, homeo>>
  BY DEF Learn, control
<1>3. PICK edges, r : cols' = Touched(edges, r, t)
  BY DEF Learn
<1>4. Follows(cols') /\ SameStarts
  BY <1>1, <1>2, <1>3, TouchedFollows, StartsStay
<1>5. IInv'
  BY <1>2, <1>4, TrySaveStep
<1> QED
  BY <1>4, <1>5 DEF Follows, Remembers

LEMMA ConsolidateStep ==
  ASSUME IInv, NEW t, NEW apply \in BOOLEAN, Consolidate(t, apply)
  PROVE IInv' /\ Remembers
<1>1. Tables
  BY DEF IInv
<1>2. UNCHANGED <<derived, config, homeo>>
  BY DEF Consolidate, control
<1>3. PICK edges, w, weak : /\ edges \in SUBSET Live
                             /\ cols' = Renormalized(Pruned(AsOf(edges, w, t), weak))
  <2> DEFINE w == [i \in Ids |-> Eff(i, t)]
             weak == {i \in Live : w[i] < Theta}
  <2>1. cols' = Renormalized(Pruned(AsOf(Live \ weak, w, t), weak))
    BY DEF Consolidate
  <2>2. Live \ weak \in SUBSET Live
    OBVIOUS
  <2> HIDE DEF w, weak
  <2> QED
    BY <2>1, <2>2
<1>4. Follows(cols')
  BY <1>1, <1>3, PrunedFollows, RenormalizedFollows
<1>5. SameStarts /\ (TrySave \/ NoSave)
  <2>1. CASE ~apply
    <3>1. valid' = valid /\ TrySave
      BY <2>1 DEF Consolidate
    <3> QED
      BY <1>1, <3>1, StartsStay
  <2>2. CASE apply
    <3>1. Resolve(Losers(cols'), t)
      BY <2>2 DEF Consolidate
    <3>2. (TrySave \/ NoSave) /\ \E ended : valid' = Ended(ended, t)
      BY <3>1 DEF Resolve
    <3> QED
      BY <1>1, <3>2, EndedStarts
  <2> QED
    BY <2>1, <2>2
<1>6. IInv'
  BY <1>2, <1>4, <1>5, TrySaveStep, NoSaveStep
<1> QED
  BY <1>4, <1>6 DEF Follows, Remembers

LEMMA SleepStep ==
  ASSUME IInv, NEW t, Sleep(t)
  PROVE IInv' /\ Remembers
<1>1. Tables
  BY DEF IInv
<1>2. TrySave /\ UNCHANGED <<valid, derived, config, homeo>>
  BY DEF Sleep, control
<1>3. PICK w, weak : cols' = Renormalized(Pruned(AsOf(Live, w, t), weak))
  BY DEF Sleep
<1>4. Follows(cols') /\ SameStarts
  BY <1>1, <1>2, <1>3, PrunedFollows, RenormalizedFollows, StartsStay
<1>5. IInv'
  BY <1>2, <1>4, TrySaveStep
<1> QED
  BY <1>4, <1>5 DEF Follows, Remembers

\* A step that derives anew from the configuration.
LEMMA Derives ==
  ASSUME IInv, SameEdges(cols'), SameStarts, UNCHANGED saved, IsHomeostat(homeo'),
         rate' = Rates(cfg', Len(cols)), masked' = Masked(distrusted', Len(cols)),
         "memory" \notin outdated' => homeo'.setpoint = cfg'.setpoint
  PROVE /\ Tables' /\ DerivedIsCurrent' /\ Sidecar'
        /\ Ids' = Ids /\ \A i \in Ids : Key(i)' = Key(i) /\ (InSidecar(i)' <=> InSidecar(i))
<1>1. Tables /\ Sidecar
  BY DEF IInv
<1>2. IsList(rate', Len(cols))
  <2>1. rate' = [i \in 1 .. Len(cols) |-> rate'[i]] /\ Len(cols) \in Nat
    BY <1>1, TableFacts DEF Rates
  <2> QED
    BY <2>1, ListMade
<1>4. Tables' /\ Len(cols') = Len(cols) /\ Ids' = Ids /\ \A i \in Ids : Key(i)' = Key(i)
  BY <1>1, <1>2, TablesKept
<1>5. DerivedIsCurrent'
  BY <1>4 DEF DerivedIsCurrent
<1>6. Sidecar'
  BY <1>1, <1>4, TableFacts, SidecarKept
<1>7. \A i \in Ids : InSidecar(i)' <=> InSidecar(i)
  BY <1>4 DEF InSidecar
<1> QED
  BY <1>4, <1>5, <1>6, <1>7

LEMMA ConfigureStep ==
  ASSUME IInv, NEW c, NEW origins, Configure(c, origins)
  PROVE IInv' /\ Remembers
<1>1. Tables /\ Forgotten /\ SidecarIsCurrent /\ Follows(cols)
  BY FollowsItself DEF IInv
<1>2. /\ cfg' = c /\ distrusted' = origins /\ UNCHANGED <<valid, cols, saved, unsaved>>
      /\ rate' = Rates(c, Len(cols)) /\ masked' = Masked(origins, Len(cols))
      /\ homeo' = [homeo EXCEPT !.setpoint = c.setpoint]
      /\ outdated' = (outdated \ {"memory"})
           \cup IF saved # NoSidecar /\ c.setpoint # cfg.setpoint THEN {"sidecar"} ELSE {}
  BY DEF Configure
<1>3. IsHomeostat(homeo') /\ homeo'.setpoint = c.setpoint
  BY <1>1, <1>2 DEF Tables, IsHomeostat
<1>4. SameEdges(cols') /\ SameStarts
  BY <1>1, <1>2, StartsStay DEF Follows
<1>5. /\ Tables' /\ DerivedIsCurrent' /\ Sidecar'
      /\ Ids' = Ids /\ \A i \in Ids : Key(i)' = Key(i) /\ (InSidecar(i)' <=> InSidecar(i))
  BY <1>2, <1>3, <1>4, Derives
<1>6. Forgotten'
  BY <1>1, <1>2, <1>5 DEF Forgotten
<1>7. SidecarIsCurrent'
  <2>1. CASE c.setpoint = cfg.setpoint
    BY <1>1, <1>2, <2>1 DEF SidecarIsCurrent
  <2>2. CASE c.setpoint # cfg.setpoint /\ saved # NoSidecar
    BY <1>2, <2>2 DEF SidecarIsCurrent
  <2>3. CASE saved = NoSidecar
    BY <1>2, <2>3 DEF SidecarIsCurrent
  <2> QED
    BY <2>1, <2>2, <2>3
<1> QED
  BY <1>2, <1>5, <1>6, <1>7 DEF IInv, Remembers

LEMMA QuarantineStep ==
  ASSUME IInv, NEW origin, NEW trusted, Quarantine(origin, trusted)
  PROVE IInv' /\ Remembers
<1>1. Tables /\ Forgotten /\ SidecarIsCurrent /\ Follows(cols) /\ DerivedIsCurrent
  BY FollowsItself DEF IInv
<1>2. /\ UNCHANGED <<valid, cols, rate, cfg, homeo, saved, unsaved, outdated>>
      /\ masked' = Masked(distrusted', Len(cols))
  BY DEF Quarantine, control, disk
<1>3. IsHomeostat(homeo') /\ SameEdges(cols') /\ SameStarts
  BY <1>1, <1>2, StartsStay DEF Tables, Follows
<1>4. rate' = Rates(cfg', Len(cols)) /\ ("memory" \notin outdated' => homeo'.setpoint = cfg'.setpoint)
  BY <1>1, <1>2 DEF DerivedIsCurrent
<1>5. /\ Tables' /\ DerivedIsCurrent' /\ Sidecar'
      /\ Ids' = Ids /\ \A i \in Ids : Key(i)' = Key(i) /\ (InSidecar(i)' <=> InSidecar(i))
  BY <1>2, <1>3, <1>4, Derives
<1>6. Forgotten'
  BY <1>1, <1>2, <1>5 DEF Forgotten
<1>7. SidecarIsCurrent'
  BY <1>1, <1>2 DEF SidecarIsCurrent
<1> QED
  BY <1>2, <1>5, <1>6, <1>7 DEF IInv, Remembers

LEMMA RestartStep ==
  ASSUME IInv, Restart
  PROVE IInv' /\ Remembers
<1> DEFINE same(i) == {j \in DOMAIN saved.keys : saved.keys[j] = Key(i)}
<1>1. Tables /\ Forgotten /\ Sidecar /\ SidecarIsCurrent
  BY DEF IInv
<1>2. /\ cols' = [i \in Ids |-> Restored(i)] /\ UNCHANGED <<cfg, distrusted, saved>> /\ unsaved' = {}
      /\ rate' = Rates(cfg', Len(cols)) /\ masked' = Masked(distrusted', Len(cols))
      /\ outdated' = (IF "sidecar" \in outdated THEN {"memory", "sidecar"} ELSE {})
      /\ SameStarts
  <2>1. cols' = [i \in Ids |-> Restored(i)] /\ UNCHANGED <<cfg, distrusted, saved>> /\ unsaved' = {}
    BY DEF Restart, config
  <2>2. rate' = Rates(cfg', Len(cols)) /\ masked' = Masked(distrusted', Len(cols))
    BY DEF Restart, config
  <2>3. outdated' = (IF "sidecar" \in outdated THEN {"memory", "sidecar"} ELSE {})
    BY DEF Restart
  <2>4. SameStarts
    BY <1>1, EndedStarts DEF Restart
  <2> QED
    BY <2>1, <2>2, <2>3, <2>4
<1>3. PICK m \in 0 .. Len(cols) :
        /\ DOMAIN saved.keys = 1 .. m /\ DOMAIN saved.cols = 1 .. m
        /\ \A j \in 1 .. m : saved.keys[j] = Key(j) /\ IsColumn(saved.cols[j])
  BY <1>1 DEF Sidecar
<1>4. Len(cols) \in Nat /\ Ids = 1 .. Len(cols) /\ m \in Nat /\ 1 .. m \subseteq Ids
  BY <1>1, <1>3, TableFacts
<1>5. ASSUME NEW i \in Ids, same(i) # {}
      PROVE Max(same(i)) \in same(i) /\ Restored(i) = saved.cols[Max(same(i))]
  <2>1. same(i) \in SUBSET (1 .. m)
    BY <1>3
  <2>2. Restored(i) = saved.cols[Max(same(i))]
    BY <1>5 DEF Restored
  <2> HIDE DEF same
  <2> QED
    BY <1>4, <1>5, <2>1, <2>2, Greatest
<1>6. ASSUME NEW i \in Ids, same(i) = {} PROVE Restored(i) = Fresh(i, valid[i].from)
  BY <1>6 DEF Restored
<1>7. ASSUME NEW i \in Ids PROVE IsColumn(Restored(i))
  <2>1. CASE same(i) = {}
    BY <1>6, <2>1, FreshFacts
  <2>2. CASE same(i) # {}
    BY <1>3, <1>5, <2>2
  <2> QED
    BY <2>1, <2>2
<1>8. SameEdges(cols') /\ Len(cols') = Len(cols)
  <2>1. SameEdges(cols')
    BY <1>2, <1>7 DEF SameEdges
  <2> QED
    BY <1>1, <2>1, SameLen
<1>9. IsHomeostat(homeo')
  <2>1. CASE saved = NoSidecar
    <3>1. homeo' = FromConfig(cfg)
      BY <2>1 DEF Restart
    <3> QED
      BY <3>1 DEF FromConfig, IsHomeostat
  <2>2. CASE saved # NoSidecar
    <3>1. homeo' = saved.homeo
      BY <2>2 DEF Restart
    <3> QED
      BY <1>1, <3>1 DEF Sidecar
  <2> QED
    BY <2>1, <2>2
<1>10. "memory" \notin outdated' => homeo'.setpoint = cfg'.setpoint
  <2>1. CASE saved = NoSidecar
    BY <1>2, <2>1 DEF Restart, FromConfig
  <2>2. CASE saved # NoSidecar
    <3>1. homeo' = saved.homeo
      BY <2>2 DEF Restart
    <3> QED
      BY <1>1, <1>2, <2>2, <3>1 DEF SidecarIsCurrent
  <2> QED
    BY <2>1, <2>2
<1>11. /\ Tables' /\ DerivedIsCurrent' /\ Sidecar'
       /\ Ids' = Ids /\ \A i \in Ids : Key(i)' = Key(i) /\ (InSidecar(i)' <=> InSidecar(i))
  BY <1>2, <1>8, <1>9, <1>10, Derives
<1>12. Forgotten'
  <2>1. SUFFICES ASSUME NEW i \in Ids, cols'[i].dead
                 PROVE InSidecar(i)
    BY <1>11 DEF Forgotten
  <2>2. Restored(i).dead
    BY <1>2, <2>1
  <2>3. same(i) # {}
    BY <1>6, <2>2, FreshFacts
  <2>4. Max(same(i)) \in same(i) /\ saved.cols[Max(same(i))].dead
    BY <1>5, <2>2, <2>3
  <2> QED
    BY <2>4 DEF InSidecar
<1>13. Remembers
  <2>1. SUFFICES ASSUME NEW i \in Ids \ unsaved, cols[i].dead, \A j \in Ids \ {i} : Key(j) # Key(i)
                 PROVE cols'[i].dead
    BY DEF Remembers
  <2>2. PICK j \in DOMAIN saved.keys : saved.keys[j] = Key(i) /\ saved.cols[j].dead
    BY <1>1, <2>1 DEF Forgotten, InSidecar
  <2>3. \A k \in same(i) : k = i
    BY <1>3, <1>4, <2>1
  <2>4. j \in same(i)
    BY <2>2
  <2>5. Max(same(i)) = i /\ j = i /\ Restored(i) = saved.cols[Max(same(i))]
    BY <1>5, <2>3, <2>4
  <2>6. cols'[i] = Restored(i)
    BY <1>2
  <2> QED
    BY <2>2, <2>5, <2>6
<1>14. SidecarIsCurrent'
  BY <1>1, <1>2 DEF SidecarIsCurrent
<1> QED
  BY <1>11, <1>12, <1>13, <1>14 DEF IInv

LEMMA StutterStep ==
  ASSUME IInv, UNCHANGED vars
  PROVE IInv' /\ Remembers
<1>1. Tables /\ Forgotten /\ Sidecar /\ SidecarIsCurrent /\ DerivedIsCurrent
  BY DEF IInv
<1>2. UNCHANGED <<valid, cols, rate, masked, cfg, distrusted, homeo, saved, unsaved, outdated>>
  BY DEF vars, derived, config, control, disk
<1>3. Tables' /\ Forgotten' /\ Sidecar' /\ SidecarIsCurrent' /\ DerivedIsCurrent'
  BY <1>1, <1>2 DEF Tables, Forgotten, InSidecar, Sidecar, SidecarIsCurrent, DerivedIsCurrent, Ids, Key
<1> QED
  BY <1>2, <1>3 DEF IInv, Remembers

LEMMA InitOK ==
  ASSUME Init
  PROVE IInv
<1>1. First \in Nat /\ First <= Len(EdgeTable) /\ First \in 0 .. Len(EdgeTable)
  BY PlasticityAssumption
<1>2. /\ valid = [i \in 1 .. First |-> [from |-> 0, to |-> Open]]
      /\ cols = [i \in 1 .. First |-> Fresh(i, 0)]
      /\ rate = Rates(cfg, First) /\ masked = {} /\ distrusted = {}
      /\ homeo = FromConfig(cfg) /\ saved = NoSidecar
  BY DEF Init
<1>3. IsList(valid, First) /\ IsList(cols, First) /\ IsList(rate, First) /\ Len(cols) = First
  <2>1. valid = [i \in 1 .. First |-> valid[i]] /\ cols = [i \in 1 .. First |-> cols[i]]
    BY <1>2
  <2>2. rate = [i \in 1 .. First |-> rate[i]]
    BY <1>2 DEF Rates
  <2> QED
    BY <1>1, <2>1, <2>2, ListMade
<1>4. Ids = 1 .. First
  BY <1>3 DEF Ids
<1>5. \A i \in Ids : cols[i] = Fresh(i, 0) /\ valid[i] = [from |-> 0, to |-> Open]
  BY <1>2, <1>4
<1>6. Tables
  <2>1. \A i \in Ids : IsColumn(cols[i]) /\ DOMAIN valid[i] = {"from", "to"}
    BY <1>5, FreshFacts
  <2>2. IsHomeostat(homeo)
    BY <1>2 DEF FromConfig, IsHomeostat
  <2> QED
    BY <1>1, <1>3, <2>1, <2>2 DEF Tables
<1>7. DerivedIsCurrent
  <2>1. Masked(distrusted, Len(cols)) = {}
    BY <1>2 DEF Masked
  <2>2. homeo.setpoint = cfg.setpoint
    BY <1>2 DEF FromConfig
  <2> QED
    BY <1>2, <1>3, <2>1, <2>2 DEF DerivedIsCurrent
<1>8. Sidecar
  <2>1. IsHomeostat(saved.homeo) /\ saved.keys = <<>> /\ saved.cols = <<>>
    BY <1>2 DEF NoSidecar, NoHomeostat, IsHomeostat
  <2>2. 0 \in 0 .. Len(cols) /\ DOMAIN saved.keys = 1 .. 0 /\ DOMAIN saved.cols = 1 .. 0
    BY <1>1, <1>3, <2>1
  <2> QED
    BY <2>1, <2>2 DEF Sidecar
<1>9. Forgotten
  BY <1>5, FreshFacts DEF Forgotten
<1>10. SidecarIsCurrent
  BY <1>2 DEF SidecarIsCurrent
<1> QED
  BY <1>6, <1>7, <1>8, <1>9, <1>10 DEF IInv

LEMMA NextStep ==
  ASSUME IInv, [Next]_vars
  PROVE IInv' /\ Remembers
<1>1. CASE \E t \in Times : Observe(t)
  BY <1>1, ObserveStep
<1>2. CASE \E t \in Times, i \in Ids : Retire(i, t)
  BY <1>2, RetireStep
<1>3. CASE \E t \in Times, i \in Ids, r \in Rewards : Touch(i, r, t)
  BY <1>3, TouchStep
<1>4. CASE \E t \in Times, seeds \in SeedSets : Retrieve(seeds, t)
  BY <1>4, RetrieveStep
<1>5. CASE \E t \in Times, scores \in Credits : Feedback(scores, t)
  BY <1>5, LearnStep DEF Feedback
<1>6. CASE \E t \in Times, seeds \in SeedSets, r \in Rewards : Reward(seeds, r, t)
  BY <1>6, LearnStep DEF Reward
<1>7. CASE \E t \in Times, apply \in BOOLEAN : Consolidate(t, apply)
  BY <1>7, ConsolidateStep
<1>8. CASE \E t \in Times : Sleep(t)
  BY <1>8, SleepStep
<1>9. CASE \E c \in Configs, origins \in SUBSET Origins : Configure(c, origins)
  BY <1>9, ConfigureStep
<1>10. CASE \E origin \in Origins, trusted \in BOOLEAN : Quarantine(origin, trusted)
  BY <1>10, QuarantineStep
<1>11. CASE Restart
  BY <1>11, RestartStep
<1>12. CASE UNCHANGED vars
  BY <1>12, StutterStep
<1> QED
  BY <1>1, <1>2, <1>3, <1>4, <1>5, <1>6, <1>7, <1>8, <1>9, <1>10, <1>11, <1>12 DEF Next

-----------------------------------------------------------------------------
(* Induction on numbers.                                                   *)

\* A set of numbers that has zero and every successor has them all.
LEMMA Induction ==
  ASSUME NEW S \in SUBSET Nat, 0 \in S, \A n \in S : n + 1 \in S
  PROVE S = Nat
<1>1. SUFFICES ASSUME Nat \ S # {} PROVE FALSE
  OBVIOUS
<1>2. PICK n \in Nat \ S : \A m \in Nat \ S : n <= m
  BY <1>1, Least
<1>3. n - 1 \in S
  BY <1>2
<1> QED
  BY <1>2, <1>3

LEMMA MaxIs ==
  ASSUME NEW n \in Int, NEW s, s \subseteq Int, n \in s, \A m \in s : m <= n
  PROVE Max(s) = n
<1>1. \E x \in s : \A y \in s : x >= y
  OBVIOUS
<1>2. Max(s) \in s /\ \A y \in s : Max(s) >= y
  BY <1>1, Zenon DEF Max
<1> DEFINE x == Max(s)
<1>3. x \in s /\ x >= n
  BY <1>2
<1> HIDE DEF x
<1>4. x \in Int /\ x <= n
  BY <1>3
<1>5. x = n
  BY <1>3, <1>4
<1> QED
  BY <1>5 DEF x

-----------------------------------------------------------------------------
(* Folds over numbered things, the last of them folded last.               *)

\* F is the operation, as a function of the state and of what is folded.
IsFold(f, F, b, seq, D) ==
  \A s \in SUBSET D : f[s] = IF s = {} THEN b ELSE F[<<f[s \ {Max(s)}], seq[Max(s)]>>]

CanFold(State, Thing, b, F, n, seq, D) ==
  /\ b \in State /\ F \in [State \X Thing -> State]
  /\ n \in Nat /\ D \in SUBSET (1 .. n) /\ \A i \in D : seq[i] \in Thing
CanBeFolded(State, b, F, seq, D) == \E f \in [SUBSET D -> State] : IsFold(f, F, b, seq, D)

LEMMA FoldExists ==
  ASSUME NEW State, NEW Thing, NEW b, NEW F, NEW n, NEW seq, NEW D, CanFold(State, Thing, b, F, n, seq, D)
  PROVE CanBeFolded(State, b, F, seq, D)
<1>a. SUFFICES ASSUME b \in State, F \in [State \X Thing -> State],
                      n \in Nat, D \in SUBSET (1 .. n), \A i \in D : seq[i] \in Thing
               PROVE \E f \in [SUBSET D -> State] : IsFold(f, F, b, seq, D)
  BY DEF CanFold, CanBeFolded
<1> USE <1>a
<1> DEFINE Up(k) == {i \in D : i <= k}
           S == {k \in Nat : \E f \in [SUBSET Up(k) -> State] : IsFold(f, F, b, seq, Up(k))}
<1>0. \A i \in D : i \in Nat /\ i <= n
  OBVIOUS
<1>1. 0 \in S
  <2> DEFINE f == [s \in SUBSET Up(0) |-> b]
  <2>1. \A s \in SUBSET Up(0) : s = {}
    OBVIOUS
  <2>2. f \in [SUBSET Up(0) -> State] /\ IsFold(f, F, b, seq, Up(0))
    BY <2>1 DEF IsFold
  <2> HIDE DEF f
  <2> QED
    BY <2>2
<1>2. ASSUME NEW k \in S PROVE k + 1 \in S
  <2>1. PICK f \in [SUBSET Up(k) -> State] : IsFold(f, F, b, seq, Up(k))
    OBVIOUS
  <2>2. k \in Nat
    OBVIOUS
  <2>3. CASE k + 1 \notin D
    <3>1. Up(k + 1) = Up(k)
      <4>1. ASSUME NEW i \in D PROVE i <= k + 1 <=> i <= k
        BY <1>0, <2>2, <2>3
      <4> QED
        BY <4>1
    <3> HIDE DEF Up
    <3>2. f \in [SUBSET Up(k + 1) -> State] /\ IsFold(f, F, b, seq, Up(k + 1))
      BY <2>1, <3>1
    <3> QED
      BY <2>2, <3>2
  <2>4. CASE k + 1 \in D
    <3> DEFINE e == [s \in SUBSET Up(k + 1) |->
                       IF k + 1 \in s THEN F[<<f[s \ {k + 1}], seq[k + 1]>>] ELSE f[s]]
    <3>1. ASSUME NEW s \in SUBSET Up(k) PROVE s \in SUBSET Up(k + 1) /\ k + 1 \notin s /\ e[s] = f[s]
      BY <2>2
    <3>2. ASSUME NEW s \in SUBSET Up(k + 1), k + 1 \in s
          PROVE Max(s) = k + 1 /\ s \ {k + 1} \in SUBSET Up(k)
      <4>1. s \subseteq Int /\ k + 1 \in Int /\ \A m \in s : m <= k + 1
        BY <2>2
      <4>2. Max(s) = k + 1
        BY <3>2, <4>1, MaxIs
      <4>3. s \ {k + 1} \subseteq Up(k)
        BY <2>2
      <4> QED
        BY <4>2, <4>3
    <3>3. ASSUME NEW s \in SUBSET Up(k + 1), k + 1 \notin s PROVE s \in SUBSET Up(k)
      BY <2>2, <3>3
    <3>4. seq[k + 1] \in Thing
      BY <2>4
    <3> DEFINE v(s) == F[<<f[s \ {k + 1}], seq[k + 1]>>]
    <3>5. ASSUME NEW s \in SUBSET Up(k + 1), k + 1 \in s PROVE v(s) \in State /\ e[s] = v(s)
      <4>1. f[s \ {k + 1}] \in State
        BY <2>1, <3>2, <3>5
      <4>2. <<f[s \ {k + 1}], seq[k + 1]>> \in State \X Thing
        BY <3>4, <4>1
      <4>3. v(s) \in State
        BY <4>2
      <4> QED
        BY <3>5, <4>3
    <3>6. e \in [SUBSET Up(k + 1) -> State]
      <4>1. \A s \in SUBSET Up(k + 1) : e[s] \in State
        <5>1. SUFFICES ASSUME NEW s \in SUBSET Up(k + 1) PROVE e[s] \in State
          OBVIOUS
        <5>2. CASE k + 1 \in s
          <6> HIDE DEF e, v
          <6> QED
            BY <3>5, <5>2
        <5>3. CASE k + 1 \notin s
          <6> HIDE DEF e
          <6> QED
            BY <2>1, <3>1, <3>3, <5>3
        <5> QED
          BY <5>2, <5>3
      <4>2. e = [s \in SUBSET Up(k + 1) |-> e[s]]
        OBVIOUS
      <4> HIDE DEF e
      <4> QED
        BY <4>1, <4>2
    <3>7. IsFold(e, F, b, seq, Up(k + 1))
      <4> HIDE DEF e, Up
      <4>1. SUFFICES ASSUME NEW s \in SUBSET Up(k + 1)
                     PROVE e[s] = IF s = {} THEN b ELSE F[<<e[s \ {Max(s)}], seq[Max(s)]>>]
        BY DEF IsFold
      <4>2. CASE k + 1 \in s
        <5>1. e[s] = F[<<f[s \ {k + 1}], seq[k + 1]>>] /\ Max(s) = k + 1
          BY <3>2, <3>5, <4>2
        <5>2. e[s \ {k + 1}] = f[s \ {k + 1}]
          BY <3>1, <3>2, <4>2
        <5> QED
          BY <4>2, <5>1, <5>2
      <4>3. CASE k + 1 \notin s
        <5>1. s \in SUBSET Up(k) /\ \A x : s \ {x} \in SUBSET Up(k)
          BY <3>3, <4>3
        <5>2. f[s] = IF s = {} THEN b ELSE F[<<f[s \ {Max(s)}], seq[Max(s)]>>]
          BY <2>1, <5>1 DEF IsFold
        <5>3. e[s] = f[s] /\ e[s \ {Max(s)}] = f[s \ {Max(s)}]
          BY <3>1, <5>1
        <5> QED
          BY <5>2, <5>3
      <4> QED
        BY <4>2, <4>3
    <3> HIDE DEF e, Up
    <3> QED
      BY <2>2, <3>6, <3>7
  <2> QED
    BY <2>3, <2>4
<1>3. Up(n) = D
  BY <1>0
<1> HIDE DEF Up
<1>4. S = Nat
  <2>1. S \in SUBSET Nat
    OBVIOUS
  <2> HIDE DEF S
  <2> QED
    BY <1>1, <1>2, <2>1, Induction
<1>5. n \in S
  BY <1>4
<1> QED
  BY <1>3, <1>5

-----------------------------------------------------------------------------
(* Sums over finite sets.                                                  *)

AnyOf(s) == CHOOSE x \in s : TRUE
Summing(f, h, S) ==
  f = [s \in SUBSET S |-> IF s = {} THEN 0 ELSE LET x == CHOOSE x \in s : TRUE IN h[x] + f[s \ {x}]]
Sums(f, h, sets) ==
  \A s \in sets : f[s] = IF s = {} THEN 0 ELSE h[AnyOf(s)] + f[s \ {AnyOf(s)}]
IntOn(h, S) == \A x \in S : h[x] \in Int

LEMMA UnfoldSum ==
  ASSUME NEW h, NEW S
  PROVE SumOf(h, S) = (CHOOSE f : Summing(f, h, S))[S]
BY DEF SumOf, MapThenSumSet, MapThenFoldSet, Summing

LEMMA AnyOfIn ==
  ASSUME NEW s, s # {}
  PROVE AnyOf(s) \in s
BY Zenon DEF AnyOf

\* Of a finite set.
LEMMA Smaller ==
  ASSUME NEW S, IsFiniteSet(S), NEW s \in SUBSET S
  PROVE /\ IsFiniteSet(s) /\ Cardinality(s) \in Nat /\ (Cardinality(s) = 0 <=> s = {})
        /\ \A x \in s : Cardinality(s \ {x}) = Cardinality(s) - 1
<1>1. IsFiniteSet(s)
  BY FS_Subset
<1> QED
  BY <1>1, FS_CardinalityType, FS_EmptySet, FS_RemoveElement

LEMMA SumsExist ==
  ASSUME NEW S, IsFiniteSet(S), NEW h, IntOn(h, S)
  PROVE \E f \in [SUBSET S -> Int] : Sums(f, h, SUBSET S)
<1> DEFINE Upto(k) == {s \in SUBSET S : Cardinality(s) <= k}
           T == {k \in Nat : \E f \in [Upto(k) -> Int] : Sums(f, h, Upto(k))}
<1>1. 0 \in T
  <2> DEFINE f == [s \in Upto(0) |-> 0]
  <2>1. \A s \in Upto(0) : s = {}
    BY Smaller
  <2>2. f \in [Upto(0) -> Int] /\ Sums(f, h, Upto(0))
    BY <2>1 DEF Sums
  <2> HIDE DEF f
  <2> QED
    BY <2>2
<1>2. ASSUME NEW k \in T PROVE k + 1 \in T
  <2>1. PICK f \in [Upto(k) -> Int] : Sums(f, h, Upto(k))
    OBVIOUS
  <2>2. k \in Nat
    OBVIOUS
  <2> DEFINE v(s) == IF s = {} THEN 0 ELSE h[AnyOf(s)] + f[s \ {AnyOf(s)}]
             e == [s \in Upto(k + 1) |-> v(s)]
  <2>3. ASSUME NEW s \in Upto(k) PROVE s \in Upto(k + 1) /\ e[s] = f[s]
    <3>1. Cardinality(s) \in Nat
      BY Smaller
    <3>2. s \in Upto(k + 1)
      BY <2>2, <3>1
    <3>3. f[s] = v(s)
      BY <2>1 DEF Sums
    <3> QED
      BY <3>2, <3>3
  <2>4. ASSUME NEW s \in Upto(k + 1), s # {}
        PROVE /\ AnyOf(s) \in S /\ s \ {AnyOf(s)} \in Upto(k)
    <3>1. AnyOf(s) \in s
      BY <2>4, AnyOfIn
    <3>2. Cardinality(s \ {AnyOf(s)}) = Cardinality(s) - 1 /\ Cardinality(s) \in Nat
      BY <3>1, Smaller
    <3> QED
      BY <2>2, <3>1, <3>2
  <2>5. ASSUME NEW s \in Upto(k + 1) PROVE e[s] \in Int /\ e[s] = IF s = {} THEN 0 ELSE h[AnyOf(s)] + e[s \ {AnyOf(s)}]
    <3>1. CASE s = {}
      BY <3>1
    <3>2. CASE s # {}
      <4> DEFINE x == AnyOf(s)
                 r == s \ {x}
      <4>1. x \in S /\ r \in Upto(k)
        BY <2>4, <3>2
      <4>2. e[s] = h[x] + f[r]
        BY <3>2
      <4> HIDE DEF x, r
      <4>3. h[x] \in Int /\ f[r] \in Int
        BY <2>1, <4>1 DEF IntOn
      <4> HIDE DEF e
      <4>4. e[r] = f[r]
        BY <2>3, <4>1
      <4> QED
        BY <3>2, <4>2, <4>3, <4>4 DEF x, r
    <3> QED
      BY <3>1, <3>2
  <2>6. e = [s \in Upto(k + 1) |-> e[s]]
    OBVIOUS
  <2> HIDE DEF e
  <2>7. e \in [Upto(k + 1) -> Int] /\ Sums(e, h, Upto(k + 1))
    BY <2>5, <2>6 DEF Sums
  <2> HIDE DEF Upto
  <2> QED
    BY <2>2, <2>7
<1>3. T = Nat
  <2>1. T \in SUBSET Nat
    OBVIOUS
  <2> HIDE DEF T
  <2> QED
    BY <1>1, <1>2, <2>1, Induction
<1>4. Cardinality(S) \in T
  BY <1>3, Smaller
<1>5. Upto(Cardinality(S)) = SUBSET S
  <2>1. \A s \in SUBSET S : Cardinality(s) <= Cardinality(S)
    BY FS_Subset
  <2> QED
    BY <2>1
<1> QED
  BY <1>4, <1>5

\* The sums of all subsets are one function, and it does not matter which
\* element comes first.
IsSums(f, h, S) ==
  /\ f \in [SUBSET S -> Int] /\ f[{}] = 0
  /\ \A s \in SUBSET S : \A x \in s : f[s] = h[x] + f[s \ {x}]

LEMMA SumsOf ==
  ASSUME NEW S, IsFiniteSet(S), NEW h, IntOn(h, S)
  PROVE \E f : IsSums(f, h, S) /\ SumOf(h, S) = f[S]
<1> DEFINE c == CHOOSE f : Summing(f, h, S)
<1>1. Summing(c, h, S)
  <2>1. PICK f \in [SUBSET S -> Int] : Sums(f, h, SUBSET S)
    BY SumsExist
  <2>2. f = [s \in SUBSET S |-> f[s]]
    BY <2>1
  <2>3. \A s \in SUBSET S : f[s] = IF s = {} THEN 0 ELSE LET x == CHOOSE x \in s : TRUE IN h[x] + f[s \ {x}]
    BY <2>1 DEF Sums, AnyOf
  <2>4. Summing(f, h, S)
    BY <2>2, <2>3, Zenon DEF Summing
  <2> QED
    BY <2>4
<1>2. SumOf(h, S) = c[S]
  BY UnfoldSum
<1> HIDE DEF c
<1>3. c = [s \in SUBSET S |-> c[s]] /\ Sums(c, h, SUBSET S)
  <2>1. \A s \in SUBSET S : c[s] = IF s = {} THEN 0 ELSE LET x == CHOOSE x \in s : TRUE IN h[x] + c[s \ {x}]
    BY <1>1 DEF Summing
  <2>2. DOMAIN c = SUBSET S /\ c = [s \in DOMAIN c |-> c[s]]
    BY <1>1 DEF Summing
  <2> QED
    BY <2>1, <2>2 DEF Sums, AnyOf
<1>4. c[{}] = 0
  BY <1>3 DEF Sums
<1> DEFINE P(s) == c[s] \in Int /\ \A x \in s : c[s] = h[x] + c[s \ {x}]
           T == {k \in Nat : \A s \in SUBSET S : Cardinality(s) <= k => P(s)}
<1>5. 0 \in T
  BY <1>4, Smaller
<1>6. ASSUME NEW k \in T PROVE k + 1 \in T
  <2>1. k \in Nat /\ \A s \in SUBSET S : Cardinality(s) <= k => P(s)
    OBVIOUS
  <2>2. ASSUME NEW s \in SUBSET S, Cardinality(s) <= k + 1, s # {} PROVE P(s)
    <3> DEFINE y == AnyOf(s)
    <3>1. s # {} /\ y \in s
      BY <2>2, AnyOfIn
    <3>2. c[s] = h[y] + c[s \ {y}]
      BY <1>3, <3>1 DEF Sums
    <3> HIDE DEF y
    <3>3. ASSUME NEW x \in s PROVE h[x] \in Int /\ P(s \ {x}) /\ s \ {x} \in SUBSET S
      <4>1. Cardinality(s \ {x}) <= k
        BY <2>1, <2>2, Smaller
      <4> HIDE DEF P
      <4> QED
        BY <2>1, <4>1 DEF IntOn
    <3>4. c[s] \in Int
      <4>1. h[y] \in Int /\ c[s \ {y}] \in Int
        BY <3>1, <3>3
      <4> QED
        BY <3>2, <4>1
    <3>5. ASSUME NEW x \in s PROVE c[s] = h[x] + c[s \ {x}]
      <4>1. CASE x = y
        BY <3>2, <4>1
      <4>2. CASE x # y
        <5>1. x \in s \ {y} /\ y \in s \ {x}
          BY <3>1, <4>2
        <5>2. c[s \ {y}] = h[x] + c[(s \ {y}) \ {x}]
          BY <3>1, <3>3, <5>1
        <5>3. c[s \ {x}] = h[y] + c[(s \ {x}) \ {y}]
          BY <3>3, <5>1
        <5>4. PICK r : r = (s \ {x}) \ {y} /\ r = (s \ {y}) \ {x}
          OBVIOUS
        <5>5. c[r] \in Int
          <6>1. r \in SUBSET S /\ Cardinality(r) <= k
            <7>1. s \ {y} \in SUBSET S /\ Cardinality(s \ {y}) \in Nat /\ Cardinality(s \ {y}) <= k
              BY <2>1, <2>2, <3>1, Smaller
            <7>2. Cardinality((s \ {y}) \ {x}) = Cardinality(s \ {y}) - 1
              BY <5>1, <7>1, Smaller
            <7>3. Cardinality(r) = Cardinality(s \ {y}) - 1
              BY <5>4, <7>2
            <7>4. r \in SUBSET S
              BY <5>4
            <7> QED
              BY <2>1, <7>1, <7>3, <7>4
          <6> QED
            BY <2>1, <6>1
        <5>6. h[x] \in Int /\ h[y] \in Int
          BY <3>1, <3>3
        <5>7. c[s] = h[y] + (h[x] + c[r]) /\ c[s \ {x}] = h[y] + c[r]
          BY <3>2, <5>2, <5>3, <5>4
        <5> QED
          BY <5>5, <5>6, <5>7
      <4> QED
        BY <4>1, <4>2
    <3> QED
      BY <3>4, <3>5
  <2>3. P({})
    BY <1>4
  <2> HIDE DEF P
  <2> QED
    BY <2>1, <2>2, <2>3
<1>7. T = Nat
  <2>1. T \in SUBSET Nat
    OBVIOUS
  <2> HIDE DEF T
  <2> QED
    BY <1>5, <1>6, <2>1, Induction
<1>8. ASSUME NEW s \in SUBSET S PROVE P(s)
  <2>1. Cardinality(s) \in T /\ Cardinality(s) <= Cardinality(s)
    BY <1>7, Smaller
  <2> QED
    BY <2>1
<1>9. c \in [SUBSET S -> Int]
  BY <1>3, <1>8
<1>10. IsSums(c, h, S)
  BY <1>4, <1>8, <1>9 DEF IsSums
<1> QED
  BY <1>2, <1>10
\* A set of subsets that has each one it has the smaller ones of.
LEMMA SubsetInduction ==
  ASSUME NEW S, IsFiniteSet(S), NEW G \in SUBSET SUBSET S,
         {} \in G, \A s \in SUBSET S : s # {} /\ (\A x \in s : s \ {x} \in G) => s \in G
  PROVE G = SUBSET S
<1> DEFINE T == {k \in Nat : \A s \in SUBSET S : Cardinality(s) = k => s \in G}
<1>1. 0 \in T
  BY Smaller
<1>2. ASSUME NEW k \in T PROVE k + 1 \in T
  <2>1. k \in Nat /\ \A s \in SUBSET S : Cardinality(s) = k => s \in G
    OBVIOUS
  <2>2. ASSUME NEW s \in SUBSET S, Cardinality(s) = k + 1 PROVE s \in G
    <3>1. s # {}
      BY <2>1, <2>2, Smaller
    <3>2. ASSUME NEW x \in s PROVE s \ {x} \in G
      <4>1. Cardinality(s \ {x}) = k
        BY <2>1, <2>2, Smaller
      <4> QED
        BY <2>1, <4>1
    <3> QED
      BY <3>1, <3>2
  <2> QED
    BY <2>1, <2>2
<1>3. T = Nat
  <2>1. T \in SUBSET Nat
    OBVIOUS
  <2> HIDE DEF T
  <2> QED
    BY <1>1, <1>2, <2>1, Induction
<1>4. ASSUME NEW s \in SUBSET S PROVE s \in G
  <2>1. Cardinality(s) \in T
    BY <1>3, Smaller
  <2> QED
    BY <2>1
<1> QED
  BY <1>4

LEMMA SumsAgree ==
  ASSUME NEW S, IsFiniteSet(S), NEW T \in SUBSET S, NEW h, NEW g, \A x \in T : h[x] = g[x],
         NEW e, IsSums(e, h, S), NEW f, IsSums(f, g, T)
  PROVE e[T] = f[T]
<1> DEFINE G == {s \in SUBSET T : e[s] = f[s]}
<1>1. {} \in G
  BY DEF IsSums
<1>2. ASSUME NEW s \in SUBSET T, s # {}, \A x \in s : s \ {x} \in G PROVE s \in G
  <2>1. PICK x \in s : TRUE
    BY <1>2
  <2>2. e[s] = h[x] + e[s \ {x}] /\ f[s] = g[x] + f[s \ {x}]
    BY DEF IsSums
  <2>3. e[s \ {x}] = f[s \ {x}] /\ h[x] = g[x]
    BY <1>2
  <2> QED
    BY <2>2, <2>3
<1>3. IsFiniteSet(T)
  BY FS_Subset
<1> HIDE DEF G
<1>4. G = SUBSET T
  <2>1. G \in SUBSET SUBSET T
    BY DEF G
  <2> QED
    BY <1>1, <1>2, <1>3, <2>1, SubsetInduction
<1> QED
  BY <1>4 DEF G

LEMMA SumFacts ==
  ASSUME NEW S, IsFiniteSet(S), NEW h, IntOn(h, S)
  PROVE /\ SumOf(h, S) \in Int
        /\ S = {} => SumOf(h, S) = 0
        /\ \A x \in S : SumOf(h, S) = h[x] + SumOf(h, S \ {x})
<1>1. PICK e : IsSums(e, h, S) /\ SumOf(h, S) = e[S]
  BY SumsOf
<1>2. SumOf(h, S) \in Int
  BY <1>1 DEF IsSums
<1>3. S = {} => SumOf(h, S) = 0
  BY <1>1 DEF IsSums
<1>4. ASSUME NEW x \in S PROVE SumOf(h, S) = h[x] + SumOf(h, S \ {x})
  <2> DEFINE T == S \ {x}
  <2>1. IsFiniteSet(T) /\ T \in SUBSET S /\ IntOn(h, T)
    BY FS_Subset DEF IntOn
  <2>2. e[S] = h[x] + e[T]
    BY <1>1 DEF IsSums
  <2> HIDE DEF T
  <2>3. PICK f : IsSums(f, h, T) /\ SumOf(h, T) = f[T]
    BY <2>1, SumsOf
  <2>4. e[T] = f[T]
    BY <1>1, <2>1, <2>3, SumsAgree
  <2> QED
    BY <1>1, <2>2, <2>3, <2>4 DEF T
<1> QED
  BY <1>2, <1>3, <1>4

LEMMA SumSame ==
  ASSUME NEW S, IsFiniteSet(S), NEW h, NEW g, IntOn(h, S), \A x \in S : h[x] = g[x]
  PROVE SumOf(h, S) = SumOf(g, S)
<1>1. PICK e : IsSums(e, h, S) /\ SumOf(h, S) = e[S]
  BY SumsOf
<1>2. IntOn(g, S)
  BY DEF IntOn
<1>3. PICK f : IsSums(f, g, S) /\ SumOf(g, S) = f[S]
  BY <1>2, SumsOf
<1>4. e[S] = f[S]
  BY <1>1, <1>3, SumsAgree
<1> QED
  BY <1>1, <1>3, <1>4

\* What is added is natural, and no part is more than the whole.
LEMMA SumNat ==
  ASSUME NEW S, IsFiniteSet(S), NEW h, \A x \in S : h[x] \in Nat
  PROVE /\ IntOn(h, S) /\ SumOf(h, S) \in Nat
        /\ \A x \in S : h[x] <= SumOf(h, S)
<1>1. IntOn(h, S)
  BY DEF IntOn
<1> DEFINE G == {s \in SUBSET S : SumOf(h, s) \in Nat}
<1>2. ASSUME NEW s \in SUBSET S PROVE IsFiniteSet(s) /\ IntOn(h, s)
  BY FS_Subset, <1>1 DEF IntOn
<1>3. {} \in G
  <2>1. SumOf(h, {}) = 0
    BY <1>2, SumFacts
  <2> QED
    BY <2>1
<1>4. ASSUME NEW s \in SUBSET S, s # {}, \A x \in s : s \ {x} \in G PROVE s \in G
  <2>1. PICK x \in s : TRUE
    BY <1>4
  <2>2. SumOf(h, s) = h[x] + SumOf(h, s \ {x})
    BY <1>2, SumFacts
  <2>3. SumOf(h, s \ {x}) \in Nat /\ h[x] \in Nat
    BY <1>4
  <2> QED
    BY <2>2, <2>3
<1>5. G = SUBSET S
  <2>1. G \in SUBSET SUBSET S
    OBVIOUS
  <2> HIDE DEF G
  <2> QED
    BY <1>3, <1>4, <2>1, SubsetInduction
<1>6. ASSUME NEW s \in SUBSET S PROVE SumOf(h, s) \in Nat
  BY <1>5
<1>7. ASSUME NEW x \in S PROVE h[x] <= SumOf(h, S)
  <2>1. SumOf(h, S) = h[x] + SumOf(h, S \ {x})
    BY <1>1, SumFacts
  <2>2. SumOf(h, S \ {x}) \in Nat /\ h[x] \in Nat
    BY <1>6
  <2> QED
    BY <2>1, <2>2
<1> QED
  BY <1>1, <1>6, <1>7

-----------------------------------------------------------------------------
(* What is sorted.                                                         *)

Orders(before, S) ==
  /\ \A x \in S : <<x, x>> \notin before
  /\ \A x, y \in S : x # y => <<x, y>> \in before \/ <<y, x>> \in before
  /\ \A x, y, z \in S : <<x, y>> \in before /\ <<y, z>> \in before => <<x, z>> \in before

LEMMA OrdersPart ==
  ASSUME NEW S, NEW before, Orders(before, S), NEW s \in SUBSET S
  PROVE Orders(before, s)
BY DEF Orders

IsFirst(x, before, s) == x \in s /\ \A y \in s \ {x} : <<x, y>> \in before

LEMMA SomeIsFirst ==
  ASSUME NEW S, IsFiniteSet(S), S # {}, NEW before, Orders(before, S)
  PROVE \E x : IsFirst(x, before, S)
<1> DEFINE G == {s \in SUBSET S : s = {} \/ \E x : IsFirst(x, before, s)}
<1>1. {} \in G
  OBVIOUS
<1>2. ASSUME NEW s \in SUBSET S, s # {}, \A x \in s : s \ {x} \in G PROVE s \in G
  <2>1. PICK x \in s : TRUE
    BY <1>2
  <2>2. CASE s \ {x} = {}
    <3>1. IsFirst(x, before, s)
      BY <2>2 DEF IsFirst
    <3> QED
      BY <3>1
  <2>3. CASE s \ {x} # {}
    <3>1. PICK m : IsFirst(m, before, s \ {x})
      BY <1>2, <2>3
    <3>2. m \in s /\ x # m /\ \A y \in s : y # x /\ y # m => <<m, y>> \in before
      BY <3>1 DEF IsFirst
    <3>3. CASE <<x, m>> \in before
      <4>1. \A y \in s : y # x => <<x, y>> \in before
        BY <3>2, <3>3 DEF Orders
      <4>2. IsFirst(x, before, s)
        BY <4>1 DEF IsFirst
      <4> QED
        BY <4>2
    <3>4. CASE <<m, x>> \in before
      <4>1. IsFirst(m, before, s)
        BY <3>2, <3>4 DEF IsFirst
      <4> QED
        BY <4>1
    <3> QED
      BY <3>2, <3>3, <3>4 DEF Orders
  <2> QED
    BY <2>2, <2>3
<1> HIDE DEF G
<1>3. G = SUBSET S
  <2>1. G \in SUBSET SUBSET S
    BY DEF G
  <2> QED
    BY <1>1, <1>2, <2>1, SubsetInduction
<1> QED
  BY <1>3 DEF G

InRow(f, before, n, S) ==
  f \in [1 .. n -> S] /\ \A i, j \in 1 .. n : i < j => <<f[i], f[j]>> \in before

LEMMA SortedExists ==
  ASSUME NEW S, IsFiniteSet(S), NEW before, Orders(before, S)
  PROVE \E f : InRow(f, before, Cardinality(S), S)
<1> DEFINE G == {s \in SUBSET S : \E f : InRow(f, before, Cardinality(s), s)}
<1>1. {} \in G
  <2>1. Cardinality({}) = 0
    BY FS_EmptySet
  <2>2. InRow([i \in 1 .. 0 |-> i], before, 0, {})
    BY DEF InRow
  <2> QED
    BY <2>1, <2>2
<1>2. ASSUME NEW s \in SUBSET S, s # {}, \A x \in s : s \ {x} \in G PROVE s \in G
  <2>1. PICK x : IsFirst(x, before, s)
    BY <1>2, OrdersPart, Smaller, SomeIsFirst
  <2>2. x \in s /\ \A y \in s \ {x} : <<x, y>> \in before
    BY <2>1 DEF IsFirst
  <2> DEFINE n == Cardinality(s \ {x})
  <2>3. n \in Nat /\ Cardinality(s) = n + 1
    BY <2>2, Smaller
  <2>4. PICK f : InRow(f, before, n, s \ {x})
    BY <1>2, <2>2
  <2> HIDE DEF n
  <2> DEFINE t == [i \in 1 .. n + 1 |-> IF i = 1 THEN x ELSE f[i - 1]]
  <2>5. ASSUME NEW i \in 1 .. n + 1, i # 1
        PROVE i - 1 \in 1 .. n /\ t[i] = f[i - 1] /\ t[i] \in s \ {x}
    BY <2>3, <2>4, <2>5 DEF InRow
  <2>6. t[1] = x
    BY <2>3
  <2>7. t = [i \in 1 .. n + 1 |-> t[i]]
    OBVIOUS
  <2> HIDE DEF t
  <2>8. t \in [1 .. n + 1 -> s]
    BY <2>2, <2>5, <2>6, <2>7
  <2>9. ASSUME NEW i \in 1 .. n + 1, NEW j \in 1 .. n + 1, i < j PROVE <<t[i], t[j]>> \in before
    <3>1. j # 1
      BY <2>3, <2>9
    <3>2. CASE i = 1
      BY <2>2, <2>5, <2>6, <3>1, <3>2
    <3>3. CASE i # 1
      <4>1. i - 1 \in 1 .. n /\ j - 1 \in 1 .. n /\ i - 1 < j - 1 /\ t[i] = f[i - 1] /\ t[j] = f[j - 1]
        BY <2>3, <2>5, <2>9, <3>1, <3>3
      <4> QED
        BY <2>4, <4>1 DEF InRow
    <3> QED
      BY <3>2, <3>3
  <2>10. InRow(t, before, Cardinality(s), s)
    BY <2>3, <2>8, <2>9 DEF InRow
  <2> QED
    BY <2>10
<1> HIDE DEF G
<1>3. G = SUBSET S
  <2>1. G \in SUBSET SUBSET S
    BY DEF G
  <2> QED
    BY <1>1, <1>2, <2>1, SubsetInduction
<1> QED
  BY <1>3 DEF G

\* Each element has one place.
LEMMA SortedHas ==
  ASSUME NEW S, IsFiniteSet(S), NEW before, Orders(before, S)
  PROVE LET n == Cardinality(S)
            s == Sorted(S, before)
        IN /\ n \in Nat /\ InRow(s, before, n, S)
           /\ \A i, j \in 1 .. n : i # j => s[i] # s[j]
           /\ \A x \in S : \E i \in 1 .. n : s[i] = x
<1> DEFINE n == Cardinality(S)
           s == Sorted(S, before)
<1>1. n \in Nat
  BY FS_CardinalityType
<1>2. \E f \in [1 .. n -> S] : \A i, j \in DOMAIN f : i < j => <<f[i], f[j]>> \in before
  <2>1. PICK f : InRow(f, before, n, S)
    BY SortedExists
  <2> QED
    BY <2>1 DEF InRow
<1>3. s \in [1 .. n -> S] /\ \A i, j \in DOMAIN s : i < j => <<s[i], s[j]>> \in before
  BY <1>2, Zenon DEF Sorted
<1> HIDE DEF s, n
<1>4. InRow(s, before, n, S)
  BY <1>3 DEF InRow
<1>5. ASSUME NEW i \in 1 .. n, NEW j \in 1 .. n, i # j PROVE s[i] # s[j]
  <2>1. i < j \/ j < i
    BY <1>1, <1>5
  <2>2. <<s[i], s[j]>> \in before \/ <<s[j], s[i]>> \in before
    BY <1>3, <2>1
  <2> QED
    BY <1>3, <2>2 DEF Orders
<1>6. s \in Injection(1 .. n, S)
  BY <1>3, <1>5 DEF Injection, IsInjective
<1>7. Cardinality(1 .. n) = n
  BY <1>1, FS_Interval
<1>8. s \in Surjection(1 .. n, S)
  BY <1>6, <1>7, FS_Injection DEF n
<1>9. \A x \in S : \E i \in 1 .. n : s[i] = x
  BY <1>8 DEF Surjection
<1> QED
  BY <1>1, <1>4, <1>5, <1>9 DEF n, s

-----------------------------------------------------------------------------
(* What decays.                                                            *)

\* There are as many subsets of 1 .. n.
LEMMA PowerFacts ==
  ASSUME NEW n \in Nat
  PROVE 2 ^ n \in Nat /\ 2 ^ n > 0
<1>1. IsFiniteSet(1 .. n) /\ Cardinality(1 .. n) = n
  BY FS_Interval
<1>2. IsFiniteSet(SUBSET (1 .. n)) /\ Cardinality(SUBSET (1 .. n)) = 2 ^ n
  BY <1>1, FS_SUBSET
<1>3. Cardinality(SUBSET (1 .. n)) \in Nat /\ Cardinality(SUBSET (1 .. n)) # 0
  BY <1>2, FS_CardinalityType, FS_EmptySet
<1> QED
  BY <1>2, <1>3


-----------------------------------------------------------------------------
(* Spreading activation.                                                   *)

EdgeIds == 1 .. Len(EdgeTable)
Weighs(weight, visible) == visible \in SUBSET EdgeIds /\ \A i \in visible : weight[i] \in Nat
Firings(weight, visible) == [eid : {i \in visible : weight[i] > 0}, delta : Nat \ {0}]

\* What a node that an edge fired into got is not nothing.
Spreads(weight, visible) ==
  {s \in [act : [Nodes -> Nat], incoming : [Nodes -> Nat], fired : Seq(Firings(weight, visible)),
          frontier : Seq(Nodes), next : Seq(Nodes)] :
     \A k \in DOMAIN s.fired : s.incoming[EdgeTable[s.fired[k].eid].dst] > 0}

\* Activation grows, what has fired has fired, and the frontier stays.
Grows(s, t) ==
  /\ \A n \in Nodes : s.act[n] <= t.act[n]
  /\ Len(s.fired) <= Len(t.fired) /\ \A k \in DOMAIN s.fired : t.fired[k] = s.fired[k]
  /\ t.frontier = s.frontier

LEMMA EdgeTypes ==
  /\ Len(EdgeTable) \in Nat /\ DOMAIN EdgeTable = EdgeIds /\ IsFiniteSet(EdgeIds)
  /\ \A i \in EdgeIds : EdgeTable[i].src \in Nodes /\ EdgeTable[i].dst \in Nodes
<1>1. Len(EdgeTable) \in Nat /\ DOMAIN EdgeTable = EdgeIds
  BY SpreadAssumption, LenProperties DEF EdgeIds
<1>2. IsFiniteSet(EdgeIds)
  BY <1>1, FS_Interval DEF EdgeIds
<1>3. \A i \in EdgeIds : EdgeTable[i].src \in Nodes /\ EdgeTable[i].dst \in Nodes
  BY <1>1, SpreadAssumption
<1> QED
  BY <1>1, <1>2, <1>3

LEMMA AppendHas ==
  ASSUME NEW S, NEW f \in Seq(S), NEW x \in S
  PROVE /\ Append(f, x) \in Seq(S) /\ Len(Append(f, x)) = Len(f) + 1 /\ Len(f) \in Nat
        /\ DOMAIN f = 1 .. Len(f) /\ DOMAIN Append(f, x) = 1 .. Len(f) + 1
        /\ \A k \in DOMAIN f : Append(f, x)[k] = f[k]
        /\ Append(f, x)[Len(f) + 1] = x
BY AppendProperties, LenProperties

\* What an EXCEPT adds.
LEMMA Added ==
  ASSUME NEW f \in [Nodes -> Nat], NEW v \in Nodes, NEW delta \in Nat, NEW g, g = [f EXCEPT ![v] = @ + delta]
  PROVE /\ g \in [Nodes -> Nat] /\ (delta > 0 => g[v] > 0)
        /\ \A n \in Nodes : f[n] <= g[n]
<1>1. f[v] \in Nat /\ g[v] = f[v] + delta
  OBVIOUS
<1>2. \A n \in Nodes : f[n] \in Nat /\ (n # v => g[n] = f[n])
  OBVIOUS
<1>3. \A n \in Nodes : g[n] \in Nat /\ f[n] <= g[n]
  BY <1>1, <1>2
<1>4. g = [n \in Nodes |-> g[n]]
  OBVIOUS
<1> QED
  BY <1>1, <1>3, <1>4

LEMMA DeliverSpreads ==
  ASSUME NEW weight, NEW visible, Weighs(weight, visible),
         NEW s \in Spreads(weight, visible), NEW i \in visible, NEW delta \in Nat,
         delta > 0 => weight[i] > 0
  PROVE Deliver(s, i, delta) \in Spreads(weight, visible) /\ Grows(s, Deliver(s, i, delta))
<1> DEFINE v == EdgeTable[i].dst
           t == Deliver(s, i, delta)
           x == [eid |-> i, delta |-> delta]
<1>1. /\ s.act \in [Nodes -> Nat] /\ s.incoming \in [Nodes -> Nat]
      /\ s.fired \in Seq(Firings(weight, visible)) /\ s.frontier \in Seq(Nodes) /\ s.next \in Seq(Nodes)
      /\ \A k \in DOMAIN s.fired : s.incoming[EdgeTable[s.fired[k].eid].dst] > 0
  BY DEF Spreads
<1>2. v \in Nodes /\ \A k \in EdgeIds : EdgeTable[k].dst \in Nodes
  BY EdgeTypes DEF Weighs
<1>3. \A k \in DOMAIN s.fired : s.fired[k] \in Firings(weight, visible)
  BY <1>1, ElementOfSeq, LenProperties
<1>4. CASE delta <= Epsilon
  <2>1. t = s
    BY <1>4 DEF Deliver
  <2> HIDE DEF t
  <2>2. Grows(s, s)
    <3>1. \A n \in Nodes : s.act[n] \in Nat
      BY <1>1
    <3>2. Len(s.fired) \in Nat
      BY <1>1, LenProperties
    <3> QED
      BY <3>1, <3>2 DEF Grows
  <2> QED
    BY <2>1, <2>2 DEF t
<1>5. CASE ~(delta <= Epsilon)
  <2>1. delta > 0
    <3>1. Epsilon \in Nat
      BY SpreadAssumption
    <3> QED
      BY <1>5, <3>1
  <2>2. x \in Firings(weight, visible)
    BY <2>1 DEF Firings
  <2>3. t = [act      |-> [s.act EXCEPT ![v] = @ + delta],
             incoming |-> [s.incoming EXCEPT ![v] = @ + delta],
             fired    |-> Append(s.fired, x),
             frontier |-> s.frontier,
             next     |-> IF s.act[v] = 0 THEN Append(s.next, v) ELSE s.next]
    BY <1>5 DEF Deliver
  <2> HIDE DEF t
  <2>4. t.act \in [Nodes -> Nat] /\ \A n \in Nodes : s.act[n] <= t.act[n]
    BY <1>1, <1>2, <2>3, Added
  <2>5. t.incoming \in [Nodes -> Nat] /\ t.incoming[v] > 0 /\ \A n \in Nodes : s.incoming[n] <= t.incoming[n]
    BY <1>1, <1>2, <2>1, <2>3, Added
  <2>6. /\ t.fired = Append(s.fired, x) /\ t.frontier = s.frontier
        /\ t.next = (IF s.act[v] = 0 THEN Append(s.next, v) ELSE s.next)
    BY <2>3
  <2>7. t.next \in Seq(Nodes) /\ t.frontier \in Seq(Nodes)
    BY <1>1, <1>2, <2>6, AppendHas
  <2> HIDE DEF x, v
  <2>8. /\ t.fired \in Seq(Firings(weight, visible)) /\ Len(s.fired) \in Nat /\ Len(t.fired) = Len(s.fired) + 1
        /\ DOMAIN s.fired = 1 .. Len(s.fired) /\ DOMAIN t.fired = 1 .. Len(s.fired) + 1
        /\ \A k \in DOMAIN s.fired : t.fired[k] = s.fired[k]
        /\ t.fired[Len(s.fired) + 1] = x
    BY <1>1, <2>2, <2>6, AppendHas
  <2>9. ASSUME NEW k \in DOMAIN t.fired PROVE t.incoming[EdgeTable[t.fired[k].eid].dst] > 0
    <3>1. CASE k = Len(s.fired) + 1
      <4>1. t.fired[k].eid = i
        BY <2>8, <3>1 DEF x
      <4> QED
        BY <2>5, <4>1 DEF v
    <3>2. CASE k # Len(s.fired) + 1
      <4>1. k \in DOMAIN s.fired
        BY <2>8, <3>2
      <4> DEFINE n == EdgeTable[s.fired[k].eid].dst
      <4>2. s.fired[k].eid \in EdgeIds
        BY <1>3, <4>1 DEF Firings, Weighs
      <4>3. n \in Nodes /\ s.incoming[n] > 0
        BY <1>1, <1>2, <4>1, <4>2
      <4> HIDE DEF n
      <4>4. t.incoming[n] > 0
        BY <1>1, <2>5, <4>3
      <4> QED
        BY <2>8, <4>1, <4>4 DEF n
    <3> QED
      BY <3>1, <3>2
  <2>10. t = [act |-> t.act, incoming |-> t.incoming, fired |-> t.fired, frontier |-> t.frontier, next |-> t.next]
    BY <2>3
  <2>11. t \in Spreads(weight, visible)
    <3>1. t \in [act : [Nodes -> Nat], incoming : [Nodes -> Nat], fired : Seq(Firings(weight, visible)),
                 frontier : Seq(Nodes), next : Seq(Nodes)]
      BY <2>4, <2>5, <2>7, <2>8, <2>10
    <3> QED
      BY <2>9, <3>1 DEF Spreads
  <2>12. Grows(s, t)
    BY <2>4, <2>6, <2>8 DEF Grows
  <2> QED
    BY <2>11, <2>12 DEF t
<1> QED
  BY <1>4, <1>5

Source(i) == EdgeTable[i].src
HasFired(s, i) == \E k \in DOMAIN s.fired : s.fired[k].eid = i

\* No edge fires twice: the nodes that wait, in the frontier or for the next one,
\* are different and activated, and those that have fired do not wait.
Once(fired) == \A j, k \in DOMAIN fired : j # k => fired[j].eid # fired[k].eid
Waits(s, R, done) ==
  /\ \A n \in R : s.act[n] > 0
  /\ \A k \in DOMAIN s.next : s.act[s.next[k]] > 0 /\ s.next[k] \notin R
  /\ IsInjective(s.next)
  /\ \A i \in done : s.act[Source(i)] > 0 /\ Source(i) \notin R /\ \A k \in DOMAIN s.next : s.next[k] # Source(i)
  /\ Once(s.fired) /\ \A k \in DOMAIN s.fired : s.fired[k].eid \in done

LEMMA DeliverWaits ==
  ASSUME NEW weight, NEW visible, Weighs(weight, visible),
         NEW s \in Spreads(weight, visible), NEW i \in visible, NEW delta \in Nat,
         delta > 0 => weight[i] > 0,
         NEW R \in SUBSET Nodes, NEW done \in SUBSET EdgeIds, i \notin done, Waits(s, R, done),
         s.act[Source(i)] > 0, Source(i) \notin R, \A k \in DOMAIN s.next : s.next[k] # Source(i)
  PROVE Waits(Deliver(s, i, delta), R, done \cup {i})
<1> DEFINE t == Deliver(s, i, delta)
           v == EdgeTable[i].dst
           x == [eid |-> i, delta |-> delta]
<1>1. /\ s.act \in [Nodes -> Nat] /\ s.fired \in Seq(Firings(weight, visible)) /\ s.next \in Seq(Nodes)
  BY DEF Spreads
<1>2. v \in Nodes /\ Source(i) \in Nodes /\ \A j \in done : Source(j) \in Nodes
  BY EdgeTypes DEF Weighs, Source
<1>3. CASE delta <= Epsilon
  <2>1. t = s
    BY <1>3 DEF Deliver
  <2> QED
    BY <2>1 DEF Waits
<1>4. CASE ~(delta <= Epsilon)
  <2>1. delta > 0
    <3>1. Epsilon \in Nat
      BY SpreadAssumption
    <3> QED
      BY <1>4, <3>1
  <2>2. x \in Firings(weight, visible) /\ x.eid = i
    BY <2>1 DEF Firings
  <2>3. /\ t.act = [s.act EXCEPT ![v] = @ + delta]
        /\ t.fired = Append(s.fired, x)
        /\ t.next = IF s.act[v] = 0 THEN Append(s.next, v) ELSE s.next
    BY <1>4 DEF Deliver
  <2> HIDE DEF t, x, v
  <2>4. t.act \in [Nodes -> Nat] /\ t.act[v] > 0 /\ \A n \in Nodes : s.act[n] <= t.act[n]
    BY <1>1, <1>2, <2>1, <2>3, Added
  <2>5. ASSUME NEW n \in Nodes, s.act[n] > 0 PROVE t.act[n] > 0
    <3>1. s.act[n] \in Nat /\ t.act[n] \in Nat /\ s.act[n] <= t.act[n]
      BY <1>1, <2>4
    <3> QED
      BY <2>5, <3>1
  <2>6. /\ Len(s.fired) \in Nat /\ DOMAIN s.fired = 1 .. Len(s.fired)
        /\ DOMAIN t.fired = 1 .. Len(s.fired) + 1
        /\ \A k \in DOMAIN s.fired : t.fired[k] = s.fired[k]
        /\ t.fired[Len(s.fired) + 1] = x
    <3>1. s.fired \in Seq(Firings(weight, visible)) /\ t.fired = Append(s.fired, x)
      BY <1>1, <2>3
    <3> QED
      BY <2>2, <3>1, AppendHas
  <2>7. ASSUME NEW k \in DOMAIN t.fired
        PROVE IF k \in DOMAIN s.fired THEN t.fired[k].eid = s.fired[k].eid /\ s.fired[k].eid \in done
                                      ELSE k = Len(s.fired) + 1 /\ t.fired[k].eid = i
    BY <2>2, <2>6 DEF Waits
  <2>8. Once(t.fired) /\ \A k \in DOMAIN t.fired : t.fired[k].eid \in done \cup {i}
    <3>1. ASSUME NEW j \in DOMAIN t.fired, NEW k \in DOMAIN t.fired, j # k PROVE t.fired[j].eid # t.fired[k].eid
      <4>1. CASE j \in DOMAIN s.fired /\ k \in DOMAIN s.fired
        BY <2>7, <3>1, <4>1 DEF Waits, Once
      <4>2. CASE ~(j \in DOMAIN s.fired /\ k \in DOMAIN s.fired)
        BY <2>7, <3>1, <4>2
      <4> QED
        BY <4>1, <4>2
    <3> QED
      BY <2>7, <3>1 DEF Once
  <2>9. \A k \in DOMAIN s.next : s.next[k] \in Nodes
    BY <1>1, ElementOfSeq, LenProperties
  <2>10. CASE s.act[v] # 0
    <3>1. t.next = s.next
      BY <2>3, <2>10
    <3> QED
      BY <1>2, <2>5, <2>8, <2>9, <3>1 DEF Waits, t
  <2>11. CASE s.act[v] = 0
    <3>1. t.next = Append(s.next, v)
      BY <2>3, <2>11
    <3>2. /\ Len(s.next) \in Nat /\ DOMAIN s.next = 1 .. Len(s.next)
          /\ DOMAIN t.next = 1 .. Len(s.next) + 1
          /\ \A k \in DOMAIN s.next : t.next[k] = s.next[k]
          /\ t.next[Len(s.next) + 1] = v
      BY <1>1, <1>2, <3>1, AppendHas
    <3>3. \A k \in DOMAIN s.next : s.next[k] # v
      BY <2>11 DEF Waits
    <3>4. v \notin R /\ v # Source(i) /\ \A j \in done : v # Source(j)
      BY <2>11 DEF Waits
    <3>5. ASSUME NEW k \in DOMAIN t.next
          PROVE IF k \in DOMAIN s.next THEN t.next[k] = s.next[k] /\ s.next[k] \in Nodes ELSE k = Len(s.next) + 1 /\ t.next[k] = v
      BY <2>9, <3>2
    <3>6. IsInjective(t.next)
      <4>1. ASSUME NEW j \in DOMAIN t.next, NEW k \in DOMAIN t.next, j # k PROVE t.next[j] # t.next[k]
        <5>1. CASE j \in DOMAIN s.next /\ k \in DOMAIN s.next
          BY <3>5, <4>1, <5>1 DEF Waits, IsInjective
        <5>2. CASE ~(j \in DOMAIN s.next /\ k \in DOMAIN s.next)
          BY <3>3, <3>5, <4>1, <5>2
        <5> QED
          BY <5>1, <5>2
      <4> QED
        BY <4>1 DEF IsInjective
    <3>7. \A k \in DOMAIN t.next : t.act[t.next[k]] > 0 /\ t.next[k] \notin R
      BY <2>4, <2>5, <3>4, <3>5 DEF Waits
    <3>8. \A j \in done \cup {i} : \A k \in DOMAIN t.next : t.next[k] # Source(j)
      BY <3>4, <3>5 DEF Waits
    <3>9. \A n \in R : t.act[n] > 0
      BY <2>5 DEF Waits
    <3>10. \A j \in done \cup {i} : t.act[Source(j)] > 0 /\ Source(j) \notin R
      BY <1>2, <2>5 DEF Waits
    <3> QED
      BY <2>8, <3>6, <3>7, <3>8, <3>9, <3>10 DEF Waits, t
  <2> QED
    BY <2>10, <2>11
<1> QED
  BY <1>3, <1>4

-----------------------------------------------------------------------------
(* Shares.                                                                 *)

LEMMA DivFacts ==
  ASSUME NEW a \in Nat, NEW b \in Nat, b > 0
  PROVE a \div b \in Nat /\ (a = 0 => a \div b = 0)
OBVIOUS

LEMMA DivGrows ==
  ASSUME NEW a \in Nat, NEW c \in Nat, NEW b \in Nat, b > 0, a <= c
  PROVE a \div b <= c \div b
OBVIOUS

LEMMA TimesFacts ==
  ASSUME NEW a \in Nat, NEW b \in Nat
  PROVE a * b \in Nat /\ (a > 0 /\ b > 0 => a * b > 0) /\ (a = 0 \/ b = 0 => a * b = 0)
OBVIOUS

LEMMA TimesGrows ==
  ASSUME NEW a \in Nat, NEW c \in Nat, NEW b \in Nat, a <= c
  PROVE a * b <= c * b /\ b * a <= b * c
OBVIOUS

LEMMA CarriedFacts ==
  ASSUME NEW act \in Nat, NEW w \in Nat, NEW mass \in Nat
  PROVE /\ Carried(act, w, mass) \in Nat /\ (w = 0 => Carried(act, w, mass) = 0)
        /\ \A a, v \in Nat : a <= act /\ v <= w => Carried(a, v, mass) <= Carried(act, w, mass)
<1> DEFINE b == FanD * (One + mass)
<1>1. FanN \in Nat /\ FanD \in Nat /\ FanD > 0 /\ One \in Nat /\ One > 0
  BY SpreadAssumption
<1>2. b \in Nat /\ b > 0
  BY <1>1, TimesFacts
<1>3. \A a, v \in Nat : a * FanN \in Nat /\ (a * FanN) * v \in Nat
  BY <1>1, TimesFacts
<1>4. \A a, v \in Nat : Carried(a, v, mass) = ((a * FanN) * v) \div b
  BY DEF Carried
<1> HIDE DEF b
<1> DEFINE r == (act * FanN) * w
<1>5. r \in Nat /\ (w = 0 => r = 0) /\ Carried(act, w, mass) = r \div b
  BY <1>3, <1>4, TimesFacts
<1> HIDE DEF r
<1>6. Carried(act, w, mass) \in Nat /\ (w = 0 => Carried(act, w, mass) = 0)
  BY <1>2, <1>5, DivFacts
<1>7. ASSUME NEW a \in Nat, NEW v \in Nat, a <= act, v <= w PROVE Carried(a, v, mass) <= Carried(act, w, mass)
  <2> DEFINE p == a * FanN
             q == act * FanN
  <2>1. p \in Nat /\ q \in Nat /\ p <= q
    BY <1>1, <1>3, <1>7, TimesGrows
  <2>2. Carried(a, v, mass) = (p * v) \div b /\ Carried(act, w, mass) = (q * w) \div b
    BY <1>4
  <2> HIDE DEF p, q
  <2> DEFINE x == p * v
             y == q * v
             z == q * w
  <2>3. x \in Nat /\ y \in Nat /\ z \in Nat
    BY <2>1, TimesFacts
  <2>4. x <= y /\ y <= z
    BY <1>7, <2>1, TimesGrows
  <2> HIDE DEF x, y, z
  <2>5. x <= z
    BY <2>3, <2>4
  <2>6. x \div b <= z \div b
    BY <1>2, <2>3, <2>5, DivGrows
  <2> QED
    BY <2>2, <2>6 DEF x, z
<1> QED
  BY <1>6, <1>7

-----------------------------------------------------------------------------
(* A node fires.                                                           *)

FireFold(c, s, u, weight, visible) ==
  c = [x \in SUBSET Out(u, visible) |->
         IF x = {} THEN s
         ELSE LET m == Max(x) IN Deliver(c[x \ {m}], m, Carried(s.act[u], weight[m], Leaving(u, weight, visible)))]

LEMMA FireIs ==
  ASSUME NEW s, NEW u, NEW weight, NEW visible
  PROVE Fire(s, u, weight, visible) =
          IF s.act[u] <= 0 \/ Leaving(u, weight, visible) <= 0 THEN s
          ELSE (CHOOSE c : FireFold(c, s, u, weight, visible))[Out(u, visible)]
BY DEF Fire, MapThenFoldSet, FireFold

LEMMA OutFacts ==
  ASSUME NEW weight, NEW visible, Weighs(weight, visible), NEW u
  PROVE /\ Out(u, visible) \in SUBSET EdgeIds /\ IsFiniteSet(Out(u, visible))
        /\ \A i \in Out(u, visible) : i \in visible /\ Source(i) = u /\ weight[i] \in Nat
        /\ Leaving(u, weight, visible) \in Nat
        /\ \A i \in Out(u, visible) : weight[i] <= Leaving(u, weight, visible)
<1>1. Out(u, visible) \in SUBSET EdgeIds
  BY DEF Out, Weighs
<1>2. IsFiniteSet(Out(u, visible))
  BY <1>1, EdgeTypes, FS_Subset
<1>3. \A i \in Out(u, visible) : i \in visible /\ Source(i) = u /\ weight[i] \in Nat
  BY DEF Out, Source, Weighs
<1>4. Leaving(u, weight, visible) = SumOf(weight, Out(u, visible))
  BY DEF Leaving
<1> QED
  BY <1>1, <1>2, <1>3, <1>4, SumNat

LEMMA FireRuns ==
  ASSUME NEW weight, NEW visible, Weighs(weight, visible),
         NEW s \in Spreads(weight, visible), NEW u \in Nodes, s.act[u] > 0, Leaving(u, weight, visible) > 0
  PROVE \E c : FireFold(c, s, u, weight, visible) /\ Fire(s, u, weight, visible) = c[Out(u, visible)]
<1> DEFINE State == Spreads(weight, visible)
           D == Out(u, visible)
           mass == Leaving(u, weight, visible)
           dv(i) == Carried(s.act[u], weight[i], mass)
           F == [p \in State \X D |-> Deliver(p[1], p[2], dv(p[2]))]
           seq == [i \in 1 .. Len(EdgeTable) |-> i]
           n == Len(EdgeTable)
<1>1. n \in Nat /\ D \in SUBSET (1 .. n) /\ \A i \in D : seq[i] = i
  BY EdgeTypes, OutFacts DEF EdgeIds
<1>2. ASSUME NEW t \in State, NEW i \in D PROVE Deliver(t, i, dv(i)) \in State
  <2>1. s.act[u] \in Nat /\ mass \in Nat /\ weight[i] \in Nat
    BY OutFacts DEF Spreads
  <2>2. dv(i) \in Nat /\ (dv(i) > 0 => weight[i] > 0)
    <3> DEFINE a == s.act[u]
               w == weight[i]
    <3>1. a \in Nat /\ w \in Nat /\ mass \in Nat
      BY <2>1
    <3> HIDE DEF a, w, mass
    <3>2. Carried(a, w, mass) \in Nat /\ (w = 0 => Carried(a, w, mass) = 0)
      BY <3>1, CarriedFacts
    <3>3. Carried(a, w, mass) > 0 => w > 0
      BY <3>1, <3>2
    <3> QED
      BY <3>2, <3>3 DEF a, w
  <2> QED
    BY <2>2, DeliverSpreads, OutFacts
<1>3. F \in [State \X D -> State]
  BY <1>2
<1> HIDE DEF seq, n
<1>4. \A i \in D : seq[i] \in D
  BY <1>1
<1>5. PICK f \in [SUBSET D -> State] : IsFold(f, F, s, seq, D)
  <2>1. CanFold(State, D, s, F, n, seq, D)
    <3>1. s \in State
      OBVIOUS
    <3> HIDE DEF F, State, D
    <3> QED
      BY <1>1, <1>3, <1>4, <3>1 DEF CanFold
  <2> HIDE DEF F, State, D
  <2> QED
    BY <2>1, FoldExists DEF CanBeFolded
<1>6. ASSUME NEW x \in SUBSET D
      PROVE f[x] = IF x = {} THEN s ELSE LET m == Max(x) IN Deliver(f[x \ {m}], m, dv(m))
  <2>1. CASE x = {}
    BY <1>5, <2>1 DEF IsFold
  <2>2. CASE x # {}
    <3> DEFINE m == Max(x)
    <3>1. m \in x
      <4>1. x \in SUBSET (1 .. n)
        BY <1>1
      <4> QED
        BY <1>1, <2>2, <4>1, Greatest
    <3>2. f[x] = F[<<f[x \ {m}], seq[m]>>]
      BY <1>5, <2>2 DEF IsFold
    <3> HIDE DEF m
    <3>3. f[x \ {m}] \in State /\ m \in D /\ seq[m] = m
      BY <1>1, <1>5, <3>1
    <3>4. F[<<f[x \ {m}], m>>] = Deliver(f[x \ {m}], m, dv(m))
      BY <3>3
    <3> QED
      BY <2>2, <3>2, <3>3, <3>4 DEF m
  <2> QED
    BY <2>1, <2>2
<1>7. f = [x \in SUBSET D |-> f[x]]
  BY <1>5
<1>8. FireFold(f, s, u, weight, visible)
  BY <1>6, <1>7, Zenon DEF FireFold
<1> DEFINE c == CHOOSE c : FireFold(c, s, u, weight, visible)
<1>9. FireFold(c, s, u, weight, visible)
  BY <1>8, Zenon
<1>10. Fire(s, u, weight, visible) = c[Out(u, visible)]
  <2>1. s.act[u] \in Nat /\ mass \in Nat
    BY OutFacts DEF Spreads
  <2>2. ~(s.act[u] <= 0 \/ mass <= 0)
    BY <2>1
  <2> QED
    BY <2>2, FireIs
<1> QED
  BY <1>9, <1>10

\* One step of it.
LEMMA FireStep ==
  ASSUME NEW weight, NEW visible, Weighs(weight, visible),
         NEW s \in Spreads(weight, visible), NEW u \in Nodes, NEW c, FireFold(c, s, u, weight, visible),
         NEW x \in SUBSET Out(u, visible), x # {}
  PROVE \E m \in x : \E delta \in Nat :
          /\ delta = Carried(s.act[u], weight[m], Leaving(u, weight, visible)) /\ (delta > 0 => weight[m] > 0)
          /\ m \in visible /\ c[x] = Deliver(c[x \ {m}], m, delta)
<1> DEFINE m == Max(x)
           a == s.act[u]
           w == weight[m]
           mass == Leaving(u, weight, visible)
<1>1. Len(EdgeTable) \in Nat /\ x \in SUBSET (1 .. Len(EdgeTable))
  BY EdgeTypes, OutFacts DEF EdgeIds
<1>2. m \in x
  BY <1>1, Greatest
<1>3. c[x] = Deliver(c[x \ {m}], m, Carried(a, w, mass))
  BY DEF FireFold
<1>4. a \in Nat /\ mass \in Nat /\ w \in Nat /\ m \in visible
  BY <1>2, OutFacts DEF Spreads
<1> HIDE DEF m, a, w, mass
<1>5. Carried(a, w, mass) \in Nat /\ (w = 0 => Carried(a, w, mass) = 0)
  BY <1>4, CarriedFacts
<1>6. Carried(a, w, mass) > 0 => w > 0
  BY <1>4, <1>5
<1> QED
  BY <1>2, <1>3, <1>4, <1>5, <1>6 DEF a, w, mass

LEMMA GrowsOn ==
  ASSUME NEW weight, NEW visible, NEW s \in Spreads(weight, visible), NEW t \in Spreads(weight, visible),
         NEW r \in Spreads(weight, visible), Grows(s, t), Grows(t, r)
  PROVE /\ Grows(s, r)
        /\ \A i : HasFired(s, i) => HasFired(t, i)
<1>1. /\ DOMAIN s.fired = 1 .. Len(s.fired) /\ Len(s.fired) \in Nat
      /\ DOMAIN t.fired = 1 .. Len(t.fired) /\ Len(t.fired) \in Nat
      /\ DOMAIN r.fired = 1 .. Len(r.fired) /\ Len(r.fired) \in Nat
  BY LenProperties DEF Spreads
<1>2. \A n \in Nodes : s.act[n] \in Nat /\ t.act[n] \in Nat /\ r.act[n] \in Nat
  BY DEF Spreads
<1>3. DOMAIN s.fired \subseteq DOMAIN t.fired
  BY <1>1 DEF Grows
<1>4. \A n \in Nodes : s.act[n] <= r.act[n]
  BY <1>2 DEF Grows
<1>5. Len(s.fired) <= Len(r.fired)
  BY <1>1 DEF Grows
<1>6. Grows(s, r)
  BY <1>3, <1>4, <1>5 DEF Grows
<1>7. \A i : HasFired(s, i) => HasFired(t, i)
  BY <1>3 DEF Grows, HasFired
<1> QED
  BY <1>6, <1>7

LEMMA GrowsSame ==
  ASSUME NEW weight, NEW visible, NEW s \in Spreads(weight, visible)
  PROVE Grows(s, s)
<1>1. \A n \in Nodes : s.act[n] \in Nat
  BY DEF Spreads
<1>2. Len(s.fired) \in Nat
  BY LenProperties DEF Spreads
<1> QED
  BY <1>1, <1>2 DEF Grows

LEMMA DeliverFires ==
  ASSUME NEW weight, NEW visible, NEW s \in Spreads(weight, visible), NEW i, NEW delta \in Nat,
         delta > Epsilon
  PROVE HasFired(Deliver(s, i, delta), i)
<1> DEFINE t == Deliver(s, i, delta)
           x == [eid |-> i, delta |-> delta]
<1>1. ~(delta <= Epsilon)
  <2>1. Epsilon \in Nat
    BY SpreadAssumption
  <2> QED
    BY <2>1
<1>2. t.fired = Append(s.fired, x)
  BY <1>1 DEF Deliver
<1>3. s.fired \in Seq(Firings(weight, visible) \cup {x}) /\ x \in Firings(weight, visible) \cup {x}
  <2>1. s.fired \in Seq(Firings(weight, visible))
    BY DEF Spreads
  <2>2. Len(s.fired) \in Nat /\ s.fired \in [1 .. Len(s.fired) -> Firings(weight, visible)]
    BY <2>1, LenProperties
  <2>3. s.fired \in [1 .. Len(s.fired) -> Firings(weight, visible) \cup {x}]
    BY <2>2
  <2> QED
    BY <2>2, <2>3, IsASeq
<1> HIDE DEF t, x
<1>4. DOMAIN t.fired = 1 .. Len(s.fired) + 1 /\ Len(s.fired) \in Nat /\ t.fired[Len(s.fired) + 1] = x
  BY <1>2, <1>3, AppendHas
<1>5. x.eid = i
  BY DEF x
<1>6. Len(s.fired) + 1 \in DOMAIN t.fired
  BY <1>4
<1> QED
  BY <1>4, <1>5, <1>6 DEF HasFired, t

LEMMA FireSpreads ==
  ASSUME NEW weight, NEW visible, Weighs(weight, visible),
         NEW s \in Spreads(weight, visible), NEW u \in Nodes
  PROVE /\ Fire(s, u, weight, visible) \in Spreads(weight, visible) /\ Grows(s, Fire(s, u, weight, visible))
        /\ s.act[u] > 0 => \A i \in Out(u, visible) :
             Carried(s.act[u], weight[i], Leaving(u, weight, visible)) > Epsilon
               => HasFired(Fire(s, u, weight, visible), i)
<1> DEFINE State == Spreads(weight, visible)
           D == Out(u, visible)
           mass == Leaving(u, weight, visible)
           dv(i) == Carried(s.act[u], weight[i], mass)
           t == Fire(s, u, weight, visible)
<1>1. s.act[u] \in Nat /\ mass \in Nat /\ Epsilon \in Nat
  BY OutFacts, SpreadAssumption DEF Spreads
<1>2. CASE ~(s.act[u] > 0 /\ mass > 0)
  <2>1. s.act[u] <= 0 \/ mass <= 0
    BY <1>1, <1>2
  <2>2. t = s
    BY <2>1, FireIs
  <2>3. ASSUME s.act[u] > 0, NEW i \in D PROVE ~(dv(i) > Epsilon)
    <3>1. mass = 0 /\ weight[i] \in Nat /\ weight[i] <= mass
      BY <1>1, <2>1, <2>3, OutFacts
    <3>2. weight[i] = 0
      BY <3>1
    <3> DEFINE a == s.act[u]
               w == weight[i]
    <3>3. a \in Nat /\ w \in Nat /\ w = 0
      BY <1>1, <3>1, <3>2
    <3> HIDE DEF a, w, mass
    <3>4. Carried(a, w, mass) = 0
      BY <1>1, <3>3, CarriedFacts
    <3>5. ~(Carried(a, w, mass) > Epsilon)
      BY <1>1, <3>4
    <3> QED
      BY <3>5 DEF a, w
  <2> HIDE DEF t
  <2> QED
    BY <2>2, <2>3, GrowsSame DEF t
<1>3. CASE s.act[u] > 0 /\ mass > 0
  <2>1. PICK c : FireFold(c, s, u, weight, visible) /\ t = c[D]
    BY <1>3, FireRuns
  <2> DEFINE G == {x \in SUBSET D : /\ c[x] \in State /\ Grows(s, c[x])
                                    /\ \A i \in x : dv(i) > Epsilon => HasFired(c[x], i)}
  <2> HIDE DEF dv, t
  <2>2. {} \in G
    <3>1. c[{}] = s
      BY <2>1 DEF FireFold
    <3> QED
      BY <3>1, GrowsSame
  <2>3. ASSUME NEW x \in SUBSET D, x # {}, \A i \in x : x \ {i} \in G PROVE x \in G
    <3>1. PICK m \in x : \E delta \in Nat :
            /\ delta = dv(m) /\ (delta > 0 => weight[m] > 0)
            /\ m \in visible /\ c[x] = Deliver(c[x \ {m}], m, delta)
      BY <2>1, <2>3, FireStep DEF dv
    <3> DEFINE r == c[x \ {m}]
    <3>2. /\ dv(m) \in Nat /\ (dv(m) > 0 => weight[m] > 0)
          /\ m \in visible /\ c[x] = Deliver(r, m, dv(m))
      BY <3>1
    <3>3. r \in State /\ Grows(s, r) /\ \A i \in x \ {m} : dv(i) > Epsilon => HasFired(r, i)
      BY <2>3
    <3> HIDE DEF r
    <3>4. c[x] \in State /\ Grows(r, c[x])
      BY <3>2, <3>3, DeliverSpreads
    <3>5. Grows(s, c[x]) /\ \A i : HasFired(r, i) => HasFired(c[x], i)
      <4>1. s \in State
        OBVIOUS
      <4> HIDE DEF State
      <4>2. Grows(s, c[x])
        BY <3>3, <3>4, <4>1, GrowsOn DEF State
      <4>3. \A i : HasFired(r, i) => HasFired(c[x], i)
        BY <3>3, <3>4, <4>1, GrowsOn, GrowsSame DEF State
      <4> QED
        BY <4>2, <4>3
    <3>6. dv(m) > Epsilon => HasFired(c[x], m)
      BY <3>2, <3>3, DeliverFires
    <3> QED
      BY <3>3, <3>4, <3>5, <3>6
  <2>4. G = SUBSET D
    <3>1. IsFiniteSet(D) /\ G \in SUBSET SUBSET D
      BY OutFacts
    <3> HIDE DEF G, D
    <3> QED
      BY <2>2, <2>3, <3>1, SubsetInduction
  <2>5. D \in G
    BY <2>4
  <2> QED
    BY <2>1, <2>5 DEF dv, t
<1> QED
  BY <1>2, <1>3

LEMMA FireWaits ==
  ASSUME NEW weight, NEW visible, Weighs(weight, visible),
         NEW s \in Spreads(weight, visible), NEW u \in Nodes,
         NEW R \in SUBSET Nodes, u \notin R, NEW done \in SUBSET EdgeIds, Waits(s, R \cup {u}, done)
  PROVE Waits(Fire(s, u, weight, visible), R, done \cup Out(u, visible))
<1> DEFINE State == Spreads(weight, visible)
           D == Out(u, visible)
           mass == Leaving(u, weight, visible)
           t == Fire(s, u, weight, visible)
<1>1. s.act[u] \in Nat /\ mass \in Nat /\ s.act[u] > 0
  BY OutFacts DEF Spreads, Waits
<1>2. /\ \A n \in R : s.act[n] > 0
      /\ \A k \in DOMAIN s.next : s.act[s.next[k]] > 0 /\ s.next[k] \notin R /\ s.next[k] # u
      /\ IsInjective(s.next)
      /\ \A i \in done : s.act[Source(i)] > 0 /\ Source(i) \notin R /\ Source(i) # u /\ \A k \in DOMAIN s.next : s.next[k] # Source(i)
      /\ Once(s.fired) /\ \A k \in DOMAIN s.fired : s.fired[k].eid \in done
  BY DEF Waits
<1>3. \A i \in D : Source(i) = u /\ i \in EdgeIds /\ i \notin done
  BY <1>2, OutFacts
<1>4. CASE ~(mass > 0)
  <2>1. mass <= 0
    BY <1>1, <1>4
  <2>2. t = s
    BY <2>1, FireIs
  <2> HIDE DEF t, D
  <2>3. Waits(s, R, done \cup D)
    BY <1>1, <1>2, <1>3 DEF Waits
  <2> QED
    BY <2>2, <2>3 DEF t, D
<1>5. CASE mass > 0
  <2>1. PICK c : FireFold(c, s, u, weight, visible) /\ t = c[D]
    BY <1>1, <1>5, FireRuns
  <2> DEFINE G == {x \in SUBSET D : /\ c[x] \in State /\ Grows(s, c[x]) /\ Waits(c[x], R, done \cup x)
                                    /\ \A k \in DOMAIN c[x].next : c[x].next[k] # u}
  <2> HIDE DEF t
  <2>2. {} \in G
    <3>1. c[{}] = s
      BY <2>1 DEF FireFold
    <3>2. Waits(s, R, done \cup {})
      BY <1>2 DEF Waits
    <3> QED
      BY <1>2, <3>1, <3>2, GrowsSame
  <2>3. ASSUME NEW x \in SUBSET D, x # {}, \A i \in x : x \ {i} \in G PROVE x \in G
    <3>1. PICK m \in x : \E delta \in Nat :
            /\ delta = Carried(s.act[u], weight[m], mass) /\ (delta > 0 => weight[m] > 0)
            /\ m \in visible /\ c[x] = Deliver(c[x \ {m}], m, delta)
      BY <2>1, <2>3, FireStep
    <3>2. PICK delta \in Nat : (delta > 0 => weight[m] > 0) /\ m \in visible /\ c[x] = Deliver(c[x \ {m}], m, delta)
      BY <3>1
    <3> DEFINE r == c[x \ {m}]
               had == done \cup (x \ {m})
    <3>3. r \in State /\ Grows(s, r) /\ Waits(r, R, had) /\ \A k \in DOMAIN r.next : r.next[k] # u
      BY <2>3
    <3>4. c[x] = Deliver(r, m, delta)
      BY <3>2
    <3>5. Source(m) = u /\ m \notin had /\ had \cup {m} = done \cup x /\ had \in SUBSET EdgeIds
      BY <1>3
    <3> HIDE DEF r, had, D
    <3>6. r.act[u] > 0
      <4>1. s.act[u] \in Nat /\ r.act[u] \in Nat /\ s.act[u] <= r.act[u]
        BY <3>3 DEF Spreads, Grows
      <4> QED
        BY <1>1, <4>1
    <3>7. c[x] \in State /\ Grows(r, c[x])
      BY <3>2, <3>3, <3>4, DeliverSpreads
    <3>8. Waits(c[x], R, done \cup x)
      <4>1. Waits(Deliver(r, m, delta), R, had \cup {m})
        BY <3>2, <3>3, <3>5, <3>6, DeliverWaits
      <4> QED
        BY <3>4, <3>5, <4>1
    <3>9. Grows(s, c[x])
      <4>1. s \in State
        OBVIOUS
      <4> HIDE DEF State
      <4> QED
        BY <3>3, <3>7, <4>1, GrowsOn DEF State
    <3>10. \A k \in DOMAIN c[x].next : c[x].next[k] # u
      BY <3>5, <3>8 DEF Waits
    <3> QED
      BY <2>3, <3>7, <3>8, <3>9, <3>10
  <2>4. G = SUBSET D
    <3>1. IsFiniteSet(D) /\ G \in SUBSET SUBSET D
      BY OutFacts
    <3> HIDE DEF G, D
    <3> QED
      BY <2>2, <2>3, <3>1, SubsetInduction
  <2>5. D \in G
    BY <2>4
  <2> QED
    BY <2>1, <2>5 DEF t
<1> QED
  BY <1>4, <1>5


-----------------------------------------------------------------------------
(* A hop.                                                                  *)

LEMMA UpTo ==
  ASSUME NEW k \in Nat, NEW x, x = 1 .. k + 1
  PROVE x # {} /\ Max(x) = k + 1 /\ x \ {k + 1} = 1 .. k
<1>1. Max(x) = k + 1
  <2>1. x \subseteq Int /\ k + 1 \in Int /\ k + 1 \in x /\ \A m \in x : m <= k + 1
    OBVIOUS
  <2> QED
    BY <2>1, MaxIs
<1>2. x # {}
  OBVIOUS
<1>3. x \ {k + 1} = 1 .. k
  <2>1. ASSUME NEW m \in x \ {k + 1} PROVE m \in 1 .. k
    OBVIOUS
  <2>2. ASSUME NEW m \in 1 .. k PROVE m \in x \ {k + 1}
    OBVIOUS
  <2> QED
    BY <2>1, <2>2
<1> QED
  BY <1>1, <1>2, <1>3

Cleared(s) == [s EXCEPT !.next = <<>>]
Advanced(t) == [t EXCEPT !.frontier = t.next]

HopFold(c, s, weight, visible) ==
  c = [x \in SUBSET DOMAIN s.frontier |->
         IF x = {} THEN Cleared(s)
         ELSE LET m == Max(x) IN Fire(c[x \ {m}], s.frontier[m], weight, visible)]

LEMMA HopIs ==
  ASSUME NEW s, NEW weight, NEW visible
  PROVE Hop(s, weight, visible) = Advanced((CHOOSE c : HopFold(c, s, weight, visible))[DOMAIN s.frontier])
BY DEF Hop, FoldLeft, MapThenFoldSet, HopFold, Cleared, Advanced

LEMMA ClearedFacts ==
  ASSUME NEW weight, NEW visible, NEW s \in Spreads(weight, visible)
  PROVE /\ Cleared(s) \in Spreads(weight, visible) /\ Advanced(s) \in Spreads(weight, visible)
        /\ Cleared(s).next = <<>> /\ Cleared(s).act = s.act /\ Cleared(s).fired = s.fired
        /\ Cleared(s).frontier = s.frontier
        /\ Advanced(s).frontier = s.next /\ Advanced(s).act = s.act /\ Advanced(s).fired = s.fired
        /\ Advanced(s).incoming = s.incoming
<1>1. s \in [act : [Nodes -> Nat], incoming : [Nodes -> Nat], fired : Seq(Firings(weight, visible)),
             frontier : Seq(Nodes), next : Seq(Nodes)]
  BY DEF Spreads
<1>2. <<>> \in Seq(Nodes) /\ s.next \in Seq(Nodes)
  BY <1>1
<1>3. /\ Cleared(s).next = <<>> /\ Cleared(s).act = s.act /\ Cleared(s).fired = s.fired
      /\ Cleared(s).frontier = s.frontier /\ Cleared(s).incoming = s.incoming
  BY <1>1 DEF Cleared
<1>4. /\ Advanced(s).frontier = s.next /\ Advanced(s).act = s.act /\ Advanced(s).fired = s.fired
      /\ Advanced(s).incoming = s.incoming
  BY <1>1 DEF Advanced
<1>5. Cleared(s) \in [act : [Nodes -> Nat], incoming : [Nodes -> Nat], fired : Seq(Firings(weight, visible)),
             frontier : Seq(Nodes), next : Seq(Nodes)]
  BY <1>1, <1>2 DEF Cleared
<1>6. Advanced(s) \in [act : [Nodes -> Nat], incoming : [Nodes -> Nat], fired : Seq(Firings(weight, visible)),
             frontier : Seq(Nodes), next : Seq(Nodes)]
  BY <1>1, <1>2 DEF Advanced
<1> QED
  BY <1>3, <1>4, <1>5, <1>6 DEF Spreads

\* The states of a hop, one by one.
Chain(a, s, weight, visible) ==
  /\ a[0] = Cleared(s)
  /\ \A k \in Nat : k < Len(s.frontier) => a[k + 1] = Fire(a[k], s.frontier[k + 1], weight, visible)
  /\ Hop(s, weight, visible) = Advanced(a[Len(s.frontier)])

LEMMA HopRuns ==
  ASSUME NEW weight, NEW visible, Weighs(weight, visible), NEW s \in Spreads(weight, visible)
  PROVE \E a : Chain(a, s, weight, visible)
<1> DEFINE State == Spreads(weight, visible)
           n == Len(s.frontier)
           D == DOMAIN s.frontier
           F == [p \in State \X Nodes |-> Fire(p[1], p[2], weight, visible)]
<1>1. n \in Nat /\ D = 1 .. n /\ \A i \in D : s.frontier[i] \in Nodes
  <2>1. s.frontier \in Seq(Nodes)
    BY DEF Spreads
  <2> QED
    BY <2>1, LenProperties, ElementOfSeq
<1>2. F \in [State \X Nodes -> State]
  BY FireSpreads
<1>3. PICK f \in [SUBSET D -> State] : IsFold(f, F, Cleared(s), s.frontier, D)
  <2>1. CanFold(State, Nodes, Cleared(s), F, n, s.frontier, D)
    <3>1. Cleared(s) \in State
      BY ClearedFacts
    <3> HIDE DEF F, State, D, n
    <3> QED
      BY <1>1, <1>2, <3>1 DEF CanFold
  <2> HIDE DEF F, State, D
  <2> QED
    BY <2>1, FoldExists DEF CanBeFolded
<1>4. ASSUME NEW x \in SUBSET D
      PROVE f[x] = IF x = {} THEN Cleared(s) ELSE LET m == Max(x) IN Fire(f[x \ {m}], s.frontier[m], weight, visible)
  <2>1. CASE x = {}
    BY <1>3, <2>1 DEF IsFold
  <2>2. CASE x # {}
    <3> DEFINE m == Max(x)
    <3>1. m \in x
      BY <1>1, <2>2, Greatest
    <3>2. f[x] = F[<<f[x \ {m}], s.frontier[m]>>]
      BY <1>3, <2>2 DEF IsFold
    <3> HIDE DEF m
    <3>3. f[x \ {m}] \in State /\ s.frontier[m] \in Nodes
      BY <1>1, <1>3, <3>1
    <3>4. F[<<f[x \ {m}], s.frontier[m]>>] = Fire(f[x \ {m}], s.frontier[m], weight, visible)
      BY <3>3
    <3> QED
      BY <2>2, <3>2, <3>4 DEF m
  <2> QED
    BY <2>1, <2>2
<1>5. f = [x \in SUBSET D |-> f[x]]
  BY <1>3
<1>6. HopFold(f, s, weight, visible)
  BY <1>4, <1>5, Zenon DEF HopFold
<1> DEFINE c == CHOOSE c : HopFold(c, s, weight, visible)
<1>7. HopFold(c, s, weight, visible)
  BY <1>6, Zenon
<1>8. Hop(s, weight, visible) = Advanced(c[D])
  BY HopIs
<1> HIDE DEF c
<1> DEFINE a == [k \in Nat |-> c[1 .. k]]
<1>9. a[0] = Cleared(s)
  <2>1. 1 .. 0 = {} /\ {} \in SUBSET D
    OBVIOUS
  <2>2. c[{}] = Cleared(s)
    BY <1>7, <2>1 DEF HopFold
  <2> QED
    BY <2>1, <2>2
<1>10. ASSUME NEW k \in Nat, k < n PROVE a[k + 1] = Fire(a[k], s.frontier[k + 1], weight, visible)
  <2> DEFINE x == 1 .. k + 1
  <2>1. x \in SUBSET D /\ k + 1 \in Nat
    BY <1>1, <1>10
  <2>2. x = 1 .. k + 1
    OBVIOUS
  <2> HIDE DEF x
  <2>a. x # {} /\ Max(x) = k + 1 /\ x \ {k + 1} = 1 .. k
    BY <2>2, UpTo
  <2>3. c[x] = Fire(c[x \ {Max(x)}], s.frontier[Max(x)], weight, visible)
    BY <1>7, <2>1, <2>a DEF HopFold
  <2>4. c[x] = Fire(c[1 .. k], s.frontier[k + 1], weight, visible)
    BY <2>a, <2>3
  <2> QED
    BY <2>1, <2>4 DEF x
<1>11. c[D] = a[n]
  BY <1>1
<1> HIDE DEF a
<1> QED
  BY <1>8, <1>9, <1>10, <1>11 DEF Chain

\* What leaves u with the activation act and carries enough has fired.
Leaves(t, u, act, weight, visible) ==
  act > 0 => \A i \in Out(u, visible) :
    Carried(act, weight[i], Leaving(u, weight, visible)) > Epsilon => HasFired(t, i)

LEMMA LeavesMore ==
  ASSUME NEW weight, NEW visible, Weighs(weight, visible), NEW t, NEW u,
         NEW a \in Nat, NEW b \in Nat, a <= b, Leaves(t, u, b, weight, visible)
  PROVE Leaves(t, u, a, weight, visible)
<1> SUFFICES ASSUME a > 0, NEW i \in Out(u, visible), Carried(a, weight[i], Leaving(u, weight, visible)) > Epsilon
             PROVE HasFired(t, i)
  BY DEF Leaves
<1> DEFINE w == weight[i]
           mass == Leaving(u, weight, visible)
<1>1. w \in Nat /\ mass \in Nat /\ Epsilon \in Nat
  BY OutFacts, SpreadAssumption
<1>2. Carried(a, w, mass) > Epsilon
  OBVIOUS
<1> HIDE DEF w, mass
<1>3. Carried(a, w, mass) \in Nat /\ Carried(b, w, mass) \in Nat /\ Carried(a, w, mass) <= Carried(b, w, mass)
  <2>1. w <= w
    BY <1>1
  <2> QED
    BY <1>1, <2>1, CarriedFacts
<1>4. b > 0 /\ Carried(b, w, mass) > Epsilon
  BY <1>1, <1>2, <1>3
<1> QED
  BY <1>4 DEF Leaves, w, mass

LEMMA HopSpreads ==
  ASSUME NEW weight, NEW visible, Weighs(weight, visible), NEW s \in Spreads(weight, visible)
  PROVE /\ Hop(s, weight, visible) \in Spreads(weight, visible)
        /\ \A i : HasFired(s, i) => HasFired(Hop(s, weight, visible), i)
        /\ \A j \in DOMAIN s.frontier :
             Leaves(Hop(s, weight, visible), s.frontier[j], s.act[s.frontier[j]], weight, visible)
<1> DEFINE State == Spreads(weight, visible)
           n == Len(s.frontier)
           h == Hop(s, weight, visible)
           b == Cleared(s)
           L(t, j) == Leaves(t, s.frontier[j], s.act[s.frontier[j]], weight, visible)
<1>1. n \in Nat /\ DOMAIN s.frontier = 1 .. n /\ \A i \in 1 .. n : s.frontier[i] \in Nodes
  <2>1. s.frontier \in Seq(Nodes)
    BY DEF Spreads
  <2> QED
    BY <2>1, LenProperties, ElementOfSeq
<1>2. b \in State /\ b.act = s.act /\ b.fired = s.fired
  BY ClearedFacts
<1>3. PICK a : Chain(a, s, weight, visible)
  BY HopRuns
<1>4. /\ a[0] = b /\ h = Advanced(a[n])
      /\ \A k \in Nat : k < n => a[k + 1] = Fire(a[k], s.frontier[k + 1], weight, visible)
  BY <1>3 DEF Chain
<1> HIDE DEF n, h, b, L
<1> DEFINE P(k) == a[k] \in State /\ Grows(b, a[k]) /\ \A j \in 1 .. k : L(a[k], j)
           K == {k \in Nat : k <= n => P(k)}
<1>5. 0 \in K
  BY <1>1, <1>2, <1>4, GrowsSame
<1>6. ASSUME NEW k \in K PROVE k + 1 \in K
  <2>1. SUFFICES ASSUME k + 1 <= n PROVE P(k + 1)
    OBVIOUS
  <2> DEFINE u == s.frontier[k + 1]
             t == a[k]
             r == a[k + 1]
  <2>2. k \in Nat /\ k < n /\ k <= n /\ k + 1 \in 1 .. n
    BY <1>1, <2>1
  <2>3. P(k)
    BY <2>2
  <2>4. t \in State /\ Grows(b, t) /\ \A j \in 1 .. k : L(t, j)
    BY <2>3
  <2>5. u \in Nodes /\ r = Fire(t, u, weight, visible)
    BY <1>1, <1>4, <2>2
  <2> HIDE DEF t, r, u, P
  <2>6. r \in State /\ Grows(t, r) /\ Leaves(r, u, t.act[u], weight, visible)
    BY <2>4, <2>5, FireSpreads DEF Leaves
  <2>7. Grows(b, r) /\ \A i : HasFired(t, i) => HasFired(r, i)
    <3> HIDE DEF State
    <3>1. Grows(b, r)
      BY <1>2, <2>4, <2>6, GrowsOn DEF State
    <3>2. \A i : HasFired(t, i) => HasFired(r, i)
      BY <2>4, <2>6, GrowsOn, GrowsSame DEF State
    <3> QED
      BY <3>1, <3>2
  <2>8. ASSUME NEW j \in 1 .. k + 1 PROVE L(r, j)
    <3>1. CASE j = k + 1
      <4>1. s.act[u] \in Nat /\ t.act[u] \in Nat /\ s.act[u] <= t.act[u]
        BY <1>2, <2>4, <2>5 DEF Spreads, Grows
      <4> DEFINE x == s.act[u]
                 y == t.act[u]
      <4> HIDE DEF x, y
      <4>2. Leaves(r, u, x, weight, visible)
        BY <2>6, <4>1, LeavesMore DEF x, y
      <4> QED
        BY <3>1, <4>2 DEF L, u, x
    <3>2. CASE j # k + 1
      <4>1. j \in 1 .. k
        BY <2>2, <3>2
      <4>2. L(t, j)
        BY <2>4, <4>1
      <4> QED
        BY <2>7, <4>2 DEF L, Leaves
    <3> QED
      BY <3>1, <3>2
  <2> QED
    BY <2>6, <2>7, <2>8 DEF P, r
<1>7. K = Nat
  <2>1. K \in SUBSET Nat
    OBVIOUS
  <2> HIDE DEF K
  <2> QED
    BY <1>5, <1>6, <2>1, Induction
<1>8. P(n)
  BY <1>1, <1>7
<1> HIDE DEF P, K
<1> DEFINE e == a[n]
<1>9. e \in State /\ Grows(b, e) /\ \A j \in 1 .. n : L(e, j)
  BY <1>8 DEF P
<1> HIDE DEF e
<1>10. h = Advanced(e) /\ h \in State /\ h.fired = e.fired
  BY <1>4, <1>9, ClearedFacts DEF e
<1>11. \A i : HasFired(e, i) => HasFired(h, i)
  BY <1>10 DEF HasFired
<1>12. \A i : HasFired(s, i) => HasFired(b, i)
  BY <1>2 DEF HasFired
<1>13. \A i : HasFired(b, i) => HasFired(e, i)
  <2> HIDE DEF State
  <2> QED
    BY <1>2, <1>9, GrowsOn, GrowsSame DEF State
<1>14. ASSUME NEW j \in 1 .. n PROVE L(h, j)
  BY <1>9, <1>11 DEF L, Leaves
<1> QED
  BY <1>1, <1>10, <1>11, <1>12, <1>13, <1>14 DEF h, L

\* Between two hops.
HopWaits(s, done) == IsInjective(s.frontier) /\ Waits(Cleared(s), ToSet(s.frontier), done)
NoneTwice(s) == \E done \in SUBSET EdgeIds : HopWaits(s, done)

LEMMA HopOnce ==
  ASSUME NEW weight, NEW visible, Weighs(weight, visible), NEW s \in Spreads(weight, visible), NoneTwice(s)
  PROVE NoneTwice(Hop(s, weight, visible))
<1> DEFINE State == Spreads(weight, visible)
           n == Len(s.frontier)
           h == Hop(s, weight, visible)
           b == Cleared(s)
           Rest(k) == {s.frontier[j] : j \in k + 1 .. n}
<1>1. n \in Nat /\ DOMAIN s.frontier = 1 .. n /\ \A i \in 1 .. n : s.frontier[i] \in Nodes
  <2>1. s.frontier \in Seq(Nodes)
    BY DEF Spreads
  <2> QED
    BY <2>1, LenProperties, ElementOfSeq
<1>2. b \in State /\ b.act = s.act /\ b.fired = s.fired
  BY ClearedFacts
<1>3. PICK a : Chain(a, s, weight, visible)
  BY HopRuns
<1>4. /\ a[0] = b /\ h = Advanced(a[n])
      /\ \A k \in Nat : k < n => a[k + 1] = Fire(a[k], s.frontier[k + 1], weight, visible)
  BY <1>3 DEF Chain
<1>5. PICK done \in SUBSET EdgeIds : IsInjective(s.frontier) /\ Waits(b, ToSet(s.frontier), done)
  BY DEF NoneTwice, HopWaits
<1> HIDE DEF n, h, b
<1> DEFINE P(k) == a[k] \in State /\ \E d \in SUBSET EdgeIds : Waits(a[k], Rest(k), d)
           K == {k \in Nat : k <= n => P(k)}
<1>6. 0 \in K
  <2>1. Rest(0) = ToSet(s.frontier)
    BY <1>1 DEF ToSet
  <2> QED
    BY <1>2, <1>4, <1>5, <2>1
<1>7. ASSUME NEW k \in K PROVE k + 1 \in K
  <2>1. SUFFICES ASSUME k + 1 <= n PROVE P(k + 1)
    <3> HIDE DEF P
    <3> QED
      OBVIOUS
  <2> DEFINE u == s.frontier[k + 1]
             t == a[k]
             r == a[k + 1]
             R == Rest(k + 1)
  <2>2. k \in Nat /\ k < n /\ k <= n /\ k + 1 \in 1 .. n
    BY <1>1, <2>1
  <2>3. P(k)
    BY <2>2
  <2>4. PICK d \in SUBSET EdgeIds : t \in State /\ Waits(t, Rest(k), d)
    BY <2>3
  <2>5. u \in Nodes /\ r = Fire(t, u, weight, visible)
    BY <1>1, <1>4, <2>2
  <2>6. Rest(k) = R \cup {u}
    <3>1. k + 1 .. n = (k + 1 + 1 .. n) \cup {k + 1}
      BY <1>1, <2>2
    <3> QED
      BY <3>1
  <2>7. u \notin R
    BY <1>1, <1>5, <2>2 DEF IsInjective
  <2>8. R \in SUBSET Nodes
    BY <1>1, <2>2
  <2> HIDE DEF t, r, u, R, Rest, P
  <2>9. Waits(t, R \cup {u}, d)
    BY <2>4, <2>6
  <2>10. r \in State /\ Waits(r, R, d \cup Out(u, visible))
    BY <2>4, <2>5, <2>7, <2>8, <2>9, FireSpreads, FireWaits
  <2>11. d \cup Out(u, visible) \in SUBSET EdgeIds
    BY OutFacts
  <2> QED
    BY <2>10, <2>11 DEF P, r, R
<1>8. K = Nat
  <2>1. K \in SUBSET Nat
    OBVIOUS
  <2> HIDE DEF K
  <2> QED
    BY <1>6, <1>7, <2>1, Induction
<1>9. P(n)
  <2> HIDE DEF P
  <2> QED
    BY <1>1, <1>8
<1> DEFINE e == a[n]
<1>10. PICK d \in SUBSET EdgeIds : e \in State /\ Waits(e, {}, d)
  <2>1. Rest(n) = {}
    BY <1>1
  <2> QED
    BY <1>9, <2>1
<1> HIDE DEF P, K, Rest, e
<1>11. h = Advanced(e) /\ h \in State /\ h.fired = e.fired /\ h.act = e.act /\ h.frontier = e.next
  BY <1>4, <1>10, ClearedFacts DEF e
<1>12. Cleared(h).next = <<>> /\ Cleared(h).act = e.act /\ Cleared(h).fired = e.fired
  BY <1>11, ClearedFacts
<1>13. IsInjective(h.frontier)
  BY <1>10, <1>11 DEF Waits
<1>14. Waits(Cleared(h), ToSet(h.frontier), d)
  <2>1. DOMAIN <<>> = {}
    OBVIOUS
  <2>2. IsInjective(<<>>)
    BY DEF IsInjective
  <2>3. \A x \in ToSet(h.frontier) : \E k \in DOMAIN e.next : x = e.next[k]
    BY <1>11 DEF ToSet
  <2> QED
    BY <1>10, <1>12, <2>1, <2>2, <2>3 DEF Waits
<1> QED
  BY <1>13, <1>14 DEF NoneTwice, HopWaits, h


-----------------------------------------------------------------------------
(* All hops.                                                               *)

Seeded(seeds) ==
  [act |-> [n \in Nodes |-> IF n \in ToSet(seeds) THEN Full ELSE 0],
   incoming |-> Nothing, fired |-> <<>>, frontier |-> seeds, next |-> <<>>]

LEMMA SeededFacts ==
  ASSUME NEW weight, NEW visible, NEW seeds \in Seq(Nodes)
  PROVE /\ Seeded(seeds) \in Spreads(weight, visible)
        /\ \A j \in DOMAIN seeds : seeds[j] \in Nodes /\ Seeded(seeds).act[seeds[j]] = Full
        /\ IsInjective(seeds) => NoneTwice(Seeded(seeds))
<1> DEFINE s == Seeded(seeds)
           act == [n \in Nodes |-> IF n \in ToSet(seeds) THEN Full ELSE 0]
<1>1. Full \in Nat /\ Full > 0
  <2>1. Full \in Nat \ {0}
    BY SpreadAssumption
  <2> QED
    BY <2>1
<1>2. \A j \in DOMAIN seeds : seeds[j] \in Nodes /\ seeds[j] \in ToSet(seeds)
  BY ElementOfSeq, LenProperties DEF ToSet
<1>3. s = [act |-> act, incoming |-> Nothing, fired |-> <<>>, frontier |-> seeds, next |-> <<>>]
  BY DEF Seeded
<1>4. act \in [Nodes -> Nat] /\ \A n \in ToSet(seeds) : n \in Nodes => act[n] = Full
  BY <1>1
<1>5. Nothing \in [Nodes -> Nat]
  BY DEF Nothing
<1>6. <<>> \in Seq(Firings(weight, visible)) /\ <<>> \in Seq(Nodes) /\ DOMAIN <<>> = {}
  OBVIOUS
<1> HIDE DEF act, s
<1>7. s \in [act : [Nodes -> Nat], incoming : [Nodes -> Nat], fired : Seq(Firings(weight, visible)),
             frontier : Seq(Nodes), next : Seq(Nodes)]
  BY <1>3, <1>4, <1>5, <1>6
<1>8. s.act = act /\ s.fired = <<>> /\ s.frontier = seeds /\ s.next = <<>>
  BY <1>3
<1>9. s \in Spreads(weight, visible)
  BY <1>6, <1>7, <1>8 DEF Spreads
<1>10. ASSUME IsInjective(seeds) PROVE NoneTwice(s)
  <2>1. Cleared(s).next = <<>> /\ Cleared(s).act = act /\ Cleared(s).fired = <<>>
    BY <1>8, <1>9, ClearedFacts
  <2>2. IsInjective(<<>>) /\ Once(<<>>)
    BY <1>6 DEF IsInjective, Once
  <2>3. \A x \in ToSet(seeds) : act[x] > 0
    <3>1. \A x \in ToSet(seeds) : \E j \in DOMAIN seeds : x = seeds[j]
      BY DEF ToSet
    <3> QED
      BY <1>1, <1>2, <1>4, <3>1
  <2>4. Waits(Cleared(s), ToSet(seeds), {})
    BY <1>6, <2>1, <2>2, <2>3 DEF Waits
  <2> QED
    BY <1>8, <1>10, <2>4 DEF NoneTwice, HopWaits
<1> QED
  BY <1>2, <1>4, <1>8, <1>9, <1>10 DEF s

HopsFold(c, seeds, weight, visible) ==
  c = [x \in SUBSET DOMAIN [k \in 1 .. Depth |-> k] |->
         IF x = {} THEN Seeded(seeds) ELSE LET m == Max(x) IN Hop(c[x \ {m}], weight, visible)]

LEMMA HopsAre ==
  ASSUME NEW seeds, NEW weight, NEW visible
  PROVE Activated(seeds, weight, visible) =
          (CHOOSE c : HopsFold(c, seeds, weight, visible))[DOMAIN [k \in 1 .. Depth |-> k]]
BY DEF Activated, FoldLeft, MapThenFoldSet, HopsFold, Seeded

Hops(a, seeds, weight, visible) ==
  /\ a[0] = Seeded(seeds)
  /\ \A k \in Nat : k < Depth => a[k + 1] = Hop(a[k], weight, visible)
  /\ Activated(seeds, weight, visible) = a[Depth]

LEMMA HopsRun ==
  ASSUME NEW weight, NEW visible, Weighs(weight, visible), NEW seeds \in Seq(Nodes)
  PROVE \E a : Hops(a, seeds, weight, visible)
<1> DEFINE State == Spreads(weight, visible)
           seq == [k \in 1 .. Depth |-> k]
           D == DOMAIN seq
           F == [p \in State \X D |-> Hop(p[1], weight, visible)]
<1>1. Depth \in Nat /\ D = 1 .. Depth /\ \A i \in D : seq[i] \in D
  BY SpreadAssumption
<1>2. F \in [State \X D -> State]
  BY HopSpreads
<1>3. PICK f \in [SUBSET D -> State] : IsFold(f, F, Seeded(seeds), seq, D)
  <2>1. CanFold(State, D, Seeded(seeds), F, Depth, seq, D)
    <3>1. Seeded(seeds) \in State
      BY SeededFacts
    <3> HIDE DEF F, State, D, seq
    <3> QED
      BY <1>1, <1>2, <3>1 DEF CanFold
  <2> HIDE DEF F, State, D
  <2> QED
    BY <2>1, FoldExists DEF CanBeFolded
<1> HIDE DEF seq
<1>4. ASSUME NEW x \in SUBSET D
      PROVE f[x] = IF x = {} THEN Seeded(seeds) ELSE LET m == Max(x) IN Hop(f[x \ {m}], weight, visible)
  <2>1. CASE x = {}
    BY <1>3, <2>1 DEF IsFold
  <2>2. CASE x # {}
    <3> DEFINE m == Max(x)
    <3>1. m \in x
      BY <1>1, <2>2, Greatest
    <3>2. f[x] = F[<<f[x \ {m}], seq[m]>>]
      BY <1>3, <2>2 DEF IsFold
    <3> HIDE DEF m
    <3>3. f[x \ {m}] \in State /\ seq[m] \in D
      BY <1>1, <1>3, <3>1
    <3>4. F[<<f[x \ {m}], seq[m]>>] = Hop(f[x \ {m}], weight, visible)
      BY <3>3
    <3> QED
      BY <2>2, <3>2, <3>4 DEF m
  <2> QED
    BY <2>1, <2>2
<1>5. f = [x \in SUBSET D |-> f[x]]
  BY <1>3
<1>6. HopsFold(f, seeds, weight, visible)
  BY <1>4, <1>5, Zenon DEF HopsFold, seq
<1> DEFINE c == CHOOSE c : HopsFold(c, seeds, weight, visible)
<1>7. HopsFold(c, seeds, weight, visible)
  BY <1>6, Zenon
<1>8. Activated(seeds, weight, visible) = c[D]
  BY HopsAre DEF seq
<1>a. c = [x \in SUBSET D |-> IF x = {} THEN Seeded(seeds) ELSE LET m == Max(x) IN Hop(c[x \ {m}], weight, visible)]
  BY <1>7, Zenon DEF HopsFold, seq
<1> HIDE DEF c
<1> DEFINE a == [k \in Nat |-> c[1 .. k]]
<1>9. a[0] = Seeded(seeds)
  <2>1. 1 .. 0 = {} /\ {} \in SUBSET D
    OBVIOUS
  <2>2. c[{}] = Seeded(seeds)
    BY <1>a, <2>1
  <2> QED
    BY <2>1, <2>2
<1>10. ASSUME NEW k \in Nat, k < Depth PROVE a[k + 1] = Hop(a[k], weight, visible)
  <2> DEFINE x == 1 .. k + 1
  <2>1. x \in SUBSET D /\ k + 1 \in Nat
    BY <1>1, <1>10
  <2>2. x = 1 .. k + 1
    OBVIOUS
  <2> HIDE DEF x
  <2>3. x # {} /\ Max(x) = k + 1 /\ x \ {k + 1} = 1 .. k
    BY <2>2, UpTo
  <2>4. c[x] = Hop(c[x \ {Max(x)}], weight, visible)
    BY <1>a, <2>1, <2>3
  <2>5. c[x] = Hop(c[1 .. k], weight, visible)
    BY <2>3, <2>4
  <2> QED
    BY <2>1, <2>5 DEF x
<1>11. c[D] = a[Depth]
  BY <1>1
<1> HIDE DEF a
<1> QED
  BY <1>8, <1>9, <1>10, <1>11 DEF Hops

LEMMA ActivatedFacts ==
  ASSUME NEW weight, NEW visible, Weighs(weight, visible), NEW seeds \in Seq(Nodes)
  PROVE LET e == Activated(seeds, weight, visible)
        IN /\ e \in Spreads(weight, visible)
           /\ IsInjective(seeds) => NoneTwice(e)
           /\ Depth > 0 => \A j \in DOMAIN seeds : Leaves(e, seeds[j], Full, weight, visible)
<1> DEFINE State == Spreads(weight, visible)
           e == Activated(seeds, weight, visible)
           L(t) == \A j \in DOMAIN seeds : Leaves(t, seeds[j], Full, weight, visible)
<1>1. PICK a : Hops(a, seeds, weight, visible)
  BY HopsRun
<1>2. /\ a[0] = Seeded(seeds) /\ e = a[Depth]
      /\ \A k \in Nat : k < Depth => a[k + 1] = Hop(a[k], weight, visible)
  BY <1>1 DEF Hops
<1>3. Depth \in Nat
  BY SpreadAssumption
<1> HIDE DEF e, L
<1> DEFINE P(k) == a[k] \in State /\ (IsInjective(seeds) => NoneTwice(a[k])) /\ (k > 0 => L(a[k]))
           K == {k \in Nat : k <= Depth => P(k)}
<1>4. 0 \in K
  BY <1>2, SeededFacts
<1>5. ASSUME NEW k \in K PROVE k + 1 \in K
  <2>1. SUFFICES ASSUME k + 1 <= Depth PROVE P(k + 1)
    OBVIOUS
  <2> DEFINE t == a[k]
             r == a[k + 1]
  <2>2. k \in Nat /\ k < Depth /\ k <= Depth
    BY <1>3, <2>1
  <2>3. P(k)
    BY <2>2
  <2>4. t \in State /\ (IsInjective(seeds) => NoneTwice(t)) /\ (k > 0 => L(t))
    BY <2>3
  <2>5. r = Hop(t, weight, visible)
    BY <1>2, <2>2
  <2>6. k = 0 => t = Seeded(seeds)
    BY <1>2
  <2> HIDE DEF t, r, P
  <2>7. r \in State /\ (IsInjective(seeds) => NoneTwice(r))
    BY <2>4, <2>5, HopSpreads, HopOnce
  <2>8. /\ \A i : HasFired(t, i) => HasFired(r, i)
        /\ \A j \in DOMAIN t.frontier : Leaves(r, t.frontier[j], t.act[t.frontier[j]], weight, visible)
    BY <2>4, <2>5, HopSpreads
  <2>9. L(r)
    <3>1. CASE k = 0
      <4>1. t.frontier = seeds
        BY <2>6, <3>1 DEF Seeded
      <4>2. \A j \in DOMAIN seeds : t.act[seeds[j]] = Full
        BY <2>6, <3>1, SeededFacts
      <4> QED
        BY <2>8, <4>1, <4>2 DEF L
    <3>2. CASE k # 0
      <4>1. L(t)
        BY <2>2, <2>4, <3>2
      <4> QED
        BY <2>8, <4>1 DEF L, Leaves
    <3> QED
      BY <3>1, <3>2
  <2> QED
    BY <2>7, <2>9 DEF P, r
<1>6. K = Nat
  <2>1. K \in SUBSET Nat
    OBVIOUS
  <2> HIDE DEF K
  <2> QED
    BY <1>4, <1>5, <2>1, Induction
<1>7. P(Depth)
  <2> HIDE DEF P
  <2> QED
    BY <1>3, <1>6
<1> QED
  BY <1>2, <1>7 DEF e, L


-----------------------------------------------------------------------------
(* The trace.                                                              *)

Surfaced == [node : Nodes, act : Nat \ {0}]
IsTrace(tr) ==
  /\ tr.fired \in Seq([eid : EdgeIds, delta : Nat \ {0}])
  /\ tr.incoming \in [Nodes -> Nat]
  /\ \A k \in DOMAIN tr.fired : tr.incoming[EdgeTable[tr.fired[k].eid].dst] > 0
  /\ tr.surfaced \in Seq(Surfaced)

LEMMA NoTraceIs == IsTrace(NoTrace)
<1>1. NoTrace.fired = <<>> /\ NoTrace.incoming = Nothing /\ NoTrace.surfaced = <<>>
  BY DEF NoTrace
<1>2. Nothing \in [Nodes -> Nat] /\ DOMAIN <<>> = {}
  BY DEF Nothing
<1>3. \A S : <<>> \in Seq(S)
  OBVIOUS
<1> QED
  BY <1>1, <1>2, <1>3 DEF IsTrace

LEMMA TopFacts ==
  ASSUME NEW act \in [Nodes -> Nat]
  PROVE \E n \in Nat : Top(act) \in [1 .. n -> {x \in Nodes : act[x] > 0}]
<1> DEFINE before == {p \in Nodes \X Nodes : act[p[1]] > act[p[2]] \/ (act[p[1]] = act[p[2]] /\ p[1] < p[2])}
           S == {x \in Nodes : act[x] > 0}
           ranked == Sorted(S, before)
           m == IF Len(ranked) < TopK THEN Len(ranked) ELSE TopK
<1>1. IsFiniteSet(S)
  BY SpreadAssumption, FS_Subset
<1>2. Orders(before, S)
  <2>1. \A x \in S : x \in Nodes /\ x \in Nat /\ act[x] \in Nat
    BY SpreadAssumption
  <2>2. \A x, y \in S : <<x, y>> \in before <=> (act[x] > act[y] \/ (act[x] = act[y] /\ x < y))
    BY <2>1
  <2> HIDE DEF before, S
  <2>3. \A x \in S : <<x, x>> \notin before
    BY <2>1, <2>2
  <2>4. \A x, y \in S : x # y => <<x, y>> \in before \/ <<y, x>> \in before
    BY <2>1, <2>2
  <2>5. \A x, y, z \in S : <<x, y>> \in before /\ <<y, z>> \in before => <<x, z>> \in before
    BY <2>1, <2>2
  <2> QED
    BY <2>3, <2>4, <2>5 DEF Orders
<1> HIDE DEF S, before
<1>3. PICK n \in Nat : InRow(ranked, before, n, S)
  BY <1>1, <1>2, SortedHas
<1> HIDE DEF ranked
<1>4. ranked \in [1 .. n -> S]
  BY <1>3 DEF InRow
<1>5. ranked \in Seq(S) /\ Len(ranked) = n
  BY <1>4
<1>6. TopK \in Nat
  BY SpreadAssumption
<1>7. m \in Nat /\ m <= n
  BY <1>5, <1>6
<1>8. Top(act) = SubSeq(ranked, 1, m)
  BY DEF Top, ranked, S, before
<1> HIDE DEF m
<1>9. SubSeq(ranked, 1, m) \in [1 .. m -> S]
  <2>1. SubSeq(ranked, 1, m) = [i \in 1 .. m |-> ranked[i]]
    BY <1>5, <1>7
  <2>2. \A i \in 1 .. m : ranked[i] \in S
    BY <1>4, <1>7
  <2> QED
    BY <2>1, <2>2
<1> QED
  BY <1>7, <1>8, <1>9 DEF S

LEMMA SpreadingIs ==
  ASSUME NEW weight, NEW visible, Weighs(weight, visible), NEW seeds \in Seq(Nodes)
  PROVE IsTrace(Spreading(seeds, weight, visible))
<1> DEFINE e == Activated(seeds, weight, visible)
           top == Top(e.act)
           tr == Spreading(seeds, weight, visible)
           sf == [i \in DOMAIN top |-> [node |-> top[i], act |-> e.act[top[i]]]]
<1>1. e \in Spreads(weight, visible)
  BY ActivatedFacts
<1>2. tr = [fired |-> e.fired, incoming |-> e.incoming, surfaced |-> sf]
  BY DEF Spreading
<1> HIDE DEF e
<1>3. /\ e.fired \in Seq(Firings(weight, visible)) /\ e.incoming \in [Nodes -> Nat] /\ e.act \in [Nodes -> Nat]
      /\ \A k \in DOMAIN e.fired : e.incoming[EdgeTable[e.fired[k].eid].dst] > 0
  BY <1>1 DEF Spreads
<1>4. PICK n \in Nat : top \in [1 .. n -> {x \in Nodes : e.act[x] > 0}]
  BY <1>3, TopFacts
<1>5. sf \in [1 .. n -> Surfaced]
  <2>1. \A i \in 1 .. n : top[i] \in Nodes /\ e.act[top[i]] \in Nat \ {0}
    BY <1>3, <1>4, SMTT(30)
  <2>2. DOMAIN top = 1 .. n
    BY <1>4
  <2> HIDE DEF top
  <2> QED
    BY <2>1, <2>2 DEF Surfaced
<1> HIDE DEF sf
<1>6. sf \in Seq(Surfaced)
  BY <1>5
<1>7. e.fired \in Seq([eid : EdgeIds, delta : Nat \ {0}])
  <2>1. Firings(weight, visible) \subseteq [eid : EdgeIds, delta : Nat \ {0}]
    BY DEF Firings, Weighs
  <2> QED
    <3>1. e.fired \in Seq(Firings(weight, visible))
      BY <1>3
    <3> DEFINE S == Firings(weight, visible)
               T == [eid : EdgeIds, delta : Nat \ {0}]
    <3>2. S \subseteq T /\ e.fired \in Seq(S)
      BY <2>1, <3>1
    <3> HIDE DEF S, T
    <3>3. e.fired \in Seq(T)
      BY <3>2, SeqMonotonic
    <3> QED
      BY <3>3 DEF T
<1> HIDE DEF tr
<1> QED
  BY <1>2, <1>3, <1>6, <1>7 DEF IsTrace, tr

-----------------------------------------------------------------------------
(* Credit flows back.                                                      *)

LEMMA IntFacts ==
  ASSUME NEW a \in Int, NEW b \in Int, NEW c \in Nat, c > 0
  PROVE a * b \in Int /\ a \div c \in Int /\ (a = 0 => a \div c = 0 /\ a * b = 0)
OBVIOUS

Credited == [credit : [Nodes -> Int], r : [EdgeIds -> Int], edges : SUBSET EdgeIds]
NoneYet(credit) == [credit |-> credit, r |-> [i \in 1 .. Len(EdgeTable) |-> 0], edges |-> {}]

\* A firing of a trace.
IsFiring(f, incoming) ==
  /\ f.eid \in EdgeIds /\ EdgeTable[f.eid].src \in Nodes /\ EdgeTable[f.eid].dst \in Nodes
  /\ f.delta \in Nat /\ incoming \in [Nodes -> Nat] /\ incoming[EdgeTable[f.eid].dst] > 0

\* What it gets, and what it passes back.
Gets(credit, f, incoming) == Divided(credit[EdgeTable[f.eid].dst], f.delta, incoming[EdgeTable[f.eid].dst])
Passes(r) == (GammaN * r) \div GammaD

LEMMA GetsFacts ==
  ASSUME NEW f, NEW incoming, IsFiring(f, incoming), NEW credit \in [Nodes -> Int]
  PROVE /\ Gets(credit, f, incoming) \in Int /\ Passes(Gets(credit, f, incoming)) \in Int
        /\ credit[EdgeTable[f.eid].dst] = 0 => Gets(credit, f, incoming) = 0 /\ Passes(Gets(credit, f, incoming)) = 0
<1> DEFINE c == credit[EdgeTable[f.eid].dst]
           m == incoming[EdgeTable[f.eid].dst]
           d == f.delta
           r == Gets(credit, f, incoming)
<1>1. c \in Int /\ m \in Nat /\ m > 0 /\ d \in Nat
  BY DEF IsFiring
<1>2. r = (c * d) \div m
  BY DEF Gets, Divided
<1>3. GammaN \in Nat /\ GammaD \in Nat /\ GammaD > 0
  <2>1. GammaD \in Nat \ {0} /\ GammaN \in Nat
    BY SpreadAssumption
  <2> QED
    BY <2>1
<1> HIDE DEF c, m, d, r
<1> DEFINE p == c * d
<1>4. p \in Int /\ (c = 0 => p = 0)
  BY <1>1, IntFacts
<1> HIDE DEF p
<1>5. r \in Int /\ (c = 0 => r = 0)
  BY <1>1, <1>2, <1>4, IntFacts DEF p
<1> DEFINE q == GammaN * r
<1>6. q \in Int /\ (r = 0 => q = 0)
  BY <1>3, <1>5
<1>7. Passes(r) = q \div GammaD
  BY DEF Passes
<1> HIDE DEF q
<1>8. Passes(r) \in Int /\ (r = 0 => Passes(r) = 0)
  BY <1>3, <1>6, <1>7, IntFacts
<1> QED
  BY <1>5, <1>8 DEF c, r

PaysBack(t, s, f, got) ==
  /\ t.credit = [s.credit EXCEPT ![EdgeTable[f.eid].src] = @ + Passes(got)]
  /\ t.r = [s.r EXCEPT ![f.eid] = @ + got]

LEMMA PassBackFacts ==
  ASSUME NEW s \in Credited, NEW f, NEW incoming, IsFiring(f, incoming)
  PROVE /\ PassBack(s, f, incoming) \in Credited
        /\ PaysBack(PassBack(s, f, incoming), s, f, Gets(s.credit, f, incoming))
<1> DEFINE t == PassBack(s, f, incoming)
           got == Gets(s.credit, f, incoming)
           back == Passes(got)
           i == f.eid
           u == EdgeTable[f.eid].src
           v == EdgeTable[f.eid].dst
           cr == [s.credit EXCEPT ![u] = @ + back]
           rs == [s.r EXCEPT ![i] = @ + got]
<1>1. s.credit \in [Nodes -> Int] /\ s.r \in [EdgeIds -> Int] /\ s.edges \in SUBSET EdgeIds
  BY DEF Credited
<1>2. i \in EdgeIds /\ u \in Nodes /\ v \in Nodes
  BY DEF IsFiring
<1>3. got \in Int /\ back \in Int /\ (s.credit[v] = 0 => got = 0 /\ back = 0)
  BY <1>1, GetsFacts
<1>4. t = IF s.credit[v] = 0 THEN s ELSE [credit |-> cr, r |-> rs, edges |-> s.edges \cup {i}]
  BY DEF PassBack, Gets, Passes
<1> HIDE DEF got, back, i, u, v, t
<1>5. cr \in [Nodes -> Int] /\ (back = 0 => cr = s.credit)
  <2>1. s.credit[u] \in Int
    BY <1>1, <1>2
  <2>2. s.credit[u] + back \in Int /\ (back = 0 => s.credit[u] + back = s.credit[u])
    BY <1>3, <2>1
  <2> DEFINE x == s.credit[u] + back
  <2>3. cr = [s.credit EXCEPT ![u] = x]
    OBVIOUS
  <2> HIDE DEF x, cr
  <2> QED
    BY <1>1, <1>2, <2>2, <2>3 DEF x
<1>6. rs \in [EdgeIds -> Int] /\ (got = 0 => rs = s.r)
  <2>1. s.r[i] \in Int
    BY <1>1, <1>2
  <2>2. s.r[i] + got \in Int /\ (got = 0 => s.r[i] + got = s.r[i])
    BY <1>3, <2>1
  <2> DEFINE x == s.r[i] + got
  <2>3. rs = [s.r EXCEPT ![i] = x]
    OBVIOUS
  <2> HIDE DEF x, rs
  <2> QED
    BY <1>1, <1>2, <2>2, <2>3 DEF x
<1> HIDE DEF cr, rs
<1>7. t \in Credited
  <2>1. s.edges \cup {i} \in SUBSET EdgeIds
    BY <1>1, <1>2
  <2> QED
    BY <1>4, <1>5, <1>6, <2>1 DEF Credited
<1>8. t.credit = cr /\ t.r = rs
  BY <1>3, <1>4, <1>5, <1>6
<1>9. PaysBack(t, s, f, got)
  BY <1>8 DEF PaysBack, cr, rs, back, i, u
<1> QED
  BY <1>7, <1>9 DEF t, got

PassFold(c, tr, credit) ==
  c = [x \in SUBSET DOMAIN Backwards(tr.fired) |->
         IF x = {} THEN NoneYet(credit)
         ELSE LET m == Max(x) IN PassBack(c[x \ {m}], Backwards(tr.fired)[m], tr.incoming)]

LEMMA AssignedIs ==
  ASSUME NEW tr, NEW credit
  PROVE Assigned(tr, credit) = (CHOOSE c : PassFold(c, tr, credit))[DOMAIN Backwards(tr.fired)]
BY DEF Assigned, FoldLeft, MapThenFoldSet, PassFold, NoneYet

LEMMA BackwardsFacts ==
  ASSUME NEW tr, IsTrace(tr)
  PROVE LET n == Len(tr.fired)
            b == Backwards(tr.fired)
        IN /\ n \in Nat /\ DOMAIN tr.fired = 1 .. n /\ DOMAIN b = 1 .. n
           /\ \A k \in 1 .. n : b[k] = tr.fired[n - k + 1] /\ IsFiring(b[k], tr.incoming)
           /\ \A k \in 1 .. n : IsFiring(tr.fired[k], tr.incoming)
<1> DEFINE n == Len(tr.fired)
           b == Backwards(tr.fired)
           S == [eid : EdgeIds, delta : Nat \ {0}]
<1>1. tr.fired \in Seq(S) /\ tr.incoming \in [Nodes -> Nat]
  BY DEF IsTrace
<1>2. n \in Nat /\ DOMAIN tr.fired = 1 .. n /\ \A k \in 1 .. n : tr.fired[k] \in S
  BY <1>1, LenProperties, ElementOfSeq
<1>3. b = [k \in 1 .. n |-> tr.fired[n - k + 1]]
  BY DEF Backwards, Reverse
<1>4. ASSUME NEW k \in 1 .. n PROVE IsFiring(tr.fired[k], tr.incoming)
  <2>1. tr.fired[k].eid \in EdgeIds /\ tr.fired[k].delta \in Nat
    BY <1>2
  <2>2. tr.incoming[EdgeTable[tr.fired[k].eid].dst] > 0
    BY <1>2 DEF IsTrace
  <2> QED
    BY <1>1, <2>1, <2>2, EdgeTypes DEF IsFiring
<1> HIDE DEF n, b, S
<1>5. ASSUME NEW k \in 1 .. n PROVE n - k + 1 \in 1 .. n
  BY <1>2
<1>6. DOMAIN b = 1 .. n /\ \A k \in 1 .. n : b[k] = tr.fired[n - k + 1]
  BY <1>3
<1> QED
  BY <1>2, <1>4, <1>5, <1>6 DEF n, b

PassChain(a, tr, credit) ==
  /\ a[0] = NoneYet(credit) /\ Assigned(tr, credit) = a[Len(tr.fired)]
  /\ \A k \in 0 .. Len(tr.fired) : a[k] \in Credited
  /\ \A k \in Nat : k < Len(tr.fired) => a[k + 1] = PassBack(a[k], Backwards(tr.fired)[k + 1], tr.incoming)

LEMMA PassRuns ==
  ASSUME NEW tr, IsTrace(tr), NEW credit \in [Nodes -> Int]
  PROVE \E a : PassChain(a, tr, credit)
<1> DEFINE n == Len(tr.fired)
           b == Backwards(tr.fired)
           D == DOMAIN b
           Thing == {f \in {b[k] : k \in D} : IsFiring(f, tr.incoming)}
           F == [p \in Credited \X Thing |-> PassBack(p[1], p[2], tr.incoming)]
<1>1. /\ n \in Nat /\ D = 1 .. n /\ \A k \in 1 .. n : IsFiring(b[k], tr.incoming)
      /\ \A k \in 1 .. n : b[k] \in Thing
  BY BackwardsFacts
<1>2. F \in [Credited \X Thing -> Credited]
  <2>1. \A s \in Credited, f \in Thing : PassBack(s, f, tr.incoming) \in Credited
    BY PassBackFacts
  <2> HIDE DEF Thing
  <2> QED
    BY <2>1
<1>3. NoneYet(credit) \in Credited
  <2>1. [i \in 1 .. Len(EdgeTable) |-> 0] \in [EdgeIds -> Int]
    BY DEF EdgeIds
  <2> QED
    BY <2>1 DEF NoneYet, Credited
<1>4. PICK f \in [SUBSET D -> Credited] : IsFold(f, F, NoneYet(credit), b, D)
  <2>1. CanFold(Credited, Thing, NoneYet(credit), F, n, b, D)
    <3> HIDE DEF F, D, n, b, Thing
    <3> QED
      BY <1>1, <1>2, <1>3 DEF CanFold
  <2> HIDE DEF F, D, Thing
  <2> QED
    BY <2>1, FoldExists DEF CanBeFolded
<1> HIDE DEF b
<1>5. ASSUME NEW x \in SUBSET D
      PROVE f[x] = IF x = {} THEN NoneYet(credit) ELSE LET m == Max(x) IN PassBack(f[x \ {m}], b[m], tr.incoming)
  <2>1. CASE x = {}
    BY <1>4, <2>1 DEF IsFold
  <2>2. CASE x # {}
    <3> DEFINE m == Max(x)
    <3>1. m \in x
      BY <1>1, <2>2, Greatest
    <3>2. f[x] = F[<<f[x \ {m}], b[m]>>]
      BY <1>4, <2>2 DEF IsFold
    <3> HIDE DEF m, Thing
    <3>3. f[x \ {m}] \in Credited /\ b[m] \in Thing
      BY <1>1, <1>4, <3>1
    <3>4. F[<<f[x \ {m}], b[m]>>] = PassBack(f[x \ {m}], b[m], tr.incoming)
      BY <3>3
    <3> QED
      BY <2>2, <3>2, <3>4 DEF m
  <2> QED
    BY <2>1, <2>2
<1>6. f = [x \in SUBSET D |-> f[x]]
  BY <1>4
<1>7. PassFold(f, tr, credit)
  BY <1>5, <1>6, Zenon DEF PassFold, b
<1> DEFINE c == CHOOSE c : PassFold(c, tr, credit)
<1>8. PassFold(c, tr, credit)
  BY <1>7, Zenon
<1>9. Assigned(tr, credit) = c[D]
  BY AssignedIs DEF b
<1>10. c = [x \in SUBSET D |->
             IF x = {} THEN NoneYet(credit) ELSE LET m == Max(x) IN PassBack(c[x \ {m}], b[m], tr.incoming)]
  BY <1>8, Zenon DEF PassFold, b
<1> HIDE DEF c
<1> DEFINE a == [k \in Nat |-> c[1 .. k]]
<1>11. a[0] = NoneYet(credit)
  <2>1. 1 .. 0 = {} /\ {} \in SUBSET D
    OBVIOUS
  <2>2. c[{}] = NoneYet(credit)
    BY <1>10, <2>1
  <2> QED
    BY <2>1, <2>2
<1>12. ASSUME NEW k \in Nat, k < n PROVE a[k + 1] = PassBack(a[k], b[k + 1], tr.incoming)
  <2> DEFINE x == 1 .. k + 1
  <2>1. x \in SUBSET D /\ k + 1 \in Nat
    BY <1>1, <1>12
  <2>2. x = 1 .. k + 1
    OBVIOUS
  <2> HIDE DEF x
  <2>3. x # {} /\ Max(x) = k + 1 /\ x \ {k + 1} = 1 .. k
    BY <2>2, UpTo
  <2>4. c[x] = PassBack(c[x \ {Max(x)}], b[Max(x)], tr.incoming)
    BY <1>10, <2>1, <2>3
  <2>5. c[x] = PassBack(c[1 .. k], b[k + 1], tr.incoming)
    BY <2>3, <2>4
  <2> QED
    BY <2>1, <2>5 DEF x
<1>13. c[D] = a[n]
  BY <1>1
<1> HIDE DEF a, D
<1> DEFINE K == {k \in Nat : k <= n => a[k] \in Credited}
<1>14. 0 \in K
  BY <1>3, <1>11
<1>15. ASSUME NEW k \in K PROVE k + 1 \in K
  <2>1. SUFFICES ASSUME k + 1 <= n PROVE a[k + 1] \in Credited
    OBVIOUS
  <2>2. k \in Nat /\ k < n /\ k + 1 \in 1 .. n /\ k <= n
    BY <1>1, <2>1
  <2>3. a[k] \in Credited /\ IsFiring(b[k + 1], tr.incoming) /\ a[k + 1] = PassBack(a[k], b[k + 1], tr.incoming)
    BY <1>1, <1>12, <2>2
  <2> DEFINE t == a[k]
             v == b[k + 1]
             r == a[k + 1]
  <2>4. t \in Credited /\ IsFiring(v, tr.incoming) /\ r = PassBack(t, v, tr.incoming)
    BY <2>3
  <2> HIDE DEF t, v, r
  <2>5. PassBack(t, v, tr.incoming) \in Credited
    BY <2>4, PassBackFacts
  <2> QED
    BY <2>4, <2>5 DEF r
<1>16. K = Nat
  <2>1. K \in SUBSET Nat
    OBVIOUS
  <2> HIDE DEF K
  <2> QED
    BY <1>14, <1>15, <2>1, Induction
<1>17. \A k \in 0 .. n : a[k] \in Credited
  BY <1>1, <1>16
<1> QED
  BY <1>9, <1>11, <1>12, <1>13, <1>17 DEF PassChain, b

LEMMA AssignedFacts ==
  ASSUME NEW tr, IsTrace(tr), NEW credit \in [Nodes -> Int]
  PROVE Assigned(tr, credit) \in Credited
<1>1. PICK a : PassChain(a, tr, credit)
  BY PassRuns
<1>2. Len(tr.fired) \in Nat
  BY BackwardsFacts
<1> QED
  BY <1>1, <1>2 DEF PassChain


-----------------------------------------------------------------------------
(* What weighs.                                                            *)

IsWeighed(c) ==
  /\ c \in [w : Nat, t : Times \cup {0}, dead : BOOLEAN]
  /\ c.dead => c.w = 0
Homeostat == [setpoint : Nat, ewma : Nat, integral : -IntegralMax .. IntegralMax, primed : BOOLEAN]

WCols == \A i \in Ids : IsWeighed(cols[i])
WStarts == \A i \in Ids : valid[i].from \in Times \cup {0}
WConfig == cfg \in Configs /\ distrusted \subseteq Origins
WControl == homeo \in Homeostat /\ scale \in 1 .. ScaleMax
WSaved ==
  /\ \A j \in DOMAIN saved.cols : IsWeighed(saved.cols[j])
  /\ saved.homeo \in Homeostat /\ (saved # NoSidecar => saved.scale \in 1 .. ScaleMax)
WHistory ==
  /\ wedged \in BOOLEAN /\ loose \subseteq Ids /\ unsaved \subseteq Ids
  /\ outdated \subseteq {"memory", "sidecar"} /\ steps \in 0 .. MaxSteps

Weighted == WCols /\ WStarts /\ WConfig /\ WControl /\ IsTrace(trace) /\ WSaved /\ WHistory

WInv == IInv /\ Weighted

LEMMA TimeFacts ==
  /\ \A t \in Times \cup {0} : t \in Nat /\ t < Open
  /\ Open \in Nat
<1>1. Times \subseteq 0 .. Open - 1 /\ Open \in Nat /\ Open > 0
  BY PlasticityAssumption DEF Open
<1> HIDE DEF Open
<1> QED
  BY <1>1

LEMMA IdFacts ==
  ASSUME IInv
  PROVE /\ Len(cols) \in Nat /\ Ids = 1 .. Len(cols) /\ Ids \in SUBSET EdgeIds /\ IsFiniteSet(Ids)
        /\ \A i \in Ids : EdgeTable[i].src \in Nodes /\ EdgeTable[i].dst \in Nodes /\ EdgeTable[i].kind \in Kinds
        /\ DOMAIN cols = Ids /\ DOMAIN valid = Ids /\ DOMAIN rate = Ids
        /\ Len(valid) = Len(cols) /\ Len(rate) = Len(cols)
<1>1. PICK n \in Nat : IsList(cols, n) /\ IsList(valid, n) /\ IsList(rate, n)
  BY DEF IInv, Tables
<1>2. /\ Len(cols) = n /\ Len(valid) = n /\ Len(rate) = n
      /\ DOMAIN cols = 1 .. n /\ DOMAIN valid = 1 .. n /\ DOMAIN rate = 1 .. n
  BY <1>1, ListFacts
<1>3. Len(cols) <= Len(EdgeTable) /\ Len(EdgeTable) \in Nat /\ DOMAIN EdgeTable = EdgeIds
  BY EdgeTypes DEF IInv, Tables
<1>4. Ids = 1 .. n /\ Ids \in SUBSET EdgeIds
  BY <1>2, <1>3 DEF Ids, EdgeIds
<1>5. IsFiniteSet(Ids)
  BY <1>4, EdgeTypes, FS_Subset
<1>6. \A i \in Ids : EdgeTable[i].kind \in Kinds
  BY <1>3, <1>4, PlasticityAssumption
<1> QED
  BY <1>2, <1>4, <1>5, <1>6, EdgeTypes

LEMMA RateFacts ==
  ASSUME WInv, NEW i \in Ids
  PROVE rate[i] \in Nat
<1>1. rate[i] = cfg.rate[EdgeTable[i].kind]
  BY IdFacts DEF WInv, IInv, DerivedIsCurrent, Rates
<1>2. cfg \in [rate : [Kinds -> Nat], setpoint : Nat]
  BY PlasticityAssumption DEF WInv, Weighted, WConfig, WControl
<1>3. EdgeTable[i].kind \in Kinds
  BY IdFacts DEF WInv
<1> QED
  BY <1>1, <1>2, <1>3

LEMMA EffFacts ==
  ASSUME WInv, NEW i \in Ids, NEW t \in Times
  PROVE Eff(i, t) \in Nat /\ (cols[i].dead => Eff(i, t) = 0)
<1> DEFINE age == Larger(t - cols[i].t, 0)
           n == rate[i] * scale * age
           w == cols[i].w
<1>1. w \in Nat /\ cols[i].t \in Nat /\ t \in Nat
  BY TimeFacts DEF WInv, Weighted, WCols, IsWeighed
<1>2. age \in Nat
  BY <1>1 DEF Larger
<1>3. rate[i] \in Nat /\ scale \in Nat
  <2>1. ScaleMax \in Nat /\ scale \in 1 .. ScaleMax
    BY PlasticityAssumption DEF WInv, Weighted, WConfig, WControl
  <2> QED
    BY <2>1, RateFacts
<1> HIDE DEF age, w
<1>4. n \in Nat
  <2>1. rate[i] * scale \in Nat
    BY <1>3, TimesFacts
  <2> DEFINE m == rate[i] * scale
  <2> HIDE DEF m
  <2>2. m * age \in Nat
    BY <1>2, <2>1, TimesFacts DEF m
  <2> QED
    BY <2>2 DEF m
<1> HIDE DEF n
<1>5. 2 ^ n \in Nat /\ 2 ^ n > 0
  BY <1>4, PowerFacts
<1> DEFINE p == 2 ^ n
<1>6. Eff(i, t) = IF cols[i].dead THEN 0 ELSE w \div p
  BY DEF Eff, age, n, w
<1> HIDE DEF p
<1>7. p \in Nat /\ p > 0
  BY <1>5 DEF p
<1>8. w \div p \in Nat
  BY <1>1, <1>7, DivFacts
<1> QED
  BY <1>6, <1>8

LEMMA TrustedFacts ==
  ASSUME WInv, NEW t \in Times
  PROVE LET weight == [i \in Ids |-> Trusted(i, t)]
        IN /\ Weighs(weight, Visible(t))
           /\ \A i \in Visible(t) : i \in Ids /\ (weight[i] > 0 => ~cols[i].dead /\ EdgeTable[i].origin \notin distrusted)
           /\ \A i \in Visible(t) : ~cols[i].dead /\ EdgeTable[i].origin \notin distrusted => weight[i] >= Floor
<1> DEFINE weight == [i \in Ids |-> Trusted(i, t)]
<1>1. Floor \in Nat /\ IInv
  BY PlasticityAssumption DEF WInv
<1>2. Visible(t) \in SUBSET Ids /\ Ids \in SUBSET EdgeIds
  BY <1>1, IdFacts DEF Visible
<1>3. \A i \in Ids : i \in masked <=> EdgeTable[i].origin \in distrusted
  BY <1>1, IdFacts DEF IInv, DerivedIsCurrent, Masked
<1>4. ASSUME NEW i \in Ids
      PROVE /\ weight[i] = IF i \in masked \/ i \notin Live THEN 0 ELSE Larger(Eff(i, t), Floor)
            /\ Larger(Eff(i, t), Floor) \in Nat /\ Larger(Eff(i, t), Floor) >= Floor
            /\ i \in Live <=> ~cols[i].dead
  <2>1. Eff(i, t) \in Nat
    BY EffFacts
  <2> QED
    BY <1>1, <2>1 DEF Trusted, Larger, Live
<1> HIDE DEF weight
<1>5. \A i \in Ids : weight[i] \in Nat
  BY <1>4
<1>6. Weighs(weight, Visible(t))
  BY <1>2, <1>5 DEF Weighs
<1>7. \A i \in Ids : weight[i] > 0 => ~cols[i].dead /\ EdgeTable[i].origin \notin distrusted
  BY <1>3, <1>4
<1>8. \A i \in Ids : ~cols[i].dead /\ EdgeTable[i].origin \notin distrusted => weight[i] >= Floor
  BY <1>3, <1>4
<1> QED
  BY <1>2, <1>6, <1>7, <1>8 DEF weight

-----------------------------------------------------------------------------
(* What fires.                                                             *)

LEMMA FiresOnce ==
  ASSUME NEW weight, NEW visible, NEW e \in Spreads(weight, visible), NoneTwice(e)
  PROVE Cardinality({f.eid : f \in ToSet(e.fired)}) = Len(e.fired)
<1> DEFINE n == Len(e.fired)
           S == {f.eid : f \in ToSet(e.fired)}
           g == [k \in 1 .. n |-> e.fired[k].eid]
<1>1. n \in Nat /\ DOMAIN e.fired = 1 .. n
  BY LenProperties DEF Spreads
<1>2. Once(e.fired)
  <2>1. Cleared(e).fired = e.fired
    BY ClearedFacts
  <2> QED
    BY <2>1 DEF NoneTwice, HopWaits, Waits
<1>3. S = {e.fired[k].eid : k \in 1 .. n}
  BY <1>1 DEF ToSet
<1>4. g \in Bijection(1 .. n, S)
  <2>1. \A k \in 1 .. n : g[k] = e.fired[k].eid /\ g[k] \in S
    BY <1>3
  <2>2. \A x \in S : \E k \in 1 .. n : g[k] = x
    BY <1>3
  <2>3. \A j, k \in 1 .. n : j # k => g[j] # g[k]
    BY <1>1, <1>2 DEF Once
  <2>4. g = [k \in 1 .. n |-> g[k]]
    OBVIOUS
  <2> HIDE DEF g, S
  <2>5. g \in [1 .. n -> S] /\ DOMAIN g = 1 .. n
    BY <2>1, <2>4
  <2>6. g \in Injection(1 .. n, S)
    BY <2>3, <2>5 DEF Injection, IsInjective
  <2>7. g \in Surjection(1 .. n, S)
    BY <2>2, <2>5 DEF Surjection
  <2> QED
    BY <2>6, <2>7 DEF Bijection
<1>5. IsFiniteSet(1 .. n) /\ Cardinality(1 .. n) = n
  BY <1>1, FS_Interval
<1>6. ExistsBijection(1 .. n, S)
  BY <1>4 DEF ExistsBijection
<1> HIDE DEF g, S, n
<1>7. Cardinality(1 .. n) = Cardinality(S)
  BY <1>5, <1>6, FS_Bijection
<1> QED
  BY <1>5, <1>7 DEF S, n

LEMMA FiresRight ==
  ASSUME WInv
  PROVE FiresAsAllowed
<1> SUFFICES ASSUME NEW seeds \in SeedSets, NEW t \in Times
             PROVE LET weight == [i \in Ids |-> Trusted(i, t)]
                       firings == Activated(seeds, weight, Visible(t)).fired
                       allowed == {i \in Visible(t) : ~cols[i].dead /\ EdgeTable[i].origin \notin distrusted}
                       fired == {f.eid : f \in ToSet(firings)}
                       Enough(u) == Carried(Full, Floor, Leaving(u, weight, Visible(t))) > Epsilon
                       seen == {i \in allowed : EdgeTable[i].src \in ToSet(seeds) /\ Enough(EdgeTable[i].src)}
                   IN /\ fired \subseteq allowed
                      /\ Depth > 0 => seen \subseteq fired
                      /\ IsInjective(seeds) => Cardinality(fired) = Len(firings)
  BY Zenon DEF FiresAsAllowed
<1> DEFINE weight == [i \in Ids |-> Trusted(i, t)]
           visible == Visible(t)
           e == Activated(seeds, weight, visible)
           allowed == {i \in visible : ~cols[i].dead /\ EdgeTable[i].origin \notin distrusted}
           fired == {f.eid : f \in ToSet(e.fired)}
           Enough(u) == Carried(Full, Floor, Leaving(u, weight, visible)) > Epsilon
           seen == {i \in allowed : EdgeTable[i].src \in ToSet(seeds) /\ Enough(EdgeTable[i].src)}
<1>1. /\ Weighs(weight, visible)
      /\ \A i \in visible : i \in Ids /\ (weight[i] > 0 => ~cols[i].dead /\ EdgeTable[i].origin \notin distrusted)
      /\ \A i \in visible : ~cols[i].dead /\ EdgeTable[i].origin \notin distrusted => weight[i] >= Floor
  BY TrustedFacts
<1>2. seeds \in Seq(Nodes)
  BY PlasticityAssumption
<1> HIDE DEF weight, visible
<1>3. /\ e \in Spreads(weight, visible)
      /\ IsInjective(seeds) => NoneTwice(e)
      /\ Depth > 0 => \A j \in DOMAIN seeds : Leaves(e, seeds[j], Full, weight, visible)
  BY <1>1, <1>2, ActivatedFacts
<1> HIDE DEF e
<1>4. \A k \in DOMAIN e.fired : e.fired[k].eid \in visible /\ weight[e.fired[k].eid] > 0
  <2>1. e.fired \in Seq(Firings(weight, visible))
    BY <1>3 DEF Spreads
  <2>2. \A k \in DOMAIN e.fired : e.fired[k] \in Firings(weight, visible)
    BY <2>1, ElementOfSeq, LenProperties
  <2> QED
    BY <2>2 DEF Firings
<1>5. \A x : x \in fired <=> HasFired(e, x)
  BY DEF ToSet, HasFired
<1>6. fired \subseteq allowed
  <2>1. SUFFICES ASSUME NEW x, HasFired(e, x) PROVE x \in allowed
    BY <1>5
  <2>2. x \in visible /\ weight[x] > 0
    BY <1>4, <2>1 DEF HasFired
  <2> QED
    BY <1>1, <2>2
<1>7. IsInjective(seeds) => Cardinality(fired) = Len(e.fired)
  BY <1>3, FiresOnce
<1>8. ASSUME Depth > 0, NEW i \in seen PROVE i \in fired
  <2> DEFINE u == EdgeTable[i].src
             w == weight[i]
             mass == Leaving(u, weight, visible)
  <2>1. i \in visible /\ w >= Floor /\ u \in ToSet(seeds) /\ Carried(Full, Floor, mass) > Epsilon
    BY <1>1
  <2>2. PICK j \in DOMAIN seeds : seeds[j] = u
    BY <2>1 DEF ToSet
  <2>3. Leaves(e, u, Full, weight, visible)
    BY <1>3, <1>8, <2>2
  <2>4. i \in Out(u, visible)
    BY <2>1 DEF Out
  <2>5. mass \in Nat /\ w \in Nat /\ Floor \in Nat /\ Full \in Nat /\ Full > 0 /\ Epsilon \in Nat
    <3>1. Full \in Nat \ {0} /\ Epsilon \in Nat
      BY SpreadAssumption
    <3>2. Floor \in Nat
      BY PlasticityAssumption
    <3> QED
      BY <1>1, <2>4, <3>1, <3>2, OutFacts
  <2> HIDE DEF mass, w, seen
  <2>6. Carried(Full, Floor, mass) <= Carried(Full, w, mass) /\ Carried(Full, Floor, mass) \in Nat /\ Carried(Full, w, mass) \in Nat
    <3>1. Full <= Full /\ Floor <= w
      BY <2>1, <2>5
    <3> QED
      BY <2>5, <3>1, CarriedFacts
  <2>7. Carried(Full, w, mass) > Epsilon
    BY <2>1, <2>5, <2>6
  <2>8. HasFired(e, i)
    BY <2>3, <2>4, <2>5, <2>7 DEF Leaves, w, mass
  <2> QED
    BY <1>5, <2>8
<1> HIDE DEF fired, allowed, seen, Enough
<1>9. fired \subseteq allowed /\ (Depth > 0 => seen \subseteq fired) /\ (IsInjective(seeds) => Cardinality(fired) = Len(e.fired))
  BY <1>6, <1>7, <1>8
<1> QED
  BY <1>9, Zenon DEF fired, allowed, seen, Enough, e, weight, visible


-----------------------------------------------------------------------------
(* Weights stay weights.                                                   *)

LEMMA TouchedWeighs ==
  ASSUME WInv, NEW edges, NEW r, \A i \in Ids : r[i] \in Int, NEW t \in Times
  PROVE \A i \in Ids : IsWeighed(Touched(edges, r, t)[i])
<1> SUFFICES ASSUME NEW i \in Ids PROVE IsWeighed(Touched(edges, r, t)[i])
  OBVIOUS
<1> DEFINE c == Touched(edges, r, t)[i]
           x == Clamp(r[i], -RClip, RClip)
           y == Larger(Eff(i, t) + x, Floor)
<1>1. c = IF i \notin edges \/ cols[i].dead THEN cols[i] ELSE [w |-> y, t |-> t, dead |-> FALSE]
  BY DEF Touched
<1>2. IsWeighed(cols[i])
  BY DEF WInv, Weighted, WCols
<1>3. x \in Int
  <2>1. RClip \in Nat /\ r[i] \in Int
    BY PlasticityAssumption
  <2> QED
    BY <2>1 DEF Clamp
<1> HIDE DEF x
<1>4. y \in Nat
  <2>1. Floor \in Nat
    BY PlasticityAssumption
  <2>2. Eff(i, t) \in Nat
    BY EffFacts
  <2> QED
    BY <1>3, <2>1, <2>2 DEF Larger
<1> HIDE DEF y, c
<1>5. IsWeighed([w |-> y, t |-> t, dead |-> FALSE])
  BY <1>4 DEF IsWeighed
<1> QED
  BY <1>1, <1>2, <1>5 DEF c

LEMMA AsOfWeighs ==
  ASSUME WInv, NEW edges, NEW w, \A i \in Ids : w[i] \in Nat, NEW t \in Times
  PROVE \A i \in Ids : IsWeighed(AsOf(edges, w, t)[i])
<1> SUFFICES ASSUME NEW i \in Ids PROVE IsWeighed(AsOf(edges, w, t)[i])
  OBVIOUS
<1>1. AsOf(edges, w, t)[i] = IF i \in edges THEN [w |-> w[i], t |-> t, dead |-> FALSE] ELSE cols[i]
  BY DEF AsOf
<1>2. IsWeighed(cols[i])
  BY DEF WInv, Weighted, WCols
<1>3. IsWeighed([w |-> w[i], t |-> t, dead |-> FALSE])
  BY DEF IsWeighed
<1> QED
  BY <1>1, <1>2, <1>3

LEMMA PrunedWeighs ==
  ASSUME NEW c, NEW edges, \A i \in Ids : IsWeighed(c[i])
  PROVE \A i \in Ids : IsWeighed(Pruned(c, edges)[i])
<1> SUFFICES ASSUME NEW i \in Ids PROVE IsWeighed(Pruned(c, edges)[i])
  OBVIOUS
<1>1. Pruned(c, edges)[i] = IF i \in edges THEN [c[i] EXCEPT !.w = 0, !.dead = TRUE] ELSE c[i]
  BY DEF Pruned
<1>2. IsWeighed(c[i])
  OBVIOUS
<1>3. IsWeighed([c[i] EXCEPT !.w = 0, !.dead = TRUE])
  BY <1>2 DEF IsWeighed
<1> QED
  BY <1>1, <1>2, <1>3

\* What the out-edges of a source weigh that are not pruned.
Alive(c, u) == {j \in OutOf(u) : ~c[j].dead}
Budget(c, u) == SumOf([j \in Ids |-> c[j].w], Alive(c, u))

LEMMA RenormalizedIs ==
  ASSUME NEW c, NEW i \in Ids
  PROVE Renormalized(c)[i] =
          IF c[i].dead \/ Budget(c, EdgeTable[i].src) = 0 THEN c[i]
          ELSE [c[i] EXCEPT !.w = (@ * NormTarget) \div Budget(c, EdgeTable[i].src)]
BY DEF Renormalized, Budget, Alive

LEMMA BudgetFacts ==
  ASSUME IInv, NEW c, \A i \in Ids : IsWeighed(c[i]), NEW u
  PROVE /\ Budget(c, u) \in Nat
        /\ \A i \in Alive(c, u) : c[i].w <= Budget(c, u)
<1> DEFINE S == Alive(c, u)
           h == [j \in Ids |-> c[j].w]
<1>1. S \in SUBSET Ids /\ IsFiniteSet(S)
  <2>1. S \in SUBSET Ids
    BY DEF Alive, OutOf
  <2> QED
    BY <2>1, IdFacts, FS_Subset
<1>2. \A j \in S : h[j] = c[j].w /\ h[j] \in Nat
  BY <1>1 DEF IsWeighed
<1> HIDE DEF S, h
<1>3. SumOf(h, S) \in Nat /\ \A j \in S : h[j] <= SumOf(h, S)
  BY <1>1, <1>2, SumNat
<1> QED
  BY <1>2, <1>3 DEF Budget, S, h

LEMMA RenormalizedWeighs ==
  ASSUME IInv, NEW c, \A i \in Ids : IsWeighed(c[i])
  PROVE \A i \in Ids : IsWeighed(Renormalized(c)[i])
<1> SUFFICES ASSUME NEW i \in Ids PROVE IsWeighed(Renormalized(c)[i])
  OBVIOUS
<1> DEFINE b == Budget(c, EdgeTable[i].src)
           w == c[i].w
           x == (w * NormTarget) \div b
<1>1. Renormalized(c)[i] = IF c[i].dead \/ b = 0 THEN c[i] ELSE [c[i] EXCEPT !.w = x]
  BY RenormalizedIs
<1>2. IsWeighed(c[i]) /\ b \in Nat /\ NormTarget \in Nat
  BY BudgetFacts, PlasticityAssumption
<1>3. CASE c[i].dead \/ b = 0
  BY <1>1, <1>2, <1>3
<1>4. CASE ~(c[i].dead \/ b = 0)
  <2>1. w \in Nat
    BY <1>2 DEF IsWeighed
  <2> HIDE DEF b, w
  <2> DEFINE y == w * NormTarget
  <2>2. y \in Nat /\ b > 0
    BY <1>2, <1>4, <2>1, TimesFacts
  <2> HIDE DEF y
  <2>3. y \div b \in Nat
    BY <1>2, <2>2, DivFacts
  <2>4. x \in Nat
    BY <2>3 DEF y
  <2> HIDE DEF x
  <2>5. IsWeighed([c[i] EXCEPT !.w = x])
    BY <1>2, <1>4, <2>4 DEF IsWeighed
  <2> QED
    BY <1>1, <1>4, <2>5
<1> QED
  BY <1>3, <1>4

-----------------------------------------------------------------------------
(* Credit.                                                                 *)

LEMMA NodeCreditIs ==
  ASSUME NEW scores \in Credits
  PROVE NodeCredit(scores) \in [Nodes -> Int]
BY PlasticityAssumption DEF NodeCredit

LEMMA WithPenaltyIs ==
  ASSUME NEW tr, NEW credit \in [Nodes -> Int], NEW penalty \in Nat
  PROVE WithPenalty(tr, credit, penalty) \in [Nodes -> Int]
BY DEF WithPenalty

LEMMA EpisodeCreditIs ==
  ASSUME NEW tr, IsTrace(tr), tr.surfaced # <<>>, NEW reward \in Int, NEW uniform \in BOOLEAN
  PROVE EpisodeCredit(tr, reward, uniform) \in [Nodes -> Int]
<1> DEFINE sf == tr.surfaced
           n == Len(sf)
           S == ToSet(sf)
           acts == [i \in DOMAIN sf |-> sf[i].act]
           given == [x \in S |-> (reward * Share(x, tr, uniform)[1]) \div Share(x, tr, uniform)[2]]
<1>1. sf \in Seq(Surfaced) /\ n \in Nat /\ DOMAIN sf = 1 .. n
  BY LenProperties DEF IsTrace
<1>2. n > 0
  BY <1>1, EmptySeq
<1>3. \A i \in 1 .. n : sf[i].act \in Nat /\ sf[i].act > 0
  <2>1. \A i \in 1 .. n : sf[i] \in Surfaced
    BY <1>1, ElementOfSeq
  <2> QED
    BY <2>1 DEF Surfaced
<1>4. S = {sf[i] : i \in 1 .. n}
  BY <1>1 DEF ToSet
<1>5. IsFiniteSet(S)
  <2>1. IsFiniteSet(1 .. n)
    BY <1>1, FS_Interval
  <2> HIDE DEF n, sf, S
  <2>2. sf \in [1 .. n -> S]
    BY <1>1, <1>4
  <2>3. \A x \in S : \E i \in 1 .. n : sf[i] = x
    BY <1>4
  <2>4. sf \in Surjection(1 .. n, S)
    BY <2>2, <2>3 DEF Surjection
  <2> QED
    BY <2>1, <2>4, FS_Surjection
<1> HIDE DEF n, sf, S
<1>6. \A i \in 1 .. n : acts[i] \in Nat /\ acts[i] = sf[i].act
  BY <1>1, <1>3
<1> HIDE DEF acts
<1>7. SumOf(acts, 1 .. n) \in Nat /\ \A i \in 1 .. n : sf[i].act <= SumOf(acts, 1 .. n)
  <2> DEFINE D == 1 .. n
  <2>1. IsFiniteSet(D) /\ \A i \in D : acts[i] \in Nat
    <3>1. IsFiniteSet(D)
      BY <1>1, FS_Interval
    <3> QED
      BY <1>6, <3>1
  <2> HIDE DEF D
  <2>2. SumOf(acts, D) \in Nat /\ \A i \in D : acts[i] <= SumOf(acts, D)
    BY <2>1, SumNat
  <2> QED
    BY <1>6, <2>2 DEF D
<1>8. Total(sf) = SumOf(acts, 1 .. n)
  BY <1>1 DEF Total, acts
<1>9. ASSUME NEW x \in S PROVE (reward * Share(x, tr, uniform)[1]) \div Share(x, tr, uniform)[2] \in Int
  <2>1. PICK i \in 1 .. n : x = sf[i]
    BY <1>4
  <2> DEFINE total == Total(sf)
             act == x.act
  <2>2. act \in Nat /\ act > 0 /\ total \in Nat /\ act <= total
    BY <1>3, <1>7, <1>8, <2>1
  <2> HIDE DEF total, act
  <2>3. total > 0
    BY <2>2
  <2>4. CASE uniform
    <3>1. Share(x, tr, uniform)[1] = 1 /\ Share(x, tr, uniform)[2] = n
      BY <2>4 DEF Share, n, sf
    <3>2. (reward * 1) \div n \in Int
      BY <1>1, <1>2, IntFacts
    <3> QED
      BY <3>1, <3>2
  <2>5. CASE ~uniform
    <3>1. Share(x, tr, uniform)[1] = act /\ Share(x, tr, uniform)[2] = total
      BY <2>5 DEF Share, total, act, sf
    <3> DEFINE p == reward * act
    <3>2. p \in Int
      BY <2>2
    <3> HIDE DEF p
    <3>3. p \div total \in Int
      BY <2>2, <2>3, <3>2, IntFacts
    <3> QED
      BY <3>1, <3>3 DEF p
  <2> QED
    BY <2>4, <2>5
<1>10. \A x \in S : given[x] \in Int
  BY <1>9
<1>11. EpisodeCredit(tr, reward, uniform) = [m \in Nodes |-> SumOf(given, {x \in S : x.node = m})]
  BY DEF EpisodeCredit, S, sf
<1> HIDE DEF given
<1>12. ASSUME NEW m \in Nodes PROVE SumOf(given, {x \in S : x.node = m}) \in Int
  <2> DEFINE T == {x \in S : x.node = m}
  <2>1. T \in SUBSET S
    OBVIOUS
  <2> HIDE DEF T
  <2>2. IsFiniteSet(T) /\ IntOn(given, T)
    BY <1>5, <1>10, <2>1, FS_Subset DEF IntOn
  <2>3. SumOf(given, T) \in Int
    BY <2>2, SumFacts
  <2> QED
    BY <2>3 DEF T
<1> QED
  BY <1>11, <1>12


-----------------------------------------------------------------------------
(* Each request, as to weights.                                            *)

\* The columns of the same edges, weighed.
WeighsAll(c) == c = [i \in Ids |-> c[i]] /\ \A i \in Ids : IsWeighed(c[i])

\* The log, the disk and the steps, of the same edges.
NewHistory ==
  /\ wedged' \in BOOLEAN /\ loose' \subseteq Ids /\ unsaved' \subseteq Ids
  /\ outdated' \subseteq {"memory", "sidecar"} /\ steps' \in 0 .. MaxSteps

LEMMA WParts ==
  ASSUME WInv
  PROVE /\ IInv /\ WCols /\ WStarts /\ WConfig /\ WControl /\ IsTrace(trace) /\ WSaved /\ WHistory
        /\ WeighsAll(cols)
<1>1. IInv /\ WCols
  BY DEF WInv, Weighted
<1>2. Follows(cols)
  BY <1>1, FollowsItself DEF IInv
<1>3. WeighsAll(cols)
  BY <1>1, <1>2 DEF WeighsAll, Follows, SameEdges, WCols
<1> QED
  BY <1>1, <1>3 DEF WInv, Weighted

LEMMA WKeeps ==
  ASSUME WInv, WeighsAll(cols'), \A i \in Ids : valid'[i].from = valid[i].from,
         WConfig', WControl', IsTrace(trace'), WSaved', NewHistory
  PROVE Weighted'
<1>1. IInv /\ WStarts
  BY WParts
<1>2. Ids = 1 .. Len(cols) /\ Len(cols) \in Nat
  BY <1>1, IdFacts
<1>3. cols' = [i \in 1 .. Len(cols) |-> cols'[i]]
  BY <1>2 DEF WeighsAll
<1>4. Len(cols') = Len(cols)
  BY <1>2, <1>3, ListMade
<1>5. Ids' = Ids
  BY <1>4 DEF Ids
<1>6. WCols' /\ WStarts' /\ WHistory'
  BY <1>1, <1>5 DEF WCols, WStarts, WeighsAll, WHistory, NewHistory
<1> QED
  BY <1>6 DEF Weighted

LEMMA WSaves ==
  ASSUME WInv, WeighsAll(cols'), TrySave \/ NoSave
  PROVE WSaved' /\ unsaved' \subseteq Ids /\ outdated' \subseteq {"memory", "sidecar"}
<1>1. WControl /\ WSaved /\ WHistory
  BY WParts
<1>2. DOMAIN cols' = Ids /\ \A i \in Ids : IsWeighed(cols'[i])
  BY DEF WeighsAll
<1>3. CASE Save
  <2>1. saved'.cols = cols' /\ saved'.homeo = homeo /\ saved'.scale = scale
    BY <1>3 DEF Save
  <2>2. unsaved' = {} /\ outdated' \subseteq {"memory", "sidecar"}
    BY <1>3 DEF Save
  <2> QED
    BY <1>1, <1>2, <2>1, <2>2 DEF WSaved, WControl
<1>4. CASE NoSave
  <2>1. /\ unsaved' = unsaved \cup {i \in Ids : cols'[i].dead /\ ~cols[i].dead}
        /\ UNCHANGED <<saved, outdated>>
    BY <1>4 DEF NoSave
  <2> QED
    BY <1>1, <2>1 DEF WSaved, WHistory
<1> QED
  BY <1>3, <1>4 DEF TrySave

\* A request that leaves the log alone.
LEMMA WCounts ==
  ASSUME WInv, NEW name, Request(name), UNCHANGED log,
         unsaved' \subseteq Ids, outdated' \subseteq {"memory", "sidecar"}
  PROVE NewHistory
<1>1. WHistory /\ MaxSteps \in Nat
  BY WParts, PlasticityAssumption
<1>2. steps < MaxSteps /\ steps' = steps + 1 /\ UNCHANGED <<wedged, loose>>
  BY DEF Request, log
<1>3. steps' \in 0 .. MaxSteps
  BY <1>1, <1>2 DEF WHistory
<1> QED
  BY <1>1, <1>2, <1>3 DEF WHistory, NewHistory

\* One that leaves the disk alone, too.
LEMMA WRequest ==
  ASSUME WInv, NEW name, Request(name), UNCHANGED <<log, disk>>
  PROVE NewHistory /\ UNCHANGED saved
<1>1. WHistory /\ UNCHANGED <<saved, unsaved, outdated>>
  BY WParts DEF disk
<1> QED
  BY <1>1, WCounts DEF WHistory

LEMMA SameRest ==
  ASSUME WInv, UNCHANGED config
  PROVE WConfig'
<1>1. WConfig /\ UNCHANGED <<cfg, distrusted>>
  BY WParts DEF config
<1> QED
  BY <1>1 DEF WConfig

LEMMA SameControl ==
  ASSUME WInv, UNCHANGED control
  PROVE WControl'
<1>1. WControl /\ UNCHANGED <<homeo, scale>>
  BY WParts DEF control
<1> QED
  BY <1>1 DEF WControl

LEMMA SameSaved ==
  ASSUME WInv, UNCHANGED saved
  PROVE WSaved'
BY WParts DEF WSaved

LEMMA FreshWeighs ==
  ASSUME NEW i, NEW t \in Times \cup {0}
  PROVE IsWeighed(Fresh(i, t))
<1>1. W0 \in Nat
  BY PlasticityAssumption
<1> QED
  BY <1>1 DEF Fresh, IsWeighed

LEMMA ObserveWeighs ==
  ASSUME WInv, NEW t \in Times, Observe(t)
  PROVE Weighted'
<1> DEFINE n == Len(cols)
           i == Len(valid) + 1
<1>1. IInv /\ WCols /\ WStarts /\ IsTrace(trace)
  BY WParts
<1>2. /\ n \in Nat /\ Ids = 1 .. n /\ Len(valid) = n /\ i = n + 1
      /\ IsList(cols, n) /\ IsList(valid, n)
  BY <1>1, TableFacts DEF IInv
<1>3. /\ valid' = Append(valid, [from |-> t, to |-> Open]) /\ cols' = Append(cols, Fresh(i, t))
      /\ Request("observe") /\ UNCHANGED <<config, control, trace, log, disk>>
  BY DEF Observe
<1>4. /\ IsList(cols', n + 1)
      /\ \A k \in 1 .. n : cols'[k] = cols[k] /\ valid'[k] = valid[k]
      /\ cols'[n + 1] = Fresh(i, t) /\ valid'[n + 1] = [from |-> t, to |-> Open]
  <2>1. IsLonger(cols', cols, n, Fresh(i, t))
    BY <1>2, <1>3, ListLonger
  <2>2. IsLonger(valid', valid, n, [from |-> t, to |-> Open])
    BY <1>2, <1>3, ListLonger
  <2> QED
    BY <2>1, <2>2 DEF IsLonger
<1> HIDE DEF n, i
<1>5. Ids' = 1 .. n + 1
  BY <1>4, ListFacts DEF Ids
<1>6. ASSUME NEW k \in 1 .. n + 1 PROVE IsWeighed(cols'[k]) /\ valid'[k].from \in Times \cup {0}
  <2>1. CASE k = n + 1
    BY <1>4, <2>1, FreshWeighs
  <2>2. CASE k # n + 1
    <3>1. k \in 1 .. n /\ k \in Ids
      BY <1>2, <2>2
    <3> QED
      BY <1>1, <1>4, <3>1 DEF WCols, WStarts
  <2> QED
    BY <2>1, <2>2
<1>7. WCols' /\ WStarts'
  BY <1>5, <1>6 DEF WCols, WStarts
<1>8. WConfig' /\ WControl' /\ WSaved' /\ NewHistory /\ IsTrace(trace')
  BY <1>1, <1>3, SameRest, SameControl, SameSaved, WRequest
<1>9. Ids \subseteq Ids'
  BY <1>2, <1>5
<1>10. WHistory'
  BY <1>8, <1>9 DEF NewHistory, WHistory
<1> QED
  BY <1>7, <1>8, <1>10 DEF Weighted

LEMMA RetireWeighs ==
  ASSUME WInv, NEW i \in Ids, NEW t, Retire(i, t)
  PROVE Weighted'
<1>1. IInv /\ IsTrace(trace) /\ WeighsAll(cols)
  BY WParts
<1>2. /\ Request("retire") /\ valid' = [valid EXCEPT ![i].to = t]
      /\ UNCHANGED <<cols, config, control, trace, log, disk>>
  BY DEF Retire
<1>3. ASSUME NEW k \in Ids PROVE valid'[k].from = valid[k].from
  <2>1. DOMAIN valid = Ids /\ DOMAIN valid[k] = {"from", "to"}
    BY <1>1, IdFacts DEF IInv, Tables
  <2>2. valid'[k] = IF k = i THEN [valid[k] EXCEPT !.to = t] ELSE valid[k]
    BY <1>2, <2>1
  <2> QED
    BY <2>1, <2>2
<1>4. WConfig' /\ WControl' /\ WSaved' /\ NewHistory /\ IsTrace(trace')
  BY <1>1, <1>2, SameRest, SameControl, SameSaved, WRequest
<1>5. WeighsAll(cols')
  BY <1>1, <1>2
<1> QED
  BY <1>3, <1>4, <1>5, WKeeps

LEMMA TouchedAll ==
  ASSUME WInv, NEW edges, NEW r, \A i \in Ids : r[i] \in Int, NEW t \in Times
  PROVE WeighsAll(Touched(edges, r, t))
<1> DEFINE c == Touched(edges, r, t)
<1>1. c = [i \in Ids |-> c[i]]
  BY DEF Touched
<1> HIDE DEF c
<1>2. \A i \in Ids : IsWeighed(c[i])
  BY TouchedWeighs DEF c
<1> QED
  BY <1>1, <1>2 DEF WeighsAll, c

LEMMA TouchWeighs ==
  ASSUME WInv, NEW i \in Ids, NEW r \in Rewards, NEW t \in Times, Touch(i, r, t)
  PROVE Weighted'
<1>1. /\ Request("touch") /\ cols' = Touched({i}, [j \in Ids |-> r], t)
      /\ UNCHANGED <<valid, config, control, trace, log, disk>>
  BY DEF Touch
<1>2. IsTrace(trace')
  BY <1>1, WParts
<1>3. \A j \in Ids : [k \in Ids |-> r][j] \in Int
  BY PlasticityAssumption
<1> DEFINE rs == [k \in Ids |-> r]
<1> HIDE DEF rs
<1>4. WeighsAll(Touched({i}, rs, t))
  BY <1>3, TouchedAll DEF rs
<1>5. WeighsAll(cols')
  BY <1>1, <1>4 DEF rs
<1>6. WConfig' /\ WControl' /\ WSaved' /\ NewHistory
  BY <1>1, SameRest, SameControl, SameSaved, WRequest
<1>7. \A j \in Ids : valid'[j].from = valid[j].from
  BY <1>1
<1> QED
  BY <1>2, <1>5, <1>6, <1>7, WKeeps

LEMMA TracedIs ==
  ASSUME WInv, NEW seeds \in SeedSets, NEW t \in Times
  PROVE IsTrace(Traced(seeds, t))
<1> DEFINE weight == [i \in Ids |-> Trusted(i, t)]
<1>1. Weighs(weight, Visible(t)) /\ seeds \in Seq(Nodes)
  BY TrustedFacts, PlasticityAssumption
<1>2. Traced(seeds, t) = Spreading(seeds, weight, Visible(t))
  BY DEF Traced
<1> HIDE DEF weight
<1> QED
  BY <1>1, <1>2, SpreadingIs

LEMMA MassIs ==
  ASSUME NEW tr, IsTrace(tr)
  PROVE Mass(tr) \in Nat
<1> DEFINE D == DOMAIN tr.fired
           h == [i \in D |-> tr.fired[i].delta]
<1>1. IsFiniteSet(D)
  <2>1. D = 1 .. Len(tr.fired) /\ Len(tr.fired) \in Nat
    BY BackwardsFacts
  <2> QED
    BY <2>1, FS_Interval
<1>2. \A i \in D : h[i] \in Nat
  BY BackwardsFacts DEF IsFiring
<1> HIDE DEF D, h
<1>3. SumOf(h, D) \in Nat
  BY <1>1, <1>2, SumNat
<1> QED
  BY <1>3 DEF Mass, D, h

LEMMA ObservedIs ==
  ASSUME homeo \in Homeostat, NEW m \in Nat
  PROVE Observed(m) \in Homeostat
<1> DEFINE ewma == IF homeo.primed THEN (homeo.ewma + m) \div 2 ELSE m
           x == homeo.integral + ewma - homeo.setpoint
           y == Clamp(x, -IntegralMax, IntegralMax)
<1>1. /\ homeo.ewma \in Nat /\ homeo.setpoint \in Nat /\ IntegralMax \in Nat /\ homeo.integral \in Int
      /\ homeo.primed \in BOOLEAN
  <2>1. IntegralMax \in Nat
    BY PlasticityAssumption
  <2> QED
    BY <2>1 DEF Homeostat
<1>2. ewma \in Nat
  <2> DEFINE z == homeo.ewma + m
  <2>1. z \in Nat
    BY <1>1
  <2> HIDE DEF z
  <2>2. z \div 2 \in Nat
    BY <2>1, DivFacts
  <2> QED
    BY <2>2 DEF z
<1> HIDE DEF ewma
<1>3. x \in Int
  BY <1>1, <1>2
<1> HIDE DEF x
<1>4. y \in -IntegralMax .. IntegralMax
  BY <1>1, <1>3 DEF Clamp
<1>5. Observed(m) = [homeo EXCEPT !.primed = TRUE, !.ewma = ewma, !.integral = y]
  BY DEF Observed, ewma, x
<1> HIDE DEF y
<1> QED
  BY <1>2, <1>4, <1>5 DEF Homeostat

LEMMA RetrieveWeighs ==
  ASSUME WInv, NEW seeds \in SeedSets, NEW t \in Times, Retrieve(seeds, t)
  PROVE Weighted'
<1>1. IInv /\ WControl /\ WeighsAll(cols)
  BY WParts
<1>2. /\ Request("retrieve") /\ trace' = Traced(seeds, t)
      /\ UNCHANGED <<valid, cols, config, log, disk>>
  BY DEF Retrieve
<1>3. IsTrace(trace')
  BY <1>2, TracedIs
<1>4. WControl'
  <2>1. CASE homeo' = Observed(Mass(trace')) /\ scale' = Clamp(1 + homeo'.integral, 1, ScaleMax)
    <3>2. homeo' \in Homeostat
      BY <1>1, <1>3, <2>1, MassIs, ObservedIs DEF WControl
    <3>3. ScaleMax \in Nat \ {0} /\ IntegralMax \in Nat
      BY PlasticityAssumption
    <3>4. homeo'.integral \in Int
      BY <3>2, <3>3 DEF Homeostat
    <3>5. scale' \in 1 .. ScaleMax
      BY <2>1, <3>3, <3>4 DEF Clamp
    <3> QED
      BY <3>2, <3>5 DEF WControl
  <2>2. CASE UNCHANGED control
    BY <2>2, SameControl
  <2> QED
    BY <2>1, <2>2 DEF Retrieve
<1>5. WConfig' /\ WSaved' /\ NewHistory
  BY <1>2, SameRest, SameSaved, WRequest
<1>6. WeighsAll(cols') /\ \A i \in Ids : valid'[i].from = valid[i].from
  BY <1>1, <1>2
<1> QED
  BY <1>3, <1>4, <1>5, <1>6, WKeeps


LEMMA LearnWeighs ==
  ASSUME WInv, NEW tr, IsTrace(tr), NEW credit \in [Nodes -> Int], NEW t \in Times, Learn(tr, credit, t)
  PROVE Weighted'
<1> DEFINE given == IF Penalty > 0 THEN WithPenalty(tr, credit, Penalty) ELSE credit
           a == Assigned(tr, given)
<1>1. /\ Request("feedback") /\ cols' = Touched(a.edges, a.r, t) /\ TrySave
      /\ UNCHANGED <<valid, config, control, trace, log>>
  BY DEF Learn
<1>2. given \in [Nodes -> Int]
  BY PlasticityAssumption, WithPenaltyIs
<1> HIDE DEF given
<1>3. a \in Credited
  BY <1>2, AssignedFacts
<1>4. \A i \in Ids : a.r[i] \in Int
  BY <1>3, IdFacts DEF Credited, WInv
<1> HIDE DEF a
<1>5. WeighsAll(cols')
  BY <1>1, <1>4, TouchedAll
<1>6. WConfig' /\ WControl' /\ IsTrace(trace')
  BY <1>1, WParts, SameRest, SameControl
<1>7. WSaved' /\ NewHistory
  BY <1>1, <1>5, WSaves, WCounts
<1>8. \A i \in Ids : valid'[i].from = valid[i].from
  BY <1>1
<1> QED
  BY <1>5, <1>6, <1>7, <1>8, WKeeps

LEMMA FeedbackWeighs ==
  ASSUME WInv, NEW scores \in Credits, NEW t \in Times, Feedback(scores, t)
  PROVE Weighted'
<1>1. Learn(trace, NodeCredit(scores), t) /\ IsTrace(trace)
  BY WParts DEF Feedback
<1> QED
  BY <1>1, NodeCreditIs, LearnWeighs

LEMMA RewardWeighs ==
  ASSUME WInv, NEW seeds \in SeedSets, NEW r \in Rewards, NEW t \in Times, Reward(seeds, r, t)
  PROVE Weighted'
<1> DEFINE tr == Traced(seeds, t)
<1>0. PICK uniform \in BOOLEAN : Learn(tr, EpisodeCredit(tr, r, uniform), t)
  BY DEF Reward
<1>1. tr.surfaced # <<>> /\ Learn(tr, EpisodeCredit(tr, r, uniform), t) /\ IsTrace(tr)
  BY <1>0, TracedIs DEF Reward
<1>2. r \in Int
  BY PlasticityAssumption
<1> HIDE DEF tr
<1>3. EpisodeCredit(tr, r, uniform) \in [Nodes -> Int]
  BY <1>1, <1>2, EpisodeCreditIs
<1> QED
  BY <1>1, <1>3, LearnWeighs

\* The two passes over all columns.
LEMMA PassWeighs ==
  ASSUME WInv, NEW edges, NEW w, \A i \in Ids : w[i] \in Nat, NEW t \in Times, NEW weak
  PROVE WeighsAll(Renormalized(Pruned(AsOf(edges, w, t), weak)))
<1> DEFINE c == Pruned(AsOf(edges, w, t), weak)
           d == Renormalized(c)
<1>1. \A i \in Ids : IsWeighed(c[i])
  BY AsOfWeighs, PrunedWeighs
<1>2. d = [i \in Ids |-> d[i]]
  BY DEF Renormalized
<1> HIDE DEF c
<1>3. \A i \in Ids : IsWeighed(d[i])
  BY <1>1, RenormalizedWeighs DEF WInv
<1> HIDE DEF d
<1>4. WeighsAll(d)
  BY <1>2, <1>3 DEF WeighsAll
<1> QED
  BY <1>4 DEF d, c

LEMMA ConsolidateWeighs ==
  ASSUME WInv, NEW t \in Times, NEW apply \in BOOLEAN, Consolidate(t, apply)
  PROVE Weighted'
<1> DEFINE w == [i \in Ids |-> Eff(i, t)]
           weak == {i \in Live : w[i] < Theta}
<1>1. /\ cols' = Renormalized(Pruned(AsOf(Live \ weak, w, t), weak))
      /\ UNCHANGED <<config, control, trace>>
  BY DEF Consolidate
<1>2. \A i \in Ids : w[i] \in Nat
  BY EffFacts
<1> HIDE DEF w, weak
<1>3. WeighsAll(cols')
  BY <1>1, <1>2, PassWeighs
<1>4. WConfig' /\ WControl' /\ IsTrace(trace')
  BY <1>1, WParts, SameRest, SameControl
<1>5. CASE ~apply
  <2>1. Request("consolidate") /\ TrySave /\ UNCHANGED <<valid, log>>
    BY <1>5 DEF Consolidate
  <2>2. WSaved' /\ NewHistory
    BY <1>3, <2>1, WSaves, WCounts
  <2> QED
    BY <1>3, <1>4, <2>1, <2>2, WKeeps
<1>6. CASE apply
  <2>1. Resolve(Losers(cols'), t)
    BY <1>6 DEF Consolidate
  <2>2. (TrySave \/ NoSave) /\ \E edges : valid' = Ended(edges, t)
    BY <2>1 DEF Resolve
  <2>3. \A i \in Ids : valid'[i].from = valid[i].from
    BY <2>2, EndedStarts DEF WInv, IInv, SameStarts
  <2>4. WSaved' /\ unsaved' \subseteq Ids /\ outdated' \subseteq {"memory", "sidecar"}
    BY <1>3, <2>2, WSaves
  <2>5. NewHistory
    <3>1. WHistory /\ MaxSteps \in Nat
      BY WParts, PlasticityAssumption
    <3>2. steps < MaxSteps /\ steps' = steps + 1
      BY <2>1 DEF Resolve, Request
    <3>3. steps' \in 0 .. MaxSteps
      BY <3>1, <3>2 DEF WHistory
    <3>4. wedged' \in BOOLEAN
      BY <2>1, <3>1 DEF Resolve, WHistory
    <3>5. Losers(cols') \subseteq Ids
      BY DEF Losers, Conflicting
    <3>6. loose' \subseteq Ids
      BY <2>1, <3>1, <3>5 DEF Resolve, WHistory
    <3> QED
      BY <2>4, <3>3, <3>4, <3>6 DEF NewHistory
  <2> QED
    BY <1>3, <1>4, <2>3, <2>4, <2>5, WKeeps
<1> QED
  BY <1>5, <1>6

\* What sleep leaves of the weights.
LEMMA AsleepFacts ==
  ASSUME NEW x \in Nat
  PROVE (x * SleepN) \div SleepD \in Nat
<1>1. SleepN \in Nat /\ SleepD \in Nat /\ SleepD > 0
  <2>1. SleepN \in Nat /\ SleepD \in Nat \ {0}
    BY PlasticityAssumption
  <2> QED
    BY <2>1
<1> DEFINE y == x * SleepN
<1>2. y \in Nat
  BY <1>1, TimesFacts
<1> HIDE DEF y
<1>3. y \div SleepD \in Nat
  BY <1>1, <1>2, DivFacts
<1> QED
  BY <1>3 DEF y

LEMMA SleepWeighs ==
  ASSUME WInv, NEW t \in Times, Sleep(t)
  PROVE Weighted'
<1> DEFINE w == [i \in Ids |-> Eff(i, t)]
           asleep == [i \in Ids |-> (w[i] * SleepN) \div SleepD]
           weak == {i \in Live : asleep[i] < SleepTheta /\ w[i] < Threshold(w)}
<1>1. /\ Request("sleep") /\ cols' = Renormalized(Pruned(AsOf(Live, asleep, t), weak)) /\ TrySave
      /\ UNCHANGED <<valid, config, control, trace, log>>
  BY DEF Sleep
<1>2. \A i \in Ids : w[i] \in Nat
  BY EffFacts
<1> HIDE DEF w
<1>3. \A i \in Ids : asleep[i] \in Nat
  BY <1>2, AsleepFacts
<1> HIDE DEF asleep, weak
<1>4. WeighsAll(cols')
  BY <1>1, <1>3, PassWeighs
<1>5. WConfig' /\ WControl' /\ IsTrace(trace')
  BY <1>1, WParts, SameRest, SameControl
<1>6. WSaved' /\ NewHistory
  BY <1>1, <1>4, WSaves, WCounts
<1>7. \A i \in Ids : valid'[i].from = valid[i].from
  BY <1>1
<1> QED
  BY <1>4, <1>5, <1>6, <1>7, WKeeps

LEMMA ConfigureWeighs ==
  ASSUME WInv, NEW c \in Configs, NEW origins \in SUBSET Origins, Configure(c, origins)
  PROVE Weighted'
<1>1. /\ Request("config") /\ cfg' = c /\ distrusted' = origins
      /\ homeo' = [homeo EXCEPT !.setpoint = c.setpoint]
      /\ UNCHANGED <<valid, cols, scale, trace, log, saved, unsaved>>
  BY DEF Configure
<1>2. WeighsAll(cols) /\ WControl /\ WHistory /\ IsTrace(trace)
  BY WParts
<1>3. c.setpoint \in Nat
  BY PlasticityAssumption
<1>4. WControl'
  BY <1>1, <1>2, <1>3 DEF WControl, Homeostat
<1>5. NewHistory
  <2>1. outdated' \subseteq outdated \cup {"sidecar"}
    BY DEF Configure
  <2> QED
    BY <1>1, <1>2, <2>1, WCounts DEF WHistory
<1>6. WConfig' /\ WSaved' /\ IsTrace(trace')
  BY <1>1, <1>2, SameSaved DEF WConfig
<1>7. WeighsAll(cols') /\ \A i \in Ids : valid'[i].from = valid[i].from
  BY <1>1, <1>2
<1> QED
  BY <1>4, <1>5, <1>6, <1>7, WKeeps

LEMMA QuarantineWeighs ==
  ASSUME WInv, NEW origin \in Origins, NEW trusted \in BOOLEAN, Quarantine(origin, trusted)
  PROVE Weighted'
<1>1. /\ Request("quarantine")
      /\ distrusted' = IF trusted THEN distrusted \ {origin} ELSE distrusted \cup {origin}
      /\ UNCHANGED <<valid, cols, cfg, control, trace, log, disk>>
  BY DEF Quarantine
<1>2. WeighsAll(cols) /\ WConfig /\ IsTrace(trace)
  BY WParts
<1>3. WConfig'
  BY <1>1, <1>2 DEF WConfig
<1>4. WControl' /\ WSaved' /\ NewHistory /\ IsTrace(trace')
  BY <1>1, <1>2, SameControl, SameSaved, WRequest
<1>5. WeighsAll(cols') /\ \A i \in Ids : valid'[i].from = valid[i].from
  BY <1>1, <1>2
<1> QED
  BY <1>3, <1>4, <1>5, WKeeps

\* What an edge finds in the sidecar.
LEMMA RestoredIs ==
  ASSUME WInv, NEW i \in Ids
  PROVE IsWeighed(Restored(i))
<1> DEFINE same == {j \in DOMAIN saved.keys : saved.keys[j] = Key(i)}
<1>1. WStarts /\ WSaved /\ Sidecar /\ Tables
  BY WParts DEF IInv
<1>2. CASE same = {}
  <2>1. Restored(i) = Fresh(i, valid[i].from)
    BY <1>2 DEF Restored
  <2> QED
    BY <1>1, <2>1, FreshWeighs DEF WStarts
<1>3. CASE same # {}
  <2>1. PICK m \in 0 .. Len(cols) : DOMAIN saved.keys = 1 .. m /\ DOMAIN saved.cols = 1 .. m
    BY <1>1 DEF Sidecar
  <2>2. m \in Nat /\ same \in SUBSET (1 .. m)
    BY <2>1
  <2>3. Restored(i) = saved.cols[Max(same)]
    BY <1>3 DEF Restored
  <2> HIDE DEF same
  <2>4. Max(same) \in 1 .. m
    BY <1>3, <2>2, Greatest
  <2> QED
    BY <1>1, <2>1, <2>3, <2>4 DEF WSaved
<1> QED
  BY <1>2, <1>3

LEMMA RestartWeighs ==
  ASSUME WInv, Restart
  PROVE Weighted'
<1>1. /\ Request("restart") /\ cols' = [i \in Ids |-> Restored(i)]
      /\ wedged' = FALSE /\ loose' = {} /\ unsaved' = {}
      /\ UNCHANGED <<config, trace, saved>>
  BY DEF Restart
<1>2. WConfig /\ WSaved /\ WHistory /\ IsTrace(trace)
  BY WParts
<1>3. WeighsAll(cols')
  BY <1>1, RestoredIs DEF WeighsAll
<1>4. WControl'
  <2>1. CASE saved = NoSidecar
    <3>1. homeo' = FromConfig(cfg) /\ scale' = 1
      BY <2>1 DEF Restart
    <3>2. cfg.setpoint \in Nat /\ ScaleMax \in Nat \ {0} /\ IntegralMax \in Nat
      BY <1>2, PlasticityAssumption DEF WConfig
    <3> QED
      BY <3>1, <3>2 DEF FromConfig, WControl, Homeostat
  <2>2. CASE saved # NoSidecar
    <3>1. homeo' = saved.homeo /\ scale' = saved.scale
      BY <2>2 DEF Restart
    <3> QED
      BY <1>2, <2>2, <3>1 DEF WControl, WSaved
  <2> QED
    BY <2>1, <2>2
<1>5. NewHistory
  <2>1. steps < MaxSteps /\ steps' = steps + 1 /\ steps \in 0 .. MaxSteps /\ MaxSteps \in Nat
    BY <1>1, <1>2, PlasticityAssumption DEF Request, WHistory
  <2>2. outdated' \subseteq {"memory", "sidecar"}
    BY DEF Restart
  <2>3. steps' \in 0 .. MaxSteps
    BY <2>1
  <2> QED
    BY <1>1, <2>2, <2>3 DEF NewHistory
<1>6. WConfig' /\ WSaved' /\ IsTrace(trace')
  BY <1>1, <1>2, SameRest, SameSaved
<1>7. \A i \in Ids : valid'[i].from = valid[i].from
  BY EndedStarts DEF Restart, WInv, IInv, SameStarts
<1> QED
  BY <1>3, <1>4, <1>5, <1>6, <1>7, WKeeps

LEMMA StutterWeighs ==
  ASSUME WInv, UNCHANGED vars
  PROVE Weighted'
<1>1. UNCHANGED <<valid, cols, config, control, trace, saved, wedged, loose, unsaved, outdated, steps>>
  BY DEF vars, log, disk
<1>2. WeighsAll(cols) /\ WHistory /\ IsTrace(trace)
  BY WParts
<1>3. NewHistory
  BY <1>1, <1>2 DEF WHistory, NewHistory
<1>4. WConfig' /\ WControl' /\ WSaved' /\ IsTrace(trace')
  BY <1>1, <1>2, SameRest, SameControl, SameSaved
<1>5. WeighsAll(cols') /\ \A i \in Ids : valid'[i].from = valid[i].from
  BY <1>1, <1>2
<1> QED
  BY <1>3, <1>4, <1>5, WKeeps

LEMMA InitWeighs ==
  ASSUME Init
  PROVE WInv
<1>1. IInv
  BY InitOK
<1>2. /\ cfg = FirstConfig /\ distrusted = {} /\ homeo = FromConfig(cfg) /\ scale = 1
      /\ valid = [i \in 1 .. First |-> [from |-> 0, to |-> Open]]
      /\ cols = [i \in 1 .. First |-> Fresh(i, 0)]
      /\ trace = NoTrace /\ saved = NoSidecar /\ steps = 0
      /\ wedged = FALSE /\ loose = {} /\ unsaved = {} /\ outdated = {}
  BY DEF Init
<1>3. Ids = 1 .. First
  BY <1>1, <1>2, IdFacts
<1>4. WCols /\ WStarts
  BY <1>2, <1>3, FreshWeighs DEF WCols, WStarts
<1>5. FirstConfig \in Configs /\ FirstConfig.setpoint \in Nat /\ ScaleMax \in Nat \ {0} /\ IntegralMax \in Nat
      /\ MaxSteps \in Nat
  BY PlasticityAssumption
<1>6. WConfig /\ WControl /\ WHistory
  <2>1. WConfig
    BY <1>2, <1>5 DEF WConfig
  <2>2. WControl
    BY <1>2, <1>5 DEF WControl, FromConfig, Homeostat
  <2>3. steps \in 0 .. MaxSteps
    BY <1>2, <1>5
  <2>4. WHistory
    BY <1>2, <2>3 DEF WHistory
  <2> QED
    BY <2>1, <2>2, <2>4
<1>7. WSaved
  BY <1>2, <1>5 DEF WSaved, NoSidecar, NoHomeostat, Homeostat
<1> QED
  BY <1>1, <1>2, <1>4, <1>6, <1>7, NoTraceIs DEF WInv, Weighted

LEMMA WNext ==
  ASSUME WInv, [Next]_vars
  PROVE WInv'
<1>1. IInv'
  BY NextStep DEF WInv
<1>2. Weighted'
  <2>1. CASE \E t \in Times : Observe(t)
    BY <2>1, ObserveWeighs
  <2>2. CASE \E t \in Times, i \in Ids : Retire(i, t)
    BY <2>2, RetireWeighs
  <2>3. CASE \E t \in Times, i \in Ids, r \in Rewards : Touch(i, r, t)
    BY <2>3, TouchWeighs
  <2>4. CASE \E t \in Times, seeds \in SeedSets : Retrieve(seeds, t)
    BY <2>4, RetrieveWeighs
  <2>5. CASE \E t \in Times, scores \in Credits : Feedback(scores, t)
    BY <2>5, FeedbackWeighs
  <2>6. CASE \E t \in Times, seeds \in SeedSets, r \in Rewards : Reward(seeds, r, t)
    BY <2>6, RewardWeighs
  <2>7. CASE \E t \in Times, apply \in BOOLEAN : Consolidate(t, apply)
    BY <2>7, ConsolidateWeighs
  <2>8. CASE \E t \in Times : Sleep(t)
    BY <2>8, SleepWeighs
  <2>9. CASE \E c \in Configs, origins \in SUBSET Origins : Configure(c, origins)
    BY <2>9, ConfigureWeighs
  <2>10. CASE \E origin \in Origins, trusted \in BOOLEAN : Quarantine(origin, trusted)
    BY <2>10, QuarantineWeighs
  <2>11. CASE Restart
    BY <2>11, RestartWeighs
  <2>12. CASE UNCHANGED vars
    BY <2>12, StutterWeighs
  <2> QED
    BY <2>1, <2>2, <2>3, <2>4, <2>5, <2>6, <2>7, <2>8, <2>9, <2>10, <2>11, <2>12 DEF Next
<1> QED
  BY <1>1, <1>2 DEF WInv

LEMMA TypeFollows ==
  ASSUME WInv
  PROVE TypeOK
<1>1. Len(valid) = Len(cols) /\ Len(rate) = Len(cols) /\ Ids = 1 .. Len(cols)
  BY IdFacts DEF WInv
<1>2. masked \subseteq Ids
  BY <1>1 DEF WInv, IInv, DerivedIsCurrent, Masked
<1>3. \A i \in Ids : cols[i].w \in Nat /\ cols[i].t \in Times \cup {0} /\ (cols[i].dead => cols[i].w = 0)
  BY WParts DEF WCols, IsWeighed
<1>4. WConfig /\ WControl /\ WHistory
  BY WParts
<1> QED
  BY <1>1, <1>2, <1>3, <1>4 DEF TypeOK, WConfig, WControl, WHistory, Homeostat


-----------------------------------------------------------------------------
(* What an edge deserves.                                                  *)

\* What each firing gets, and passes back.
Gotten(a, tr) ==
  [i \in 1 .. Len(tr.fired) |-> Gets(a[Len(tr.fired) - i].credit, tr.fired[i], tr.incoming)]
PassedOn(g) == [i \in DOMAIN g |-> Passes(g[i])]

\* The firings from the m-th on, of a node and of an edge.
LaterOf(tr, m, x) == {j \in m .. Len(tr.fired) : EdgeTable[tr.fired[j].eid].src = x}
LaterAlong(tr, m, e) == {j \in m .. Len(tr.fired) : tr.fired[j].eid = e}

\* What the walk back has paid when it has come to the m-th.
HasPaid(s, g, tr, credit, m) ==
  /\ \A x \in Nodes : s.credit[x] = credit[x] + SumOf(PassedOn(g), LaterOf(tr, m, x))
  /\ \A e \in EdgeIds : s.r[e] = SumOf(g, LaterAlong(tr, m, e))

LEMMA SumMore ==
  ASSUME NEW S, IsFiniteSet(S), NEW x, x \notin S, NEW h, IntOn(h, S \cup {x})
  PROVE SumOf(h, S \cup {x}) = h[x] + SumOf(h, S)
<1> DEFINE T == S \cup {x}
<1>1. IsFiniteSet(T) /\ x \in T /\ T \ {x} = S
  BY FS_AddElement
<1> HIDE DEF T
<1>2. SumOf(h, T) = h[x] + SumOf(h, T \ {x})
  BY <1>1, SumFacts DEF T
<1> QED
  BY <1>1, <1>2 DEF T

LEMMA LaterFacts ==
  ASSUME NEW tr, IsTrace(tr), NEW m \in Nat, m > 0, m <= Len(tr.fired), NEW x
  PROVE /\ LaterOf(tr, m, x) =
             IF EdgeTable[tr.fired[m].eid].src = x THEN LaterOf(tr, m + 1, x) \cup {m} ELSE LaterOf(tr, m + 1, x)
        /\ LaterAlong(tr, m, x) =
             IF tr.fired[m].eid = x THEN LaterAlong(tr, m + 1, x) \cup {m} ELSE LaterAlong(tr, m + 1, x)
        /\ m \notin LaterOf(tr, m + 1, x) /\ m \notin LaterAlong(tr, m + 1, x)
<1> DEFINE n == Len(tr.fired)
<1>1. n \in Nat
  BY BackwardsFacts
<1> HIDE DEF n
<1>2. m .. n = (m + 1 .. n) \cup {m} /\ m \notin m + 1 .. n
  BY <1>1 DEF n
<1> QED
  BY <1>2 DEF LaterOf, LaterAlong, n

LEMMA LaterFinite ==
  ASSUME NEW tr, IsTrace(tr), NEW m \in Nat, m > 0, NEW x
  PROVE /\ IsFiniteSet(LaterOf(tr, m, x)) /\ IsFiniteSet(LaterAlong(tr, m, x))
        /\ LaterOf(tr, m, x) \subseteq 1 .. Len(tr.fired) /\ LaterAlong(tr, m, x) \subseteq 1 .. Len(tr.fired)
<1> DEFINE n == Len(tr.fired)
<1>1. n \in Nat
  BY BackwardsFacts
<1>2. LaterOf(tr, m, x) \subseteq 1 .. n /\ LaterAlong(tr, m, x) \subseteq 1 .. n
  BY <1>1 DEF LaterOf, LaterAlong
<1>3. IsFiniteSet(1 .. n)
  BY <1>1, FS_Interval
<1> QED
  BY <1>2, <1>3, FS_Subset

LEMMA GottenFacts ==
  ASSUME NEW tr, IsTrace(tr), NEW credit \in [Nodes -> Int], NEW a, PassChain(a, tr, credit)
  PROVE LET g == Gotten(a, tr)
        IN /\ g \in [1 .. Len(tr.fired) -> Int] /\ PassedOn(g) \in [1 .. Len(tr.fired) -> Int]
           /\ \A i \in 1 .. Len(tr.fired) : PassedOn(g)[i] = Passes(g[i])
<1> DEFINE n == Len(tr.fired)
           g == Gotten(a, tr)
<1>1. n \in Nat /\ \A i \in 1 .. n : IsFiring(tr.fired[i], tr.incoming)
  BY BackwardsFacts
<1>2. \A k \in 0 .. n : a[k] \in Credited
  BY DEF PassChain
<1>3. \A i \in 1 .. n : n - i \in 0 .. n
  BY <1>1
<1>4. \A i \in 1 .. n : g[i] = Gets(a[n - i].credit, tr.fired[i], tr.incoming)
  BY DEF Gotten
<1>5. DOMAIN g = 1 .. n
  BY DEF Gotten
<1>6. g = [i \in 1 .. n |-> g[i]]
  BY DEF Gotten
<1> HIDE DEF g, n
<1>7. ASSUME NEW i \in 1 .. n PROVE g[i] \in Int /\ Passes(g[i]) \in Int
  <2>1. a[n - i].credit \in [Nodes -> Int]
    BY <1>2, <1>3 DEF Credited
  <2> DEFINE c == a[n - i].credit
             f == tr.fired[i]
  <2>2. c \in [Nodes -> Int] /\ IsFiring(f, tr.incoming) /\ g[i] = Gets(c, f, tr.incoming)
    BY <1>1, <1>4, <2>1
  <2> HIDE DEF c, f
  <2> QED
    BY <2>2, GetsFacts
<1>8. g \in [1 .. n -> Int]
  BY <1>6, <1>7
<1>9. PassedOn(g) = [i \in 1 .. n |-> Passes(g[i])]
  BY <1>5 DEF PassedOn
<1>10. PassedOn(g) \in [1 .. n -> Int] /\ \A i \in 1 .. n : PassedOn(g)[i] = Passes(g[i])
  BY <1>7, <1>9
<1> QED
  BY <1>8, <1>10 DEF g, n

\* One firing on.
LEMMA PaysOn ==
  ASSUME NEW tr, IsTrace(tr), NEW credit \in [Nodes -> Int], NEW g \in [1 .. Len(tr.fired) -> Int],
         PassedOn(g) \in [1 .. Len(tr.fired) -> Int],
         NEW m \in 1 .. Len(tr.fired), PassedOn(g)[m] = Passes(g[m]),
         NEW s \in Credited, HasPaid(s, g, tr, credit, m + 1), g[m] = Gets(s.credit, tr.fired[m], tr.incoming)
  PROVE HasPaid(PassBack(s, tr.fired[m], tr.incoming), g, tr, credit, m)
<1> DEFINE n == Len(tr.fired)
           f == tr.fired[m]
           t == PassBack(s, f, tr.incoming)
           u == EdgeTable[f.eid].src
           p == PassedOn(g)
<1>1. n \in Nat /\ m \in Nat /\ m > 0 /\ m <= n /\ m + 1 \in Nat /\ m + 1 > 0 /\ IsFiring(f, tr.incoming)
  <2>1. n \in Nat /\ IsFiring(f, tr.incoming)
    BY BackwardsFacts
  <2> QED
    BY <2>1
<1>2. g[m] \in Int /\ p[m] \in Int /\ p[m] = Passes(g[m])
  OBVIOUS
<1>3. t.credit = [s.credit EXCEPT ![u] = @ + p[m]] /\ t.r = [s.r EXCEPT ![f.eid] = @ + g[m]]
  <2> DEFINE got == Gets(s.credit, f, tr.incoming)
  <2>1. /\ PassBack(s, f, tr.incoming).credit = [s.credit EXCEPT ![u] = @ + Passes(got)]
        /\ PassBack(s, f, tr.incoming).r = [s.r EXCEPT ![f.eid] = @ + got]
    <3> HIDE DEF f, n
    <3>1. PaysBack(PassBack(s, f, tr.incoming), s, f, got)
      BY <1>1, PassBackFacts
    <3> QED
      BY <3>1 DEF PaysBack
  <2>2. got = g[m] /\ Passes(got) = p[m]
    OBVIOUS
  <2> HIDE DEF got, f, u, p
  <2> QED
    BY <2>1, <2>2
<1>4. s.credit \in [Nodes -> Int] /\ s.r \in [EdgeIds -> Int] /\ u \in Nodes /\ f.eid \in EdgeIds
  BY <1>1 DEF Credited, IsFiring
<1> HIDE DEF t
<1>5. ASSUME NEW x \in Nodes PROVE t.credit[x] = credit[x] + SumOf(p, LaterOf(tr, m, x))
  <2> DEFINE L == LaterOf(tr, m + 1, x)
             old == SumOf(p, L)
  <2>1. IsFiniteSet(L) /\ L \subseteq 1 .. n /\ m \notin L
    BY <1>1, LaterFinite, LaterFacts
  <2>2. s.credit[x] = credit[x] + old
    BY DEF HasPaid
  <2>3. LaterOf(tr, m, x) = IF u = x THEN L \cup {m} ELSE L
    BY <1>1, LaterFacts
  <2> HIDE DEF L, p, n
  <2>4. IntOn(p, L) /\ IntOn(p, L \cup {m})
    BY <2>1 DEF IntOn, p, n
  <2>5. old \in Int /\ SumOf(p, L \cup {m}) = p[m] + old
    BY <2>1, <2>4, SumFacts, SumMore
  <2>6. credit[x] \in Int
    OBVIOUS
  <2> HIDE DEF old
  <2>7. CASE u = x
    <3>1. t.credit[x] = s.credit[x] + p[m]
      BY <1>3, <1>4, <2>7
    <3>2. SumOf(p, LaterOf(tr, m, x)) = p[m] + old
      BY <2>3, <2>5, <2>7
    <3> QED
      BY <1>2, <2>2, <2>5, <2>6, <3>1, <3>2
  <2>8. CASE u # x
    <3>1. t.credit[x] = s.credit[x] /\ SumOf(p, LaterOf(tr, m, x)) = old
      BY <1>3, <1>4, <2>3, <2>8 DEF old
    <3> QED
      BY <2>2, <3>1, Zenon
  <2> QED
    BY <2>7, <2>8
<1>6. ASSUME NEW x \in EdgeIds PROVE t.r[x] = SumOf(g, LaterAlong(tr, m, x))
  <2> DEFINE L == LaterAlong(tr, m + 1, x)
             old == SumOf(g, L)
  <2>1. IsFiniteSet(L) /\ L \subseteq 1 .. n /\ m \notin L
    BY <1>1, LaterFinite, LaterFacts
  <2>2. s.r[x] = old
    BY DEF HasPaid
  <2>3. LaterAlong(tr, m, x) = IF f.eid = x THEN L \cup {m} ELSE L
    BY <1>1, LaterFacts
  <2> HIDE DEF L, p, n
  <2>4. IntOn(g, L) /\ IntOn(g, L \cup {m})
    BY <2>1 DEF IntOn, n
  <2>5. old \in Int /\ SumOf(g, L \cup {m}) = g[m] + old
    BY <2>1, <2>4, SumFacts, SumMore
  <2> HIDE DEF old
  <2>7. CASE f.eid = x
    <3>1. t.r[x] = s.r[x] + g[m]
      BY <1>3, <1>4, <2>7
    <3>2. SumOf(g, LaterAlong(tr, m, x)) = g[m] + old
      BY <2>3, <2>5, <2>7
    <3> QED
      BY <1>2, <2>2, <2>5, <3>1, <3>2
  <2>8. CASE f.eid # x
    <3>1. t.r[x] = s.r[x] /\ SumOf(g, LaterAlong(tr, m, x)) = old
      BY <1>3, <1>4, <2>3, <2>8 DEF old
    <3> QED
      BY <2>2, <3>1, Zenon
  <2> QED
    BY <2>7, <2>8
<1>7. HasPaid(t, g, tr, credit, m)
  BY <1>5, <1>6 DEF HasPaid, p
<1> QED
  BY <1>7 DEF t

LEMMA PaysAll ==
  ASSUME NEW tr, IsTrace(tr), NEW credit \in [Nodes -> Int], NEW a, PassChain(a, tr, credit)
  PROVE LET g == Gotten(a, tr)
            n == Len(tr.fired)
        IN \A k \in 0 .. n : HasPaid(a[k], g, tr, credit, n - k + 1)
<1> DEFINE n == Len(tr.fired)
           g == Gotten(a, tr)
           b == Backwards(tr.fired)
           K == {k \in Nat : k <= n => HasPaid(a[k], g, tr, credit, n - k + 1)}
<1>1. /\ n \in Nat /\ \A k \in 1 .. n : b[k] = tr.fired[n - k + 1]
      /\ g \in [1 .. n -> Int] /\ PassedOn(g) \in [1 .. n -> Int]
      /\ \A i \in 1 .. n : PassedOn(g)[i] = Passes(g[i])
  BY BackwardsFacts, GottenFacts
<1>2. /\ a[0] = NoneYet(credit) /\ \A k \in 0 .. n : a[k] \in Credited
      /\ \A k \in Nat : k < n => a[k + 1] = PassBack(a[k], b[k + 1], tr.incoming)
  BY DEF PassChain
<1>3. \A i \in 1 .. n : g[i] = Gets(a[n - i].credit, tr.fired[i], tr.incoming)
  BY DEF Gotten
<1> HIDE DEF g, b
<1>4. 0 \in K
  <2>1. n + 1 > 0 /\ n + 1 \in Nat /\ n - 0 + 1 = n + 1
    BY <1>1
  <2>2. \A x : LaterOf(tr, n + 1, x) = {} /\ LaterAlong(tr, n + 1, x) = {}
    <3>1. n + 1 .. n = {}
      BY <1>1
    <3> QED
      BY <3>1 DEF LaterOf, LaterAlong
  <2>3. \A h : SumOf(h, {}) = 0
    BY FS_EmptySet, SumFacts DEF IntOn
  <2>4. a[0].credit = credit /\ \A x \in EdgeIds : a[0].r[x] = 0
    BY <1>2 DEF NoneYet, EdgeIds
  <2>5. \A x \in Nodes : credit[x] = credit[x] + 0
    OBVIOUS
  <2>6. HasPaid(a[0], g, tr, credit, n + 1)
    BY <2>2, <2>3, <2>4, <2>5 DEF HasPaid
  <2> QED
    BY <2>1, <2>6
<1>5. ASSUME NEW k \in K PROVE k + 1 \in K
  <2>1. SUFFICES ASSUME k + 1 <= n PROVE HasPaid(a[k + 1], g, tr, credit, n - (k + 1) + 1)
    OBVIOUS
  <2> DEFINE m == n - k
             s == a[k]
             t == a[k + 1]
  <2>2. /\ k \in Nat /\ k < n /\ k + 1 \in 1 .. n /\ k \in 0 .. n /\ m \in 1 .. n
        /\ n - k + 1 = m + 1 /\ n - (k + 1) + 1 = m /\ n - m = k
    BY <1>1, <2>1
  <2>3. HasPaid(s, g, tr, credit, m + 1) /\ s \in Credited
    BY <1>2, <2>2
  <2>4. t = PassBack(s, tr.fired[m], tr.incoming)
    BY <1>1, <1>2, <2>2
  <2>5. g[m] = Gets(s.credit, tr.fired[m], tr.incoming) /\ PassedOn(g)[m] = Passes(g[m])
    BY <1>1, <1>3, <2>2
  <2> HIDE DEF m, s, t, K, n
  <2>6. HasPaid(t, g, tr, credit, m)
    BY <1>1, <2>2, <2>3, <2>4, <2>5, PaysOn DEF n
  <2> QED
    BY <2>2, <2>6 DEF t
<1>6. K = Nat
  <2>1. K \in SUBSET Nat
    OBVIOUS
  <2> HIDE DEF K
  <2> QED
    BY <1>4, <1>5, <2>1, Induction
<1>7. \A k \in 0 .. n : HasPaid(a[k], g, tr, credit, n - k + 1)
  <2>1. \A k \in 0 .. n : k \in K /\ k <= n
    BY <1>1, <1>6
  <2> QED
    BY <2>1
<1> QED
  BY <1>7 DEF g

DueTo(d, tr, credit, i) ==
  LET v == EdgeTable[tr.fired[i].eid].dst
  IN Divided(credit[v] + SumOf([j \in i + 1 .. Len(tr.fired) |-> (GammaN * d[j]) \div GammaD], LaterOf(tr, i + 1, v)),
             tr.fired[i].delta, tr.incoming[v])
AreDue(d, tr, credit) == d = [i \in 1 .. Len(tr.fired) |-> DueTo(d, tr, credit, i)]

LEMMA DeservedIs ==
  ASSUME NEW tr, NEW credit
  PROVE Deserved(tr, credit) =
          [e \in 1 .. Len(EdgeTable) |-> SumOf(CHOOSE d : AreDue(d, tr, credit), LaterAlong(tr, 1, e))]
BY DEF Deserved, AreDue, DueTo, LaterOf, LaterAlong

\* The part that is passed on to a firing is that of the later ones.
LEMMA DueToLater ==
  ASSUME NEW tr, IsTrace(tr), NEW d, NEW g, NEW credit, NEW m \in 1 .. Len(tr.fired),
         \A j \in m + 1 .. Len(tr.fired) : d[j] = g[j]
  PROVE DueTo(d, tr, credit, m) = DueTo(g, tr, credit, m)
<1>1. [j \in m + 1 .. Len(tr.fired) |-> (GammaN * d[j]) \div GammaD] =
      [j \in m + 1 .. Len(tr.fired) |-> (GammaN * g[j]) \div GammaD]
  OBVIOUS
<1> QED
  BY <1>1 DEF DueTo

LEMMA GottenAreDue ==
  ASSUME NEW tr, IsTrace(tr), NEW credit \in [Nodes -> Int], NEW a, PassChain(a, tr, credit)
  PROVE AreDue(Gotten(a, tr), tr, credit)
<1> DEFINE n == Len(tr.fired)
           g == Gotten(a, tr)
<1>1. /\ n \in Nat /\ g \in [1 .. n -> Int] /\ PassedOn(g) \in [1 .. n -> Int]
      /\ \A i \in 1 .. n : PassedOn(g)[i] = Passes(g[i])
      /\ \A i \in 1 .. n : IsFiring(tr.fired[i], tr.incoming)
  BY BackwardsFacts, GottenFacts
<1>2. \A i \in 1 .. n : g[i] = Gets(a[n - i].credit, tr.fired[i], tr.incoming)
  BY DEF Gotten
<1>3. \A k \in 0 .. n : HasPaid(a[k], g, tr, credit, n - k + 1)
  BY PaysAll
<1> HIDE DEF g
<1>4. ASSUME NEW i \in 1 .. n PROVE g[i] = DueTo(g, tr, credit, i)
  <2> DEFINE v == EdgeTable[tr.fired[i].eid].dst
             L == LaterOf(tr, i + 1, v)
             h == [j \in i + 1 .. n |-> (GammaN * g[j]) \div GammaD]
             s == a[n - i]
  <2>1. n - i \in 0 .. n /\ n - (n - i) + 1 = i + 1 /\ i + 1 \in Nat /\ i + 1 > 0
    BY <1>1, SMTT(30)
  <2>2. v \in Nodes
    BY <1>1 DEF IsFiring
  <2>3. HasPaid(s, g, tr, credit, i + 1)
    BY <1>3, <2>1
  <2>4. s.credit[v] = credit[v] + SumOf(PassedOn(g), L)
    BY <2>2, <2>3 DEF HasPaid
  <2>5. IsFiniteSet(L) /\ L \subseteq 1 .. n /\ L \subseteq i + 1 .. n
    <3>1. L \subseteq i + 1 .. n
      BY DEF LaterOf
    <3> QED
      BY <2>1, <3>1, LaterFinite
  <2>6. \A j \in L : PassedOn(g)[j] = h[j]
    BY <1>1, <2>5 DEF Passes
  <2>7. SumOf(PassedOn(g), L) = SumOf(h, L)
    <3> HIDE DEF L, h, n
    <3>1. IntOn(PassedOn(g), L)
      BY <1>1, <2>5 DEF IntOn
    <3> QED
      BY <2>5, <2>6, <3>1, SumSame
  <2>8. g[i] = Divided(s.credit[v], tr.fired[i].delta, tr.incoming[v])
    BY <1>2 DEF Gets
  <2>9. DueTo(g, tr, credit, i) = Divided(credit[v] + SumOf(h, L), tr.fired[i].delta, tr.incoming[v])
    BY DEF DueTo
  <2> HIDE DEF v, L, h, s
  <2> QED
    BY <2>4, <2>7, <2>8, <2>9
<1>5. g = [i \in 1 .. n |-> g[i]]
  BY <1>1
<1>6. g = [i \in 1 .. n |-> DueTo(g, tr, credit, i)]
  BY <1>4, <1>5
<1> QED
  BY <1>6 DEF AreDue, g

\* What is due is so from the last firing back.
LEMMA OneIsDue ==
  ASSUME NEW tr, IsTrace(tr), NEW credit, NEW d, AreDue(d, tr, credit), NEW g, AreDue(g, tr, credit)
  PROVE d = g
<1> DEFINE n == Len(tr.fired)
           K == {k \in Nat : k <= n => \A i \in n - k + 1 .. n : d[i] = g[i]}
<1>1. n \in Nat
  BY BackwardsFacts
<1>2. /\ d = [i \in 1 .. n |-> d[i]] /\ g = [i \in 1 .. n |-> g[i]]
      /\ \A i \in 1 .. n : d[i] = DueTo(d, tr, credit, i) /\ g[i] = DueTo(g, tr, credit, i)
  BY DEF AreDue
<1>3. 0 \in K
  <2>1. n - 0 + 1 .. n = {}
    BY <1>1
  <2> QED
    BY <2>1
<1>4. ASSUME NEW k \in K PROVE k + 1 \in K
  <2>1. SUFFICES ASSUME k + 1 <= n, NEW i \in n - (k + 1) + 1 .. n PROVE d[i] = g[i]
    OBVIOUS
  <2> DEFINE m == n - k
  <2>2. k \in Nat /\ k <= n /\ m \in 1 .. n /\ (i = m \/ i \in m + 1 .. n) /\ n - k + 1 = m + 1
    BY <1>1, <2>1
  <2>3. \A j \in m + 1 .. n : d[j] = g[j]
    BY <2>2
  <2>4. d[m] = g[m]
    <3> HIDE DEF m, K
    <3>1. DueTo(d, tr, credit, m) = DueTo(g, tr, credit, m)
      BY <2>2, <2>3, DueToLater
    <3> QED
      BY <1>2, <2>2, <3>1
  <2> QED
    BY <2>2, <2>3, <2>4
<1>5. K = Nat
  <2>1. K \in SUBSET Nat
    OBVIOUS
  <2> HIDE DEF K
  <2> QED
    BY <1>3, <1>4, <2>1, Induction
<1>6. \A i \in 1 .. n : d[i] = g[i]
  <2>1. n \in K /\ n - n + 1 = 1
    BY <1>1, <1>5
  <2> QED
    BY <1>1, <2>1
<1> QED
  BY <1>2, <1>6

LEMMA CreditRight ==
  ASSUME NEW tr, IsTrace(tr), NEW credit \in [Nodes -> Int]
  PROVE Assigned(tr, credit).r = Deserved(tr, credit)
<1> DEFINE n == Len(tr.fired)
           d == CHOOSE d : AreDue(d, tr, credit)
<1>1. PICK a : PassChain(a, tr, credit)
  BY PassRuns
<1> DEFINE g == Gotten(a, tr)
<1>2. AreDue(g, tr, credit)
  BY <1>1, GottenAreDue
<1>3. AreDue(d, tr, credit)
  BY <1>2, Zenon
<1>4. n \in Nat /\ HasPaid(a[n], g, tr, credit, 1)
  <2>1. n \in Nat /\ \A k \in 0 .. n : HasPaid(a[k], g, tr, credit, n - k + 1)
    BY <1>1, BackwardsFacts, PaysAll
  <2>2. n \in 0 .. n /\ n - n + 1 = 1
    BY <2>1
  <2> QED
    BY <2>1, <2>2
<1>5. a[n] \in Credited /\ Assigned(tr, credit) = a[n]
  BY <1>1, <1>4 DEF PassChain
<1>6. Deserved(tr, credit) = [e \in 1 .. Len(EdgeTable) |-> SumOf(d, LaterAlong(tr, 1, e))]
  BY DeservedIs
<1> HIDE DEF d, g
<1>7. d = g
  BY <1>2, <1>3, OneIsDue
<1>8. a[n].r = [e \in EdgeIds |-> a[n].r[e]]
  BY <1>5 DEF Credited
<1>9. \A e \in EdgeIds : a[n].r[e] = SumOf(g, LaterAlong(tr, 1, e))
  BY <1>4 DEF HasPaid
<1> QED
  BY <1>5, <1>6, <1>7, <1>8, <1>9 DEF EdgeIds

LEMMA CreditFollows ==
  ASSUME WInv
  PROVE CreditFollowsPaths
<1>1. IsTrace(trace)
  BY WParts
<1> QED
  BY <1>1, CreditRight, NodeCreditIs DEF CreditFollowsPaths


-----------------------------------------------------------------------------
(* Conflicts.                                                              *)

IsHeaviest(i, rivals, c) == i \in rivals /\ \A j \in rivals : c[i].w > c[j].w \/ (c[i].w = c[j].w /\ i <= j)

LEMMA WinnerIs ==
  ASSUME IInv, NEW c, \A i \in Ids : c[i].w \in Nat, NEW rivals \in SUBSET Ids, rivals # {}
  PROVE IsHeaviest(Winner(rivals, c), rivals, c)
<1> DEFINE before == {p \in Ids \X Ids : c[p[1]].w > c[p[2]].w \/ (c[p[1]].w = c[p[2]].w /\ p[1] < p[2])}
<1>1. IsFiniteSet(rivals) /\ \A x \in rivals : x \in Ids /\ x \in Nat
  <2>1. IsFiniteSet(Ids) /\ \A x \in Ids : x \in Nat
    BY IdFacts
  <2> QED
    BY <2>1, FS_Subset
<1>2. \A x, y \in rivals : <<x, y>> \in before <=> (c[x].w > c[y].w \/ (c[x].w = c[y].w /\ x < y))
  BY <1>1
<1>3. \A x \in rivals : c[x].w \in Nat
  BY <1>1
<1> HIDE DEF before
<1>4. Orders(before, rivals)
  <2>1. \A x \in rivals : <<x, x>> \notin before
    BY <1>1, <1>2, <1>3
  <2>2. \A x, y \in rivals : x # y => <<x, y>> \in before \/ <<y, x>> \in before
    BY <1>1, <1>2, <1>3
  <2>3. \A x, y, z \in rivals : <<x, y>> \in before /\ <<y, z>> \in before => <<x, z>> \in before
    BY <1>1, <1>2, <1>3
  <2> QED
    BY <2>1, <2>2, <2>3 DEF Orders
<1>5. PICK x : IsFirst(x, before, rivals)
  BY <1>1, <1>4, SomeIsFirst
<1>6. IsHeaviest(x, rivals, c)
  <2>1. x \in rivals /\ \A y \in rivals \ {x} : <<x, y>> \in before
    BY <1>5 DEF IsFirst
  <2>2. ASSUME NEW y \in rivals PROVE c[x].w > c[y].w \/ (c[x].w = c[y].w /\ x <= y)
    <3>1. CASE y = x
      BY <1>1, <1>3, <2>1, <3>1
    <3>2. CASE y # x
      <4>1. <<x, y>> \in before
        BY <2>1, <3>2
      <4>2. c[x].w > c[y].w \/ (c[x].w = c[y].w /\ x < y)
        BY <1>2, <2>1, <4>1
      <4>3. x \in Nat /\ y \in Nat
        BY <1>1, <2>1
      <4> QED
        BY <4>2, <4>3
    <3> QED
      BY <3>1, <3>2
  <2> QED
    BY <2>1, <2>2 DEF IsHeaviest
<1>7. Winner(rivals, c) = CHOOSE i : IsHeaviest(i, rivals, c)
  BY DEF Winner, IsHeaviest
<1> QED
  BY <1>6, <1>7, Zenon

LEMMA RivalFacts ==
  ASSUME NEW i \in Ids, IsOpen(i)
  PROVE /\ i \in Rivals(i) /\ Rivals(i) \in SUBSET Ids
        /\ \A k \in Rivals(i) :
             k \in Ids /\ IsOpen(k) /\ EdgeTable[k].kind = EdgeTable[i].kind /\ Rivals(k) = Rivals(i)
BY DEF Rivals, OutOf

Resolved(i, c, v) ==
  \E j \in Rivals(i) : \A k \in Rivals(i) : c[j].w >= c[k].w /\ ((v[k].to = Open) <=> k = j)

LEMMA Resolves ==
  ASSUME WInv, NEW t \in Times, Consolidate(t, TRUE), last' = "resolve", NEW i \in Ids,
         EdgeTable[i].kind \in Functional, IsOpen(i)
  PROVE Resolved(i, cols', valid')
<1> DEFINE c == cols'
           R == Rivals(i)
           j == Winner(R, c)
<1>1. IInv /\ DOMAIN valid = Ids
  BY IdFacts DEF WInv
<1>2. \A k \in Ids : c[k].w \in Nat
  <2>1. Weighted' /\ Ids' = Ids
    <3>1. IInv' /\ SameEdges(cols')
      <4> DEFINE w == [k \in Ids |-> Eff(k, t)]
                 weak == {k \in Live : w[k] < Theta}
      <4>1. cols' = Renormalized(Pruned(AsOf(Live \ weak, w, t), weak)) /\ Tables
        BY <1>1 DEF Consolidate, IInv
      <4>2. Live \ weak \subseteq Live
        OBVIOUS
      <4> HIDE DEF w, weak
      <4>3. Follows(cols')
        BY <4>1, <4>2, PrunedFollows, RenormalizedFollows
      <4> QED
        BY <1>1, <4>3, ConsolidateStep DEF Follows
    <3> QED
      BY <1>1, <3>1, SameLen, ConsolidateWeighs DEF IInv, Ids
  <2> QED
    BY <2>1 DEF Weighted, WCols, IsWeighed
<1>3. /\ valid' = [k \in Ids |-> IF k \in Conflicting /\ k # Winner(Rivals(k), c)
                                 THEN [valid[k] EXCEPT !.to = t] ELSE valid[k]]
  <2>1. Resolve(Losers(c), t)
    BY DEF Consolidate
  <2>2. valid' = Ended(Losers(c), t)
    BY <2>1 DEF Resolve, Request
  <2> QED
    BY <1>1, <2>2 DEF Ended, Losers
<1>4. /\ i \in R /\ R \in SUBSET Ids
      /\ \A k \in R : k \in Ids /\ IsOpen(k) /\ EdgeTable[k].kind \in Functional /\ Rivals(k) = R
  BY RivalFacts
<1> HIDE DEF c, R
<1>5. IsHeaviest(j, R, c)
  BY <1>1, <1>2, <1>4, WinnerIs
<1> HIDE DEF j
<1>6. ASSUME NEW k \in R PROVE c[j].w >= c[k].w /\ ((valid'[k].to = Open) <=> k = j)
  <2>1. c[j].w >= c[k].w
    <3>1. c[j].w \in Nat /\ c[k].w \in Nat /\ (c[j].w > c[k].w \/ c[j].w = c[k].w)
      BY <1>2, <1>4, <1>5 DEF IsHeaviest
    <3> QED
      BY <3>1
  <2>2. k \in Ids /\ valid[k].to = Open /\ Winner(Rivals(k), c) = j
    BY <1>4 DEF IsOpen, j
  <2>3. CASE k = j
    <3>1. valid'[k] = valid[k]
      BY <1>3, <2>2, <2>3
    <3> QED
      BY <2>1, <2>2, <2>3, <3>1
  <2>4. CASE k # j
    <3>1. k \in Conflicting
      <4>1. j \in R
        BY <1>5 DEF IsHeaviest
      <4>2. R # {k}
        BY <2>4, <4>1
      <4> QED
        BY <1>4, <2>2, <4>2 DEF Conflicting
    <3>2. valid'[k] = [valid[k] EXCEPT !.to = t]
      BY <1>3, <2>2, <2>4, <3>1
    <3>3. DOMAIN valid[k] = {"from", "to"}
      BY <1>1, <2>2 DEF IInv, Tables
    <3>4. valid'[k].to = t /\ t # Open
      BY <3>2, <3>3, TimeFacts
    <3> QED
      BY <2>1, <2>4, <3>4
  <2> QED
    BY <2>3, <2>4
<1>7. j \in R
  BY <1>5 DEF IsHeaviest
<1> QED
  BY <1>6, <1>7 DEF Resolved, R, c

\* Only one request resolves conflicts, and one is sleep.
LEMMA NamesRequests ==
  ASSUME [Next]_vars, steps' # steps
  PROVE /\ last' = "resolve" => \E t \in Times : Consolidate(t, TRUE)
        /\ last' = "sleep" => \E t \in Times : Sleep(t)
<1>1. CASE \E t \in Times : Observe(t)
  BY <1>1 DEF Observe, Request
<1>2. CASE \E t \in Times, i \in Ids : Retire(i, t)
  BY <1>2 DEF Retire, Request
<1>3. CASE \E t \in Times, i \in Ids, r \in Rewards : Touch(i, r, t)
  BY <1>3 DEF Touch, Request
<1>4. CASE \E t \in Times, seeds \in SeedSets : Retrieve(seeds, t)
  BY <1>4 DEF Retrieve, Request
<1>5. CASE \E t \in Times, scores \in Credits : Feedback(scores, t)
  BY <1>5 DEF Feedback, Learn, Request
<1>6. CASE \E t \in Times, seeds \in SeedSets, r \in Rewards : Reward(seeds, r, t)
  BY <1>6 DEF Reward, Learn, Request
<1>7. CASE \E t \in Times, apply \in BOOLEAN : Consolidate(t, apply)
  <2>1. PICK t \in Times, apply \in BOOLEAN : Consolidate(t, apply)
    BY <1>7
  <2>2. (apply /\ last' \in {"resolve", "wedge"}) \/ (~apply /\ last' = "consolidate")
    <3>1. apply => Resolve(Losers(cols'), t)
      BY <2>1 DEF Consolidate
    <3>2. ~apply => Request("consolidate")
      BY <2>1 DEF Consolidate
    <3> QED
      BY <3>1, <3>2 DEF Resolve, Request
  <2>3. last' = "resolve" => apply = TRUE
    BY <2>2
  <2>4. last' # "sleep"
    BY <2>2
  <2> QED
    BY <2>1, <2>3, <2>4
<1>8. CASE \E t \in Times : Sleep(t)
  BY <1>8 DEF Sleep, Request
<1>9. CASE \E c \in Configs, origins \in SUBSET Origins : Configure(c, origins)
  BY <1>9 DEF Configure, Request
<1>10. CASE \E origin \in Origins, trusted \in BOOLEAN : Quarantine(origin, trusted)
  BY <1>10 DEF Quarantine, Request
<1>11. CASE Restart
  BY <1>11 DEF Restart, Request
<1>12. CASE UNCHANGED vars
  BY <1>12 DEF vars
<1> QED
  BY <1>1, <1>2, <1>3, <1>4, <1>5, <1>6, <1>7, <1>8, <1>9, <1>10, <1>11, <1>12 DEF Next

-----------------------------------------------------------------------------
(* What sleep spares.                                                      *)

\* How many the quantile leaves below it, of n.
Below(n) == (2 * (ProtectD - ProtectN) * (n - 1) + ProtectD) \div (2 * ProtectD)

LEMMA DivUnder ==
  ASSUME NEW y \in Nat, NEW d \in Nat, d > 0
  PROVE y \div d \in Nat /\ d * (y \div d) <= y
OBVIOUS

LEMMA BelowFacts ==
  ASSUME NEW n \in Nat, n > 0
  PROVE /\ Below(n) \in Nat /\ Below(n) < n
        /\ 2 * ProtectD * (n - Below(n)) >= 2 * ProtectN * n + ProtectD - 2 * ProtectN
<1> DEFINE d == ProtectD
           p == ProtectD - ProtectN
           m == n - 1
           pm == p * m
           dm == d * m
           y == 2 * pm + d
           q == y \div (2 * d)
           dq == d * q
<1>1. d \in Nat /\ d > 0 /\ ProtectN \in Nat /\ p \in Nat /\ p <= d /\ m \in Nat
  <2>1. ProtectD \in Nat \ {0} /\ ProtectN \in 0 .. ProtectD
    BY PlasticityAssumption
  <2> QED
    BY <2>1
<1>2. Below(n) = q
  <2>1. 2 * (ProtectD - ProtectN) * (n - 1) = 2 * pm
    BY <1>1
  <2> QED
    BY <2>1 DEF Below
<1>3. pm \in Nat /\ dm \in Nat /\ pm <= dm
  <2> HIDE DEF p, m, d
  <2> QED
    BY <1>1, TimesFacts, TimesGrows
<1> HIDE DEF pm, dm
<1>4. y \in Nat /\ 2 * d \in Nat /\ 2 * d > 0
  BY <1>1, <1>3
<1> HIDE DEF y
<1>5. q \in Nat /\ (2 * d) * q <= y
  BY <1>4, DivUnder
<1> HIDE DEF q
<1>6. dq \in Nat /\ (2 * d) * q = 2 * dq
  BY <1>1, <1>5
<1>7. q < n
  <2>1. SUFFICES ASSUME n <= q PROVE FALSE
    BY <1>5
  <2> DEFINE dn == d * n
  <2>2. dn \in Nat /\ dn = dm + d
    BY <1>1 DEF dm
  <2>3. dn <= dq
    BY <1>1, <1>5, <2>1, TimesGrows
  <2> HIDE DEF dn, dq
  <2>4. 2 * dq <= 2 * pm + d
    BY <1>5, <1>6 DEF y
  <2> QED
    BY <1>1, <1>3, <1>6, <2>2, <2>3, <2>4
<1>8. 2 * ProtectD * (n - q) >= 2 * ProtectN * n + ProtectD - 2 * ProtectN
  <2> DEFINE nm == ProtectN * m
  <2>1. 2 * ProtectD * (n - q) = 2 * dm + 2 * d - 2 * dq
    BY <1>1, <1>5 DEF dm
  <2>2. 2 * ProtectN * n = 2 * nm + 2 * ProtectN /\ nm \in Nat
    BY <1>1
  <2>3. pm = dm - nm
    BY <1>1 DEF pm, dm
  <2> HIDE DEF nm, dq
  <2>4. 2 * dq <= 2 * pm + d
    BY <1>5, <1>6 DEF y
  <2> QED
    BY <1>1, <1>3, <1>6, <2>1, <2>2, <2>3, <2>4
<1> QED
  BY <1>2, <1>5, <1>7, <1>8

\* The live edges by weight.
LEMMA ByWeightFacts ==
  ASSUME IInv, NEW w, \A i \in Ids : w[i] \in Nat
  PROVE LET n == Cardinality(Live)
            s == ByWeight(w)
        IN /\ n \in Nat /\ s \in [1 .. n -> Live] /\ IsFiniteSet(Live)
           /\ \A i, j \in 1 .. n : i # j => s[i] # s[j]
           /\ \A i, j \in 1 .. n : i <= j => w[s[i]] <= w[s[j]]
<1> DEFINE n == Cardinality(Live)
           before == {p \in Live \X Live : w[p[1]] < w[p[2]] \/ (w[p[1]] = w[p[2]] /\ p[1] < p[2])}
           s == Sorted(Live, before)
<1>1. IsFiniteSet(Live) /\ \A x \in Live : x \in Ids /\ x \in Nat /\ w[x] \in Nat
  <2>1. IsFiniteSet(Ids) /\ \A x \in Ids : x \in Nat
    BY IdFacts
  <2>2. Live \subseteq Ids
    BY DEF Live
  <2> QED
    BY <2>1, <2>2, FS_Subset
<1>2. \A x, y \in Live : <<x, y>> \in before <=> (w[x] < w[y] \/ (w[x] = w[y] /\ x < y))
  OBVIOUS
<1>3. ByWeight(w) = s
  BY DEF ByWeight
<1> HIDE DEF before
<1>4. Orders(before, Live)
  <2>1. \A x \in Live : <<x, x>> \notin before
    BY <1>1, <1>2
  <2>2. \A x, y \in Live : x # y => <<x, y>> \in before \/ <<y, x>> \in before
    BY <1>1, <1>2
  <2>3. \A x, y, z \in Live : <<x, y>> \in before /\ <<y, z>> \in before => <<x, z>> \in before
    BY <1>1, <1>2
  <2> QED
    BY <2>1, <2>2, <2>3 DEF Orders
<1>5. n \in Nat /\ InRow(s, before, n, Live) /\ \A i, j \in 1 .. n : i # j => s[i] # s[j]
  BY <1>1, <1>4, SortedHas
<1> HIDE DEF s, n
<1>6. s \in [1 .. n -> Live] /\ \A i, j \in 1 .. n : i < j => <<s[i], s[j]>> \in before
  BY <1>5 DEF InRow
<1>7. ASSUME NEW i \in 1 .. n, NEW j \in 1 .. n, i <= j PROVE w[s[i]] <= w[s[j]]
  <2>1. s[i] \in Live /\ s[j] \in Live /\ w[s[i]] \in Nat /\ w[s[j]] \in Nat
    BY <1>1, <1>6
  <2>2. CASE i = j
    BY <2>1, <2>2
  <2>3. CASE i # j
    <3>1. i < j
      BY <1>5, <1>7, <2>3
    <3>2. <<s[i], s[j]>> \in before
      BY <1>6, <3>1
    <3>3. w[s[i]] < w[s[j]] \/ w[s[i]] = w[s[j]]
      BY <1>2, <2>1, <3>2
    <3> QED
      BY <2>1, <3>3
  <2> QED
    BY <2>2, <2>3
<1> QED
  BY <1>1, <1>3, <1>5, <1>6, <1>7 DEF s, n

LEMMA Spares ==
  ASSUME IInv, NEW w, \A i \in Ids : w[i] \in Nat, NEW stays \in SUBSET Live,
         \A i \in Live : w[i] >= Threshold(w) => i \in stays, Live # {}
  PROVE 2 * ProtectD * Cardinality(stays) >= 2 * ProtectN * Cardinality(Live) + ProtectD - 2 * ProtectN
<1> DEFINE n == Cardinality(Live)
           s == ByWeight(w)
           q == Below(n)
           top == q + 1 .. n
           k == Cardinality(stays)
<1>1. /\ n \in Nat /\ s \in [1 .. n -> Live] /\ IsFiniteSet(Live)
      /\ \A i, j \in 1 .. n : i # j => s[i] # s[j]
      /\ \A i, j \in 1 .. n : i <= j => w[s[i]] <= w[s[j]]
  BY ByWeightFacts
<1>2. n > 0 /\ k \in Nat /\ IsFiniteSet(stays)
  <2>1. n # 0 /\ IsFiniteSet(stays)
    BY <1>1, FS_EmptySet, FS_Subset
  <2> QED
    BY <1>1, <2>1, FS_CardinalityType
<1>3. /\ q \in Nat /\ q < n
      /\ 2 * ProtectD * (n - q) >= 2 * ProtectN * n + ProtectD - 2 * ProtectN
  BY <1>1, <1>2, BelowFacts
<1>4. Threshold(w) = w[s[q + 1]]
  BY DEF Threshold, Below
<1> HIDE DEF s, q, n, k
<1>5. /\ q + 1 \in 1 .. n /\ \A i \in top : i \in 1 .. n /\ q + 1 <= i
  BY <1>1, <1>3
<1>6. ASSUME NEW i \in top PROVE s[i] \in stays
  <2>1. i \in 1 .. n /\ s[i] \in Live /\ w[s[q + 1]] <= w[s[i]]
    BY <1>1, <1>5
  <2>2. w[s[i]] \in Nat /\ w[s[q + 1]] \in Nat
    <3>1. s[i] \in Ids /\ s[q + 1] \in Ids
      BY <1>1, <1>5, <2>1 DEF Live
    <3> QED
      BY <3>1
  <2>3. w[s[i]] >= Threshold(w)
    BY <1>4, <2>1, <2>2
  <2> QED
    BY <2>1, <2>3
<1>7. Cardinality(top) = n - q
  <2>1. Cardinality(top) = IF q + 1 > n THEN 0 ELSE n - (q + 1) + 1
    BY <1>1, <1>3, FS_Interval
  <2> QED
    BY <1>1, <1>3, <2>1
<1>8. Cardinality(top) <= k
  <2> DEFINE g == [i \in top |-> s[i]]
  <2>1. g \in [top -> stays]
    BY <1>6
  <2>2. \A i, j \in top : i # j => g[i] # g[j]
    BY <1>1, <1>5
  <2> HIDE DEF top
  <2>3. \A i, j \in DOMAIN g : g[i] = g[j] => i = j
    BY <2>1, <2>2
  <2> HIDE DEF g
  <2>4. g \in Injection(top, stays)
    BY <2>1, <2>3 DEF Injection, IsInjective
  <2> QED
    BY <1>2, <2>4, FS_Injection DEF k
<1>9. n - q \in Nat /\ n - q <= k
  BY <1>1, <1>3, <1>7, <1>8
<1>10. 2 * ProtectD * (n - q) <= 2 * ProtectD * k
  <2> DEFINE d == 2 * ProtectD
             m == n - q
  <2>1. d \in Nat
    <3>1. ProtectD \in Nat
      BY PlasticityAssumption
    <3> QED
      BY <3>1
  <2> HIDE DEF d, m
  <2>2. d * m <= d * k
    BY <1>2, <1>9, <2>1, TimesGrows DEF m
  <2> QED
    BY <2>2 DEF d, m
<1>11. 2 * ProtectD * k >= 2 * ProtectN * n + ProtectD - 2 * ProtectN
  <2> DEFINE a == 2 * ProtectD * (n - q)
             b == 2 * ProtectD * k
             e == 2 * ProtectN * n + ProtectD - 2 * ProtectN
  <2>1. a \in Int /\ b \in Int /\ e \in Int
    <3>1. ProtectD \in Int /\ ProtectN \in Int /\ n \in Int /\ k \in Int /\ n - q \in Int
      BY <1>1, <1>2, <1>9, PlasticityAssumption
    <3> QED
      BY <3>1
  <2>2. a >= e /\ a <= b
    BY <1>3, <1>10
  <2> HIDE DEF a, b, e
  <2>3. b >= e
    BY <2>1, <2>2
  <2> QED
    BY <2>3 DEF b, e
<1> QED
  BY <1>11 DEF k, n


\* A column after the two passes over all of them.
LEMMA PassedIs ==
  ASSUME NEW w, NEW t, NEW weak, NEW i \in Live
  PROVE LET c == Renormalized(Pruned(AsOf(Live, w, t), weak))
        IN c[i].t = t /\ (c[i].dead <=> i \in weak)
<1> DEFINE a == AsOf(Live, w, t)
           p == Pruned(a, weak)
           c == Renormalized(p)
<1>1. i \in Ids
  BY DEF Live
<1>2. a[i] = [w |-> w[i], t |-> t, dead |-> FALSE]
  BY <1>1 DEF AsOf
<1>3. p[i] = IF i \in weak THEN [a[i] EXCEPT !.w = 0, !.dead = TRUE] ELSE a[i]
  BY <1>1 DEF Pruned
<1> HIDE DEF a
<1>4. p[i].t = t /\ (p[i].dead <=> i \in weak) /\ DOMAIN p[i] = {"w", "t", "dead"}
  BY <1>2, <1>3
<1> HIDE DEF p
<1>5. c[i] = p[i] \/ \E x : c[i] = [p[i] EXCEPT !.w = x]
  BY <1>1 DEF Renormalized
<1> HIDE DEF c
<1>6. c[i].t = p[i].t /\ c[i].dead = p[i].dead
  <2>1. CASE c[i] = p[i]
    BY <2>1
  <2>2. CASE \E x : c[i] = [p[i] EXCEPT !.w = x]
    <3>1. PICK x : c[i] = [p[i] EXCEPT !.w = x]
      BY <2>2
    <3> QED
      BY <1>4, <3>1
  <2> QED
    BY <1>5, <2>1, <2>2
<1> QED
  BY <1>4, <1>6 DEF c, p, a

\* A heavier edge keeps more weight in sleep.
LEMMA AsleepGrows ==
  ASSUME NEW x \in Nat, NEW y \in Nat, x <= y
  PROVE (x * SleepN) \div SleepD <= (y * SleepN) \div SleepD
<1> DEFINE a == x * SleepN
           b == y * SleepN
<1>1. SleepN \in Nat /\ SleepD \in Nat /\ SleepD > 0
  <2>1. SleepN \in Nat /\ SleepD \in Nat \ {0}
    BY PlasticityAssumption
  <2> QED
    BY <2>1
<1>2. a \in Nat /\ b \in Nat /\ a <= b
  BY <1>1, TimesFacts, TimesGrows
<1> HIDE DEF a, b
<1>3. a \div SleepD <= b \div SleepD
  BY <1>1, <1>2, DivGrows
<1> QED
  BY <1>3 DEF a, b

Spared(c) ==
  LET stays == {i \in Live : ~c[i].dead}
  IN /\ Live # {} => 2 * ProtectD * Cardinality(stays)
                        >= 2 * ProtectN * Cardinality(Live) + ProtectD - 2 * ProtectN
     /\ \A i \in Live \ stays, j \in stays : Eff(i, c[j].t) < Eff(j, c[j].t)

LEMMA SleepsLightly ==
  ASSUME WInv, NEW t \in Times, Sleep(t)
  PROVE Spared(cols')
<1> DEFINE w == [i \in Ids |-> Eff(i, t)]
           asleep == [i \in Ids |-> (w[i] * SleepN) \div SleepD]
           weak == {i \in Live : asleep[i] < SleepTheta /\ w[i] < Threshold(w)}
           c == cols'
           stays == {i \in Live : ~c[i].dead}
<1>1. c = Renormalized(Pruned(AsOf(Live, asleep, t), weak))
  BY DEF Sleep
<1>2. IInv /\ \A i \in Ids : w[i] \in Nat /\ w[i] = Eff(i, t)
  BY EffFacts DEF WInv
<1>3. \A i \in Live : i \in Ids
  BY DEF Live
<1> HIDE DEF w
<1>4. \A i \in Ids : asleep[i] = (w[i] * SleepN) \div SleepD /\ asleep[i] \in Nat
  BY <1>2, AsleepFacts
<1>5. \A i \in Live : i \in weak <=> asleep[i] < SleepTheta /\ w[i] < Threshold(w)
  OBVIOUS
<1> HIDE DEF asleep, weak, c
<1>6. \A i \in Live : c[i].t = t /\ (c[i].dead <=> i \in weak)
  BY <1>1, PassedIs
<1>7. stays \in SUBSET Live /\ \A i \in Live : i \in stays <=> i \notin weak
  BY <1>6
<1>8. SleepTheta \in Nat
  BY PlasticityAssumption
<1> HIDE DEF stays
<1>9. ASSUME Live # {}
      PROVE /\ 2 * ProtectD * Cardinality(stays) >= 2 * ProtectN * Cardinality(Live) + ProtectD - 2 * ProtectN
            /\ Threshold(w) \in Nat
  <2>1. Threshold(w) \in Nat
    <3> DEFINE n == Cardinality(Live)
               s == ByWeight(w)
    <3>1. n \in Nat /\ s \in [1 .. n -> Live] /\ IsFiniteSet(Live)
      BY <1>2, ByWeightFacts
    <3>2. n # 0
      BY <1>9, <3>1, FS_EmptySet
    <3>3. Threshold(w) = w[s[Below(n) + 1]]
      BY DEF Threshold, Below
    <3> HIDE DEF n, s
    <3>4. n > 0 /\ Below(n) \in Nat /\ Below(n) < n
      BY <3>1, <3>2, BelowFacts
    <3>5. Below(n) + 1 \in 1 .. n
      BY <3>1, <3>4
    <3>6. s[Below(n) + 1] \in Ids
      BY <1>3, <3>1, <3>5
    <3> QED
      BY <1>2, <3>3, <3>6
  <2>2. \A i \in Live : w[i] >= Threshold(w) => i \in stays
    BY <1>2, <1>3, <1>5, <1>7, <2>1
  <2> QED
    BY <1>2, <1>7, <1>9, <2>1, <2>2, Spares
<1>10. ASSUME NEW i \in Live \ stays, NEW j \in stays PROVE Eff(i, c[j].t) < Eff(j, c[j].t)
  <2>1. /\ i \in Live /\ j \in Live /\ i \in Ids /\ j \in Ids /\ c[j].t = t
        /\ i \in weak /\ j \notin weak
    BY <1>3, <1>6, <1>7
  <2>2. /\ w[i] \in Nat /\ w[j] \in Nat /\ asleep[i] \in Nat /\ asleep[j] \in Nat
        /\ asleep[i] < SleepTheta /\ w[i] < Threshold(w)
        /\ ~(asleep[j] < SleepTheta /\ w[j] < Threshold(w))
    BY <1>2, <1>4, <1>5, <2>1
  <2>3. Threshold(w) \in Nat
    BY <1>9, <2>1
  <2>4. w[i] < w[j]
    <3>1. CASE ~(w[j] < Threshold(w))
      BY <2>2, <2>3, <3>1
    <3>2. CASE ~(asleep[j] < SleepTheta)
      <4>1. w[j] <= w[i] => asleep[j] <= asleep[i]
        BY <1>4, <2>1, <2>2, AsleepGrows
      <4> QED
        BY <1>8, <2>2, <3>2, <4>1
    <3> QED
      BY <2>2, <3>1, <3>2
  <2> QED
    BY <1>2, <2>1, <2>4
<1>11. Spared(c)
  BY <1>9, <1>10 DEF Spared, stays
<1> QED
  BY <1>11 DEF c

-----------------------------------------------------------------------------
\* resync_authority, resync_trust and add_edge keep the decay and the trust of
\* every edge those of the configuration, and the homeostat aims at its setpoint -
\* until a sidecar is loaded that was saved before the setpoint was changed, or from
\* a homeostat that was loaded so: for any number of edges, origins,
\* configurations and restarts.
THEOREM StaysCurrent == Spec => []DerivedIsCurrent
<1>1. Init => IInv
  BY InitOK
<1>2. IInv /\ [Next]_vars => IInv'
  BY NextStep
<1>3. IInv => DerivedIsCurrent
  BY DEF IInv
<1> QED
  BY <1>1, <1>2, <1>3, PTL DEF Spec

\* What consolidate() or sleep() pruned stays pruned, through learning, ingestion,
\* the end of edges, a log that fails, and restarts from whatever sidecar was saved
\* last - as long as no other edge has the same key, and once a save has succeeded
\* after the pruning: that of the request itself, or of any later one.
THEOREM ForgettingIsFinal == Spec => ForgottenStays
<1>1. Init => IInv
  BY InitOK
<1>2. IInv /\ [Next]_vars => IInv' /\ Remembers
  BY NextStep
<1>3. IInv /\ [Next]_vars => IInv'
  BY <1>2
<1>4. IInv /\ [Next]_vars =>
        [\A i \in Ids \ unsaved :
           cols[i].dead /\ (\A j \in Ids \ {i} : Key(j) # Key(i)) => cols'[i].dead]_vars
  BY <1>2 DEF Remembers
<1> QED
  BY <1>1, <1>3, <1>4, PTL DEF Spec, ForgottenStays

\* Weights, times, activations and the homeostat are what they should be: no decay,
\* no consolidation and no share of a budget takes a weight below 0, what is pruned
\* weighs nothing, and Homeostat::observe keeps the integral and lambda_scale within
\* their bounds, whatever is retrieved, learned, configured or restored.
THEOREM PlasticityTypeAlways == Spec => []TypeOK
<1>1. Init => WInv
  BY InitWeighs
<1>2. WInv /\ [Next]_vars => WInv'
  BY WNext
<1>3. WInv => TypeOK
  BY TypeFollows
<1> QED
  BY <1>1, <1>2, <1>3, PTL DEF Spec

\* spread() fires along edges that are live, valid at the time and of a trusted
\* origin, and along no other; along every one of those that leave a seed, if its
\* share of the seed's activation at the floor is not too little; and along none
\* twice, whatever cycles the graph has, if no seed is named twice - for any graph,
\* depth, seeds and weights.
THEOREM FiresAsAllowedAlways == Spec => []FiresAsAllowed
<1>1. Init => WInv
  BY InitWeighs
<1>2. WInv /\ [Next]_vars => WInv'
  BY WNext
<1>3. WInv => FiresAsAllowed
  BY FiresRight
<1> QED
  BY <1>1, <1>2, <1>3, PTL DEF Spec

\* assign_and_touch(), one walk back over the firings of the last trace, gives every
\* edge the credit that it deserves by definition: its share of that of the node it
\* fired into, with what later firings from there have passed back.
THEOREM CreditFollowsPathsAlways == Spec => []CreditFollowsPaths
<1>1. Init => WInv
  BY InitWeighs
<1>2. WInv /\ [Next]_vars => WInv'
  BY WNext
<1>3. WInv => CreditFollowsPaths
  BY CreditFollows
<1> QED
  BY <1>1, <1>2, <1>3, PTL DEF Spec

\* When /consolidate resolves conflicts, exactly one edge stays open of those that a
\* source may have only one of, and it is a heaviest of them.
THEOREM ConflictsEndAlways == Spec => ConflictsEnd
<1>1. Init => WInv
  BY InitWeighs
<1>2. WInv /\ [Next]_vars => WInv'
  BY WNext
<1>3. WInv /\ [Next]_vars =>
        [last' = "resolve" /\ steps' # steps =>
           \A i \in Ids : EdgeTable[i].kind \in Functional /\ IsOpen(i) =>
             \E j \in Rivals(i) :
               \A k \in Rivals(i) : cols'[j].w >= cols'[k].w /\ ((valid'[k].to = Open) <=> k = j)]_vars
  BY NamesRequests, Resolves DEF Resolved
<1> QED
  BY <1>1, <1>2, <1>3, PTL DEF Spec, ConflictsEnd

\* /sleep spares the top fraction of the edges, as its index is rounded, and prunes
\* none that weighs as much as one it spares.
THEOREM SleepSparesAlways == Spec => SleepSpares
<1>1. Init => WInv
  BY InitWeighs
<1>2. WInv /\ [Next]_vars => WInv'
  BY WNext
<1>3. WInv /\ [Next]_vars =>
        [last' = "sleep" /\ steps' # steps =>
           LET stays == {i \in Live : ~cols'[i].dead}
           IN /\ Live # {} => 2 * ProtectD * Cardinality(stays)
                                 >= 2 * ProtectN * Cardinality(Live) + ProtectD - 2 * ProtectN
              /\ \A i \in Live \ stays, j \in stays : Eff(i, cols'[j].t) < Eff(j, cols'[j].t)]_vars
  BY NamesRequests, SleepsLightly DEF Spared
<1> QED
  BY <1>1, <1>2, <1>3, PTL DEF Spec, SleepSpares
=============================================================================
