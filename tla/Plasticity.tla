----------------------------- MODULE Plasticity -----------------------------
(***************************************************************************)
(* The plasticity layer of one database (psyrag-core, lib.rs) under the    *)
(* requests of serve.rs that change it: learning from credit and touches,  *)
(* decay, consolidation, sleep, quarantine and configuration, the          *)
(* homeostat, and a restart from the sidecar.                              *)
(*                                                                         *)
(* Weights are integers, and what decays halves: exp(-lambda * scale * dt) *)
(* is 2^-(rate * scale * dt).  Time is what the client says it is.  The    *)
(* columns are written lazily: a weight is what it was at its own time.    *)
(*                                                                         *)
(* The sidecar may not be saved after a request has changed the columns,   *)
(* and the log may fail under the ends of edges that a consolidation       *)
(* journals, which wedges the database (that it fails under /ingest is     *)
(* left to Engine).  A maintenance thread does the same as /consolidate    *)
(* and /sleep; what a request answers with 500, it logs.                   *)
(***************************************************************************)
EXTENDS Spread

CONSTANTS
  Kinds, Origins,
  Functional,       \* functional_kinds
  Configs,          \* [rate : Kinds -> Nat, setpoint : Nat]: lambda_base, authority_by_kind
  FirstConfig,      \* the one it starts with
  W0, Theta, NormTarget,
  RClip, Floor,     \* r_clip, in units of weight; explore_floor * w0, 0 if off
  Penalty,          \* feedback_miss_penalty
  SleepN, SleepD, SleepTheta, \* sleep_downscale = SleepN / SleepD
  ProtectN, ProtectD,         \* protect_top_frac = ProtectN / ProtectD
  ScaleMax, IntegralMax,      \* bounds of the homeostat
  SeedSets,         \* seeds that clients name
  Credits,          \* credits that they give to nodes: node -> score
  Rewards,          \* rewards that they give for a retrieval, or an edge
  First,            \* edges there are at first
  Times,            \* times that clients name
  DiskFails,        \* the disk may refuse writes
  MaxSteps          \* bound: requests in a model-checking run

Open == 1000 \* T_MAX

ASSUME PlasticityAssumption ==
  /\ {W0, Theta, NormTarget, RClip, Floor, Penalty, SleepN, SleepTheta, IntegralMax}
       \subseteq Nat
  /\ {SleepD, ProtectD, ScaleMax} \subseteq Nat \ {0} /\ ProtectN \in 0 .. ProtectD
  /\ First \in 0 .. Len(EdgeTable) /\ Times \subseteq 0 .. Open - 1 /\ MaxSteps \in Nat
  /\ DiskFails \in BOOLEAN /\ FirstConfig \in Configs /\ Rewards \subseteq Int /\ SeedSets \subseteq Seq(Nodes)
  /\ \A scores \in Credits : \A n \in DOMAIN scores : scores[n] \in Int
  /\ \A i \in DOMAIN EdgeTable : EdgeTable[i].kind \in Kinds
  /\ Functional \subseteq Kinds /\ Configs \subseteq [rate : [Kinds -> Nat], setpoint : Nat]

VARIABLES
  valid,     \* by edge id: [from, to]
  cols,      \* by edge id: [w, t, dead], what the sidecar keeps
  rate,      \* neg_lambda, by edge id
  masked,    \* ids of the edges with trust 0
  cfg,       \* Config, but for the trust
  distrusted,\* origins with trust 0 in it
  homeo,     \* Homeostat: [setpoint, ewma, integral, primed]
  scale,     \* lambda_scale
  trace,     \* the last trace that was stored, or NoTrace
  saved,     \* the sidecar: [keys, cols, homeo, scale], or NoSidecar
  wedged,    \* Engine.wedged
  loose,     \* edges that ended while the log failed: a restart may find them open
  last,      \* the last request (history)
  unsaved,   \* edges pruned since the sidecar was saved, or loaded (history)
  outdated,  \* copies of the homeostat with the setpoint of another configuration (history)
  steps

derived == <<rate, masked>>
config == <<cfg, distrusted>>
control == <<homeo, scale>>
log == <<wedged, loose>>
disk == <<saved, unsaved, outdated>>
vars == <<valid, cols, derived, config, control, trace, log, disk, last, steps>>

-----------------------------------------------------------------------------
NoTrace == [fired |-> <<>>, incoming |-> Nothing, surfaced |-> <<>>]
NoHomeostat == [setpoint |-> 0, ewma |-> 0, integral |-> 0, primed |-> FALSE]
NoSidecar == [keys |-> <<>>, cols |-> <<>>, homeo |-> NoHomeostat, scale |-> 0]

Ids == 1 .. Len(cols)
Live == {i \in Ids : ~cols[i].dead}
IsOpen(i) == valid[i].to = Open
AliveAt(i, t) == valid[i].from <= t /\ t < valid[i].to
\* stable_edge_key: what is hashed
Key(i) == <<EdgeTable[i].src, EdgeTable[i].dst, EdgeTable[i].kind, valid[i].from>>
OutOf(u) == {i \in Ids : EdgeTable[i].src = u}

Larger(a, b) == IF a > b THEN a ELSE b
Clamp(x, lo, hi) == IF x < lo THEN lo ELSE IF x > hi THEN hi ELSE x

\* eff(): the weight of an edge at time t; one that lies ahead has not decayed.
Eff(i, t) ==
  LET age == Larger(t - cols[i].t, 0)
  IN IF cols[i].dead THEN 0 ELSE cols[i].w \div (2 ^ (rate[i] * scale * age))

\* Mutant of Trusted: a quarantined edge gets the floor, too.
TrustedFloor(i, t) ==
  IF i \notin Live THEN 0 ELSE Larger(IF i \in masked THEN 0 ELSE Eff(i, t), Floor)

\* eff_trusted(): what a retrieval sees.
Trusted(i, t) ==
  IF i \in masked \/ i \notin Live THEN 0 ELSE Larger(Eff(i, t), Floor)

Fresh(i, from) == [w |-> W0, t |-> from, dead |-> FALSE]

\* resync_authority and resync_trust.
Rates(c, n) == [i \in 1 .. n |-> c.rate[EdgeTable[i].kind]]
Masked(origins, n) == {i \in 1 .. n : EdgeTable[i].origin \in origins}

FromConfig(c) == [setpoint |-> c.setpoint, ewma |-> 0, integral |-> 0, primed |-> FALSE]

Init ==
  /\ cfg = FirstConfig /\ distrusted = {}
  /\ valid = [i \in 1 .. First |-> [from |-> 0, to |-> Open]]
  /\ cols = [i \in 1 .. First |-> Fresh(i, 0)]
  /\ rate = Rates(cfg, First) /\ masked = {}
  /\ homeo = FromConfig(cfg) /\ scale = 1
  /\ trace = NoTrace /\ saved = NoSidecar
  /\ wedged = FALSE /\ loose = {}
  /\ last = "none" /\ unsaved = {} /\ outdated = {} /\ steps = 0

Request(name) == steps < MaxSteps /\ steps' = steps + 1 /\ last' = name

\* save(): a new file, renamed.
Save ==
  /\ saved' = [keys |-> [i \in Ids |-> Key(i)], cols |-> cols', homeo |-> homeo, scale |-> scale]
  /\ unsaved' = {}
  /\ outdated' = IF "memory" \in outdated THEN {"memory", "sidecar"} ELSE {}

\* No new sidecar: the old one stays.
NoSave ==
  /\ unsaved' = unsaved \cup {i \in Ids : cols'[i].dead /\ ~cols[i].dead}
  /\ UNCHANGED <<saved, outdated>>

\* The end of a request: if the save fails, what it did stays in memory (500).
TrySave == Save \/ (DiskFails /\ NoSave)

-----------------------------------------------------------------------------
\* Mutant of Joined: a new edge is trusted.
JoinedTrusted(i) == masked

\* The trust of an edge that is new.
Joined(i) == IF EdgeTable[i].origin \in distrusted THEN masked \cup {i} ELSE masked

\* /ingest, and sync(): the next edge is observed, if the same is not open.
Observe(t) ==
  LET i == Len(valid) + 1
      Same(j) == /\ EdgeTable[j].src = EdgeTable[i].src /\ EdgeTable[j].dst = EdgeTable[i].dst
                 /\ EdgeTable[j].kind = EdgeTable[i].kind
  IN /\ Request("observe") /\ ~wedged /\ i <= Len(EdgeTable)
     /\ ~\E j \in Ids : Same(j) /\ IsOpen(j)
     /\ valid' = Append(valid, [from |-> t, to |-> Open])
     /\ cols' = Append(cols, Fresh(i, t))
     /\ rate' = Append(rate, cfg.rate[EdgeTable[i].kind])
     /\ masked' = Joined(i)
     /\ UNCHANGED <<config, control, trace, log, disk>>

Retire(i, t) ==
  /\ Request("retire") /\ ~wedged /\ IsOpen(i)
  /\ valid' = [valid EXCEPT ![i].to = t]
  /\ UNCHANGED <<cols, derived, config, control, trace, log, disk>>

\* touch() of some edges: it adds r, down to the floor.
Touched(edges, r, t) ==
  [i \in Ids |->
     IF i \notin edges \/ cols[i].dead THEN cols[i]
     ELSE [w |-> Larger(Eff(i, t) + Clamp(r[i], -RClip, RClip), Floor), t |-> t, dead |-> FALSE]]

\* /touch: it finds the open edge of that name; the sidecar is not saved.
Touch(i, r, t) ==
  /\ Request("touch") /\ IsOpen(i)
  /\ cols' = Touched({i}, [j \in Ids |-> r], t)
  /\ UNCHANGED <<valid, derived, config, control, trace, log, disk>>

Visible(t) == {i \in Ids : AliveAt(i, t)}
Traced(seeds, t) == Spreading(seeds, [i \in Ids |-> Trusted(i, t)], Visible(t))

\* Mutant of Observed: the integral winds up.
ObservedWindup(mass) ==
  LET ewma == IF homeo.primed THEN (homeo.ewma + mass) \div 2 ELSE mass
  IN [homeo EXCEPT !.primed = TRUE, !.ewma = ewma, !.integral = @ + ewma - homeo.setpoint]

\* Homeostat::observe
Observed(mass) ==
  LET ewma == IF homeo.primed THEN (homeo.ewma + mass) \div 2 ELSE mass
  IN [homeo EXCEPT !.primed = TRUE, !.ewma = ewma,
        !.integral = Clamp(@ + ewma - homeo.setpoint, -IntegralMax, IntegralMax)]

\* /retrieve with a trace that is stored, adapting or not.
Retrieve(seeds, t) ==
  /\ Request("retrieve")
  /\ trace' = Traced(seeds, t)
  /\ \/ /\ homeo' = Observed(Mass(trace'))
        /\ scale' = Clamp(1 + homeo'.integral, 1, ScaleMax)
     \/ UNCHANGED control
  /\ UNCHANGED <<valid, cols, derived, config, log, disk>>

\* apply_credit(), with the trace of id or of seeds, and the sidecar saved.  (A
\* wedged database refuses all writes, but only at the gate: those that change
\* weights, and were past it when the log failed, come later.)
Learn(tr, credit, t) ==
  LET assigned == Assigned(tr, IF Penalty > 0 THEN WithPenalty(tr, credit, Penalty) ELSE credit)
  IN /\ Request("feedback")
     /\ cols' = Touched(assigned.edges, assigned.r, t)
     /\ TrySave
     /\ UNCHANGED <<valid, derived, config, control, trace, log>>

Feedback(scores, t) == trace # NoTrace /\ Learn(trace, NodeCredit(scores), t)

Reward(seeds, reward, t) ==
  LET tr == Traced(seeds, t)
  IN /\ tr.surfaced # <<>>
     /\ \E uniform \in BOOLEAN : Learn(tr, EpisodeCredit(tr, reward, uniform), t)

\* Some columns as they are at time t, and some tombstones among them.
AsOf(edges, w, t) ==
  [i \in Ids |-> IF i \in edges THEN [w |-> w[i], t |-> t, dead |-> FALSE] ELSE cols[i]]
Pruned(c, edges) == [i \in Ids |-> IF i \in edges THEN [c[i] EXCEPT !.w = 0, !.dead = TRUE] ELSE c[i]]

\* The out-edges of a source that are not pruned, ended ones among them, share
\* the target.
Renormalized(c) ==
  LET Budget(u) == SumOf([j \in Ids |-> c[j].w], {j \in OutOf(u) : ~c[j].dead})
  IN [i \in Ids |->
        IF c[i].dead \/ Budget(EdgeTable[i].src) = 0 THEN c[i]
        ELSE [c[i] EXCEPT !.w = (@ * NormTarget) \div Budget(EdgeTable[i].src)]]

\* Open edges of one source and functional kind.
Rivals(i) ==
  {j \in OutOf(EdgeTable[i].src) : IsOpen(j) /\ EdgeTable[j].kind = EdgeTable[i].kind}
Conflicting == {i \in Ids : IsOpen(i) /\ EdgeTable[i].kind \in Functional /\ Rivals(i) # {i}}

\* Mutant of Winner: the first of them.
WinnerFirst(rivals, c) == CHOOSE i \in rivals : \A j \in rivals : i <= j

\* The heaviest, and the first of those.
Winner(rivals, c) ==
  CHOOSE i \in rivals : \A j \in rivals : c[i].w > c[j].w \/ (c[i].w = c[j].w /\ i <= j)

Losers(c) == {i \in Conflicting : i # Winner(Rivals(i), c)}
Ended(edges, t) == [i \in DOMAIN valid |-> IF i \in edges THEN [valid[i] EXCEPT !.to = t] ELSE valid[i]]

\* The ends of the edges that lose a conflict are journalled and flushed, and
\* then the sidecar is saved; or the log fails under some of them, and the
\* database is wedged before it is.
Resolve(losers, t) ==
  \/ /\ Request("resolve")
     /\ valid' = Ended(losers, t) /\ loose' = (IF wedged THEN loose \cup losers ELSE loose)
     /\ TrySave /\ UNCHANGED wedged
  \/ /\ DiskFails /\ Request("wedge") /\ wedged' = TRUE
     /\ \E done \in SUBSET losers : valid' = Ended(done, t) /\ loose' = loose \cup done
     /\ NoSave

\* /consolidate, which may resolve the conflicts, too.
Consolidate(t, apply) ==
  LET w == [i \in Ids |-> Eff(i, t)]
      weak == {i \in Live : w[i] < Theta}
  IN /\ cols' = Renormalized(Pruned(AsOf(Live \ weak, w, t), weak))
     /\ IF apply THEN Resolve(Losers(cols'), t)
        ELSE Request("consolidate") /\ TrySave /\ UNCHANGED <<valid, log>>
     /\ UNCHANGED <<derived, config, control, trace>>

ByWeight(w) ==
  Sorted(Live, {p \in Live \X Live : w[p[1]] < w[p[2]] \/ (w[p[1]] = w[p[2]] /\ p[1] < p[2])})

\* Mutant of Threshold: one too far.
ThresholdAbove(w) ==
  LET n == Cardinality(Live)
      q == (2 * (ProtectD - ProtectN) * (n - 1) + ProtectD) \div (2 * ProtectD)
  IN w[ByWeight(w)[IF q + 2 > n THEN n ELSE q + 2]]

\* The quantile of weights from which on edges are protected; the index is
\* rounded to the nearest.
Threshold(w) ==
  LET q == (2 * (ProtectD - ProtectN) * (Cardinality(Live) - 1) + ProtectD) \div (2 * ProtectD)
  IN w[ByWeight(w)[q + 1]]

\* /sleep
Sleep(t) ==
  LET w == [i \in Ids |-> Eff(i, t)]
      asleep == [i \in Ids |-> (w[i] * SleepN) \div SleepD]
      weak == {i \in Live : asleep[i] < SleepTheta /\ w[i] < Threshold(w)}
  IN /\ Request("sleep")
     /\ cols' = Renormalized(Pruned(AsOf(Live, asleep, t), weak))
     /\ TrySave
     /\ UNCHANGED <<valid, derived, config, control, trace, log>>

\* PUT /config: set_config replaces trust_by_origin, too, and keeps what the
\* homeostat has integrated.
Configure(c, origins) ==
  /\ Request("config") /\ cfg' = c /\ distrusted' = origins
  /\ rate' = Rates(c, Len(cols)) /\ masked' = Masked(origins, Len(cols))
  /\ homeo' = [homeo EXCEPT !.setpoint = c.setpoint]
  /\ outdated' = (outdated \ {"memory"})
       \cup IF saved # NoSidecar /\ c.setpoint # cfg.setpoint THEN {"sidecar"} ELSE {}
  /\ UNCHANGED <<valid, cols, scale, trace, log, saved, unsaved>>

\* /quarantine: set_trust 0 or 1.
Quarantine(origin, trusted) ==
  /\ Request("quarantine")
  /\ distrusted' = IF trusted THEN distrusted \ {origin} ELSE distrusted \cup {origin}
  /\ masked' = Masked(distrusted', Len(cols))
  /\ UNCHANGED <<valid, cols, rate, cfg, control, trace, log, disk>>

\* Mutant of Restored: the dead are not.
RestoredAlive(i) ==
  LET same == {j \in DOMAIN saved.keys : saved.keys[j] = Key(i)}
  IN IF same = {} THEN Fresh(i, valid[i].from) ELSE [saved.cols[Max(same)] EXCEPT !.dead = FALSE]

\* load_if_exists: an edge finds its state by its key, that of the last edge saved
\* with it, or starts anew.
Restored(i) ==
  LET same == {j \in DOMAIN saved.keys : saved.keys[j] = Key(i)}
  IN IF same = {} THEN Fresh(i, valid[i].from) ELSE saved.cols[Max(same)]

\* The database is opened anew with the configuration as it is: the log brings
\* back the edges whose end it does not have, the sidecar the homeostat it was
\* saved with.
Restart ==
  /\ Request("restart")
  /\ \E lost \in SUBSET loose : valid' = Ended(lost, Open)
  /\ wedged' = FALSE /\ loose' = {}
  /\ cols' = [i \in Ids |-> Restored(i)]
  /\ rate' = Rates(cfg, Len(cols)) /\ masked' = Masked(distrusted, Len(cols))
  /\ IF saved = NoSidecar
     THEN homeo' = FromConfig(cfg) /\ scale' = 1
     ELSE homeo' = saved.homeo /\ scale' = saved.scale
  /\ unsaved' = {} /\ outdated' = (IF "sidecar" \in outdated THEN {"memory", "sidecar"} ELSE {})
  /\ UNCHANGED <<config, trace, saved>>

Next ==
  \/ \E t \in Times :
       \/ Observe(t)
       \/ \E i \in Ids : Retire(i, t)
       \/ \E i \in Ids, r \in Rewards : Touch(i, r, t)
       \/ \E seeds \in SeedSets : Retrieve(seeds, t)
       \/ \E scores \in Credits : Feedback(scores, t)
       \/ \E seeds \in SeedSets, r \in Rewards : Reward(seeds, r, t)
       \/ \E apply \in BOOLEAN : Consolidate(t, apply)
       \/ Sleep(t)
  \/ \E c \in Configs, origins \in SUBSET Origins : Configure(c, origins)
  \/ \E origin \in Origins, trusted \in BOOLEAN : Quarantine(origin, trusted)
  \/ Restart

Spec == Init /\ [][Next]_vars

-----------------------------------------------------------------------------
TypeOK ==
  /\ Len(valid) = Len(cols) /\ Len(rate) = Len(cols) /\ masked \subseteq Ids
  /\ \A i \in Ids : cols[i].w \in Nat /\ cols[i].t \in Times \cup {0} /\ (cols[i].dead => cols[i].w = 0)
  /\ cfg \in Configs /\ distrusted \subseteq Origins
  /\ homeo.integral \in -IntegralMax .. IntegralMax /\ scale \in 1 .. ScaleMax
  /\ wedged \in BOOLEAN /\ loose \subseteq Ids /\ unsaved \subseteq Ids
  /\ outdated \subseteq {"memory", "sidecar"} /\ steps \in 0 .. MaxSteps

\* "Replace the whole config and re-resolve every piece of derived state"
\* (lib.rs:514), and "rebuild both from the CURRENT config so config edits apply
\* retroactively" (lib.rs:1290): decay, trust and the homeostat's setpoint are
\* those of the configuration, through ingestion, quarantine, edits and restarts
\* - but for the homeostat that a sidecar of before the edit brings back, until
\* the next edit, and that the next save keeps.
DerivedIsCurrent ==
  /\ rate = Rates(cfg, Len(cols)) /\ masked = Masked(distrusted, Len(cols))
  /\ "memory" \notin outdated => homeo.setpoint = cfg.setpoint

\* "A small floor keeps every live edge discoverable" (lib.rs:136), "dead edges get
\* no floor" (tests/explore_floor.rs:104), and trust 0 "quarantines the source"
\* (lib.rs:526): only edges fire that are live, open at the time and trusted; all
\* of them do that leave a seed, if what the floor carries is not too little; and
\* none fires twice, whatever cycles there are, unless a client repeats a seed.
FiresAsAllowed ==
  \A seeds \in SeedSets, t \in Times :
    LET weight == [i \in Ids |-> Trusted(i, t)]
        firings == Activated(seeds, weight, Visible(t)).fired
        allowed == {i \in Visible(t) : ~cols[i].dead /\ EdgeTable[i].origin \notin distrusted}
        fired == {f.eid : f \in ToSet(firings)}
        Enough(u) == Carried(Full, Floor, Leaving(u, weight, Visible(t))) > Epsilon
        seen == {i \in allowed : EdgeTable[i].src \in ToSet(seeds) /\ Enough(EdgeTable[i].src)}
    IN /\ fired \subseteq allowed
       /\ Depth > 0 => seen \subseteq fired
       /\ IsInjective(seeds) => Cardinality(fired) = Len(firings)

\* "Credit flows backwards along the fired paths ... reinforces only edges that
\* both fired and led somewhere useful" (lib.rs:762): the walk gives each edge
\* what it deserves by definition, also around cycles and over several hops.
CreditFollowsPaths ==
  last = "retrieve" => \A scores \in Credits :
    Assigned(trace, NodeCredit(scores)).r = Deserved(trace, NodeCredit(scores))

\* "a crash mid-save leaves the previous snapshot intact" and an edge finds its state
\* "by stable edge key": what was pruned is not back after a restart, whatever was
\* ingested, retired or learned since, and whichever saves failed - but for two edges
\* that share their key, and for those that no sidecar was saved after.
ForgottenStays ==
  [][\A i \in Ids \ unsaved :
       cols[i].dead /\ (\A j \in Ids \ {i} : Key(j) # Key(i)) => cols'[i].dead]_vars

\* "A source may have at most one open edge of this kind" (lib.rs,
\* functional_kinds): so it is once conflicts are resolved, and it is a heaviest
\* that stays open.
ConflictsEnd ==
  [][last' = "resolve" /\ steps' # steps =>
       \A i \in Ids : EdgeTable[i].kind \in Functional /\ IsOpen(i) =>
         \E j \in Rivals(i) :
           \A k \in Rivals(i) : cols'[j].w >= cols'[k].w /\ ((valid'[k].to = Open) <=> k = j)]_vars

\* "anti-catastrophic-forgetting: durable memories survive even when unused today"
\* (lib.rs, sleep): sleep prunes no edge that weighs as much as one that stays, and
\* at least the top fraction p of n edges stays, as the index is rounded: n*p + 1/2 - p
\* of them.
SleepSpares ==
  [][last' = "sleep" /\ steps' # steps =>
       LET stays == {i \in Live : ~cols'[i].dead}
       IN /\ Live # {} => 2 * ProtectD * Cardinality(stays)
                             >= 2 * ProtectN * Cardinality(Live) + ProtectD - 2 * ProtectN
          /\ \A i \in Live \ stays, j \in stays : Eff(i, cols'[j].t) < Eff(j, cols'[j].t)]_vars
=============================================================================
