------------------------- MODULE NativeMemoryProofs -------------------------
(***************************************************************************)
(* Proofs about a native memory store with recall, relation signals and    *)
(* shadow activation, for any number of records, operations, evaluators,   *)
(* profiles, signals and crashes.  First the derived rows: no score        *)
(* outlives what it was computed from, a pair of a profile has one signal  *)
(* for good, and an operation identifier is at most once.  Then the        *)
(* canonical records: no active record loses its support, support never    *)
(* crosses scopes, what recall may return rests on readable truths all the *)
(* way down, and nothing derived from a purged record can be read again.   *)
(*                                                                         *)
(* The invariants are about the partitions as values (d for the records, x *)
(* for the derived rows), so that a batch is proved once, before it is     *)
(* known which action commits it.  For the derived rows, only this matters *)
(* of the records: they are never removed, and none but the target of a    *)
(* purge is ever marked purged (Grew).                                     *)
(***************************************************************************)
EXTENDS NativeSignals, FiniteSetTheorems, TLAPS

Rows == {"records", "payloads", "blobs", "lexical", "dependencies", "ordinals", "bundles",
         "reviews", "cases", "feedback", "pending", "awaiting", "jobs"}
RecordRows == {"state", "revision", "scope", "label", "evidence", "ends", "status"}

HeadOK(rec) == DOMAIN rec = RecordRows /\ rec.revision \in Nat
Heads(d) ==
    /\ DOMAIN d.records \subseteq RecordRef
    /\ \A r \in DOMAIN d.records : HeadOK(d.records[r])

\* What a recall case pinned is a revision of a record the store has.
Pinned(d) ==
    \A c \in DOMAIN d.cases : d.cases[c].candidates \subseteq (DOMAIN d.records) \X Nat

Sound(d) == DOMAIN d = Rows /\ Heads(d) /\ Pinned(d)

\* From d to e no record is lost, and only those in T may have been purged.
Grew(d, e, T) ==
    \A r \in DOMAIN d.records :
       /\ r \in DOMAIN e.records
       /\ StateOf(e, r) = "Purged" => StateOf(d, r) = "Purged" \/ r \in T

Batch(d, e, T) == Sound(e) /\ Grew(d, e, T)
-----------------------------------------------------------------------------
(* Identifiers. *)

LEMMA KindsFinite == IsFiniteSet(Kinds)
<1>1. /\ IsFiniteSet({"Evidence"})
      /\ IsFiniteSet({"Evidence"} \cup {"Claim"})
  BY FS_Singleton, FS_AddElement
<1>2. IsFiniteSet({"Evidence", "Claim"} \cup {"Entity"})
  <2>1. IsFiniteSet({"Evidence", "Claim"})
    <3>1. {"Evidence", "Claim"} = {"Evidence"} \cup {"Claim"}
      OBVIOUS
    <3>. QED
      BY <1>1, <3>1
  <2>. QED
    BY <2>1, FS_AddElement
<1>3. IsFiniteSet({"SemanticRelation"} \cup {"Proposal"})
  BY FS_Singleton, FS_AddElement
<1>4. IsFiniteSet({"ProposalReview"} \cup {"ArtifactCollection"})
  BY FS_Singleton, FS_AddElement
<1>5. IsFiniteSet({"ArtifactSnapshot"} \cup {"ArtifactPassage"})
  BY FS_Singleton, FS_AddElement
<1> DEFINE a == {"Evidence", "Claim"} \cup {"Entity"}
           b == {"SemanticRelation"} \cup {"Proposal"}
           c == {"ProposalReview"} \cup {"ArtifactCollection"}
           e == {"ArtifactSnapshot"} \cup {"ArtifactPassage"}
<1>6. Kinds = (a \cup b) \cup (c \cup e)
  BY DEF Kinds
<1>7. IsFiniteSet(a \cup b) /\ IsFiniteSet(c \cup e)
  BY <1>2, <1>3, <1>4, <1>5, FS_Union
<1>. QED
  BY <1>6, <1>7, FS_Union

LEMMA RecordRefFinite == IsFiniteSet(RecordRef)
<1> DEFINE F == {{k} \X (1..Limit[k]) : k \in Kinds}
           f == [k \in Kinds |-> {k} \X (1..Limit[k])]
<1>1. \A k \in Kinds : IsFiniteSet({k} \X (1..Limit[k]))
  <2>1. \A k \in Kinds : IsFiniteSet({k}) /\ IsFiniteSet(1..Limit[k])
    BY KernelAssumption, FS_Interval, FS_Singleton
  <2>. QED
    BY <2>1, FS_Product
<1>2. IsFiniteSet(F)
  <2>1. f \in Surjection(Kinds, F)
    BY DEF Surjection
  <2>. QED
    BY <2>1, KindsFinite, FS_Surjection
<1>. QED
  BY <1>1, <1>2, FS_UNION DEF RecordRef

\* A record for which there is room gets an identifier of its own.
LEMMA FreshId ==
    ASSUME NEW d, Sound(d), NEW k \in Kinds, NEW n \in Nat, Room(d, k, n)
    PROVE  \A i \in 1..n : NthId(d, k, i) \in RecordRef
<1>1. OfKind(d, k) \subseteq RecordRef
  BY DEF OfKind, Sound, Heads
<1>2. Cardinality(OfKind(d, k)) \in Nat
  BY <1>1, RecordRefFinite, FS_Subset, FS_CardinalityType
<1>3. Limit[k] \in Nat
  BY KernelAssumption
<1>4. ASSUME NEW i \in 1..n
      PROVE  NthId(d, k, i) \in {k} \X (1..Limit[k])
  BY <1>2, <1>3 DEF NthId, Room
<1>. QED
  BY <1>4 DEF RecordRef
-----------------------------------------------------------------------------
(* The steps batches are made of. *)

LEMMA BatchChain ==
    ASSUME NEW d, NEW e, NEW f, NEW T, Batch(d, e, T), Batch(e, f, T)
    PROVE  Batch(d, f, T)
BY DEF Batch, Grew

LEMMA NewRecordOK ==
    ASSUME NEW scope, NEW label, NEW evidence, NEW ends
    PROVE  HeadOK(NewRecord(scope, label, evidence, ends))
BY DEF HeadOK, NewRecord, RecordRows

LEMMA InsertAllBatch ==
    ASSUME NEW d, Sound(d), NEW new, DOMAIN new \subseteq RecordRef,
           \A r \in DOMAIN new : HeadOK(new[r])
    PROVE  /\ Batch(d, InsertAll(d, new), {})
           /\ DOMAIN InsertAll(d, new).records = DOMAIN d.records \cup DOMAIN new
<1> DEFINE e == InsertAll(d, new)
<1>1. /\ DOMAIN e = DOMAIN d /\ e.cases = d.cases
      /\ e.records = [r \in DOMAIN d.records \cup DOMAIN new |->
                        IF r \in DOMAIN d.records THEN d.records[r] ELSE new[r]]
  BY DEF InsertAll, Sound, Rows
<1> HIDE DEF e
<1>2. Heads(e)
  BY <1>1 DEF Heads, Sound
<1>3. Pinned(e)
  BY <1>1 DEF Pinned, Sound
<1>4. Grew(d, e, {})
  BY <1>1 DEF Grew, StateOf
<1>. QED
  BY <1>1, <1>2, <1>3, <1>4 DEF Batch, Sound, e

LEMMA InsertBatch ==
    ASSUME NEW d, Sound(d), NEW r \in RecordRef, NEW rec, HeadOK(rec)
    PROVE  Batch(d, Insert(d, r, rec), {})
<1>1. \A x \in DOMAIN [x \in {r} |-> rec] : HeadOK([y \in {r} |-> rec][x])
  OBVIOUS
<1>. QED
  BY <1>1, InsertAllBatch DEF Insert

\* Partitions other than the records and the cases may change in any way.
LEMMA ElsewhereBatch ==
    ASSUME NEW d, Sound(d), NEW e, DOMAIN e = DOMAIN d,
           e.records = d.records, e.cases = d.cases
    PROVE  Batch(d, e, {})
BY DEF Batch, Sound, Heads, Pinned, Grew, StateOf

LEMMA LexicalBatch ==
    ASSUME NEW d, Sound(d), NEW r, NEW S
    PROVE  /\ Batch(d, InsertLexical(d, r), {}) /\ Batch(d, RemoveLexical(d, S), {})
           /\ Batch(d, RemovePayloads(d, S), {})
<1>1. /\ DOMAIN InsertLexical(d, r) = DOMAIN d
      /\ InsertLexical(d, r).records = d.records /\ InsertLexical(d, r).cases = d.cases
  BY DEF InsertLexical, Sound, Rows
<1>2. /\ DOMAIN RemoveLexical(d, S) = DOMAIN d
      /\ RemoveLexical(d, S).records = d.records /\ RemoveLexical(d, S).cases = d.cases
  BY DEF RemoveLexical, Sound, Rows
<1>3. /\ DOMAIN RemovePayloads(d, S) = DOMAIN d
      /\ RemovePayloads(d, S).records = d.records /\ RemovePayloads(d, S).cases = d.cases
  BY DEF RemovePayloads, Sound, Rows
<1>. QED
  BY <1>1, <1>2, <1>3, ElsewhereBatch

LEMMA NextRevisionOK ==
    ASSUME NEW rec, HeadOK(rec), NEW kind, NEW state
    PROVE  HeadOK(NextRevision(rec, kind, state)) /\ NextRevision(rec, kind, state).state = state
BY DEF HeadOK, NextRevision, RecordRows

LEMMA AppendStatesBatch ==
    ASSUME NEW d, Sound(d), NEW S, NEW state, NEW T, state = "Purged" => S \subseteq T
    PROVE  Batch(d, AppendStates(d, S, state), T)
<1> DEFINE e == AppendStates(d, S, state)
<1>1. /\ DOMAIN e = DOMAIN d /\ e.cases = d.cases
      /\ e.records = [r \in DOMAIN d.records |->
                        IF r \in S THEN NextRevision(d.records[r], r[1], state) ELSE d.records[r]]
  BY DEF AppendStates, Sound, Rows
<1> HIDE DEF e
<1>2. Heads(e)
  BY <1>1, NextRevisionOK DEF Heads, Sound
<1>3. Pinned(e)
  BY <1>1 DEF Pinned, Sound
<1>4. \A r \in DOMAIN d.records : r \in S => StateOf(e, r) = state
  BY <1>1, NextRevisionOK DEF StateOf, Heads, Sound
<1>5. Grew(d, e, T)
  BY <1>1, <1>4 DEF Grew, StateOf
<1>. QED
  BY <1>1, <1>2, <1>3, <1>5 DEF Batch, Sound, e

LEMMA BatchWeaken ==
    ASSUME NEW d, NEW e, NEW T, Batch(d, e, {})
    PROVE  Batch(d, e, T)
BY DEF Batch, Grew

LEMMA InsertEvidenceBatch ==
    ASSUME NEW d, Sound(d), NEW id \in RecordRef, NEW class, NEW scope
    PROVE  Batch(d, InsertEvidence(d, id, class, scope), {})
<1> DEFINE e == Insert(d, id, NewRecord(scope, class, {}, {}))
<1>1. Batch(d, e, {})
  BY NewRecordOK, InsertBatch
<1> HIDE DEF e
<1>2. Batch(e, InsertLexical(e, id), {})
  BY <1>1, LexicalBatch DEF Batch
<1>. QED
  BY <1>1, <1>2, BatchChain DEF InsertEvidence, e

LEMMA InsertClaimBatch ==
    ASSUME NEW d, Sound(d), NEW id \in RecordRef, NEW domain, NEW scope, NEW E
    PROVE  Batch(d, InsertClaim(d, id, domain, scope, E), {})
<1> DEFINE e == Insert(d, id, NewRecord(scope, domain, E, {}))
<1>1. Batch(d, e, {})
  BY NewRecordOK, InsertBatch
<1> HIDE DEF e
<1>2. Batch(e, InsertLexical(e, id), {})
  BY <1>1, LexicalBatch DEF Batch
<1>. QED
  BY <1>1, <1>2, BatchChain DEF InsertClaim, e

LEMMA InsertArtifactsBatch ==
    ASSUME NEW d, Sound(d), NEW kind \in Kinds, NEW parent, NEW n \in Nat,
           Room(d, kind, n), Room(d, "Evidence", n)
    PROVE  /\ Batch(d, InsertArtifacts(d, kind, parent, n), {})
           /\ DOMAIN InsertArtifacts(d, kind, parent, n) = Rows
<1> DEFINE scope == d.records[parent].scope
           ids == {NthId(d, kind, i) : i \in 1..n}
           es == {NthId(d, "Evidence", i) : i \in 1..n}
<1>1. ids \cup es \subseteq RecordRef
  BY FreshId DEF Kinds
<1>2. PICK new : new = [r \in ids \cup es |->
                  IF r[1] = "Evidence" THEN NewRecord(scope, kind, {}, {})
                  ELSE NewRecord(scope, "None",
                         {NthId(d, "Evidence", i) : i \in {j \in 1..n : NthId(d, kind, j) = r}},
                         {parent})]
  OBVIOUS
<1>3. DOMAIN new \subseteq RecordRef /\ \A r \in DOMAIN new : HeadOK(new[r])
  BY <1>1, <1>2, NewRecordOK
<1> DEFINE e == InsertAll(d, new)
<1>4. Batch(d, e, {})
  BY <1>3, InsertAllBatch
<1>5. PICK deps : deps = {<<NthId(d, kind, i), NthId(d, "Evidence", i)>> : i \in 1..n}
  OBVIOUS
<1> DEFINE f == [e EXCEPT !.lexical = @ \cup es, !.dependencies = @ \cup deps]
<1>6. InsertArtifacts(d, kind, parent, n) = f
  BY <1>2, <1>5 DEF InsertArtifacts
<1> HIDE DEF e, es
<1>7. DOMAIN f = DOMAIN e /\ f.records = e.records /\ f.cases = e.cases
  BY <1>4 DEF Batch, Sound, Rows
<1> HIDE DEF f
<1>8. Batch(e, f, {})
  BY <1>4, <1>7, ElsewhereBatch DEF Batch
<1>. QED
  BY <1>4, <1>6, <1>8, BatchChain DEF Batch, Sound

LEMMA WithdrawBatch ==
    ASSUME NEW d, Sound(d), NEW target, NEW state, state # "Purged"
    PROVE  Batch(d, Withdraw(d, target, state), {})
<1> DEFINE lost == ActiveClosure(d, target)
           e == AppendStates(d, {target}, state)
           f == AppendStates(e, lost, "Unsupported")
<1>1. Batch(d, e, {})
  BY AppendStatesBatch
<1>2. Batch(e, f, {})
  BY <1>1, AppendStatesBatch DEF Batch
<1>3. Batch(f, RemoveLexical(f, lost \cup {target}), {})
  BY <1>2, LexicalBatch DEF Batch
<1>. QED
  BY <1>1, <1>2, <1>3, BatchChain DEF Withdraw

LEMMA PurgedBatch ==
    ASSUME NEW d, Sound(d), NEW p
    PROVE  Batch(d, Purged(d, p), {p.target[1]})
<1> DEFINE below == {pin[1] : pin \in p.invalid}
           all == below \cup {p.target[1]}
           live == {r \in below : IsActive(d, r)}
           T == {p.target[1]}
           e == AppendStates(d, T, "Purged")
           f == AppendStates(e, live, "Unsupported")
           g == RemoveLexical(f, all)
<1> HIDE DEF below, live
<1>1. Batch(d, e, T)
  BY AppendStatesBatch
<1>2. Batch(e, f, T)
  BY <1>1, AppendStatesBatch DEF Batch
<1>3. Batch(f, g, T)
  BY <1>2, LexicalBatch, BatchWeaken DEF Batch
<1>4. Batch(g, RemovePayloads(g, all), T)
  BY <1>3, LexicalBatch, BatchWeaken DEF Batch
<1>. QED
  BY <1>1, <1>2, <1>3, <1>4, BatchChain DEF Purged, below, live

LEMMA CaseBatch ==
    ASSUME NEW d, Sound(d), NEW scopes, NEW C, C \subseteq DOMAIN d.records
    PROVE  Batch(d, WithCase(d, scopes, C), {})
<1> DEFINE e == WithCase(d, scopes, C)
           n == Cardinality(DOMAIN d.cases) + 1
           row == [scopes |-> scopes, candidates |-> {Pin(d, r) : r \in C}]
<1>1. /\ DOMAIN e = DOMAIN d /\ e.records = d.records
      /\ e.cases = WithRow(d.cases, n, row)
  BY DEF WithCase, Sound, Rows
<1>2. row.candidates \subseteq (DOMAIN d.records) \X Nat
  BY DEF Pin, Sound, Heads, HeadOK
<1> HIDE DEF e, n, row
<1>3. Pinned(e)
  BY <1>1, <1>2 DEF Pinned, WithRow, Sound
<1>. QED
  BY <1>1, <1>3 DEF Batch, Sound, Heads, Grew, StateOf, e
-----------------------------------------------------------------------------
(* The derived rows. *)

DerivedRows == {"evaluators", "profiles", "signals", "traces", "scores", "byEvaluator"}
SignalRows == {"revision", "state", "evaluator", "profile", "from", "to"}
TraceRows == {"evaluator", "profile", "candidates", "contributions", "payload"}

Definitions(x) ==
    /\ \A e \in DOMAIN x.evaluators :
          /\ e \in Nat /\ DOMAIN x.evaluators[e] = {"revision", "state", "dims"}
          /\ x.evaluators[e].revision \in Nat
    /\ \A p \in DOMAIN x.profiles :
          /\ p \in Nat /\ DOMAIN x.profiles[p] = {"revision", "state", "evaluator", "heads"}
          /\ x.profiles[p].revision \in Nat

\* A signal, and what it was computed with: the definitions and the records
\* exist, and while the revision of the profile is the one the signal names,
\* the profile names the evaluator of the signal.
SignalOK(d, x, h) ==
    /\ DOMAIN h = SignalRows
    /\ h.revision \in Nat /\ h.state \in {"Active", "Purged"}
    /\ h.evaluator[1] \in DOMAIN x.evaluators
    /\ h.profile[1] \in DOMAIN x.profiles
    /\ h.profile[2] \in Nat /\ h.profile[2] <= x.profiles[h.profile[1]].revision
    /\ h.profile[2] = x.profiles[h.profile[1]].revision =>
          x.profiles[h.profile[1]].evaluator = h.evaluator
    /\ h.from[1] \in DOMAIN d.records /\ h.to[1] \in DOMAIN d.records

SignalLive(d, x, h) ==
    /\ x.evaluators[h.evaluator[1]].state # "Purged"
    /\ x.profiles[h.profile[1]].state # "Purged"
    /\ StateOf(d, h.from[1]) # "Purged" /\ StateOf(d, h.to[1]) # "Purged"

Signals(d, x) ==
    \A s \in DOMAIN x.signals :
       /\ SignalOK(d, x, x.signals[s])
       /\ x.signals[s].state = "Active" => SignalLive(d, x, x.signals[s])

TraceOK(d, x, t) ==
    /\ DOMAIN t = TraceRows
    /\ t.evaluator[1] \in DOMAIN x.evaluators /\ t.profile[1] \in DOMAIN x.profiles
    /\ \A c \in t.candidates : c[1] \in DOMAIN d.records

TraceLive(d, x, t) ==
    /\ x.evaluators[t.evaluator[1]].state # "Purged"
    /\ x.profiles[t.profile[1]].state # "Purged"
    /\ \A c \in t.candidates : StateOf(d, c[1]) # "Purged"

Traces(d, x) ==
    \A t \in DOMAIN x.traces :
       /\ TraceOK(d, x, x.traces[t])
       /\ x.traces[t].payload => TraceLive(d, x, x.traces[t])

\* Signals and traces are numbered in the order they came.
Numbered(x) ==
    /\ \E n \in Nat : DOMAIN x.signals = 1..n
    /\ \E n \in Nat : DOMAIN x.traces = 1..n

OnePerPair(x) == \A s, u \in DOMAIN x.signals : Pair(x, s) = Pair(x, u) => s = u

Indexed(x) ==
    /\ \A i : i \in x.byEvaluator <=>
                \E s \in DOMAIN x.signals : i = <<x.signals[s].evaluator[1], s>>
    /\ \A s : s \in x.scores <=> s \in DOMAIN x.signals /\ x.signals[s].state = "Active"

DerivedOK(d, x) ==
    /\ DOMAIN x = DerivedRows
    /\ Definitions(x) /\ Signals(d, x) /\ Traces(d, x)
    /\ Numbered(x) /\ OnePerPair(x) /\ Indexed(x)

\* What a step may make of the signals there are.
Advanced(x, y) ==
    \A s \in DOMAIN x.signals : y.signals[s] # x.signals[s] =>
       /\ y.signals[s].revision = x.signals[s].revision + 1
       /\ x.signals[s].state = "Active"
       /\ Pair(y, s) = Pair(x, s)

\* The signals in G and the traces in H are purged, the others stay.
ErasedSignals(x, y, G) ==
    /\ DOMAIN y.signals = DOMAIN x.signals
    /\ \A s \in DOMAIN x.signals :
          /\ s \in G => y.signals[s] = PurgedSignal(x.signals[s])
          /\ s \notin G => y.signals[s] = x.signals[s]
    /\ y.scores = x.scores \ G
    /\ y.byEvaluator = x.byEvaluator
ErasedTraces(x, y, H) ==
    /\ DOMAIN y.traces = DOMAIN x.traces
    /\ \A t \in DOMAIN x.traces :
          /\ t \in H => y.traces[t] = PurgedTrace(x.traces[t])
          /\ t \notin H => y.traces[t] = x.traces[t]

\* Definitions are revised forward, and only those in E and P are purged.
Redefined(x, y, E, P) ==
    /\ DOMAIN y = DerivedRows /\ Definitions(y)
    /\ \A e \in DOMAIN x.evaluators :
          /\ e \in DOMAIN y.evaluators
          /\ y.evaluators[e].state = "Purged" => x.evaluators[e].state = "Purged" \/ e \in E
    /\ \A p \in DOMAIN x.profiles :
          /\ p \in DOMAIN y.profiles
          /\ y.profiles[p].state = "Purged" => x.profiles[p].state = "Purged" \/ p \in P
          /\ \/ y.profiles[p].revision > x.profiles[p].revision
             \/ /\ y.profiles[p].revision = x.profiles[p].revision
                /\ y.profiles[p].evaluator = x.profiles[p].evaluator

\* G and H hold what was computed with or from what is purged.
Covers(x, T, E, P, G, H) ==
    /\ \A s \in G : s \in DOMAIN x.signals /\ x.signals[s].state # "Purged"
    /\ \A s \in DOMAIN x.signals :
          LET h == x.signals[s]
          IN h.state = "Active" /\ (h.evaluator[1] \in E \/ h.profile[1] \in P
                                    \/ h.from[1] \in T \/ h.to[1] \in T) => s \in G
    /\ \A t \in DOMAIN x.traces :
          LET h == x.traces[t]
          IN h.payload /\ (h.evaluator[1] \in E \/ h.profile[1] \in P
                           \/ \E c \in h.candidates : c[1] \in T) => t \in H

LEMMA PurgedSignalFields ==
    ASSUME NEW h, DOMAIN h = SignalRows
    PROVE  /\ DOMAIN PurgedSignal(h) = SignalRows
           /\ PurgedSignal(h).revision = h.revision + 1 /\ PurgedSignal(h).state = "Purged"
           /\ PurgedSignal(h).evaluator = h.evaluator /\ PurgedSignal(h).profile = h.profile
           /\ PurgedSignal(h).from = h.from /\ PurgedSignal(h).to = h.to
BY DEF PurgedSignal, SignalRows

LEMMA PurgedTraceFields ==
    ASSUME NEW t, DOMAIN t = TraceRows
    PROVE  /\ DOMAIN PurgedTrace(t) = TraceRows /\ PurgedTrace(t).payload = FALSE
           /\ PurgedTrace(t).evaluator = t.evaluator /\ PurgedTrace(t).profile = t.profile
           /\ PurgedTrace(t).candidates = t.candidates
BY DEF PurgedTrace, TraceRows

\* A batch that purges records in T and definitions in E and P leaves the
\* derived rows sound when it erases all that was computed from them.
LEMMA ErasureKeeps ==
    ASSUME NEW d, NEW e, NEW x, NEW y, NEW T, NEW E, NEW P, NEW G, NEW H,
           DerivedOK(d, x), Grew(d, e, T), Redefined(x, y, E, P),
           ErasedSignals(x, y, G), ErasedTraces(x, y, H), Covers(x, T, E, P, G, H)
    PROVE  DerivedOK(e, y) /\ Advanced(x, y)
<1>1. ASSUME NEW s \in DOMAIN x.signals
      PROVE  /\ DOMAIN y.signals[s] = SignalRows
             /\ y.signals[s].evaluator = x.signals[s].evaluator
             /\ y.signals[s].profile = x.signals[s].profile
             /\ y.signals[s].from = x.signals[s].from /\ y.signals[s].to = x.signals[s].to
             /\ y.signals[s].revision \in Nat
             /\ y.signals[s].state \in {"Active", "Purged"}
             /\ y.signals[s].state = "Active" <=> s \notin G /\ x.signals[s].state = "Active"
             /\ s \in G => y.signals[s].revision = x.signals[s].revision + 1
  <2>1. DOMAIN x.signals[s] = SignalRows /\ x.signals[s].revision \in Nat
        /\ x.signals[s].state \in {"Active", "Purged"}
    BY DEF DerivedOK, Signals, SignalOK
  <2>2. CASE s \in G
    <3>1. y.signals[s] = PurgedSignal(x.signals[s])
      BY <2>2 DEF ErasedSignals
    <3>. QED
      BY <2>1, <2>2, <3>1, PurgedSignalFields
  <2>3. CASE s \notin G
    BY <2>1, <2>3 DEF ErasedSignals
  <2>. QED
    BY <2>2, <2>3
<1>2. \A s \in DOMAIN x.signals : Pair(y, s) = Pair(x, s)
  BY <1>1 DEF Pair
<1>3. DOMAIN y.signals = DOMAIN x.signals /\ DOMAIN y.traces = DOMAIN x.traces
  BY DEF ErasedSignals, ErasedTraces
<1>4. Advanced(x, y)
  <2> SUFFICES ASSUME NEW s \in DOMAIN x.signals, y.signals[s] # x.signals[s]
               PROVE  /\ y.signals[s].revision = x.signals[s].revision + 1
                      /\ x.signals[s].state = "Active"
                      /\ Pair(y, s) = Pair(x, s)
    BY DEF Advanced
  <2>1. s \in G
    BY DEF ErasedSignals
  <2>. QED
    BY <1>1, <1>2, <2>1 DEF Covers, DerivedOK, Signals, SignalOK
<1>5. ASSUME NEW s \in DOMAIN x.signals
      PROVE  SignalOK(e, y, y.signals[s])
  <2> DEFINE h == x.signals[s]
             p == x.signals[s].profile[1]
  <2>1. SignalOK(d, x, h)
    BY DEF DerivedOK, Signals
  <2>2. p \in DOMAIN x.profiles /\ x.profiles[p].revision \in Nat
        /\ p \in DOMAIN y.profiles /\ y.profiles[p].revision \in Nat
    BY <2>1 DEF SignalOK, Redefined, DerivedOK, Definitions
  <2>3. \/ y.profiles[p].revision > x.profiles[p].revision
        \/ /\ y.profiles[p].revision = x.profiles[p].revision
           /\ y.profiles[p].evaluator = x.profiles[p].evaluator
    BY <2>2 DEF Redefined
  <2>4. /\ h.profile[2] <= y.profiles[p].revision
        /\ h.profile[2] = y.profiles[p].revision => y.profiles[p].evaluator = h.evaluator
    BY <2>1, <2>2, <2>3 DEF SignalOK
  <2>. QED
    BY <1>1, <2>1, <2>2, <2>4 DEF SignalOK, Redefined, Grew
<1>6. ASSUME NEW s \in DOMAIN x.signals, y.signals[s].state = "Active"
      PROVE  SignalLive(e, y, y.signals[s])
  <2> DEFINE h == x.signals[s]
  <2>1. h.state = "Active" /\ s \notin G
    BY <1>1, <1>6
  <2>2. /\ h.evaluator[1] \notin E /\ h.profile[1] \notin P
        /\ h.from[1] \notin T /\ h.to[1] \notin T
    BY <2>1 DEF Covers
  <2>3. SignalOK(d, x, h) /\ SignalLive(d, x, h)
    BY <2>1 DEF DerivedOK, Signals
  <2>4. SignalLive(e, y, h)
    BY <2>2, <2>3 DEF SignalOK, SignalLive, Redefined, Grew
  <2>. QED
    BY <1>1, <2>4 DEF SignalLive
<1>7. Signals(e, y)
  BY <1>3, <1>5, <1>6 DEF Signals
<1>8. ASSUME NEW t \in DOMAIN x.traces
      PROVE  TraceOK(e, y, y.traces[t]) /\ (y.traces[t].payload => TraceLive(e, y, y.traces[t]))
  <2> DEFINE h == x.traces[t]
  <2>1. TraceOK(d, x, h)
    BY DEF DerivedOK, Traces
  <2>2. CASE t \in H
    <3>1. y.traces[t] = PurgedTrace(h)
      BY <2>2 DEF ErasedTraces
    <3>2. DOMAIN h = TraceRows
      BY <2>1 DEF TraceOK
    <3>3. y.traces[t].payload = FALSE
      BY <3>1, <3>2, PurgedTraceFields
    <3>4. /\ DOMAIN y.traces[t] = TraceRows
          /\ y.traces[t].evaluator = h.evaluator /\ y.traces[t].profile = h.profile
          /\ y.traces[t].candidates = h.candidates
      BY <3>1, <3>2, PurgedTraceFields
    <3>5. TraceOK(e, y, y.traces[t])
      BY <2>1, <3>4 DEF TraceOK, Redefined, Grew
    <3>. QED
      BY <3>3, <3>5, Zenon
  <2>3. CASE t \notin H
    <3>1. y.traces[t] = h
      BY <2>3 DEF ErasedTraces
    <3>2. TraceOK(e, y, h)
      BY <2>1 DEF TraceOK, Redefined, Grew
    <3>3. ASSUME h.payload
          PROVE  TraceLive(e, y, h)
      <4>1. TraceLive(d, x, h)
        BY <3>3 DEF DerivedOK, Traces
      <4>2. /\ h.evaluator[1] \notin E /\ h.profile[1] \notin P
            /\ \A c \in h.candidates : c[1] \notin T
        BY <2>3, <3>3 DEF Covers
      <4>. QED
        BY <2>1, <4>1, <4>2 DEF TraceOK, TraceLive, Redefined, Grew
    <3>. QED
      BY <3>1, <3>2, <3>3
  <2>. QED
    BY <2>2, <2>3
<1>9. Traces(e, y)
  BY <1>3, <1>8 DEF Traces
<1>10. Indexed(y)
  BY <1>1, <1>3 DEF Indexed, DerivedOK, ErasedSignals
<1>11. Numbered(y) /\ OnePerPair(y)
  BY <1>2, <1>3 DEF Numbered, OnePerPair, DerivedOK
<1>. QED
  BY <1>4, <1>7, <1>9, <1>10, <1>11 DEF DerivedOK, Redefined

LEMMA NothingErased ==
    ASSUME NEW x, NEW y, y.signals = x.signals, y.scores = x.scores,
           y.byEvaluator = x.byEvaluator, y.traces = x.traces
    PROVE  ErasedSignals(x, y, {}) /\ ErasedTraces(x, y, {})
BY DEF ErasedSignals, ErasedTraces

LEMMA NothingCovered ==
    ASSUME NEW x
    PROVE  Covers(x, {}, {}, {}, {}, {})
BY DEF Covers

LEMMA NothingRedefined ==
    ASSUME NEW d, NEW x, DerivedOK(d, x)
    PROVE  Redefined(x, x, {}, {})
BY DEF Redefined, DerivedOK

\* A batch of records that purges none leaves the derived rows sound.
LEMMA RecordsKeepDerived ==
    ASSUME NEW d, NEW e, NEW x, DerivedOK(d, x), Batch(d, e, {})
    PROVE  DerivedOK(e, x)
BY NothingErased, NothingCovered, NothingRedefined, ErasureKeeps DEF Batch

\* PurgeSignals and PurgeTraces erase what they are given.
LEMMA PurgeErasesRows ==
    ASSUME NEW x, NEW y, NEW G, NEW H, DOMAIN y = DerivedRows,
           y.signals = x.signals, y.scores = x.scores,
           y.byEvaluator = x.byEvaluator, y.traces = x.traces
    PROVE  /\ ErasedSignals(x, PurgeTraces(PurgeSignals(y, G), H), G)
           /\ ErasedTraces(x, PurgeTraces(PurgeSignals(y, G), H), H)
           /\ DOMAIN PurgeTraces(PurgeSignals(y, G), H) = DerivedRows
           /\ PurgeTraces(PurgeSignals(y, G), H).evaluators = y.evaluators
           /\ PurgeTraces(PurgeSignals(y, G), H).profiles = y.profiles
<1> DEFINE a == PurgeSignals(y, G)
           b == PurgeTraces(a, H)
<1>1. /\ DOMAIN a = DerivedRows
      /\ a.evaluators = y.evaluators /\ a.profiles = y.profiles
      /\ a.traces = y.traces /\ a.byEvaluator = y.byEvaluator /\ a.scores = y.scores \ G
      /\ a.signals = [s \in DOMAIN y.signals |->
                        IF s \in G THEN PurgedSignal(y.signals[s]) ELSE y.signals[s]]
  BY DEF PurgeSignals, DerivedRows
<1> HIDE DEF a
<1>2. /\ DOMAIN b = DerivedRows
      /\ b.evaluators = a.evaluators /\ b.profiles = a.profiles
      /\ b.signals = a.signals /\ b.byEvaluator = a.byEvaluator /\ b.scores = a.scores
      /\ b.traces = [t \in DOMAIN a.traces |->
                        IF t \in H THEN PurgedTrace(a.traces[t]) ELSE a.traces[t]]
  BY <1>1 DEF PurgeTraces, DerivedRows
<1> HIDE DEF b
<1>3. ErasedSignals(x, b, G)
  BY <1>1, <1>2 DEF ErasedSignals
<1>4. ErasedTraces(x, b, H)
  BY <1>1, <1>2 DEF ErasedTraces
<1>. QED
  BY <1>1, <1>2, <1>3, <1>4 DEF a, b
-----------------------------------------------------------------------------
(* Signals that are put. *)

\* A partition of rows 1..n: the next number is free.
LEMMA NextNumber ==
    ASSUME NEW S, \E n \in Nat : S = 1..n
    PROVE  /\ Cardinality(S) + 1 \in Nat /\ Cardinality(S) + 1 \notin S
           /\ \E n \in Nat : S \cup {Cardinality(S) + 1} = 1..n
<1>1. PICK n \in Nat : S = 1..n
  OBVIOUS
<1>2. Cardinality(S) = n
  BY <1>1, FS_Interval
<1>3. S \cup {n + 1} = 1..(n + 1)
  BY <1>1
<1>. QED
  BY <1>1, <1>2, <1>3

\* What a signal that is put needs of the definitions and the records.
Computable(d, x, evaluator, profile, new) ==
    /\ evaluator[1] \in DOMAIN x.evaluators
    /\ x.evaluators[evaluator[1]].state = "Active"
    /\ profile[1] \in DOMAIN x.profiles
    /\ x.profiles[profile[1]].state = "Active"
    /\ x.profiles[profile[1]].revision = profile[2]
    /\ x.profiles[profile[1]].evaluator = evaluator
    /\ new.expected \in Nat
    /\ IsActive(d, new.from[1]) /\ IsActive(d, new.to[1])

\* The expected revision is that of the pair's signal, if there is one.
Expected(x, profile, new) ==
    IF SignalFor(x, profile[1], new.from, new.to) = {} THEN new.expected = 0
    ELSE \A s \in SignalFor(x, profile[1], new.from, new.to) :
            x.signals[s].revision = new.expected /\ x.signals[s].state = "Active"

NewSignal(evaluator, profile, new) ==
    [revision |-> new.expected + 1, state |-> "Active", evaluator |-> evaluator,
     profile |-> profile, from |-> new.from, to |-> new.to]

\* s is written in y, everything else is as in x.
SignalPut(x, y, evaluator, profile, new, s) ==
    /\ DOMAIN y = DerivedRows
    /\ y.evaluators = x.evaluators /\ y.profiles = x.profiles /\ y.traces = x.traces
    /\ y.signals = WithRow(x.signals, s, NewSignal(evaluator, profile, new))
    /\ y.scores = x.scores \cup {s}
    /\ y.byEvaluator = {i \in x.byEvaluator : i[2] # s} \cup {<<evaluator[1], s>>}

LEMMA WithSignalPuts ==
    ASSUME NEW x, DOMAIN x = DerivedRows, NEW evaluator, NEW profile, NEW new
    PROVE  SignalPut(x, WithSignal(x, evaluator, profile, new), evaluator, profile, new,
                     SignalId(x, profile, new))
<1> DEFINE s == SignalId(x, profile, new)
<1>1. PICK y : y = SignalRow(x, evaluator, profile, new, s)
  OBVIOUS
<1>2. /\ DOMAIN y = DerivedRows
      /\ y.evaluators = x.evaluators /\ y.profiles = x.profiles /\ y.traces = x.traces
      /\ y.byEvaluator = x.byEvaluator
      /\ y.signals = WithRow(x.signals, s, NewSignal(evaluator, profile, new))
      /\ y.scores = x.scores \cup {s}
  BY <1>1 DEF SignalRow, NewSignal, DerivedRows
<1>3. WithSignal(x, evaluator, profile, new) =
        [y EXCEPT !.byEvaluator = {i \in @ : i[2] # s} \cup {<<evaluator[1], s>>}]
  BY <1>1 DEF WithSignal
<1>. QED
  BY <1>2, <1>3 DEF SignalPut, DerivedRows

\* The signal of a pair, or a new number.
LEMMA SignalIdIs ==
    ASSUME NEW x, Numbered(x), OnePerPair(x), NEW profile, NEW new
    PROVE  LET s == SignalId(x, profile, new)
               key == <<profile[1], new.from[1], new.to[1]>>
           IN /\ s \in Nat
              /\ \E n \in Nat : DOMAIN x.signals \cup {s} = 1..n
              /\ \A u \in DOMAIN x.signals : Pair(x, u) = key => u = s
              /\ s \in DOMAIN x.signals => s \in SignalFor(x, profile[1], new.from, new.to)
              /\ s \notin DOMAIN x.signals =>
                    /\ SignalFor(x, profile[1], new.from, new.to) = {}
                    /\ s = Cardinality(DOMAIN x.signals) + 1
<1> DEFINE s == SignalId(x, profile, new)
           found == SignalFor(x, profile[1], new.from, new.to)
<1>1. CASE found = {}
  <2>1. s = Cardinality(DOMAIN x.signals) + 1
    BY <1>1 DEF SignalId
  <2>2. /\ s \in Nat /\ s \notin DOMAIN x.signals
        /\ \E n \in Nat : DOMAIN x.signals \cup {s} = 1..n
    BY <2>1, NextNumber DEF Numbered
  <2>. QED
    BY <1>1, <2>1, <2>2 DEF SignalFor
<1>2. CASE found # {}
  <2>1. s \in found
    BY <1>2 DEF SignalId
  <2>2. s \in DOMAIN x.signals
    BY <2>1 DEF SignalFor
  <2>3. DOMAIN x.signals \cup {s} = DOMAIN x.signals
    BY <2>2
  <2>4. s \in Nat /\ \E n \in Nat : DOMAIN x.signals \cup {s} = 1..n
    BY <2>2, <2>3 DEF Numbered
  <2>. QED
    BY <2>1, <2>2, <2>4 DEF SignalFor, OnePerPair
<1>. QED
  BY <1>1, <1>2

\* Putting a signal keeps the derived rows sound and only revises its pair.
LEMMA SignalPutKeeps ==
    ASSUME NEW d, NEW x, NEW y, NEW evaluator, NEW profile, NEW new, NEW s,
           DerivedOK(d, x), s = SignalId(x, profile, new),
           Computable(d, x, evaluator, profile, new), Expected(x, profile, new),
           SignalPut(x, y, evaluator, profile, new, s)
    PROVE  /\ DerivedOK(d, y) /\ Advanced(x, y)
           /\ DOMAIN y.signals = DOMAIN x.signals \cup {s}
           /\ \A u \in DOMAIN x.signals : u # s => y.signals[u] = x.signals[u]
           /\ Pair(y, s) = <<profile[1], new.from[1], new.to[1]>>
<1> DEFINE key == <<profile[1], new.from[1], new.to[1]>>
<1>1. PICK row : row = NewSignal(evaluator, profile, new)
  OBVIOUS
<1>2. /\ DOMAIN row = SignalRows
      /\ row.revision = new.expected + 1 /\ row.state = "Active"
      /\ row.evaluator = evaluator /\ row.profile = profile
      /\ row.from = new.from /\ row.to = new.to
  BY <1>1 DEF NewSignal, SignalRows
<1>3. /\ DOMAIN y = DerivedRows
      /\ y.evaluators = x.evaluators /\ y.profiles = x.profiles /\ y.traces = x.traces
      /\ y.scores = x.scores \cup {s}
      /\ y.byEvaluator = {i \in x.byEvaluator : i[2] # s} \cup {<<evaluator[1], s>>}
      /\ y.signals = WithRow(x.signals, s, row)
  BY <1>1 DEF SignalPut
<1>4. /\ DOMAIN y.signals = DOMAIN x.signals \cup {s} /\ y.signals[s] = row
      /\ \A u \in DOMAIN x.signals : u # s => y.signals[u] = x.signals[u]
  BY <1>3 DEF WithRow
<1>5. Numbered(x) /\ OnePerPair(x) /\ Definitions(x) /\ Indexed(x)
  BY DEF DerivedOK
<1>6. /\ \E n \in Nat : DOMAIN x.signals \cup {s} = 1..n
      /\ \A u \in DOMAIN x.signals : Pair(x, u) = key => u = s
      /\ s \in DOMAIN x.signals => s \in SignalFor(x, profile[1], new.from, new.to)
  BY <1>5, SignalIdIs
<1>7. Pair(y, s) = key
  BY <1>2, <1>4 DEF Pair
<1>8. \A u \in DOMAIN x.signals : u # s => Pair(y, u) = Pair(x, u)
  BY <1>4 DEF Pair
<1>9. OnePerPair(y)
  BY <1>4, <1>5, <1>6, <1>7, <1>8 DEF OnePerPair
<1>10. Numbered(y)
  BY <1>3, <1>4, <1>5, <1>6 DEF Numbered
<1>11. Advanced(x, y)
  <2> SUFFICES ASSUME NEW u \in DOMAIN x.signals, y.signals[u] # x.signals[u]
               PROVE  /\ y.signals[u].revision = x.signals[u].revision + 1
                      /\ x.signals[u].state = "Active"
                      /\ Pair(y, u) = Pair(x, u)
    BY DEF Advanced
  <2>1. u = s
    BY <1>4
  <2>2. s \in SignalFor(x, profile[1], new.from, new.to)
    BY <1>6, <2>1
  <2>3. x.signals[s].revision = new.expected /\ x.signals[s].state = "Active"
    BY <2>2 DEF Expected
  <2>4. Pair(x, s) = key
    BY <2>2 DEF SignalFor
  <2>. QED
    BY <1>2, <1>4, <1>7, <2>1, <2>3, <2>4
<1>12. SignalOK(d, y, row) /\ SignalLive(d, y, row)
  <2>1. new.from[1] \in DOMAIN d.records /\ new.to[1] \in DOMAIN d.records
        /\ StateOf(d, new.from[1]) = "Active" /\ StateOf(d, new.to[1]) = "Active"
    BY DEF Computable, IsActive, Exists
  <2>2. profile[2] \in Nat
    BY <1>5 DEF Computable, Definitions
  <2>3. SignalLive(d, y, row)
    BY <1>2, <1>3, <2>1 DEF SignalLive, Computable
  <2>4. row.revision \in Nat
    BY <1>2 DEF Computable
  <2>. QED
    BY <1>2, <1>3, <2>1, <2>2, <2>3, <2>4 DEF SignalOK, Computable
<1>13. \A u \in DOMAIN x.signals :
          /\ SignalOK(d, y, x.signals[u])
          /\ x.signals[u].state = "Active" => SignalLive(d, y, x.signals[u])
  BY <1>3 DEF DerivedOK, Signals, SignalOK, SignalLive
<1>14. Signals(d, y)
  BY <1>4, <1>12, <1>13 DEF Signals
<1>15. Traces(d, y)
  BY <1>3 DEF DerivedOK, Traces, TraceOK, TraceLive
<1>16. Indexed(y)
  <2>1. ASSUME NEW i
        PROVE  i \in y.byEvaluator <=>
                 \E u \in DOMAIN y.signals : i = <<y.signals[u].evaluator[1], u>>
    <3>1. i \in x.byEvaluator /\ i[2] # s <=>
            \E u \in DOMAIN x.signals : u # s /\ i = <<x.signals[u].evaluator[1], u>>
      BY <1>5 DEF Indexed
    <3>2. (\E u \in DOMAIN x.signals : u # s /\ i = <<x.signals[u].evaluator[1], u>>) <=>
            \E u \in DOMAIN y.signals : u # s /\ i = <<y.signals[u].evaluator[1], u>>
      BY <1>4
    <3>3. i = <<evaluator[1], s>> <=> i = <<y.signals[s].evaluator[1], s>>
      BY <1>2, <1>4
    <3>. QED
      BY <1>3, <1>4, <3>1, <3>2, <3>3
  <2>2. \A u : u \in y.scores <=> u \in DOMAIN y.signals /\ y.signals[u].state = "Active"
    BY <1>2, <1>3, <1>4, <1>5 DEF Indexed
  <2>. QED
    BY <2>1, <2>2 DEF Indexed
<1>17. Definitions(y)
  BY <1>3, <1>5 DEF Definitions
<1>. QED
  BY <1>3, <1>4, <1>7, <1>9, <1>10, <1>11, <1>14, <1>15, <1>16, <1>17 DEF DerivedOK

\* Two signals of different pairs: the second one is put as if it were alone.
LEMMA TwoSignalsKeep ==
    ASSUME NEW d, NEW x, NEW y, NEW z, NEW evaluator, NEW profile, NEW new1, NEW new2,
           NEW s, NEW u, DerivedOK(d, x),
           s = SignalId(x, profile, new1), u = SignalId(y, profile, new2),
           Computable(d, x, evaluator, profile, new1), Expected(x, profile, new1),
           Computable(d, x, evaluator, profile, new2), Expected(x, profile, new2),
           SignalPut(x, y, evaluator, profile, new1, s),
           SignalPut(y, z, evaluator, profile, new2, u),
           <<new1.from[1], new1.to[1]>> # <<new2.from[1], new2.to[1]>>
    PROVE  DerivedOK(d, z) /\ Advanced(x, z)
<1> DEFINE key1 == <<profile[1], new1.from[1], new1.to[1]>>
           key2 == <<profile[1], new2.from[1], new2.to[1]>>
<1>1. /\ DerivedOK(d, y) /\ Advanced(x, y)
      /\ DOMAIN y.signals = DOMAIN x.signals \cup {s}
      /\ \A v \in DOMAIN x.signals : v # s => y.signals[v] = x.signals[v]
      /\ Pair(y, s) = key1
  BY SignalPutKeeps
<1>2. key1 # key2
  OBVIOUS
<1>3. \A v \in DOMAIN x.signals : v # s => Pair(y, v) = Pair(x, v)
  BY <1>1 DEF Pair
<1>4. Numbered(x) /\ OnePerPair(x) /\ Numbered(y) /\ OnePerPair(y)
  BY <1>1 DEF DerivedOK
<1>5. s \in DOMAIN x.signals => Pair(x, s) = key1
  BY <1>4, SignalIdIs DEF SignalFor
<1>6. SignalFor(y, profile[1], new2.from, new2.to) = SignalFor(x, profile[1], new2.from, new2.to)
  BY <1>1, <1>2, <1>3, <1>5 DEF SignalFor
<1>7. s \notin SignalFor(y, profile[1], new2.from, new2.to)
  BY <1>1, <1>2 DEF SignalFor
<1>8. Expected(y, profile, new2)
  <2>1. \A v \in SignalFor(x, profile[1], new2.from, new2.to) : y.signals[v] = x.signals[v]
    BY <1>1, <1>6, <1>7 DEF SignalFor
  <2>. QED
    BY <1>6, <2>1 DEF Expected
<1>9. Computable(d, y, evaluator, profile, new2)
  BY DEF Computable, SignalPut
<1>10. /\ DerivedOK(d, z) /\ Advanced(y, z)
       /\ \A v \in DOMAIN y.signals : v # u => z.signals[v] = y.signals[v]
       /\ Pair(z, u) = key2
  BY <1>1, <1>8, <1>9, SignalPutKeeps
<1>11. u # s
  <2>1. u \in DOMAIN y.signals => u \in SignalFor(y, profile[1], new2.from, new2.to)
    BY <1>4, SignalIdIs
  <2>. QED
    BY <1>1, <1>7, <2>1
<1>12. ASSUME NEW v \in DOMAIN x.signals, z.signals[v] # x.signals[v]
       PROVE  /\ z.signals[v].revision = x.signals[v].revision + 1
              /\ x.signals[v].state = "Active"
              /\ Pair(z, v) = Pair(x, v)
  <2>1. CASE v = s
    <3>1. z.signals[s] = y.signals[s] /\ Pair(z, s) = Pair(y, s)
      BY <1>1, <1>10, <1>11 DEF Pair
    <3>. QED
      BY <1>1, <1>12, <2>1, <3>1 DEF Advanced
  <2>2. CASE v # s
    <3>1. y.signals[v] = x.signals[v] /\ Pair(y, v) = Pair(x, v) /\ v \in DOMAIN y.signals
      BY <1>1, <1>3, <2>2
    <3>. QED
      BY <1>10, <1>12, <3>1 DEF Advanced
  <2>. QED
    BY <2>1, <2>2
<1>. QED
  BY <1>10, <1>12 DEF Advanced

\* A new trace of what is current.
LEMMA TracePutKeeps ==
    ASSUME NEW d, NEW x, NEW y, NEW row, DerivedOK(d, x), DOMAIN y = DerivedRows,
           y.evaluators = x.evaluators, y.profiles = x.profiles, y.signals = x.signals,
           y.scores = x.scores, y.byEvaluator = x.byEvaluator,
           y.traces = WithRow(x.traces, Cardinality(DOMAIN x.traces) + 1, row),
           TraceOK(d, x, row), TraceLive(d, x, row)
    PROVE  DerivedOK(d, y) /\ Advanced(x, y) /\ Cardinality(DOMAIN x.traces) + 1 \in Nat
<1>1. PICK t : t = Cardinality(DOMAIN x.traces) + 1
  OBVIOUS
<1>2. /\ t \in Nat /\ t \notin DOMAIN x.traces
      /\ \E n \in Nat : DOMAIN x.traces \cup {t} = 1..n
  BY <1>1, NextNumber DEF DerivedOK, Numbered
<1>3. /\ DOMAIN y.traces = DOMAIN x.traces \cup {t} /\ y.traces[t] = row
      /\ \A u \in DOMAIN x.traces : y.traces[u] = x.traces[u]
  BY <1>1, <1>2 DEF WithRow
<1>4. Numbered(y)
  BY <1>2, <1>3 DEF Numbered, DerivedOK
<1>5. Definitions(y) /\ OnePerPair(y) /\ Indexed(y) /\ Signals(d, y)
  BY DEF DerivedOK, Definitions, OnePerPair, Pair, Indexed, Signals, SignalOK, SignalLive
<1>6. Traces(d, y)
  BY <1>3 DEF DerivedOK, Traces, TraceOK, TraceLive
<1>. QED
  BY <1>1, <1>2, <1>4, <1>5, <1>6 DEF DerivedOK, Advanced
-----------------------------------------------------------------------------
(* The invariant. *)

Receipt == SUBSET ((RecordRef \cup DerivedRef) \X Nat)

\* Every receipt is one, and what has none has no effects.
Booked ==
    /\ \A op \in DOMAIN operations : operations[op] \in Receipt
    /\ audit \in [Ops -> Nat]
    /\ \A op \in Ops : op \notin DOMAIN operations => audit[op] = 0

\* The record a preview is about exists.
Shown == preview # None => preview.target[1] \in DOMAIN db.records

IInv == Sound(db) /\ DerivedOK(db, derived) /\ Booked /\ Shown

\* What is proved of each step.
Kept ==
    /\ IInv' /\ Advanced(derived, derived')
    /\ (\E op \in Ops : AMO!Decide(op)) \/ UNCHANGED <<operations, audit>>

LEMMA CommitDecides ==
    ASSUME Booked, NEW op \in Ops, op \notin DOMAIN operations, NEW receipt \in Receipt,
           operations' = WithRow(operations, op, receipt),
           audit' = [audit EXCEPT ![op] = @ + 1]
    PROVE  Booked' /\ AMO!Decide(op)
<1>1. audit[op] = 0 /\ audit \in [Ops -> Nat]
  BY DEF Booked
<1>2. audit' = [audit EXCEPT ![op] = 1]
  BY <1>1
<1>3. operations' \in [DOMAIN operations \cup {op} -> Receipt]
  BY DEF Booked, WithRow
<1>4. \A o \in DOMAIN operations : operations'[o] = operations[o]
  BY DEF WithRow
<1>5. AMO!Decide(op)
  BY <1>2, <1>3, <1>4 DEF AMO!Decide, Receipt
<1>6. /\ DOMAIN operations' = DOMAIN operations \cup {op}
      /\ \A o \in DOMAIN operations' : operations'[o] \in Receipt
  BY <1>3
<1>7. audit' \in [Ops -> Nat] /\ \A o \in Ops : o # op => audit'[o] = audit[o]
  BY <1>1, <1>2
<1>8. Booked'
  BY <1>6, <1>7 DEF Booked
<1>. QED
  BY <1>5, <1>8

LEMMA SameIsAdvanced ==
    ASSUME NEW x
    PROVE  Advanced(x, x)
BY DEF Advanced

\* The identifier of an operation that begins was never used.
LEMMA BeginIsNew ==
    ASSUME NEW op, Begin(op)
    PROVE  op \in Ops /\ op \notin DOMAIN operations
BY DEF Begin, Offered, NotReplayed

\* A committed batch of records that purges none.
LEMMA RecordCommitKeeps ==
    ASSUME IInv, NEW op, Begin(op), NEW receipt \in Receipt, NEW d, Batch(db, d, {}),
           Commit(op, receipt, d), UNCHANGED <<derived, preview>>
    PROVE  Kept
<1>1. op \in Ops /\ op \notin DOMAIN operations
  BY BeginIsNew
<1>2. /\ db' = d /\ derived' = derived /\ preview' = preview
      /\ operations' = WithRow(operations, op, receipt)
      /\ audit' = [audit EXCEPT ![op] = @ + 1]
  BY DEF Commit
<1>3. Booked' /\ AMO!Decide(op)
  BY <1>1, <1>2, CommitDecides DEF IInv
<1>4. DerivedOK(d, derived)
  BY RecordsKeepDerived DEF IInv
<1>5. Shown'
  BY <1>2 DEF IInv, Shown, Batch, Grew
<1>. QED
  BY <1>1, <1>2, <1>3, <1>4, <1>5, SameIsAdvanced DEF Kept, IInv, Batch

\* A committed batch of derived rows.
LEMMA DerivedCommitKeeps ==
    ASSUME IInv, NEW op, Begin(op), NEW receipt \in Receipt, NEW x,
           DerivedOK(db, x), Advanced(derived, x), CommitDerived(op, receipt, x)
    PROVE  Kept
<1>1. op \in Ops /\ op \notin DOMAIN operations
  BY BeginIsNew
<1>2. /\ db' = db /\ derived' = x /\ preview' = preview
      /\ operations' = WithRow(operations, op, receipt)
      /\ audit' = [audit EXCEPT ![op] = @ + 1]
  BY DEF Commit, CommitDerived
<1>3. Booked' /\ AMO!Decide(op)
  BY <1>1, <1>2, CommitDecides DEF IInv
<1>. QED
  BY <1>1, <1>2, <1>3 DEF Kept, IInv, Shown

\* A step that records no operation.
LEMMA UnrecordedKeeps ==
    ASSUME IInv, Batch(db, db', {}), Shown', UNCHANGED <<derived, operations, audit>>
    PROVE  Kept
<1>1. DerivedOK(db', derived)
  BY RecordsKeepDerived DEF IInv
<1>. QED
  BY <1>1, SameIsAdvanced DEF Kept, IInv, Booked, Batch
-----------------------------------------------------------------------------
(* Records. *)

LEMMA PinsAreReceipts ==
    ASSUME NEW S, S \subseteq RecordRef \X Nat
    PROVE  S \in Receipt
BY DEF Receipt

\* A record for which there is room gets an identifier.
LEMMA NewIdIs ==
    ASSUME NEW d, Sound(d), NEW k \in Kinds, Room(d, k, 1)
    PROVE  NewId(d, k) \in RecordRef
BY FreshId DEF NewId

LEMMA CaptureEvidenceKeeps ==
    ASSUME IInv, NEW op, Begin(op), NEW actor, NEW class, NEW life, NEW scope,
           CaptureEvidence(op, actor, class, life, scope)
    PROVE  Kept
<1> DEFINE e == NewId(db, "Evidence")
<1>1. Sound(db) /\ e \in RecordRef
  BY NewIdIs DEF IInv, CaptureEvidence, Kinds
<1>2. Batch(db, InsertEvidence(db, e, class, scope), {})
  BY <1>1, InsertEvidenceBatch
<1>3. {<<e, 1>>} \in Receipt
  BY <1>1, PinsAreReceipts
<1>4. /\ Commit(op, {<<e, 1>>}, InsertEvidence(db, e, class, scope))
      /\ UNCHANGED <<derived, preview>>
  BY DEF CaptureEvidence
<1>. QED
  BY <1>2, <1>3, <1>4, RecordCommitKeeps

LEMMA CreateArtifactCollectionKeeps ==
    ASSUME IInv, NEW op, Begin(op), NEW actor, CreateArtifactCollection(op, actor)
    PROVE  Kept
<1> DEFINE c == NewId(db, "ArtifactCollection")
           d == Insert(db, c, NewRecord(c, "None", {}, {}))
<1>1. Sound(db) /\ c \in RecordRef
  BY NewIdIs DEF IInv, CreateArtifactCollection, Kinds
<1>2. Batch(db, d, {})
  BY <1>1, InsertBatch, NewRecordOK
<1>3. {<<c, 1>>} \in Receipt
  BY <1>1, PinsAreReceipts
<1>4. Commit(op, {<<c, 1>>}, d) /\ UNCHANGED <<derived, preview>>
  BY DEF CreateArtifactCollection
<1>. QED
  BY <1>2, <1>3, <1>4, RecordCommitKeeps

LEMMA ImportArtifactSnapshotKeeps ==
    ASSUME IInv, NEW op, Begin(op), NEW actor, NEW collection, NEW expected,
           ImportArtifactSnapshot(op, actor, collection, expected)
    PROVE  Kept
<1> DEFINE s == NewId(db, "ArtifactSnapshot")
           e == NewId(db, "Evidence")
           d == InsertArtifacts(db, "ArtifactSnapshot", collection, 1)
           f == [d EXCEPT !.blobs = @ \cup {s}]
<1>1. Sound(db) /\ Room(db, "ArtifactSnapshot", 1) /\ Room(db, "Evidence", 1)
  BY DEF IInv, ImportArtifactSnapshot
<1>2. Batch(db, d, {}) /\ DOMAIN d = Rows
  BY <1>1, InsertArtifactsBatch DEF Kinds
<1>3. {<<s, 1>>, <<e, 1>>} \in Receipt
  BY <1>1, NewIdIs, PinsAreReceipts DEF Kinds
<1>4. Commit(op, {<<s, 1>>, <<e, 1>>}, f) /\ UNCHANGED <<derived, preview>>
  BY DEF ImportArtifactSnapshot
<1> HIDE DEF d, s, e
<1>5. DOMAIN f = DOMAIN d /\ f.records = d.records /\ f.cases = d.cases
  BY <1>2 DEF Rows
<1> HIDE DEF f
<1>6. Batch(db, f, {})
  BY <1>2, <1>5, ElsewhereBatch, BatchChain DEF Batch
<1>. QED
  BY <1>3, <1>4, <1>6, RecordCommitKeeps

LEMMA CardinalityOfFew ==
    ASSUME NEW S \in SUBSET (1..2)
    PROVE  Cardinality(S) \in Nat
<1>1. IsFiniteSet(1..2)
  <2>1. 1 \in Int /\ 2 \in Int
    OBVIOUS
  <2>. QED
    BY <2>1, FS_Interval
<1>2. IsFiniteSet(S)
  BY <1>1, FS_Subset
<1>. QED
  BY <1>2, FS_CardinalityType

LEMMA CreateArtifactPassagesKeeps ==
    ASSUME IInv, NEW op, Begin(op), NEW actor, NEW snapshot, NEW expected,
           NEW ordinals \in SUBSET (1..2),
           CreateArtifactPassages(op, actor, snapshot, expected, ordinals)
    PROVE  Kept
<1> DEFINE n == Cardinality(ordinals)
           slots == {snapshot} \X ordinals
           d == InsertArtifacts(db, "ArtifactPassage", snapshot, n)
           f == [d EXCEPT !.ordinals = @ \cup slots]
           receipt == {Pin(d, r) : r \in DOMAIN d.records \ DOMAIN db.records}
<1>1. n \in Nat
  BY CardinalityOfFew
<1>2. Sound(db) /\ Room(db, "ArtifactPassage", n) /\ Room(db, "Evidence", n)
  BY DEF IInv, CreateArtifactPassages
<1>3. Commit(op, receipt, f) /\ UNCHANGED <<derived, preview>>
  BY DEF CreateArtifactPassages
<1> HIDE DEF n, slots
<1>4. Batch(db, d, {}) /\ DOMAIN d = Rows
  BY <1>1, <1>2, InsertArtifactsBatch DEF Kinds
<1> HIDE DEF d
<1>5. receipt \in Receipt
  BY <1>4, PinsAreReceipts DEF Pin, Batch, Sound, Heads, HeadOK
<1>6. DOMAIN f = DOMAIN d /\ f.records = d.records /\ f.cases = d.cases
  BY <1>4 DEF Rows
<1> HIDE DEF f, receipt
<1>7. Batch(db, f, {})
  BY <1>4, <1>6, ElsewhereBatch, BatchChain DEF Batch
<1>. QED
  BY <1>3, <1>5, <1>7, RecordCommitKeeps

LEMMA CreateClaimKeeps ==
    ASSUME IInv, NEW op, Begin(op), NEW actor, NEW domain, NEW scope, NEW E,
           CreateClaim(op, actor, domain, scope, E)
    PROVE  Kept
<1> DEFINE c == NewId(db, "Claim")
<1>1. Sound(db) /\ c \in RecordRef
  BY NewIdIs DEF IInv, CreateClaim, Kinds
<1>2. Batch(db, InsertClaim(db, c, domain, scope, E), {})
  BY <1>1, InsertClaimBatch
<1>3. {<<c, 1>>} \in Receipt
  BY <1>1, PinsAreReceipts
<1>4. /\ Commit(op, {<<c, 1>>}, InsertClaim(db, c, domain, scope, E))
      /\ UNCHANGED <<derived, preview>>
  BY DEF CreateClaim
<1>. QED
  BY <1>2, <1>3, <1>4, RecordCommitKeeps

LEMMA RememberUserClaimKeeps ==
    ASSUME IInv, NEW op, Begin(op), NEW domain, NEW scope, RememberUserClaim(op, domain, scope)
    PROVE  Kept
<1> DEFINE e == NewId(db, "Evidence")
           c == NewId(db, "Claim")
           d == InsertEvidence(db, e, "UserAssertion", scope)
           f == InsertClaim(d, c, domain, scope, {e})
<1>1. Sound(db) /\ e \in RecordRef /\ c \in RecordRef
  BY NewIdIs DEF IInv, RememberUserClaim, Kinds
<1>2. Batch(db, d, {})
  BY <1>1, InsertEvidenceBatch
<1>3. Batch(d, f, {})
  BY <1>1, <1>2, InsertClaimBatch DEF Batch
<1>4. {<<e, 1>>, <<c, 1>>} \in Receipt
  BY <1>1, PinsAreReceipts
<1>5. Commit(op, {<<e, 1>>, <<c, 1>>}, f) /\ UNCHANGED <<derived, preview>>
  BY DEF RememberUserClaim
<1>. QED
  BY <1>2, <1>3, <1>4, <1>5, BatchChain, RecordCommitKeeps

LEMMA CreateSemanticRelationKeeps ==
    ASSUME IInv, NEW op, Begin(op), NEW actor, NEW kind, NEW from, NEW to, NEW E,
           CreateSemanticRelation(op, actor, kind, from, to, E)
    PROVE  Kept
<1> DEFINE r == NewId(db, "SemanticRelation")
           d == InsertRelation(db, r, kind, db.records[from].scope, from, to, E)
<1>1. Sound(db) /\ r \in RecordRef
  BY NewIdIs DEF IInv, CreateSemanticRelation, Kinds
<1>2. Batch(db, d, {})
  BY <1>1, InsertBatch, NewRecordOK DEF InsertRelation
<1>3. {<<r, 1>>} \in Receipt
  BY <1>1, PinsAreReceipts
<1>4. Commit(op, {<<r, 1>>}, d) /\ UNCHANGED <<derived, preview>>
  BY DEF CreateSemanticRelation
<1>. QED
  BY <1>2, <1>3, <1>4, RecordCommitKeeps

LEMMA WithdrawReceiptIs ==
    ASSUME NEW d, Sound(d), NEW target, IsActive(d, target)
    PROVE  WithdrawReceipt(d, target) \subseteq RecordRef \X Nat
<1>1. ActiveClosure(d, target) \cup {target} \subseteq DOMAIN d.records
  BY DEF ActiveClosure, IsActive, Exists
<1>. QED
  BY <1>1 DEF WithdrawReceipt, Sound, Heads, HeadOK

LEMMA RetractKeeps ==
    ASSUME IInv, NEW op, Begin(op), NEW actor, NEW target, NEW expected,
           Retract(op, actor, target, expected)
    PROVE  Kept
<1>1. Sound(db) /\ IsActive(db, target)
  BY DEF IInv, Retract
<1>2. Batch(db, Withdraw(db, target, "Retracted"), {})
  BY <1>1, WithdrawBatch
<1>3. WithdrawReceipt(db, target) \in Receipt
  BY <1>1, WithdrawReceiptIs, PinsAreReceipts
<1>4. /\ Commit(op, WithdrawReceipt(db, target), Withdraw(db, target, "Retracted"))
      /\ UNCHANGED <<derived, preview>>
  BY DEF Retract
<1>. QED
  BY <1>2, <1>3, <1>4, RecordCommitKeeps

LEMMA CorrectUserClaimKeeps ==
    ASSUME IInv, NEW op, Begin(op), NEW target, NEW expected,
           CorrectUserClaim(op, target, expected)
    PROVE  Kept
<1> DEFINE scope == db.records[target].scope
           label == db.records[target].label
           e == NewId(db, "Evidence")
           c == NewId(db, "Claim")
           r == NewId(db, "SemanticRelation")
           receipt == WithdrawReceipt(db, target) \cup {<<e, 1>>, <<c, 1>>, <<r, 1>>}
           d1 == Withdraw(db, target, "Superseded")
           d2 == InsertEvidence(d1, e, "UserCorrection", scope)
           d3 == InsertClaim(d2, c, label, scope, {e})
           d4 == InsertRelation(d3, r, "Supersedes", scope, c, target, {e})
<1>1. /\ Sound(db) /\ IsActive(db, target)
      /\ e \in RecordRef /\ c \in RecordRef /\ r \in RecordRef
  BY NewIdIs DEF IInv, CorrectUserClaim, Kinds
<1>2. Batch(db, d1, {})
  BY <1>1, WithdrawBatch
<1>3. Batch(d1, d2, {})
  BY <1>1, <1>2, InsertEvidenceBatch DEF Batch
<1>4. Batch(d2, d3, {})
  BY <1>1, <1>3, InsertClaimBatch DEF Batch
<1>5. Batch(d3, d4, {})
  BY <1>1, <1>4, InsertBatch, NewRecordOK DEF Batch, InsertRelation
<1>6. receipt \in Receipt
  BY <1>1, WithdrawReceiptIs, PinsAreReceipts
<1>7. Commit(op, receipt, d4) /\ UNCHANGED <<derived, preview>>
  BY DEF CorrectUserClaim
<1> HIDE DEF d1, d2, d3, d4, receipt
<1>8. Batch(db, d4, {})
  BY <1>2, <1>3, <1>4, <1>5, BatchChain
<1>. QED
  BY <1>6, <1>7, <1>8, RecordCommitKeeps

\* A batch of derived rows that only purges or revises definitions.
LEMMA RevisionCommitKeeps ==
    ASSUME IInv, NEW op, Begin(op), NEW ref \in DerivedRef, NEW revision \in Nat,
           NEW y, NEW E, NEW P, NEW G, NEW H,
           Redefined(derived, y, E, P), ErasedSignals(derived, y, G),
           ErasedTraces(derived, y, H), Covers(derived, {}, E, P, G, H),
           CommitDerived(op, {<<ref, revision>>} \cup SignalPins(y, G), y)
    PROVE  Kept
<1>1. Grew(db, db, {})
  BY DEF Grew
<1>2. DerivedOK(db, y) /\ Advanced(derived, y)
  BY <1>1, ErasureKeeps DEF IInv
<1>3. G \subseteq DOMAIN y.signals
  BY DEF Covers, ErasedSignals
<1>4. SignalPins(y, G) \subseteq DerivedRef \X Nat
  <2>1. \A s \in G : s \in Nat /\ y.signals[s].revision \in Nat
    BY <1>2, <1>3 DEF DerivedOK, Numbered, Signals, SignalOK
  <2>. QED
    BY <2>1 DEF SignalPins, DerivedRef
<1>5. {<<ref, revision>>} \cup SignalPins(y, G) \in Receipt
  BY <1>4 DEF Receipt
<1>. QED
  BY <1>2, <1>5, DerivedCommitKeeps

\* What a preview that is current lists.
LEMMA CurrentPreviewIs ==
    ASSUME NEW p, PreviewCurrent(p)
    PROVE  LET target == p.target[1]
               all == PurgeClosure(db, target) \cup {target}
           IN /\ p.target = Pin(db, target)
              /\ p.invalid = {Pin(db, r) : r \in PurgeClosure(db, target)}
              /\ {s[1] : s \in p.signals} = SignalsOf(derived, all)
              /\ p.traces = TracesOf(derived, all)
<1> DEFINE target == p.target[1]
           below == PurgeClosure(db, target)
           all == below \cup {target}
           signals == SignalsOf(derived, all)
           traces == TracesOf(derived, all)
           n == Cardinality(all \cap db.payloads) + Cardinality(signals \cap derived.scores)
                + Cardinality(traces)
           pins == {<<s, derived.signals[s].revision>> : s \in signals}
           rests == {Pin(db, r) : r \in below}
<1>1. p = [target |-> Pin(db, target), invalid |-> rests, signals |-> pins,
           traces |-> traces, payloads |-> n]
  BY Zenon DEF PreviewCurrent, BuildPreview
<1> HIDE DEF n, rests, signals, traces, target
<1>2. p.target = Pin(db, target) /\ p.invalid = rests /\ p.signals = pins /\ p.traces = traces
  BY <1>1
<1>3. {s[1] : s \in pins} = signals
  <2>1. ASSUME NEW s \in signals
        PROVE  s \in {q[1] : q \in pins}
    <3>1. <<s, derived.signals[s].revision>> \in pins
      OBVIOUS
    <3>2. <<s, derived.signals[s].revision>>[1] = s
      OBVIOUS
    <3>. QED
      BY <3>1, <3>2, Zenon
  <2>2. ASSUME NEW q \in pins
        PROVE  q[1] \in signals
    OBVIOUS
  <2>. QED
    BY <2>1, <2>2, Zenon
<1>. QED
  BY <1>2, <1>3 DEF rests, signals, traces, target

LEMMA CommitPurgeKeeps ==
    ASSUME IInv, NEW op, Begin(op), CommitPurge(op)
    PROVE  Kept
<1> DEFINE target == preview.target[1]
           all == PurgeClosure(db, target) \cup {target}
           G == {s[1] : s \in preview.signals}
           H == preview.traces
           y == PurgeTraces(PurgeSignals(derived, G), H)
<1>1. /\ preview # None /\ PreviewCurrent(preview)
      /\ db' = Purged(db, preview) /\ derived' = y /\ preview' = preview
      /\ operations' = WithRow(operations, op, PurgeReceipt(db, preview))
      /\ audit' = [audit EXCEPT ![op] = @ + 1]
  BY DEF CommitPurge, Commit
<1>2. Sound(db) /\ DerivedOK(db, derived) /\ target \in DOMAIN db.records
  BY <1>1 DEF IInv, Shown
<1>3. /\ preview.target = Pin(db, target)
      /\ preview.invalid = {Pin(db, r) : r \in PurgeClosure(db, target)}
      /\ G = SignalsOf(derived, all) /\ H = TracesOf(derived, all)
  BY <1>1, CurrentPreviewIs, Zenon
<1>4. Batch(db, db', {target})
  BY <1>1, <1>2, PurgedBatch
<1> HIDE DEF G, H
<1>6. Covers(derived, {target}, {}, {}, G, H)
  BY <1>3 DEF Covers, SignalsOf, TracesOf
<1>7. /\ ErasedSignals(derived, y, G) /\ ErasedTraces(derived, y, H)
      /\ Redefined(derived, y, {}, {})
  <2>1. /\ ErasedSignals(derived, y, G) /\ ErasedTraces(derived, y, H)
        /\ DOMAIN y = DerivedRows
        /\ y.evaluators = derived.evaluators /\ y.profiles = derived.profiles
    BY <1>2, PurgeErasesRows DEF DerivedOK
  <2>. QED
    BY <1>2, <2>1 DEF Redefined, DerivedOK, Definitions
<1> HIDE DEF y
<1>8. DerivedOK(db', derived') /\ Advanced(derived, derived')
  BY <1>1, <1>2, <1>4, <1>6, <1>7, ErasureKeeps DEF Batch
<1>9. PurgeReceipt(db, preview) \in Receipt
  <2>1. /\ preview.target[2] \in Nat /\ preview.target[1] \in RecordRef
    BY <1>2, <1>3 DEF Pin, Sound, Heads, HeadOK
  <2>2. \A q \in preview.invalid : IsActive(db, q[1]) => q[1] \in RecordRef /\ q[2] \in Nat
    BY <1>2, <1>3 DEF Pin, Sound, Heads, HeadOK, IsActive, Exists
  <2>. QED
    BY <2>1, <2>2, PinsAreReceipts DEF PurgeReceipt
<1>10. op \in Ops /\ op \notin DOMAIN operations
  BY BeginIsNew
<1>11. Booked' /\ AMO!Decide(op)
  BY <1>1, <1>9, <1>10, CommitDecides DEF IInv
<1>12. Shown'
  BY <1>1, <1>2, <1>4 DEF Shown, Batch, Grew
<1>. QED
  BY <1>4, <1>8, <1>10, <1>11, <1>12 DEF Kept, IInv, Batch

LEMMA PreviewPurgeKeeps ==
    ASSUME IInv, NEW target, PreviewPurge(target)
    PROVE  Kept
<1>1. /\ target \in DOMAIN db.records /\ db' = db
      /\ preview' = BuildPreview(db, derived, target)
      /\ UNCHANGED <<derived, operations, audit>>
  BY DEF PreviewPurge, Exists
<1>2. preview'.target[1] = target
  BY <1>1 DEF BuildPreview, Pin
<1>3. Batch(db, db', {})
  BY <1>1, ElsewhereBatch DEF IInv
<1>. QED
  BY <1>1, <1>2, <1>3, UnrecordedKeeps DEF Shown

LEMMA SameKeeps ==
    ASSUME IInv, UNCHANGED <<db, derived, operations, audit, preview>>
    PROVE  Kept
<1>1. Batch(db, db', {})
  BY ElsewhereBatch DEF IInv
<1>. QED
  BY <1>1, UnrecordedKeeps DEF IInv, Shown
-----------------------------------------------------------------------------
(* Recall. *)

LEMMA RecallSetIs ==
    ASSUME NEW d, NEW scopes, NEW C, C \subseteq RecallSet(d, scopes)
    PROVE  C \subseteq DOMAIN d.records
BY DEF RecallSet, Recallable, IsActive, Exists

LEMMA RecallKeeps ==
    ASSUME IInv, NEW scopes, NEW C, Recall(scopes, C)
    PROVE  Kept
<1>1. Batch(db, db', {})
  BY RecallSetIs, CaseBatch DEF Recall, IInv
<1>. QED
  BY <1>1, UnrecordedKeeps DEF Recall, IInv, Shown, Batch, Grew

LEMMA RetryTurnRecallKeeps ==
    ASSUME IInv, NEW op, NEW scope, NEW C, RetryTurnRecall(op, scope, C)
    PROVE  Kept
<1>1. PICK e : C \subseteq RecallSet(db, {scope}) /\ db' = WithCase(db, {scope}, C \ {e})
  BY DEF RetryTurnRecall
<1>2. C \ {e} \subseteq DOMAIN db.records
  BY <1>1, RecallSetIs
<1>3. Batch(db, db', {})
  BY <1>1, <1>2, CaseBatch DEF IInv
<1>. QED
  BY <1>3, UnrecordedKeeps DEF RetryTurnRecall, IInv, Shown, Batch, Grew

LEMMA BeginTurnRecallKeeps ==
    ASSUME IInv, NEW op, Begin(op), NEW class, NEW scope, NEW C,
           BeginTurnRecall(op, class, scope, C)
    PROVE  Kept
<1> DEFINE e == NewId(db, "Evidence")
           d == InsertEvidence(db, e, class, scope)
           f == WithCase(d, {scope}, C)
<1>1. Sound(db) /\ e \in RecordRef
  BY NewIdIs DEF IInv, BeginTurnRecall, Kinds
<1>2. Batch(db, d, {})
  BY <1>1, InsertEvidenceBatch
<1>3. C \subseteq DOMAIN db.records
  BY RecallSetIs DEF BeginTurnRecall
<1>4. {<<e, 1>>} \in Receipt
  BY <1>1, PinsAreReceipts
<1>5. Commit(op, {<<e, 1>>}, f) /\ UNCHANGED <<derived, preview>>
  BY DEF BeginTurnRecall
<1> HIDE DEF d
<1>6. Batch(d, f, {})
  BY <1>2, <1>3, CaseBatch DEF Batch, Grew
<1>. QED
  BY <1>2, <1>4, <1>5, <1>6, BatchChain, RecordCommitKeeps

LEMMA RecordRecallFeedbackKeeps ==
    ASSUME IInv, NEW op, Begin(op), NEW actor, NEW case \in Cases, NEW candidates,
           RecordRecallFeedback(op, actor, case, candidates)
    PROVE  Kept
<1> DEFINE d == [db EXCEPT !.feedback = @ \cup {<<case, candidates>>}]
<1>1. Sound(db) /\ candidates \subseteq db.cases[case].candidates
  BY DEF IInv, RecordRecallFeedback
<1>2. DOMAIN d = DOMAIN db /\ d.records = db.records /\ d.cases = db.cases
  BY <1>1 DEF Sound, Rows
<1>3. Batch(db, d, {})
  BY <1>1, <1>2, ElsewhereBatch
<1>4. candidates \in Receipt
  BY <1>1, PinsAreReceipts DEF Sound, Pinned, Heads, Cases
<1>5. Commit(op, candidates, d) /\ UNCHANGED <<derived, preview>>
  BY DEF RecordRecallFeedback
<1>. QED
  BY <1>3, <1>4, <1>5, RecordCommitKeeps
-----------------------------------------------------------------------------
(* Derived rows. *)

LEMMA NoPins ==
    ASSUME NEW x, NEW S
    PROVE  S \cup SignalPins(x, {}) = S
BY DEF SignalPins

LEMMA PutRelationEvaluatorKeeps ==
    ASSUME IInv, NEW op, Begin(op), NEW e \in Evaluators, NEW expected \in Nat, NEW dims,
           PutRelationEvaluator(op, e, expected, dims)
    PROVE  Kept
<1>1. PICK row : row = [revision |-> expected + 1, state |-> "Active", dims |-> dims]
  OBVIOUS
<1>2. PICK y : y = [derived EXCEPT !.evaluators = WithRow(@, e, row)]
  OBVIOUS
<1>3. DOMAIN derived = DerivedRows /\ Definitions(derived)
  BY DEF IInv, DerivedOK
<1>4. /\ DOMAIN y = DerivedRows /\ y.evaluators = WithRow(derived.evaluators, e, row)
      /\ y.profiles = derived.profiles /\ y.signals = derived.signals
      /\ y.scores = derived.scores /\ y.byEvaluator = derived.byEvaluator
      /\ y.traces = derived.traces
  BY <1>2, <1>3 DEF DerivedRows
<1>5. CommitDerived(op, {<<EvaluatorRef(e), expected + 1>>}, y)
  BY <1>1, <1>2 DEF PutRelationEvaluator
<1>6. EvaluatorRef(e) \in DerivedRef /\ e \in Nat /\ expected + 1 \in Nat
  BY SignalsAssumption DEF EvaluatorRef, DerivedRef
<1>7. DOMAIN row = {"revision", "state", "dims"} /\ row.revision \in Nat /\ row.state = "Active"
  BY <1>1
<1>8. Definitions(y)
  BY <1>3, <1>4, <1>6, <1>7 DEF Definitions, WithRow
<1>9. Redefined(derived, y, {}, {})
  BY <1>4, <1>7, <1>8 DEF Redefined, WithRow
<1>. QED
  BY <1>4, <1>5, <1>6, <1>9, NothingErased, NothingCovered, NoPins, RevisionCommitKeeps

LEMMA PutRelationProfileKeeps ==
    ASSUME IInv, NEW op, Begin(op), NEW p \in Profiles, NEW expected \in Nat, NEW evaluator,
           NEW heads, PutRelationProfile(op, p, expected, evaluator, heads)
    PROVE  Kept
<1>1. PICK row : row = [revision |-> expected + 1, state |-> "Active",
                        evaluator |-> evaluator, heads |-> heads]
  OBVIOUS
<1>2. PICK y : y = [derived EXCEPT !.profiles = WithRow(@, p, row)]
  OBVIOUS
<1>3. DOMAIN derived = DerivedRows /\ Definitions(derived)
  BY DEF IInv, DerivedOK
<1>4. /\ DOMAIN y = DerivedRows /\ y.profiles = WithRow(derived.profiles, p, row)
      /\ y.evaluators = derived.evaluators /\ y.signals = derived.signals
      /\ y.scores = derived.scores /\ y.byEvaluator = derived.byEvaluator
      /\ y.traces = derived.traces
  BY <1>2, <1>3 DEF DerivedRows
<1>5. /\ CommitDerived(op, {<<ProfileRef(p), expected + 1>>}, y)
      /\ p \in DOMAIN derived.profiles => derived.profiles[p].revision = expected
  BY <1>1, <1>2 DEF PutRelationProfile, MayRevise, HeadRevision
<1>6. ProfileRef(p) \in DerivedRef /\ p \in Nat /\ expected + 1 \in Nat
  BY SignalsAssumption DEF ProfileRef, DerivedRef
<1>7. /\ DOMAIN row = {"revision", "state", "evaluator", "heads"}
      /\ row.revision = expected + 1 /\ row.state = "Active"
  BY <1>1
<1>8. Definitions(y)
  BY <1>3, <1>4, <1>6, <1>7 DEF Definitions, WithRow
<1>9. ASSUME NEW q \in DOMAIN derived.profiles
      PROVE  /\ q \in DOMAIN y.profiles
             /\ y.profiles[q].state = "Purged" => derived.profiles[q].state = "Purged"
             /\ \/ y.profiles[q].revision > derived.profiles[q].revision
                \/ /\ y.profiles[q].revision = derived.profiles[q].revision
                   /\ y.profiles[q].evaluator = derived.profiles[q].evaluator
  <2>1. CASE q = p
    BY <1>4, <1>5, <1>7, <2>1 DEF WithRow
  <2>2. CASE q # p
    BY <1>4, <2>2 DEF WithRow
  <2>. QED
    BY <2>1, <2>2
<1>10. Redefined(derived, y, {}, {})
  BY <1>4, <1>8, <1>9 DEF Redefined
<1>11. CommitDerived(op, {<<ProfileRef(p), expected + 1>>} \cup SignalPins(y, {}), y)
  BY <1>5, NoPins
<1>12. /\ ErasedSignals(derived, y, {}) /\ ErasedTraces(derived, y, {})
       /\ Covers(derived, {}, {}, {}, {}, {})
  BY <1>4, NothingErased, NothingCovered
<1>. QED
  BY <1>6, <1>10, <1>11, <1>12, RevisionCommitKeeps

LEMMA SetRelationEvaluatorStateKeeps ==
    ASSUME IInv, NEW op, Begin(op), NEW e \in DOMAIN derived.evaluators, NEW expected \in Nat,
           NEW state, SetRelationEvaluatorState(op, e, expected, state)
    PROVE  Kept
<1>1. PICK y : y = [derived EXCEPT !.evaluators[e].revision = @ + 1, !.evaluators[e].state = state]
  OBVIOUS
<1>2. PICK G : G = IF state = "Purged" THEN SignalsOfEvaluator(derived, e) ELSE {}
  OBVIOUS
<1>3. PICK H : H = IF state = "Purged" THEN TracesOfEvaluator(derived, e) ELSE {}
  OBVIOUS
<1>4. PICK z : z = PurgeTraces(PurgeSignals(y, G), H)
  OBVIOUS
<1>5. DOMAIN derived = DerivedRows /\ Definitions(derived) /\ Indexed(derived)
  BY DEF IInv, DerivedOK
<1>6. /\ DOMAIN y = DerivedRows /\ y.profiles = derived.profiles
      /\ y.signals = derived.signals /\ y.scores = derived.scores
      /\ y.byEvaluator = derived.byEvaluator /\ y.traces = derived.traces
      /\ DOMAIN y.evaluators = DOMAIN derived.evaluators
      /\ \A i \in DOMAIN derived.evaluators : i # e => y.evaluators[i] = derived.evaluators[i]
      /\ DOMAIN y.evaluators[e] = DOMAIN derived.evaluators[e]
      /\ y.evaluators[e].revision = derived.evaluators[e].revision + 1
      /\ y.evaluators[e].state = state
  BY <1>1, <1>5 DEF Definitions, DerivedRows
<1>7. CommitDerived(op, {<<EvaluatorRef(e), expected + 1>>} \cup SignalPins(z, G), z)
  BY <1>1, <1>2, <1>3, <1>4 DEF SetRelationEvaluatorState
<1>8. /\ ErasedSignals(derived, z, G) /\ ErasedTraces(derived, z, H)
      /\ DOMAIN z = DerivedRows
      /\ z.evaluators = y.evaluators /\ z.profiles = y.profiles
  BY <1>4, <1>6, PurgeErasesRows
<1> DEFINE E == IF state = "Purged" THEN {e} ELSE {}
<1>9. Definitions(z)
  BY <1>5, <1>6, <1>8 DEF Definitions
<1>10. Redefined(derived, z, E, {})
  BY <1>6, <1>8, <1>9 DEF Redefined
<1>11. Covers(derived, {}, E, {}, G, H)
  BY <1>2, <1>3, <1>5 DEF Covers, SignalsOfEvaluator, TracesOfEvaluator, Indexed
<1>12. EvaluatorRef(e) \in DerivedRef /\ expected + 1 \in Nat
  BY <1>5 DEF EvaluatorRef, DerivedRef, Definitions
<1>. QED
  BY <1>7, <1>8, <1>10, <1>11, <1>12, RevisionCommitKeeps

LEMMA SetRelationProfileStateKeeps ==
    ASSUME IInv, NEW op, Begin(op), NEW p \in DOMAIN derived.profiles, NEW expected \in Nat,
           NEW state, SetRelationProfileState(op, p, expected, state)
    PROVE  Kept
<1>1. PICK y : y = [derived EXCEPT !.profiles[p].revision = @ + 1, !.profiles[p].state = state]
  OBVIOUS
<1>2. PICK G : G = IF state = "Purged" THEN SignalsOfProfile(derived, p) ELSE {}
  OBVIOUS
<1>3. PICK H : H = IF state = "Purged" THEN TracesOfProfile(derived, p) ELSE {}
  OBVIOUS
<1>4. PICK z : z = PurgeTraces(PurgeSignals(y, G), H)
  OBVIOUS
<1>5. DOMAIN derived = DerivedRows /\ Definitions(derived) /\ Indexed(derived)
  BY DEF IInv, DerivedOK
<1>6. /\ DOMAIN y = DerivedRows /\ y.evaluators = derived.evaluators
      /\ y.signals = derived.signals /\ y.scores = derived.scores
      /\ y.byEvaluator = derived.byEvaluator /\ y.traces = derived.traces
      /\ DOMAIN y.profiles = DOMAIN derived.profiles
      /\ \A i \in DOMAIN derived.profiles : i # p => y.profiles[i] = derived.profiles[i]
      /\ DOMAIN y.profiles[p] = DOMAIN derived.profiles[p]
      /\ y.profiles[p].revision = derived.profiles[p].revision + 1
      /\ y.profiles[p].state = state
  BY <1>1, <1>5 DEF Definitions, DerivedRows
<1>7. CommitDerived(op, {<<ProfileRef(p), expected + 1>>} \cup SignalPins(z, G), z)
  BY <1>1, <1>2, <1>3, <1>4 DEF SetRelationProfileState
<1>8. /\ ErasedSignals(derived, z, G) /\ ErasedTraces(derived, z, H)
      /\ DOMAIN z = DerivedRows
      /\ z.evaluators = y.evaluators /\ z.profiles = y.profiles
  BY <1>4, <1>6, PurgeErasesRows
<1> DEFINE P == IF state = "Purged" THEN {p} ELSE {}
<1>9. Definitions(z)
  BY <1>5, <1>6, <1>8 DEF Definitions
<1>10. ASSUME NEW q \in DOMAIN derived.profiles
       PROVE  /\ q \in DOMAIN z.profiles
              /\ z.profiles[q].state = "Purged" => derived.profiles[q].state = "Purged" \/ q \in P
              /\ \/ z.profiles[q].revision > derived.profiles[q].revision
                 \/ /\ z.profiles[q].revision = derived.profiles[q].revision
                    /\ z.profiles[q].evaluator = derived.profiles[q].evaluator
  <2>1. CASE q = p
    BY <1>5, <1>6, <1>8, <2>1 DEF Definitions
  <2>2. CASE q # p
    BY <1>6, <1>8, <2>2
  <2>. QED
    BY <2>1, <2>2
<1>11. Redefined(derived, z, {}, P)
  BY <1>6, <1>8, <1>9, <1>10 DEF Redefined
<1>12. Covers(derived, {}, {}, P, G, H)
  BY <1>2, <1>3, <1>5 DEF Covers, SignalsOfProfile, TracesOfProfile
<1>13. ProfileRef(p) \in DerivedRef /\ expected + 1 \in Nat
  BY <1>5 DEF ProfileRef, DerivedRef, Definitions
<1>. QED
  BY <1>7, <1>8, <1>11, <1>12, <1>13, RevisionCommitKeeps

\* What PutRelationSignals checks of each signal.
LEMMA FitsIsComputable ==
    ASSUME NEW evaluator, NEW profile, NEW new,
           JointlyCurrent(derived, evaluator, profile), SignalFits(derived, profile, new),
           new.expected \in Nat
    PROVE  /\ Computable(db, derived, evaluator, profile, new)
           /\ Expected(derived, profile, new)
BY DEF JointlyCurrent, CurrentDefinition, SignalFits, Computable, Expected, PinCurrent

LEMMA PutRelationSignalsKeeps ==
    ASSUME IInv, NEW op, Begin(op), NEW evaluator, NEW profile,
           NEW new1, NEW new2, new1.expected \in Nat, new2.expected \in Nat,
           PutRelationSignals(op, evaluator, profile, new1, new2)
    PROVE  Kept
<1>1. PICK one : one = WithSignal(derived, evaluator, profile, new1)
  OBVIOUS
<1>2. PICK x : x = IF new1 = new2 THEN one ELSE WithSignal(one, evaluator, profile, new2)
  OBVIOUS
<1>3. PICK changed : changed = {s \in DOMAIN x.signals :
                 s \notin DOMAIN derived.signals \/ x.signals[s] # derived.signals[s]}
  OBVIOUS
<1>4. /\ new1 # new2 => <<new1.from[1], new1.to[1]>> # <<new2.from[1], new2.to[1]>>
      /\ JointlyCurrent(derived, evaluator, profile)
      /\ SignalFits(derived, profile, new1) /\ SignalFits(derived, profile, new2)
      /\ CommitDerived(op, SignalPins(x, changed), x)
  BY <1>1, <1>2, <1>3 DEF PutRelationSignals
<1>5. /\ Computable(db, derived, evaluator, profile, new1) /\ Expected(derived, profile, new1)
      /\ Computable(db, derived, evaluator, profile, new2) /\ Expected(derived, profile, new2)
  BY <1>4, FitsIsComputable
<1>6. DerivedOK(db, derived) /\ DOMAIN derived = DerivedRows
  BY DEF IInv, DerivedOK
<1>7. SignalPut(derived, one, evaluator, profile, new1, SignalId(derived, profile, new1))
  BY <1>1, <1>6, WithSignalPuts
<1>8. DerivedOK(db, one) /\ Advanced(derived, one)
  BY <1>5, <1>6, <1>7, SignalPutKeeps
<1>9. DerivedOK(db, x) /\ Advanced(derived, x)
  <2>1. CASE new1 = new2
    BY <1>2, <1>8, <2>1
  <2>2. CASE new1 # new2
    <3>1. SignalPut(one, x, evaluator, profile, new2, SignalId(one, profile, new2))
      BY <1>2, <1>8, <2>2, WithSignalPuts DEF DerivedOK
    <3>. QED
      BY <1>4, <1>5, <1>6, <1>7, <2>2, <3>1, TwoSignalsKeep
  <2>. QED
    BY <2>1, <2>2
<1>10. SignalPins(x, changed) \in Receipt
  <2>1. \A s \in changed : s \in Nat /\ x.signals[s].revision \in Nat
    BY <1>3, <1>9 DEF DerivedOK, Numbered, Signals, SignalOK
  <2>. QED
    BY <2>1 DEF SignalPins, DerivedRef, Receipt
<1>. QED
  BY <1>4, <1>9, <1>10, DerivedCommitKeeps

LEMMA ShadowActivateKeeps ==
    ASSUME IInv, NEW op, Begin(op), NEW case, NEW evaluator, NEW profile, NEW C,
           ShadowActivate(op, case, evaluator, profile, C)
    PROVE  Kept
<1>1. PICK row : row = [evaluator |-> evaluator, profile |-> profile, candidates |-> C,
           contributions |-> Contributions(db, derived, evaluator, profile, C),
           payload |-> TRUE]
  OBVIOUS
<1>2. PICK t : t = Cardinality(DOMAIN derived.traces) + 1
  OBVIOUS
<1>3. PICK y : y = [derived EXCEPT !.traces = WithRow(@, t, row)]
  OBVIOUS
<1>4. /\ JointlyCurrent(derived, evaluator, profile)
      /\ \A pin \in C : PinCurrent(db, pin)
      /\ CommitDerived(op, {<<<<"ActivationTrace", t>>, 1>>}, y)
  BY <1>1, <1>2, <1>3 DEF ShadowActivate
<1>5. DerivedOK(db, derived) /\ DOMAIN derived = DerivedRows
  BY DEF IInv, DerivedOK
<1>6. /\ DOMAIN y = DerivedRows
      /\ y.evaluators = derived.evaluators /\ y.profiles = derived.profiles
      /\ y.signals = derived.signals /\ y.scores = derived.scores
      /\ y.byEvaluator = derived.byEvaluator /\ y.traces = WithRow(derived.traces, t, row)
  BY <1>3, <1>5 DEF DerivedRows
<1>7. /\ DOMAIN row = TraceRows /\ row.evaluator = evaluator /\ row.profile = profile
      /\ row.candidates = C
  BY <1>1 DEF TraceRows
<1>8. \A c \in C : c[1] \in DOMAIN db.records /\ StateOf(db, c[1]) = "Active"
  BY <1>4 DEF PinCurrent, IsActive, Exists
<1>9. TraceOK(db, derived, row) /\ TraceLive(db, derived, row)
  BY <1>4, <1>7, <1>8 DEF TraceOK, TraceLive, JointlyCurrent, CurrentDefinition
<1>10. DerivedOK(db, y) /\ Advanced(derived, y) /\ t \in Nat
  BY <1>2, <1>5, <1>6, <1>9, TracePutKeeps
<1>11. {<<<<"ActivationTrace", t>>, 1>>} \in Receipt
  BY <1>10 DEF Receipt, DerivedRef
<1>. QED
  BY <1>4, <1>10, <1>11, DerivedCommitKeeps
-----------------------------------------------------------------------------
(* Steps. *)

LEMMA MemoryStepKeeps ==
    ASSUME IInv, MemoryStep
    PROVE  Kept
<1>1. PICK op \in Ops : Begin(op) /\
      \/ \E actor \in Actors, class \in Classes, life \in {"Direct", "Completed"},
            scope \in Scopes : CaptureEvidence(op, actor, class, life, scope)
      \/ \E actor \in Actors : CreateArtifactCollection(op, actor)
      \/ \E actor \in Actors, c \in OfKind(db, "ArtifactCollection"), n \in 1..2 :
            ImportArtifactSnapshot(op, actor, c, n)
      \/ \E actor \in Actors, s \in OfKind(db, "ArtifactSnapshot"), n \in 1..2,
            ordinals \in (SUBSET (1..2)) \ {{}} : CreateArtifactPassages(op, actor, s, n, ordinals)
      \/ \E actor \in Actors, domain \in Domains, scope \in Scopes
              \cup OfKind(db, "ArtifactCollection"), E \in EvidenceSets :
            CreateClaim(op, actor, domain, scope, E)
      \/ \E domain \in Domains, scope \in Scopes : RememberUserClaim(op, domain, scope)
      \/ \E actor \in Actors, kind \in RelationKinds, from, to \in Truths(db),
            E \in EvidenceSets : CreateSemanticRelation(op, actor, kind, from, to, E)
      \/ \E actor \in Actors, r \in DOMAIN db.records, n \in 1..3 : Retract(op, actor, r, n)
      \/ \E c \in OfKind(db, "Claim"), n \in 1..2 : CorrectUserClaim(op, c, n)
      \/ CommitPurge(op)
  BY DEF MemoryStep
<1>2. CASE \E actor \in Actors, class \in Classes, life \in {"Direct", "Completed"},
              scope \in Scopes : CaptureEvidence(op, actor, class, life, scope)
  BY <1>1, <1>2, CaptureEvidenceKeeps
<1>3. CASE \E actor \in Actors : CreateArtifactCollection(op, actor)
  BY <1>1, <1>3, CreateArtifactCollectionKeeps
<1>4. CASE \E actor \in Actors, c \in OfKind(db, "ArtifactCollection"), n \in 1..2 :
              ImportArtifactSnapshot(op, actor, c, n)
  BY <1>1, <1>4, ImportArtifactSnapshotKeeps
<1>5. CASE \E actor \in Actors, s \in OfKind(db, "ArtifactSnapshot"), n \in 1..2,
              ordinals \in (SUBSET (1..2)) \ {{}} :
                 CreateArtifactPassages(op, actor, s, n, ordinals)
  BY <1>1, <1>5, CreateArtifactPassagesKeeps
<1>6. CASE \E actor \in Actors, domain \in Domains, scope \in Scopes
                \cup OfKind(db, "ArtifactCollection"), E \in EvidenceSets :
              CreateClaim(op, actor, domain, scope, E)
  BY <1>1, <1>6, CreateClaimKeeps
<1>7. CASE \E domain \in Domains, scope \in Scopes : RememberUserClaim(op, domain, scope)
  BY <1>1, <1>7, RememberUserClaimKeeps
<1>8. CASE \E actor \in Actors, kind \in RelationKinds, from, to \in Truths(db),
              E \in EvidenceSets : CreateSemanticRelation(op, actor, kind, from, to, E)
  BY <1>1, <1>8, CreateSemanticRelationKeeps
<1>9. CASE \E actor \in Actors, r \in DOMAIN db.records, n \in 1..3 : Retract(op, actor, r, n)
  BY <1>1, <1>9, RetractKeeps
<1>10. CASE \E c \in OfKind(db, "Claim"), n \in 1..2 : CorrectUserClaim(op, c, n)
  BY <1>1, <1>10, CorrectUserClaimKeeps
<1>11. CASE CommitPurge(op)
  BY <1>1, <1>11, CommitPurgeKeeps
<1>. QED
  BY <1>1, <1>2, <1>3, <1>4, <1>5, <1>6, <1>7, <1>8, <1>9, <1>10, <1>11

LEMMA RecallStepKeeps ==
    ASSUME IInv, RecallStep
    PROVE  Kept
<1>1. CASE \E scopes \in SUBSET Scopes : \E C \in Matched(scopes) : Recall(scopes, C)
  BY <1>1, RecallKeeps
<1>2. CASE \E op \in Ops, scope \in Scopes : \E C \in Matched({scope}) :
              Begin(op) /\ \E class \in Classes : BeginTurnRecall(op, class, scope, C)
  BY <1>2, BeginTurnRecallKeeps
<1>3. CASE \E op \in Ops, scope \in Scopes : \E C \in Matched({scope}) :
              RetryTurnRecall(op, scope, C)
  BY <1>3, RetryTurnRecallKeeps
<1>4. CASE \E op \in Ops, actor \in Actors, case \in Cases : Begin(op) /\
              \E cs \in SUBSET db.cases[case].candidates :
                 RecordRecallFeedback(op, actor, case, cs)
  BY <1>4, RecordRecallFeedbackKeeps
<1>. QED
  BY <1>1, <1>2, <1>3, <1>4 DEF RecallStep

LEMMA SignalStepKeeps ==
    ASSUME IInv, SignalStep
    PROVE  Kept
<1>1. PICK op \in Ops : Begin(op) /\ (DefinitionStep(op) \/ ComputeStep(op))
  BY DEF SignalStep
<1>2. CASE DefinitionStep(op)
  <2>1. CASE \E e \in Evaluators, n \in 0..2, dims \in SUBSET Dimensions :
                PutRelationEvaluator(op, e, n, dims)
    BY <1>1, <2>1, PutRelationEvaluatorKeeps
  <2>2. CASE \E p \in Profiles, n \in 0..2, e \in DefinitionPins(derived.evaluators),
                heads \in SUBSET Dimensions : PutRelationProfile(op, p, n, e, heads)
    BY <1>1, <2>2, PutRelationProfileKeeps
  <2>3. CASE \E e \in DOMAIN derived.evaluators, n \in 1..3, state \in {"Retracted", "Purged"} :
                SetRelationEvaluatorState(op, e, n, state)
    BY <1>1, <2>3, SetRelationEvaluatorStateKeeps
  <2>4. CASE \E p \in DOMAIN derived.profiles, n \in 1..3, state \in {"Retracted", "Purged"} :
                SetRelationProfileState(op, p, n, state)
    BY <1>1, <2>4, SetRelationProfileStateKeeps
  <2>. QED
    BY <1>2, <2>1, <2>2, <2>3, <2>4 DEF DefinitionStep
<1>3. CASE ComputeStep(op)
  <2>1. ASSUME NEW e \in DefinitionPins(derived.evaluators),
               NEW p \in DefinitionPins(derived.profiles), NEW new1 \in NewSignals,
               NEW new2 \in NewSignals, PutRelationSignals(op, e, p, new1, new2)
        PROVE  Kept
    <3>1. new1.expected \in Nat /\ new2.expected \in Nat
      BY DEF NewSignals
    <3>. QED
      BY <1>1, <2>1, <3>1, PutRelationSignalsKeeps
  <2>2. ASSUME NEW e \in DefinitionPins(derived.evaluators),
               NEW p \in DefinitionPins(derived.profiles), NEW case \in Cases,
               NEW C \in SUBSET db.cases[case].candidates, ShadowActivate(op, case, e, p, C)
        PROVE  Kept
    BY <1>1, <2>2, ShadowActivateKeeps
  <2>. QED
    BY <1>3, <2>1, <2>2 DEF ComputeStep
<1>. QED
  BY <1>1, <1>2, <1>3

LEMMA RootStepKeeps ==
    ASSUME IInv, RootStep, UNCHANGED preview
    PROVE  Kept
<1>1. UNCHANGED <<db, derived, operations, audit>>
  BY DEF RootStep, CreateRoot, WriteManifest, OpenRoot, OpenEngine, LoadMetadata, Crash, dbVars
<1>. QED
  BY <1>1, SameKeeps

LEMMA NextKeeps ==
    ASSUME IInv, [SignalsNext]_memVars
    PROVE  Kept
<1>1. CASE RootStep /\ UNCHANGED preview
  BY <1>1, RootStepKeeps
<1>2. CASE MemoryStep
  BY <1>2, MemoryStepKeeps
<1>3. CASE \E r \in DOMAIN db.records : r[1] \in PurgeKinds /\ PreviewPurge(r)
  BY <1>3, PreviewPurgeKeeps
<1>4. CASE RecallStep
  BY <1>4, RecallStepKeeps
<1>5. CASE SignalStep
  BY <1>5, SignalStepKeeps
<1>6. CASE UNCHANGED memVars
  BY <1>6, SameKeeps DEF memVars
<1>. QED
  BY <1>1, <1>2, <1>3, <1>4, <1>5, <1>6 DEF SignalsNext, Next

LEMMA InitHolds ==
    ASSUME Init
    PROVE  IInv
<1>1. /\ db = EmptyDb /\ derived = EmptyDerived /\ preview = None
      /\ operations = [op \in {} |-> {}] /\ audit = [op \in Ops |-> 0]
  BY DEF Init, InitKernel
<1>2. DOMAIN db = Rows /\ DOMAIN db.records = {} /\ DOMAIN db.cases = {}
  BY <1>1 DEF EmptyDb, Rows
<1>3. Sound(db)
  BY <1>2 DEF Sound, Heads, Pinned
<1>4. /\ DOMAIN derived = DerivedRows
      /\ DOMAIN derived.evaluators = {} /\ DOMAIN derived.profiles = {}
      /\ DOMAIN derived.signals = {} /\ DOMAIN derived.traces = {}
      /\ derived.scores = {} /\ derived.byEvaluator = {}
  BY <1>1 DEF EmptyDerived, DerivedRows
<1>5. Numbered(derived)
  <2>1. 0 \in Nat /\ 1..0 = {}
    OBVIOUS
  <2>. QED
    BY <1>4, <2>1 DEF Numbered
<1>6. DerivedOK(db, derived)
  BY <1>4, <1>5 DEF DerivedOK, Definitions, Signals, Traces, OnePerPair, Indexed
<1>7. Booked
  BY <1>1 DEF Booked
<1>. QED
  BY <1>1, <1>3, <1>6, <1>7 DEF IInv, Shown

\* The invariant holds in every reachable state of a store with signals.
THEOREM Invariance == SignalsSpec => []IInv
<1>1. Init => IInv
  BY InitHolds
<1>2. IInv /\ [SignalsNext]_memVars => IInv'
  BY NextKeeps DEF Kept
<1>. QED
  BY <1>1, <1>2, PTL DEF SignalsSpec
-----------------------------------------------------------------------------
(* Theorems. *)

\* No score and no trace outlives a purge of what it was computed with or
\* from, the index of each evaluator is exact, and what is available agrees
\* with its profile (relation_signal_availability, commit_purge,
\* append_relation_signal_state_revision).
THEOREM SignalsAreExact == SignalsSpec => []SignalsExact
<1>1. ASSUME IInv
      PROVE  SignalsExact
  <2>1. Signals(db, derived) /\ Traces(db, derived) /\ Indexed(derived)
    BY <1>1 DEF IInv, DerivedOK
  <2>2. DerivedErased
    BY <2>1 DEF DerivedErased, PurgedDefinition, Signals, SignalLive, Traces, TraceLive, Indexed
  <2>3. OwnerIndexExact
    <3>1. derived.byEvaluator =
            {<<derived.signals[s].evaluator[1], s>> : s \in DOMAIN derived.signals}
      <4>1. \A i : i \in derived.byEvaluator <=>
               \E s \in DOMAIN derived.signals : i = <<derived.signals[s].evaluator[1], s>>
        BY <2>1 DEF Indexed
      <4>. QED
        BY <4>1, Zenon
    <3>2. derived.scores = {s \in DOMAIN derived.signals : derived.signals[s].state = "Active"}
      BY <2>1 DEF Indexed
    <3>. QED
      BY <3>1, <3>2 DEF OwnerIndexExact
  <2>4. AvailableAgrees
    BY <2>1 DEF AvailableAgrees, SignalAvailable, CurrentDefinition, Signals, SignalOK
  <2>. QED
    BY <2>2, <2>3, <2>4 DEF SignalsExact
<1>. QED
  BY <1>1, Invariance, PTL

\* A pair of a profile has one signal, its revisions advance by one, and once
\* purged it is never scored again (put_relation_signals, find_relation_signal).
THEOREM SignalsAlwaysAdvance == SignalsSpec => SignalsAdvance
<1> DEFINE A == /\ \A s, u \in DOMAIN derived'.signals : Pair(derived', s) = Pair(derived', u) => s = u
                /\ \A s \in DOMAIN derived.signals : derived'.signals[s] # derived.signals[s] =>
                     /\ derived'.signals[s].revision = derived.signals[s].revision + 1
                     /\ derived.signals[s].state = "Active"
                     /\ Pair(derived', s) = Pair(derived, s)
<1>1. ASSUME IInv, [SignalsNext]_memVars
      PROVE  A
  <2>1. OnePerPair(derived') /\ Advanced(derived, derived')
    BY <1>1, NextKeeps DEF Kept, IInv, DerivedOK
  <2>. QED
    BY <2>1 DEF OnePerPair, Advanced
<1>2. IInv /\ [SignalsNext]_memVars => [A]_memVars
  BY <1>1
<1> HIDE DEF A
<1>3. SignalsSpec => [][A]_memVars
  BY <1>2, Invariance, PTL DEF SignalsSpec
<1>. QED
  BY <1>3 DEF A, SignalsAdvance

\* A store with recall and signals implements AtMostOnce: an operation that
\* committed keeps its receipt and has its effects once, whatever is retried
\* and however often the process stops (replayed_operation, insert_operation).
THEOREM SignalOperationsOnce == SignalsSpec => OperationsAtMostOnce
<1>1. Init => AMO!Init
  BY DEF Init, InitKernel, AMO!Init
<1>2. IInv /\ [SignalsNext]_memVars => [AMO!Next]_(AMO!vars)
  BY NextKeeps DEF Kept, AMO!Next, AMO!vars
<1>. QED
  BY Invariance, <1>1, <1>2, PTL DEF SignalsSpec, OperationsAtMostOnce, AMO!Spec

\* So does a store without them, the one native_memory checks.
THEOREM OperationsOnce == Spec => OperationsAtMostOnce
<1>1. Spec => SignalsSpec
  <2>1. [Next]_memVars => [SignalsNext]_memVars
    BY DEF SignalsNext
  <2>. QED
    BY <2>1, PTL DEF Spec, SignalsSpec
<1>. QED
  BY <1>1, SignalOperationsOnce
-----------------------------------------------------------------------------
(***************************************************************************)
(* The canonical records.  Store(d) is what holds of them between any two  *)
(* batches.  A batch either inserts records above ones that may support    *)
(* them, withdraws a record with everything active above it, or purges     *)
(* one; each is shown to keep Store, given what Descendants is: the least  *)
(* set that holds its argument and is closed under the dependencies.       *)
(***************************************************************************)

TruthKinds == {"Evidence", "Claim", "Entity"}
ArtifactKinds == {"ArtifactSnapshot", "ArtifactPassage"}

\* Proposals, reviews and the entities they create are another module's.
KernelKinds == {"Evidence", "Claim", "SemanticRelation", "ArtifactCollection"} \cup ArtifactKinds

\* Only a relation can be a Supersedes, only evidence an utterance.
RowOK(r, rec) ==
    /\ rec \in Record /\ r[1] \in KernelKinds
    /\ r[1] # "SemanticRelation" => rec.label # "Supersedes"
    /\ r[1] # "Evidence" => rec.label # "AssistantUtterance"
Typed(d) == \A r \in DOMAIN d.records : RowOK(r, d.records[r])

\* An edge that lets a dependent stay active.
Supported(d, e) ==
    \/ IsActive(d, e[1])
    \/ /\ d.records[e[2]].label = "Supersedes"
       /\ e[1] \in d.records[e[2]].ends /\ StateOf(d, e[1]) = "Superseded"

\* Which records rest on which.
EdgeOK(d, e) ==
    /\ d.records[e[1]].scope = d.records[e[2]].scope
    /\ e[2][1] = "Claim" => e[1][1] = "Evidence" /\ e[1] \in d.records[e[2]].evidence
    /\ e[2][1] = "Evidence" => e[1][1] \in ArtifactKinds
    /\ e[2][1] \in ArtifactKinds =>
          \/ e[1][1] \in ArtifactKinds \cup {"ArtifactCollection"}
          \/ e[1][1] = "Evidence" /\ d.records[e[1]].label # "AssistantUtterance"
    /\ e[2][1] # "ArtifactCollection"

Edges(d) ==
    /\ d.dependencies \subseteq (DOMAIN d.records) \X (DOMAIN d.records)
    /\ \A e \in d.dependencies :
          EdgeOK(d, e) /\ (IsActive(d, e[2]) => Supported(d, e))

\* The erasable partitions.
Readable(d) ==
    /\ d.payloads \subseteq DOMAIN d.records /\ d.blobs \subseteq d.payloads
    /\ \A r \in DOMAIN d.records : IsActive(d, r) => r \in d.payloads
    /\ \A r \in d.payloads : r[1] = "ArtifactSnapshot" => r \in d.blobs
    /\ d.lexical = {r \in DOMAIN d.records : IsActive(d, r) /\ r[1] \in TruthKinds}

\* What was derived from a purged record, itself included.
Purges(d) == {r \in DOMAIN d.records : StateOf(d, r) = "Purged"}
Gone(d) == {x \in DOMAIN d.records : \E r \in Purges(d) : x \in Descendants(d.dependencies, {r})}
Erasing(d) == \A x \in Gone(d) : x \notin d.payloads /\ ~IsActive(d, x)

Store(d) == Typed(d) /\ Edges(d) /\ Readable(d) /\ Erasing(d)

\* Nothing computed from what is gone is left.
Clear(d, x) ==
    /\ \A s \in DOMAIN x.signals : x.signals[s].state # "Purged" =>
          x.signals[s].from[1] \notin Gone(d) /\ x.signals[s].to[1] \notin Gone(d)
    /\ \A t \in DOMAIN x.traces : x.traces[t].payload =>
          \A c \in x.traces[t].candidates : c[1] \notin Gone(d)
-----------------------------------------------------------------------------
(* Reachability. *)

Closed(edges, C) == \A e \in edges : e[1] \in C => e[2] \in C

LEMMA DescendantsClosed ==
    ASSUME NEW edges, NEW S
    PROVE  /\ S \subseteq Descendants(edges, S)
           /\ Closed(edges, Descendants(edges, S))
           /\ Descendants(edges, S) \subseteq S \cup {e[2] : e \in edges}
<1> DEFINE targets == {e[2] : e \in edges}
           closed == {C \in SUBSET targets : \A e \in edges : e[1] \in S \cup C => e[2] \in C}
           D == {x \in targets : \A C \in closed : x \in C}
<1>1. Descendants(edges, S) = S \cup D
  BY DEF Descendants
<1>2. ASSUME NEW e \in edges, e[1] \in S \cup D
      PROVE  e[2] \in D
  <2>1. e[2] \in targets
    OBVIOUS
  <2>2. ASSUME NEW C \in closed
        PROVE  e[2] \in C
    <3>1. e[1] \in S \cup C
      BY <1>2, <2>2
    <3>. QED
      BY <2>2, <3>1
  <2>. QED
    BY <2>1, <2>2
<1>. QED
  BY <1>1, <1>2 DEF Closed

LEMMA DescendantsLeast ==
    ASSUME NEW edges, NEW S, NEW C, S \subseteq C, Closed(edges, C)
    PROVE  Descendants(edges, S) \subseteq C
<1> DEFINE targets == {e[2] : e \in edges}
           closed == {B \in SUBSET targets : \A e \in edges : e[1] \in S \cup B => e[2] \in B}
           D == {x \in targets : \A B \in closed : x \in B}
<1>1. Descendants(edges, S) = S \cup D
  BY DEF Descendants
<1>2. C \cap targets \in closed
  <2>1. ASSUME NEW e \in edges, e[1] \in S \cup (C \cap targets)
        PROVE  e[2] \in C \cap targets
    <3>1. e[1] \in C
      BY <2>1
    <3>2. e[2] \in C
      BY <3>1 DEF Closed
    <3>. QED
      BY <3>2
  <2>. QED
    BY <2>1
<1>3. D \subseteq C
  BY <1>2
<1>. QED
  BY <1>1, <1>3

\* Edges that leave no record reachable from S reach nothing new.
LEMMA DescendantsStay ==
    ASSUME NEW edges, NEW more, NEW S,
           \A e \in more : e \in edges \/ e[1] \notin Descendants(edges, S)
    PROVE  Descendants(more, S) \subseteq Descendants(edges, S)
<1>1. Closed(more, Descendants(edges, S))
  BY DescendantsClosed DEF Closed
<1>2. S \subseteq Descendants(edges, S)
  BY DescendantsClosed
<1>. QED
  BY <1>1, <1>2, DescendantsLeast

\* What a record has below it is in the store.
LEMMA DescendantsStored ==
    ASSUME NEW d, Edges(d), NEW r \in DOMAIN d.records
    PROVE  Descendants(d.dependencies, {r}) \subseteq DOMAIN d.records
<1>1. \A e \in d.dependencies : e[2] \in DOMAIN d.records
  BY DEF Edges
<1>. QED
  BY <1>1, DescendantsClosed

LEMMA GoneClosed ==
    ASSUME NEW d, Edges(d)
    PROVE  Purges(d) \subseteq Gone(d) /\ Closed(d.dependencies, Gone(d))
<1>1. Purges(d) \subseteq Gone(d)
  BY DescendantsClosed DEF Gone, Purges
<1>2. ASSUME NEW e \in d.dependencies, e[1] \in Gone(d)
      PROVE  e[2] \in Gone(d)
  <2>1. PICK r \in Purges(d) : e[1] \in Descendants(d.dependencies, {r})
    BY <1>2 DEF Gone
  <2>2. e[2] \in Descendants(d.dependencies, {r})
    BY <2>1, DescendantsClosed DEF Closed
  <2>. QED
    BY <2>1, <2>2, DescendantsStored DEF Gone, Purges
<1>. QED
  BY <1>1, <1>2 DEF Closed

LEMMA GoneLeast ==
    ASSUME NEW d, NEW C, Purges(d) \subseteq C, Closed(d.dependencies, C)
    PROVE  Gone(d) \subseteq C
<1>1. \A r \in Purges(d) : Descendants(d.dependencies, {r}) \subseteq C
  BY DescendantsLeast
<1>. QED
  BY <1>1 DEF Gone
-----------------------------------------------------------------------------
(* Batches that insert. *)

\* e is d with the records of new and the edges of A.
Inserted(d, e, new, A) ==
    /\ e.records = [r \in DOMAIN d.records \cup DOMAIN new |->
                      IF r \in DOMAIN d.records THEN d.records[r] ELSE new[r]]
    /\ e.payloads = d.payloads \cup DOMAIN new
    /\ e.dependencies = d.dependencies \cup A
    /\ e.lexical = d.lexical \cup {r \in DOMAIN new : r[1] \in TruthKinds}
    /\ d.blobs \subseteq e.blobs /\ e.blobs \subseteq d.blobs \cup DOMAIN new
    /\ \A r \in DOMAIN new : r[1] = "ArtifactSnapshot" => r \in e.blobs

\* Records are new and active, and rest on what may support them.
Insertable(d, e, new, A) ==
    /\ DOMAIN new \cap DOMAIN d.records = {}
    /\ \A r \in DOMAIN new : RowOK(r, new[r]) /\ new[r].state = "Active"
    /\ \A a \in A :
          /\ a \in (DOMAIN e.records) \X (DOMAIN new)
          /\ EdgeOK(e, a) /\ Supported(e, a) /\ a[1] \notin Gone(d)

LEMMA InsertionKeeps ==
    ASSUME NEW d, NEW e, NEW new, NEW A, Store(d), Inserted(d, e, new, A),
           Insertable(d, e, new, A)
    PROVE  Store(e) /\ Gone(e) \subseteq Gone(d)
<1>1. /\ DOMAIN e.records = DOMAIN d.records \cup DOMAIN new
      /\ \A r \in DOMAIN d.records : e.records[r] = d.records[r]
      /\ \A r \in DOMAIN new : e.records[r] = new[r]
      /\ \A r \in DOMAIN new : r \notin DOMAIN d.records
  BY DEF Inserted, Insertable
<1>2. /\ \A r \in DOMAIN d.records : IsActive(e, r) <=> IsActive(d, r)
      /\ \A r \in DOMAIN d.records : StateOf(e, r) = StateOf(d, r)
      /\ \A r \in DOMAIN new : IsActive(e, r) /\ StateOf(e, r) = "Active"
  BY <1>1 DEF IsActive, Exists, StateOf, Insertable
<1>3. Typed(e)
  BY <1>1 DEF Typed, Store, Insertable
<1>4. Edges(e)
  <2>1. ASSUME NEW a \in d.dependencies
        PROVE  /\ a \in (DOMAIN e.records) \X (DOMAIN e.records)
               /\ EdgeOK(e, a) /\ (IsActive(e, a[2]) => Supported(e, a))
    <3>1. a \in (DOMAIN d.records) \X (DOMAIN d.records)
          /\ EdgeOK(d, a) /\ (IsActive(d, a[2]) => Supported(d, a))
      BY DEF Store, Edges
    <3>2. a[1] \in DOMAIN d.records /\ a[2] \in DOMAIN d.records
      BY <3>1
    <3>3. EdgeOK(e, a)
      BY <1>1, <3>1, <3>2 DEF EdgeOK
    <3>4. IsActive(e, a[2]) => Supported(e, a)
      BY <1>1, <1>2, <3>1, <3>2 DEF Supported
    <3>. QED
      BY <1>1, <3>1, <3>3, <3>4
  <2>2. ASSUME NEW a \in A
        PROVE  /\ a \in (DOMAIN e.records) \X (DOMAIN e.records)
               /\ EdgeOK(e, a) /\ Supported(e, a)
    BY <1>1 DEF Insertable
  <2>3. e.dependencies = d.dependencies \cup A
    BY DEF Inserted
  <2>. QED
    BY <2>1, <2>2, <2>3 DEF Edges
<1>5. Readable(e)
  <2>1. Readable(d)
    BY DEF Store
  <2>2. e.payloads \subseteq DOMAIN e.records /\ e.blobs \subseteq e.payloads
    BY <1>1, <2>1 DEF Readable, Inserted
  <2>3. \A r \in DOMAIN e.records : IsActive(e, r) => r \in e.payloads
    BY <1>1, <1>2, <2>1 DEF Readable, Inserted
  <2>4. \A r \in e.payloads : r[1] = "ArtifactSnapshot" => r \in e.blobs
    BY <2>1 DEF Readable, Inserted
  <2>5. e.lexical = {r \in DOMAIN e.records : IsActive(e, r) /\ r[1] \in TruthKinds}
    <3>1. e.lexical = d.lexical \cup {r \in DOMAIN new : r[1] \in TruthKinds}
      BY DEF Inserted
    <3>2. d.lexical = {r \in DOMAIN d.records : IsActive(d, r) /\ r[1] \in TruthKinds}
      BY <2>1 DEF Readable
    <3>. QED
      BY <1>1, <1>2, <3>1, <3>2
  <2>. QED
    BY <2>2, <2>3, <2>4, <2>5 DEF Readable
<1>6. Gone(e) \subseteq Gone(d)
  <2>1. Purges(d) \subseteq Gone(d) /\ Closed(d.dependencies, Gone(d))
    BY GoneClosed DEF Store
  <2>2. Purges(e) \subseteq Purges(d)
    BY <1>1, <1>2 DEF Purges
  <2>3. Closed(e.dependencies, Gone(d))
    BY <2>1 DEF Closed, Inserted, Insertable
  <2>. QED
    BY <2>1, <2>2, <2>3, GoneLeast
<1>7. Erasing(e)
  <2>1. \A x \in Gone(d) : x \in DOMAIN d.records /\ x \notin d.payloads /\ ~IsActive(d, x)
    BY DEF Store, Erasing, Gone
  <2>. QED
    BY <1>1, <1>2, <1>6, <2>1 DEF Erasing, Inserted
<1>. QED
  BY <1>3, <1>4, <1>5, <1>6, <1>7 DEF Store
-----------------------------------------------------------------------------
(* Batches that withdraw or purge. *)

Above(d, target) == Descendants(d.dependencies, {target})

\* The target reaches a state, what is active above it loses its support,
\* the postings of X go and so do the payloads of P.
Reached(d, e, target, state, X, P) ==
    /\ DOMAIN e.records = DOMAIN d.records
    /\ \A r \in DOMAIN d.records :
          e.records[r] = IF r = target THEN NextRevision(d.records[r], r[1], state)
                         ELSE IF IsActive(d, r) /\ r \in Above(d, target)
                              THEN NextRevision(d.records[r], r[1], "Unsupported")
                         ELSE d.records[r]
    /\ e.dependencies = d.dependencies
    /\ e.lexical = d.lexical \ X
    /\ e.payloads = d.payloads \ P /\ e.blobs = d.blobs \ P

\* An active record may be withdrawn, one that is not purged be purged.
Reachable(d, target, state, X, P) ==
    /\ target \in DOMAIN d.records
    /\ \A r \in DOMAIN d.records :
          (IsActive(d, r) /\ r \in Above(d, target)) \/ r = target => r \in X
    /\ X \subseteq Above(d, target)
    /\ \/ state \in {"Retracted", "Superseded"} /\ IsActive(d, target) /\ P = {}
       \/ /\ state = "Purged" /\ P = X
          /\ \A r \in Above(d, target) : StateOf(d, r) # "Purged" => r \in X

LEMMA NextRevisionFields ==
    ASSUME NEW rec \in Record, NEW kind, NEW state \in RecordState
    PROVE  LET next == NextRevision(rec, kind, state)
           IN /\ next \in Record /\ next.state = state /\ next.revision = rec.revision + 1
              /\ next.scope = rec.scope /\ next.label = rec.label
              /\ next.evidence = rec.evidence /\ next.ends = rec.ends
<1>1. PICK status : status = IF kind # "Proposal" THEN rec.status
                             ELSE IF state = "Unsupported" THEN "Stale"
                             ELSE IF state = "Retracted" THEN "Rejected" ELSE rec.status
  OBVIOUS
<1>2. status \in ProposalStatus \cup {"None"}
  <2>1. rec.status \in ProposalStatus \cup {"None"}
    BY DEF Record
  <2>2. status = rec.status \/ status = "Stale" \/ status = "Rejected"
    BY <1>1
  <2>. QED
    BY <2>1, <2>2 DEF ProposalStatus
<1>3. PICK next : next = NextRevision(rec, kind, state)
  OBVIOUS
<1>4. next = [rec EXCEPT !.revision = rec.revision + 1, !.state = state, !.status = status]
  BY <1>1, <1>3 DEF NextRevision
<1>5. rec.revision + 1 \in Nat \ {0}
  BY DEF Record
<1>6. /\ next.state = state /\ next.revision = rec.revision + 1
      /\ next.scope = rec.scope /\ next.label = rec.label
      /\ next.evidence = rec.evidence /\ next.ends = rec.ends
  BY <1>4 DEF Record
<1>7. next \in Record
  BY <1>2, <1>4, <1>5 DEF Record
<1>. QED
  BY <1>3, <1>6, <1>7

LEMMA ReachedKeeps ==
    ASSUME NEW d, NEW e, NEW target, NEW state, NEW X, NEW P, Store(d),
           Reached(d, e, target, state, X, P), Reachable(d, target, state, X, P)
    PROVE  /\ Store(e)
           /\ Gone(e) \subseteq Gone(d) \cup (IF state = "Purged" THEN Above(d, target) ELSE {})
           /\ StateOf(e, target) = state
<1> DEFINE up == Above(d, target)
           lost == {r \in DOMAIN d.records : IsActive(d, r) /\ r \in up /\ r # target}
<1>1. Typed(d) /\ Edges(d) /\ Readable(d) /\ Erasing(d)
  BY DEF Store
<1>2. /\ target \in up /\ Closed(d.dependencies, up)
      /\ state \in RecordState /\ "Unsupported" \in RecordState /\ state # "Active"
  BY DescendantsClosed DEF Above, Reachable, RecordState
<1>3. ASSUME NEW r \in DOMAIN d.records
      PROVE  /\ RowOK(r, e.records[r])
             /\ e.records[r].scope = d.records[r].scope /\ e.records[r].label = d.records[r].label
             /\ e.records[r].evidence = d.records[r].evidence
             /\ e.records[r].ends = d.records[r].ends
             /\ r = target => StateOf(e, r) = state
             /\ r \in lost => StateOf(e, r) = "Unsupported"
             /\ r \notin lost \cup {target} => StateOf(e, r) = StateOf(d, r)
  <2>1. RowOK(r, d.records[r]) /\ d.records[r] \in Record
    BY <1>1 DEF Typed, RowOK
  <2>2. CASE r = target
    <3>1. e.records[r] = NextRevision(d.records[r], r[1], state)
      BY <2>2 DEF Reached
    <3>. QED
      BY <1>2, <2>1, <2>2, <3>1, NextRevisionFields DEF RowOK, StateOf
  <2>3. CASE r # target /\ IsActive(d, r) /\ r \in up
    <3>1. e.records[r] = NextRevision(d.records[r], r[1], "Unsupported")
      BY <2>3 DEF Reached
    <3>. QED
      BY <1>2, <2>1, <2>3, <3>1, NextRevisionFields DEF RowOK, StateOf
  <2>4. CASE r # target /\ ~(IsActive(d, r) /\ r \in up)
    <3>1. e.records[r] = d.records[r]
      BY <2>4 DEF Reached
    <3>. QED
      BY <2>1, <2>4, <3>1 DEF StateOf
  <2>. QED
    BY <2>2, <2>3, <2>4
<1>4. DOMAIN e.records = DOMAIN d.records /\ e.dependencies = d.dependencies
  BY DEF Reached
<1>5. /\ \A r \in DOMAIN d.records : IsActive(e, r) <=> IsActive(d, r) /\ r \notin lost \cup {target}
      /\ \A r : IsActive(e, r) => r \in DOMAIN d.records
  BY <1>2, <1>3, <1>4 DEF IsActive, Exists
<1>6. \A r \in up : ~IsActive(e, r)
  BY <1>5
<1>7. Typed(e)
  BY <1>3, <1>4 DEF Typed
<1>8. Edges(e)
  <2> SUFFICES ASSUME NEW a \in d.dependencies
               PROVE  EdgeOK(e, a) /\ (IsActive(e, a[2]) => Supported(e, a))
    BY <1>1, <1>4 DEF Edges
  <2>1. /\ a[1] \in DOMAIN d.records /\ a[2] \in DOMAIN d.records
        /\ EdgeOK(d, a) /\ (IsActive(d, a[2]) => Supported(d, a))
    BY <1>1 DEF Edges
  <2>2. EdgeOK(e, a)
    BY <1>3, <2>1 DEF EdgeOK
  <2>3. ASSUME IsActive(e, a[2])
        PROVE  Supported(e, a)
    <3>1. a[2] \notin up /\ IsActive(d, a[2])
      BY <1>5, <1>6, <2>1, <2>3
    <3>2. a[1] \notin up
      BY <1>2, <3>1 DEF Closed
    <3>3. a[1] \notin lost \cup {target}
      BY <1>2, <3>2
    <3>4. StateOf(e, a[1]) = StateOf(d, a[1]) /\ (IsActive(e, a[1]) <=> IsActive(d, a[1]))
      BY <1>3, <1>5, <2>1, <3>3
    <3>. QED
      BY <1>3, <2>1, <3>1, <3>4 DEF Supported
  <2>. QED
    BY <2>2, <2>3
<1>9. Readable(e)
  <2>1. /\ e.payloads = d.payloads \ P /\ e.blobs = d.blobs \ P /\ e.lexical = d.lexical \ X
        /\ P \subseteq X /\ X \subseteq up
    BY DEF Reached, Reachable
  <2>2. /\ d.payloads \subseteq DOMAIN d.records /\ d.blobs \subseteq d.payloads
        /\ \A r \in DOMAIN d.records : IsActive(d, r) => r \in d.payloads
        /\ \A r \in d.payloads : r[1] = "ArtifactSnapshot" => r \in d.blobs
        /\ d.lexical = {r \in DOMAIN d.records : IsActive(d, r) /\ r[1] \in TruthKinds}
    BY <1>1 DEF Readable
  <2>3. \A r \in DOMAIN d.records : IsActive(e, r) => r \notin X
    BY <1>6, <2>1
  <2>4. \A r \in DOMAIN d.records : IsActive(d, r) /\ r \notin X => IsActive(e, r)
    <3>1. \A r \in lost \cup {target} : r \in X
      BY DEF Reachable
    <3>. QED
      BY <1>5, <3>1
  <2>5. e.lexical = {r \in DOMAIN e.records : IsActive(e, r) /\ r[1] \in TruthKinds}
    BY <1>4, <1>5, <2>1, <2>2, <2>3, <2>4
  <2>6. \A r \in DOMAIN e.records : IsActive(e, r) => r \in e.payloads
    BY <1>4, <1>5, <2>1, <2>2, <2>3
  <2>. QED
    BY <1>4, <2>1, <2>2, <2>5, <2>6 DEF Readable
<1>10. Gone(e) \subseteq Gone(d) \cup (IF state = "Purged" THEN up ELSE {})
  <2>1. Purges(d) \subseteq Gone(d) /\ Closed(d.dependencies, Gone(d))
    BY <1>1, GoneClosed
  <2>2. CASE state = "Purged"
    <3>1. Purges(e) \subseteq Purges(d) \cup {target}
      BY <1>3, <1>4 DEF Purges
    <3>2. Closed(e.dependencies, Gone(d) \cup up)
      BY <1>2, <1>4, <2>1 DEF Closed
    <3>. QED
      BY <1>2, <2>1, <2>2, <3>1, <3>2, GoneLeast
  <2>3. CASE state # "Purged"
    <3>1. Purges(e) \subseteq Purges(d)
      BY <1>3, <1>4, <2>3 DEF Purges
    <3>. QED
      BY <1>4, <2>1, <2>3, <3>1, GoneLeast
  <2>. QED
    BY <2>2, <2>3
<1>11. Erasing(e)
  <2>1. ASSUME NEW x \in Gone(d)
        PROVE  x \notin e.payloads /\ ~IsActive(e, x)
    BY <1>1, <1>5 DEF Erasing, Gone, Reached
  <2>2. ASSUME state = "Purged", NEW x \in up, x \in DOMAIN d.records, x \notin Gone(d)
        PROVE  x \notin e.payloads /\ ~IsActive(e, x)
    <3>1. StateOf(d, x) # "Purged"
      BY <1>1, <2>2, GoneClosed DEF Purges
    <3>2. x \in P
      BY <2>2, <3>1 DEF Reachable
    <3>. QED
      BY <1>6, <2>2, <3>2 DEF Reached
  <2>3. Gone(e) \subseteq DOMAIN d.records
    BY <1>4 DEF Gone
  <2>. QED
    BY <1>10, <2>1, <2>2, <2>3 DEF Erasing
<1>12. StateOf(e, target) = state
  BY <1>3 DEF Reachable
<1>. QED
  BY <1>7, <1>8, <1>9, <1>10, <1>11, <1>12 DEF Store
-----------------------------------------------------------------------------
(* Identifiers are drawn in order. *)

Dense(d) == \A k \in Kinds : \E n \in Nat : OfKind(d, k) = {k} \X (1..n)

LEMMA DenseIds ==
    ASSUME NEW d, Dense(d), NEW k \in Kinds
    PROVE  /\ Cardinality(OfKind(d, k)) \in Nat
           /\ OfKind(d, k) = {k} \X (1..Cardinality(OfKind(d, k)))
           /\ \A i \in Nat \ {0} : NthId(d, k, i) = <<k, Cardinality(OfKind(d, k)) + i>>
                                   /\ NthId(d, k, i) \notin DOMAIN d.records
<1>1. PICK n \in Nat : OfKind(d, k) = {k} \X (1..n)
  BY DEF Dense
<1>2. Cardinality({k} \X (1..n)) = n
  <2>1. IsFiniteSet({k}) /\ Cardinality({k}) = 1
    BY FS_Singleton
  <2>2. IsFiniteSet(1..n) /\ Cardinality(1..n) = n
    BY FS_Interval
  <2>3. Cardinality({k} \X (1..n)) = Cardinality({k}) * Cardinality(1..n)
    BY <2>1, <2>2, FS_Product
  <2>. QED
    BY <2>1, <2>2, <2>3
<1>3. ASSUME NEW i \in Nat \ {0}
      PROVE  NthId(d, k, i) = <<k, n + i>> /\ NthId(d, k, i) \notin DOMAIN d.records
  <2>1. NthId(d, k, i) = <<k, n + i>>
    BY <1>1, <1>2 DEF NthId
  <2>2. <<k, n + i>> \notin {k} \X (1..n)
    OBVIOUS
  <2>. QED
    BY <1>1, <2>1, <2>2 DEF OfKind
<1>. QED
  BY <1>1, <1>2, <1>3

LEMMA DenseInsertion ==
    ASSUME NEW d, NEW e, NEW new, Dense(d), DOMAIN e.records = DOMAIN d.records \cup new,
           \A k \in Kinds : \E n \in Nat : {r \in new : r[1] = k} = {NthId(d, k, i) : i \in 1..n}
    PROVE  Dense(e)
<1> SUFFICES ASSUME NEW k \in Kinds
             PROVE  \E n \in Nat : OfKind(e, k) = {k} \X (1..n)
  BY DEF Dense
<1>1. PICK n \in Nat : {r \in new : r[1] = k} = {NthId(d, k, i) : i \in 1..n}
  OBVIOUS
<1>2. PICK m : m = Cardinality(OfKind(d, k))
  OBVIOUS
<1>3. /\ m \in Nat /\ OfKind(d, k) = {k} \X (1..m)
      /\ \A i \in 1..n : NthId(d, k, i) = <<k, m + i>>
  BY <1>2, DenseIds
<1>4. {NthId(d, k, i) : i \in 1..n} = {k} \X ((m + 1)..(m + n))
  <2>1. ASSUME NEW x \in {k} \X ((m + 1)..(m + n))
        PROVE  x \in {NthId(d, k, i) : i \in 1..n}
    <3>1. x[2] - m \in 1..n /\ x = <<k, m + (x[2] - m)>>
      BY <1>3
    <3>. QED
      BY <1>3, <3>1
  <2>2. ASSUME NEW i \in 1..n
        PROVE  NthId(d, k, i) \in {k} \X ((m + 1)..(m + n))
    BY <1>3
  <2>. QED
    BY <2>1, <2>2
<1>5. OfKind(e, k) = OfKind(d, k) \cup {r \in new : r[1] = k}
  BY DEF OfKind
<1>6. OfKind(e, k) = {k} \X (1..(m + n))
  BY <1>1, <1>3, <1>4, <1>5
<1>. QED
  BY <1>3, <1>6
-----------------------------------------------------------------------------
(* One new record. *)

Sources(rec) == rec.evidence \cup rec.ends

Put(d, e, r, rec) ==
    /\ e.records = WithRow(d.records, r, rec)
    /\ e.payloads = d.payloads \cup {r}
    /\ e.dependencies = d.dependencies \cup {<<s, r>> : s \in Sources(rec)}
    /\ e.lexical = IF r[1] \in TruthKinds THEN d.lexical \cup {r} ELSE d.lexical
    /\ e.blobs = d.blobs

\* A source that may support the record.
SourceOK(d, s, r, rec) ==
    /\ s \in DOMAIN d.records /\ d.records[s].scope = rec.scope /\ s \notin Gone(d)
    /\ \/ IsActive(d, s)
       \/ rec.label = "Supersedes" /\ s \in rec.ends /\ StateOf(d, s) = "Superseded"
    /\ r[1] \in {"Claim", "SemanticRelation"}
    /\ r[1] = "Claim" => s[1] = "Evidence" /\ s \in rec.evidence

LEMMA ActiveStays ==
    ASSUME NEW d, Store(d), NEW x, IsActive(d, x)
    PROVE  x \in DOMAIN d.records /\ x \notin Gone(d)
BY DEF Store, Erasing, IsActive, Exists

LEMMA PutKeeps ==
    ASSUME NEW d, NEW e, NEW k, NEW rec, Store(d), Dense(d),
           k \in KernelKinds, k # "ArtifactSnapshot",
           Put(d, e, NewId(d, k), rec), RowOK(NewId(d, k), rec), rec.state = "Active",
           \A s \in Sources(rec) : SourceOK(d, s, NewId(d, k), rec)
    PROVE  /\ Store(e) /\ Dense(e) /\ Gone(e) \subseteq Gone(d)
           /\ NewId(d, k) \notin DOMAIN d.records
           /\ \A j \in Kinds : j # k => NewId(e, j) = NewId(d, j)
<1> DEFINE r == NewId(d, k)
           A == {<<s, r>> : s \in Sources(rec)}
<1>1. k \in Kinds /\ r[1] = k /\ r \notin DOMAIN d.records
  <2>1. k \in Kinds
    BY DEF KernelKinds, ArtifactKinds, Kinds
  <2>2. r = NthId(d, k, 1)
    BY DEF NewId
  <2>3. r = <<k, Cardinality(OfKind(d, k)) + 1>> /\ r \notin DOMAIN d.records
    BY <2>1, <2>2, DenseIds
  <2>. QED
    BY <2>1, <2>3
<1>2. PICK new : new = [x \in {r} |-> rec]
  OBVIOUS
<1>3. DOMAIN new = {r} /\ new[r] = rec
  BY <1>2
<1>4. /\ DOMAIN e.records = DOMAIN d.records \cup {r} /\ e.records[r] = rec
      /\ \A x \in DOMAIN d.records : e.records[x] = d.records[x]
  BY <1>1 DEF Put, WithRow
<1>5. NewId(d, k) = r
  OBVIOUS
<1> HIDE DEF r
<1>6. Inserted(d, e, new, A)
  <2>1. e.records = [x \in DOMAIN d.records \cup DOMAIN new |->
                       IF x \in DOMAIN d.records THEN d.records[x] ELSE new[x]]
    BY <1>1, <1>3, <1>5 DEF Put, WithRow
  <2>2. e.lexical = d.lexical \cup {x \in DOMAIN new : x[1] \in TruthKinds}
    BY <1>3, <1>5 DEF Put
  <2>. QED
    BY <1>1, <1>3, <1>5, <2>1, <2>2 DEF Inserted, Put
<1>7. ASSUME NEW a \in A
      PROVE  /\ a \in (DOMAIN e.records) \X (DOMAIN new)
             /\ EdgeOK(e, a) /\ Supported(e, a) /\ a[1] \notin Gone(d)
  <2>1. PICK s \in Sources(rec) : a = <<s, r>>
    OBVIOUS
  <2>2. SourceOK(d, s, r, rec)
    BY <1>5
  <2>3. a[1] = s /\ a[2] = r /\ s \in DOMAIN d.records
    BY <2>1, <2>2 DEF SourceOK
  <2>4. EdgeOK(e, a)
    BY <1>4, <2>2, <2>3 DEF EdgeOK, SourceOK, ArtifactKinds
  <2>5. Supported(e, a)
    <3>1. (IsActive(e, s) <=> IsActive(d, s)) /\ StateOf(e, s) = StateOf(d, s)
      BY <1>4, <2>3 DEF IsActive, Exists, StateOf
    <3>. QED
      BY <1>4, <2>2, <2>3, <3>1 DEF Supported, SourceOK
  <2>6. a \in (DOMAIN e.records) \X (DOMAIN new)
    BY <1>3, <1>4, <2>1, <2>3
  <2>. QED
    BY <2>2, <2>3, <2>4, <2>5, <2>6 DEF SourceOK
<1>8. Insertable(d, e, new, A)
  BY <1>1, <1>3, <1>5, <1>7 DEF Insertable
<1>9. Store(e) /\ Gone(e) \subseteq Gone(d)
  BY <1>6, <1>8, InsertionKeeps
<1>10. Dense(e)
  <2>1. ASSUME NEW j \in Kinds
        PROVE  \E n \in Nat : {x \in {r} : x[1] = j} = {NthId(d, j, i) : i \in 1..n}
    <3>1. CASE j = k
      <4>1. {x \in {r} : x[1] = j} = {NthId(d, j, i) : i \in 1..1}
        BY <1>1, <1>5, <3>1 DEF NewId
      <4>. QED
        BY <4>1
    <3>2. CASE j # k
      <4>1. {x \in {r} : x[1] = j} = {NthId(d, j, i) : i \in 1..0}
        BY <1>1, <3>2
      <4>. QED
        BY <4>1
    <3>. QED
      BY <3>1, <3>2
  <2>2. PICK N : N = {r}
    OBVIOUS
  <2>3. /\ DOMAIN e.records = DOMAIN d.records \cup N
        /\ \A j \in Kinds : \E n \in Nat : {x \in N : x[1] = j} = {NthId(d, j, i) : i \in 1..n}
    BY <1>4, <2>1, <2>2
  <2>. QED
    BY <2>3, DenseInsertion
<1>11. \A j \in Kinds : j # k => NewId(e, j) = NewId(d, j)
  <2>1. \A j \in Kinds : j # k => OfKind(e, j) = OfKind(d, j)
    BY <1>1, <1>4 DEF OfKind
  <2>. QED
    BY <2>1 DEF NewId, NthId
<1>. QED
  BY <1>1, <1>5, <1>9, <1>10, <1>11
\* What an insertion of one record leaves for the next one of its batch.
Added(d, e, k, r, rec) ==
    /\ Store(e) /\ Dense(e) /\ DOMAIN e = Rows
    /\ Gone(e) \subseteq Gone(d)
    /\ r = NewId(d, k) /\ r[1] = k /\ r \notin DOMAIN d.records
    /\ e.records = WithRow(d.records, r, rec)
    /\ \A j \in Kinds : j # k => NewId(e, j) = NewId(d, j)

LEMMA InsertIs ==
    ASSUME NEW d, DOMAIN d = Rows, NEW r, r \notin DOMAIN d.records, NEW rec
    PROVE  LET e == Insert(d, r, rec)
           IN /\ DOMAIN e = Rows /\ e.records = WithRow(d.records, r, rec)
              /\ e.payloads = d.payloads \cup {r}
              /\ e.dependencies = d.dependencies \cup {<<s, r>> : s \in Sources(rec)}
              /\ e.lexical = d.lexical /\ e.blobs = d.blobs
<1>1. PICK new : new = [x \in {r} |-> rec]
  OBVIOUS
<1>2. DOMAIN new = {r} /\ new[r] = rec
  BY <1>1
<1>3. PICK e : e = InsertAll(d, new)
  OBVIOUS
<1>4. /\ DOMAIN e = Rows /\ e.lexical = d.lexical /\ e.blobs = d.blobs
      /\ e.records = [x \in DOMAIN d.records \cup DOMAIN new |->
                        IF x \in DOMAIN d.records THEN d.records[x] ELSE new[x]]
      /\ e.payloads = d.payloads \cup DOMAIN new
      /\ e.dependencies = d.dependencies
            \cup UNION {{<<s, x>> : s \in new[x].evidence \cup new[x].ends} : x \in DOMAIN new}
  BY <1>3 DEF InsertAll, Rows
<1>5. e.records = WithRow(d.records, r, rec)
  BY <1>2, <1>4 DEF WithRow
<1>6. UNION {{<<s, x>> : s \in new[x].evidence \cup new[x].ends} : x \in DOMAIN new}
        = {<<s, r>> : s \in Sources(rec)}
  BY <1>2 DEF Sources
<1>. QED
  BY <1>1, <1>2, <1>3, <1>4, <1>5, <1>6 DEF Insert

LEMMA NewRecordFields ==
    ASSUME NEW scope \in Scopes \cup RecordRef, NEW label,
           label \in EvidenceClasses \cup ClaimDomains \cup SemanticRelationKinds \cup {"None"},
           NEW evidence \in SUBSET RecordRef, NEW ends \in SUBSET RecordRef
    PROVE  LET rec == NewRecord(scope, label, evidence, ends)
           IN /\ rec \in Record /\ rec.state = "Active" /\ rec.scope = scope /\ rec.label = label
              /\ rec.evidence = evidence /\ rec.ends = ends /\ rec.revision = 1
BY DEF NewRecord, Record, RecordState

\* A record without sources: evidence, or a collection.
LEMMA EvidenceAdded ==
    ASSUME NEW d, Store(d), Dense(d), DOMAIN d = Rows, NEW class \in EvidenceClasses,
           NEW scope \in Scopes \cup RecordRef
    PROVE  LET r == NewId(d, "Evidence")
           IN Added(d, InsertEvidence(d, r, class, scope), "Evidence", r,
                    NewRecord(scope, class, {}, {}))
<1>1. PICK r : r = NewId(d, "Evidence")
  OBVIOUS
<1>2. PICK rec : rec = NewRecord(scope, class, {}, {})
  OBVIOUS
<1>3. /\ rec \in Record /\ rec.state = "Active" /\ rec.label = class
      /\ rec.evidence = {} /\ rec.ends = {}
  BY <1>2, NewRecordFields
<1>4. "Evidence" \in Kinds /\ "Evidence" \in KernelKinds
  BY DEF Kinds, KernelKinds
<1>5. r[1] = "Evidence" /\ r \notin DOMAIN d.records
  BY <1>1, <1>4, DenseIds DEF NewId
<1>6. RowOK(r, rec)
  BY <1>3, <1>5 DEF RowOK, KernelKinds, EvidenceClasses
<1>7. PICK f : f = Insert(d, r, rec)
  OBVIOUS
<1>8. PICK e : e = InsertEvidence(d, r, class, scope)
  OBVIOUS
<1>9. e = [f EXCEPT !.lexical = @ \cup {r}]
  BY <1>2, <1>7, <1>8 DEF InsertEvidence, InsertLexical
<1>10. DOMAIN e = Rows /\ Put(d, e, r, rec)
  <2>1. /\ DOMAIN f = Rows /\ f.records = WithRow(d.records, r, rec)
        /\ f.payloads = d.payloads \cup {r} /\ f.lexical = d.lexical /\ f.blobs = d.blobs
        /\ f.dependencies = d.dependencies \cup {<<s, r>> : s \in Sources(rec)}
    BY <1>5, <1>7, InsertIs
  <2>2. /\ DOMAIN e = Rows /\ e.records = f.records /\ e.payloads = f.payloads
        /\ e.lexical = f.lexical \cup {r} /\ e.blobs = f.blobs
        /\ e.dependencies = f.dependencies
    BY <1>9, <2>1 DEF Rows
  <2>. QED
    BY <1>5, <2>1, <2>2 DEF Put, TruthKinds
<1>11. Sources(rec) = {}
  BY <1>3 DEF Sources
<1>12. /\ Store(e) /\ Dense(e) /\ Gone(e) \subseteq Gone(d)
       /\ \A j \in Kinds : j # "Evidence" => NewId(e, j) = NewId(d, j)
  BY <1>1, <1>3, <1>4, <1>6, <1>10, <1>11, PutKeeps
<1>. QED
  BY <1>1, <1>2, <1>5, <1>8, <1>10, <1>12 DEF Added, Put

LEMMA ClaimAdded ==
    ASSUME NEW d, Store(d), Dense(d), DOMAIN d = Rows, NEW domain \in ClaimDomains,
           NEW scope \in Scopes \cup RecordRef, NEW E \in SUBSET RecordRef,
           \A s \in E : s[1] = "Evidence", SourcesActive(d, E, scope)
    PROVE  LET r == NewId(d, "Claim")
           IN Added(d, InsertClaim(d, r, domain, scope, E), "Claim", r,
                    NewRecord(scope, domain, E, {}))
<1>1. PICK r : r = NewId(d, "Claim")
  OBVIOUS
<1>2. PICK rec : rec = NewRecord(scope, domain, E, {})
  OBVIOUS
<1>3. /\ rec \in Record /\ rec.state = "Active" /\ rec.label = domain /\ rec.scope = scope
      /\ rec.evidence = E /\ rec.ends = {}
  BY <1>2, NewRecordFields
<1>4. "Claim" \in Kinds /\ "Claim" \in KernelKinds
  BY DEF Kinds, KernelKinds
<1>5. r[1] = "Claim" /\ r \notin DOMAIN d.records
  BY <1>1, <1>4, DenseIds DEF NewId
<1>6. RowOK(r, rec)
  BY <1>3, <1>5 DEF RowOK, KernelKinds, ClaimDomains
<1>7. PICK f : f = Insert(d, r, rec)
  OBVIOUS
<1>8. PICK e : e = InsertClaim(d, r, domain, scope, E)
  OBVIOUS
<1>9. e = [f EXCEPT !.lexical = @ \cup {r}]
  BY <1>2, <1>7, <1>8 DEF InsertClaim, InsertLexical
<1>10. DOMAIN e = Rows /\ Put(d, e, r, rec)
  <2>1. /\ DOMAIN f = Rows /\ f.records = WithRow(d.records, r, rec)
        /\ f.payloads = d.payloads \cup {r} /\ f.lexical = d.lexical /\ f.blobs = d.blobs
        /\ f.dependencies = d.dependencies \cup {<<s, r>> : s \in Sources(rec)}
    BY <1>5, <1>7, InsertIs
  <2>2. /\ DOMAIN e = Rows /\ e.records = f.records /\ e.payloads = f.payloads
        /\ e.lexical = f.lexical \cup {r} /\ e.blobs = f.blobs
        /\ e.dependencies = f.dependencies
    BY <1>9, <2>1 DEF Rows
  <2>. QED
    BY <1>5, <2>1, <2>2 DEF Put, TruthKinds
<1>11. ASSUME NEW s \in Sources(rec)
       PROVE  SourceOK(d, s, r, rec)
  <2>1. s \in E /\ IsActive(d, s) /\ d.records[s].scope = scope /\ s[1] = "Evidence"
    BY <1>3 DEF Sources, SourcesActive
  <2>. QED
    BY <1>3, <1>5, <2>1, ActiveStays DEF SourceOK
<1>12. /\ Store(e) /\ Dense(e) /\ Gone(e) \subseteq Gone(d)
       /\ \A j \in Kinds : j # "Claim" => NewId(e, j) = NewId(d, j)
  BY <1>1, <1>3, <1>4, <1>6, <1>10, <1>11, PutKeeps
<1>. QED
  BY <1>1, <1>2, <1>5, <1>8, <1>10, <1>12 DEF Added, Put

\* A Supersedes relation may hold the claim that was replaced.
RelationEnd(d, s, kind, scope, ends) ==
    /\ s \in DOMAIN d.records /\ d.records[s].scope = scope /\ s \notin Gone(d)
    /\ IsActive(d, s) \/ (kind = "Supersedes" /\ s \in ends /\ StateOf(d, s) = "Superseded")

LEMMA RelationAdded ==
    ASSUME NEW d, Store(d), Dense(d), DOMAIN d = Rows, NEW kind \in SemanticRelationKinds,
           NEW scope \in Scopes \cup RecordRef, NEW E \in SUBSET RecordRef,
           NEW from \in RecordRef, NEW to \in RecordRef,
           \A s \in E \cup {from, to} : RelationEnd(d, s, kind, scope, {from, to})
    PROVE  LET r == NewId(d, "SemanticRelation")
           IN Added(d, InsertRelation(d, r, kind, scope, from, to, E), "SemanticRelation", r,
                    NewRecord(scope, kind, E, {from, to}))
<1>1. PICK r : r = NewId(d, "SemanticRelation")
  OBVIOUS
<1>2. PICK rec : rec = NewRecord(scope, kind, E, {from, to})
  OBVIOUS
<1>3. /\ rec \in Record /\ rec.state = "Active" /\ rec.label = kind /\ rec.scope = scope
      /\ rec.evidence = E /\ rec.ends = {from, to}
  BY <1>2, NewRecordFields
<1>4. "SemanticRelation" \in Kinds /\ "SemanticRelation" \in KernelKinds
  BY DEF Kinds, KernelKinds
<1>5. r[1] = "SemanticRelation" /\ r \notin DOMAIN d.records
  BY <1>1, <1>4, DenseIds DEF NewId
<1>6. RowOK(r, rec)
  BY <1>3, <1>5 DEF RowOK, KernelKinds, SemanticRelationKinds
<1>7. PICK e : e = InsertRelation(d, r, kind, scope, from, to, E)
  OBVIOUS
<1>8. e = Insert(d, r, rec)
  BY <1>2, <1>7 DEF InsertRelation
<1>9. DOMAIN e = Rows /\ Put(d, e, r, rec)
  BY <1>5, <1>8, InsertIs DEF Put, TruthKinds
<1>10. ASSUME NEW s \in Sources(rec)
       PROVE  SourceOK(d, s, r, rec)
  <2>1. RelationEnd(d, s, kind, scope, {from, to})
    BY <1>3 DEF Sources
  <2>. QED
    BY <1>3, <1>5, <2>1 DEF SourceOK, RelationEnd
<1>11. /\ Store(e) /\ Dense(e) /\ Gone(e) \subseteq Gone(d)
       /\ \A j \in Kinds : j # "SemanticRelation" => NewId(e, j) = NewId(d, j)
  BY <1>1, <1>3, <1>4, <1>6, <1>9, <1>10, PutKeeps
<1>. QED
  BY <1>1, <1>2, <1>5, <1>7, <1>9, <1>11 DEF Added, Put

LEMMA CollectionAdded ==
    ASSUME NEW d, Store(d), Dense(d), DOMAIN d = Rows, NEW scope \in RecordRef
    PROVE  LET r == NewId(d, "ArtifactCollection")
           IN Added(d, Insert(d, r, NewRecord(scope, "None", {}, {})), "ArtifactCollection", r,
                    NewRecord(scope, "None", {}, {}))
<1>1. PICK r : r = NewId(d, "ArtifactCollection")
  OBVIOUS
<1>2. PICK rec : rec = NewRecord(scope, "None", {}, {})
  OBVIOUS
<1>3. /\ rec \in Record /\ rec.state = "Active" /\ rec.label = "None"
      /\ rec.evidence = {} /\ rec.ends = {}
  BY <1>2, NewRecordFields
<1>4. "ArtifactCollection" \in Kinds /\ "ArtifactCollection" \in KernelKinds
  BY DEF Kinds, KernelKinds
<1>5. r[1] = "ArtifactCollection" /\ r \notin DOMAIN d.records
  BY <1>1, <1>4, DenseIds DEF NewId
<1>6. RowOK(r, rec)
  BY <1>3, <1>5 DEF RowOK, KernelKinds
<1>7. PICK e : e = Insert(d, r, rec)
  OBVIOUS
<1>8. DOMAIN e = Rows /\ Put(d, e, r, rec)
  BY <1>5, <1>7, InsertIs DEF Put, TruthKinds
<1>9. Sources(rec) = {}
  BY <1>3 DEF Sources
<1>10. /\ Store(e) /\ Dense(e) /\ Gone(e) \subseteq Gone(d)
       /\ \A j \in Kinds : j # "ArtifactCollection" => NewId(e, j) = NewId(d, j)
  BY <1>1, <1>3, <1>4, <1>6, <1>8, <1>9, PutKeeps
<1>. QED
  BY <1>1, <1>2, <1>5, <1>7, <1>8, <1>10 DEF Added, Put
-----------------------------------------------------------------------------
(* Artifacts: several records in one batch, two by two. *)

\* e is d with n artifacts below parent, whatever happened to the ordinals.
Filed(d, e, kind, parent, n) ==
    LET f == InsertArtifacts(d, kind, parent, n)
    IN /\ e.records = f.records /\ e.payloads = f.payloads
       /\ e.lexical = f.lexical /\ e.dependencies = f.dependencies
       /\ e.blobs = d.blobs \cup (IF kind = "ArtifactSnapshot" THEN {NthId(d, kind, i) : i \in 1..n}
                                  ELSE {})

LEMMA ArtifactsAdded ==
    ASSUME NEW d, Sound(d), Store(d), Dense(d), NEW kind \in ArtifactKinds, NEW parent,
           IsActive(d, parent), parent[1] \in ArtifactKinds \cup {"ArtifactCollection"},
           NEW n \in Nat, Room(d, kind, n), Room(d, "Evidence", n),
           NEW e, Filed(d, e, kind, parent, n)
    PROVE  /\ Store(e) /\ Dense(e) /\ Gone(e) \subseteq Gone(d)
           /\ \A r \in DOMAIN d.records : r \in DOMAIN e.records /\ e.records[r] = d.records[r]
<1>1. /\ kind \in Kinds /\ "Evidence" \in Kinds /\ kind # "Evidence" /\ kind \in KernelKinds
      /\ kind \in EvidenceClasses /\ "Evidence" \in KernelKinds /\ kind \notin TruthKinds
      /\ "Evidence" \in TruthKinds
  BY DEF ArtifactKinds, Kinds, KernelKinds, EvidenceClasses, TruthKinds
<1>2. PICK id : id = [i \in 1..n |-> NthId(d, kind, i)]
  OBVIOUS
<1>3. PICK ev : ev = [i \in 1..n |-> NthId(d, "Evidence", i)]
  OBVIOUS
<1>4. ASSUME NEW i \in 1..n
      PROVE  /\ id[i] = NthId(d, kind, i) /\ ev[i] = NthId(d, "Evidence", i)
             /\ id[i] = <<kind, Cardinality(OfKind(d, kind)) + i>>
             /\ ev[i] = <<"Evidence", Cardinality(OfKind(d, "Evidence")) + i>>
             /\ id[i] \notin DOMAIN d.records /\ ev[i] \notin DOMAIN d.records
             /\ id[i] \in RecordRef /\ ev[i] \in RecordRef
  <2>1. NthId(d, kind, i) \in RecordRef /\ NthId(d, "Evidence", i) \in RecordRef
    BY <1>1, FreshId
  <2>2. id[i] = NthId(d, kind, i) /\ ev[i] = NthId(d, "Evidence", i) /\ i \in Nat \ {0}
    BY <1>2, <1>3
  <2>3. /\ NthId(d, kind, i) = <<kind, Cardinality(OfKind(d, kind)) + i>>
        /\ NthId(d, kind, i) \notin DOMAIN d.records
    BY <1>1, <2>2, DenseIds
  <2>4. /\ NthId(d, "Evidence", i) = <<"Evidence", Cardinality(OfKind(d, "Evidence")) + i>>
        /\ NthId(d, "Evidence", i) \notin DOMAIN d.records
    BY <1>1, <2>2, DenseIds
  <2>. QED
    BY <2>1, <2>2, <2>3, <2>4
<1>5. /\ \A i \in 1..n : id[i][1] = kind /\ ev[i][1] = "Evidence"
      /\ \A i, j \in 1..n : id[i] = id[j] => i = j
  <2>1. Cardinality(OfKind(d, kind)) \in Nat
    BY <1>1, DenseIds
  <2>. QED
    BY <1>4, <2>1
<1>6. PICK ids : ids = {id[i] : i \in 1..n}
  OBVIOUS
<1>7. PICK evs : evs = {ev[i] : i \in 1..n}
  OBVIOUS
<1>8. /\ ids = {NthId(d, kind, i) : i \in 1..n}
      /\ evs = {NthId(d, "Evidence", i) : i \in 1..n}
      /\ \A r \in ids : r[1] = kind /\ r \in RecordRef /\ r \notin DOMAIN d.records
      /\ \A r \in evs : r[1] = "Evidence" /\ r \in RecordRef /\ r \notin DOMAIN d.records
  BY <1>4, <1>5, <1>6, <1>7
<1>9. PICK scope : scope = d.records[parent].scope
  OBVIOUS
<1>10. /\ parent \in DOMAIN d.records /\ parent \in RecordRef /\ parent \notin Gone(d)
       /\ scope \in Scopes \cup RecordRef
  <2>1. parent \in DOMAIN d.records /\ parent \notin Gone(d)
    BY ActiveStays
  <2>2. d.records[parent] \in Record
    BY <2>1 DEF Store, Typed, RowOK
  <2>. QED
    BY <1>9, <2>1, <2>2 DEF Sound, Heads, Record
<1>11. PICK new : new = [r \in ids \cup evs |->
                  IF r[1] = "Evidence" THEN NewRecord(scope, kind, {}, {})
                  ELSE NewRecord(scope, "None",
                         {NthId(d, "Evidence", i) : i \in {j \in 1..n : NthId(d, kind, j) = r}},
                         {parent})]
  OBVIOUS
<1>12. DOMAIN new = ids \cup evs
  BY <1>11
<1>13. ASSUME NEW i \in 1..n
       PROVE  /\ new[ev[i]] = NewRecord(scope, kind, {}, {})
              /\ new[id[i]] = NewRecord(scope, "None", {ev[i]}, {parent})
  <2>1. {NthId(d, "Evidence", l) : l \in {j \in 1..n : NthId(d, kind, j) = id[i]}} = {ev[i]}
    <3>1. {j \in 1..n : NthId(d, kind, j) = id[i]} = {i}
      BY <1>4, <1>5
    <3>. QED
      BY <1>4, <3>1
  <2>2. id[i] \in ids /\ ev[i] \in evs
    BY <1>6, <1>7
  <2>3. new[ev[i]] = NewRecord(scope, kind, {}, {})
    BY <1>5, <1>11, <2>2
  <2>4. new[id[i]] = NewRecord(scope, "None",
           {NthId(d, "Evidence", l) : l \in {j \in 1..n : NthId(d, kind, j) = id[i]}}, {parent})
    BY <1>1, <1>5, <1>11, <2>2
  <2>. QED
    BY <2>1, <2>3, <2>4
<1>14. ASSUME NEW i \in 1..n
       PROVE  /\ RowOK(ev[i], new[ev[i]]) /\ RowOK(id[i], new[id[i]])
              /\ new[ev[i]].state = "Active" /\ new[id[i]].state = "Active"
              /\ new[ev[i]].scope = scope /\ new[id[i]].scope = scope
              /\ new[ev[i]].label = kind /\ new[ev[i]].evidence = {} /\ new[ev[i]].ends = {}
              /\ new[id[i]].evidence = {ev[i]} /\ new[id[i]].ends = {parent}
  <2>1. /\ new[ev[i]] \in Record /\ new[ev[i]].state = "Active" /\ new[ev[i]].scope = scope
        /\ new[ev[i]].label = kind /\ new[ev[i]].evidence = {} /\ new[ev[i]].ends = {}
    <3>1. PICK rec : rec = NewRecord(scope, kind, {}, {})
      OBVIOUS
    <3>2. /\ rec \in Record /\ rec.state = "Active" /\ rec.scope = scope /\ rec.label = kind
          /\ rec.evidence = {} /\ rec.ends = {}
      BY <1>1, <1>10, <3>1, NewRecordFields
    <3>. QED
      BY <1>13, <3>1, <3>2
  <2>2. /\ new[id[i]] \in Record /\ new[id[i]].state = "Active" /\ new[id[i]].scope = scope
        /\ new[id[i]].label = "None"
        /\ new[id[i]].evidence = {ev[i]} /\ new[id[i]].ends = {parent}
    <3>1. PICK rec : rec = NewRecord(scope, "None", {ev[i]}, {parent})
      OBVIOUS
    <3>2. {ev[i]} \in SUBSET RecordRef /\ {parent} \in SUBSET RecordRef
      BY <1>4, <1>10
    <3>3. /\ rec \in Record /\ rec.state = "Active" /\ rec.scope = scope /\ rec.label = "None"
          /\ rec.evidence = {ev[i]} /\ rec.ends = {parent}
      BY <1>10, <3>1, <3>2, NewRecordFields
    <3>. QED
      BY <1>13, <3>1, <3>3
  <2>3. kind # "Supersedes" /\ kind # "Claim"
    BY DEF ArtifactKinds
  <2>4. RowOK(ev[i], new[ev[i]])
    BY <1>1, <1>5, <2>1, <2>3 DEF RowOK
  <2>5. RowOK(id[i], new[id[i]])
    BY <1>1, <1>5, <2>2, <2>3 DEF RowOK
  <2>. QED
    BY <2>1, <2>2, <2>4, <2>5
<1>15. PICK f : f = InsertAll(d, new)
  OBVIOUS
<1>16. PICK pairs : pairs = {<<NthId(d, kind, i), NthId(d, "Evidence", i)>> : i \in 1..n}
  OBVIOUS
<1>17. PICK g : g = InsertArtifacts(d, kind, parent, n)
  OBVIOUS
<1>18. g = [f EXCEPT !.lexical = @ \cup evs, !.dependencies = @ \cup pairs]
  BY <1>8, <1>9, <1>11, <1>15, <1>16, <1>17 DEF InsertArtifacts
<1>19. PICK below : below = UNION {{<<s, r>> : s \in new[r].evidence \cup new[r].ends}
                                     : r \in DOMAIN new}
  OBVIOUS
<1>20. /\ DOMAIN f = Rows /\ f.lexical = d.lexical
       /\ f.records = [r \in DOMAIN d.records \cup DOMAIN new |->
                         IF r \in DOMAIN d.records THEN d.records[r] ELSE new[r]]
       /\ f.payloads = d.payloads \cup DOMAIN new
       /\ f.dependencies = d.dependencies \cup below
  BY <1>15, <1>19 DEF InsertAll, Sound, Rows
<1>21. /\ g.lexical = d.lexical \cup evs /\ g.records = f.records /\ g.payloads = f.payloads
       /\ g.dependencies = d.dependencies \cup (below \cup pairs)
  BY <1>18, <1>20 DEF Rows
<1>22. /\ e.records = f.records /\ e.payloads = f.payloads /\ e.lexical = d.lexical \cup evs
       /\ e.dependencies = d.dependencies \cup (below \cup pairs)
       /\ e.blobs = d.blobs \cup (IF kind = "ArtifactSnapshot" THEN ids ELSE {})
  BY <1>8, <1>17, <1>21 DEF Filed
<1>23. Inserted(d, e, new, below \cup pairs)
  <2>1. evs = {r \in DOMAIN new : r[1] \in TruthKinds}
    BY <1>1, <1>8, <1>12
  <2>2. \A r \in DOMAIN new : r[1] = "ArtifactSnapshot" => r \in e.blobs
    BY <1>1, <1>8, <1>12, <1>22
  <2>. QED
    BY <1>12, <1>20, <1>22, <2>1, <2>2 DEF Inserted
<1>24. /\ DOMAIN e.records = DOMAIN d.records \cup (ids \cup evs)
       /\ \A r \in DOMAIN d.records : e.records[r] = d.records[r]
       /\ \A r \in ids \cup evs : e.records[r] = new[r]
  BY <1>8, <1>12, <1>20, <1>22
<1>25. IsActive(e, parent) /\ e.records[parent].scope = scope
  BY <1>9, <1>10, <1>24 DEF IsActive, Exists, StateOf
<1>26. ASSUME NEW i \in 1..n
       PROVE  /\ id[i] \in ids /\ ev[i] \in evs
              /\ IsActive(e, id[i]) /\ IsActive(e, ev[i])
              /\ e.records[id[i]] = new[id[i]] /\ e.records[ev[i]] = new[ev[i]]
              /\ id[i] \notin Gone(d) /\ ev[i] \notin Gone(d)
  <2>1. id[i] \in ids /\ ev[i] \in evs
    BY <1>6, <1>7
  <2>. QED
    BY <1>8, <1>14, <1>24, <2>1 DEF IsActive, Exists, StateOf, Gone
<1>27. ASSUME NEW a \in below \cup pairs
       PROVE  \E i \in 1..n : \/ a = <<ev[i], id[i]>> \/ a = <<parent, id[i]>>
                              \/ a = <<id[i], ev[i]>>
  <2>1. CASE a \in pairs
    BY <1>4, <1>16, <2>1
  <2>2. CASE a \in below
    <3>1. PICK r \in DOMAIN new : a \in {<<s, r>> : s \in new[r].evidence \cup new[r].ends}
      BY <1>19, <2>2
    <3>2. PICK s \in new[r].evidence \cup new[r].ends : a = <<s, r>>
      BY <3>1
    <3>3. CASE r \in ids
      BY <1>6, <1>14, <3>2, <3>3
    <3>4. CASE r \in evs
      BY <1>7, <1>14, <3>2, <3>4
    <3>. QED
      BY <1>12, <3>3, <3>4
  <2>. QED
    BY <2>1, <2>2
<1>28. ASSUME NEW a \in below \cup pairs
       PROVE  /\ a \in (DOMAIN e.records) \X (DOMAIN new)
              /\ EdgeOK(e, a) /\ Supported(e, a) /\ a[1] \notin Gone(d)
  <2>1. PICK i \in 1..n : a = <<ev[i], id[i]>> \/ a = <<parent, id[i]>> \/ a = <<id[i], ev[i]>>
    BY <1>27
  <2>2. /\ a[1] \in {parent, id[i], ev[i]} /\ a[2] \in {id[i], ev[i]}
        /\ a = <<a[1], a[2]>>
    BY <2>1
  <2>3. Supported(e, a) /\ a[1] \notin Gone(d)
    BY <1>10, <1>25, <1>26, <2>2 DEF Supported
  <2>4. a \in (DOMAIN e.records) \X (DOMAIN new)
    BY <1>10, <1>12, <1>24, <1>26, <2>2
  <2>5. e.records[a[1]].scope = e.records[a[2]].scope
    BY <1>14, <1>25, <1>26, <2>2
  <2>6. kind # "Claim" /\ kind # "AssistantUtterance" /\ kind # "ArtifactCollection"
    BY DEF ArtifactKinds
  <2>7. EdgeOK(e, a)
    <3>1. CASE a = <<ev[i], id[i]>>
      <4>1. /\ a[1][1] = "Evidence" /\ a[2][1] = kind
            /\ e.records[a[1]].label # "AssistantUtterance"
        BY <1>5, <1>14, <1>26, <2>6, <3>1
      <4>. QED
        BY <1>1, <2>5, <2>6, <4>1 DEF EdgeOK
    <3>2. CASE a = <<parent, id[i]>>
      <4>1. a[1][1] \in ArtifactKinds \cup {"ArtifactCollection"} /\ a[2][1] = kind
        BY <1>5, <3>2
      <4>. QED
        BY <1>1, <2>5, <2>6, <4>1 DEF EdgeOK
    <3>3. CASE a = <<id[i], ev[i]>>
      <4>1. a[1][1] = kind /\ a[2][1] = "Evidence"
        BY <1>5, <3>3
      <4>. QED
        BY <1>1, <2>5, <2>6, <4>1 DEF EdgeOK, ArtifactKinds
    <3>. QED
      BY <2>1, <3>1, <3>2, <3>3
  <2>. QED
    BY <2>3, <2>4, <2>7
<1>29. Insertable(d, e, new, below \cup pairs)
  <2>1. DOMAIN new \cap DOMAIN d.records = {}
    BY <1>8, <1>12
  <2>2. \A r \in DOMAIN new : RowOK(r, new[r]) /\ new[r].state = "Active"
    BY <1>6, <1>7, <1>12, <1>14
  <2>. QED
    BY <1>28, <2>1, <2>2 DEF Insertable
<1>30. Store(e) /\ Gone(e) \subseteq Gone(d)
  BY <1>23, <1>29, InsertionKeeps
<1>31. Dense(e)
  <2>1. PICK N : N = ids \cup evs
    OBVIOUS
  <2>2. ASSUME NEW k \in Kinds
        PROVE  \E m \in Nat : {r \in N : r[1] = k} = {NthId(d, k, i) : i \in 1..m}
    <3>1. CASE k = kind
      BY <1>1, <1>8, <2>1, <3>1
    <3>2. CASE k = "Evidence"
      BY <1>1, <1>8, <2>1, <3>2
    <3>3. CASE k # kind /\ k # "Evidence"
      <4>1. {r \in N : r[1] = k} = {NthId(d, k, i) : i \in 1..0}
        BY <1>8, <2>1, <3>3
      <4>. QED
        BY <4>1
    <3>. QED
      BY <3>1, <3>2, <3>3
  <2>3. DOMAIN e.records = DOMAIN d.records \cup N
    BY <1>24, <2>1
  <2>. QED
    BY <2>2, <2>3, DenseInsertion
<1>. QED
  BY <1>24, <1>30, <1>31
-----------------------------------------------------------------------------
(* Withdrawals and purges are such batches. *)

\* What a step may do to the records there are.
Revised(d, e) ==
    \A r \in DOMAIN d.records :
       /\ r \in DOMAIN e.records
       /\ e.records[r] # d.records[r] =>
             /\ e.records[r].revision = d.records[r].revision + 1
             /\ StateOf(d, r) # "Purged"

LEMMA SameIds ==
    ASSUME NEW d, NEW e, DOMAIN e.records = DOMAIN d.records
    PROVE  /\ Dense(d) => Dense(e)
           /\ \A k \in Kinds : NewId(e, k) = NewId(d, k)
<1>1. \A k : OfKind(e, k) = OfKind(d, k)
  BY DEF OfKind
<1>2. Dense(d) => Dense(e)
  BY <1>1 DEF Dense
<1>3. \A k \in Kinds : NewId(e, k) = NewId(d, k)
  BY <1>1 DEF NewId, NthId
<1>. QED
  BY <1>2, <1>3

LEMMA ReachedRevises ==
    ASSUME NEW d, NEW e, NEW target, NEW state, NEW X, NEW P, Typed(d),
           Reached(d, e, target, state, X, P), state \in RecordState,
           StateOf(d, target) # "Purged"
    PROVE  Revised(d, e)
<1> SUFFICES ASSUME NEW r \in DOMAIN d.records
             PROVE  /\ r \in DOMAIN e.records
                    /\ e.records[r] # d.records[r] =>
                          /\ e.records[r].revision = d.records[r].revision + 1
                          /\ StateOf(d, r) # "Purged"
  BY DEF Revised
<1>1. d.records[r] \in Record /\ r \in DOMAIN e.records /\ "Unsupported" \in RecordState
  BY DEF Typed, RowOK, Reached, RecordState
<1>2. CASE r = target
  <2>1. e.records[r] = NextRevision(d.records[r], r[1], state)
    BY <1>2 DEF Reached
  <2>. QED
    BY <1>1, <1>2, <2>1, NextRevisionFields
<1>3. CASE r # target /\ IsActive(d, r) /\ r \in Above(d, target)
  <2>1. e.records[r] = NextRevision(d.records[r], r[1], "Unsupported")
    BY <1>3 DEF Reached
  <2>2. StateOf(d, r) # "Purged"
    BY <1>3 DEF IsActive
  <2>. QED
    BY <1>1, <2>1, <2>2, NextRevisionFields
<1>4. CASE r # target /\ ~(IsActive(d, r) /\ r \in Above(d, target))
  <2>1. e.records[r] = d.records[r]
    BY <1>4 DEF Reached
  <2>. QED
    BY <1>1, <2>1
<1>. QED
  BY <1>2, <1>3, <1>4

LEMMA AppendStatesIs ==
    ASSUME NEW d, DOMAIN d = Rows, NEW S, NEW state
    PROVE  LET e == AppendStates(d, S, state)
           IN /\ DOMAIN e = Rows /\ e.payloads = d.payloads /\ e.blobs = d.blobs
              /\ e.lexical = d.lexical /\ e.dependencies = d.dependencies
              /\ DOMAIN e.records = DOMAIN d.records
              /\ \A r \in DOMAIN d.records :
                    e.records[r] = IF r \in S THEN NextRevision(d.records[r], r[1], state)
                                   ELSE d.records[r]
<1>1. PICK e : e = AppendStates(d, S, state)
  OBVIOUS
<1>2. /\ DOMAIN e = Rows /\ e.payloads = d.payloads /\ e.blobs = d.blobs
      /\ e.lexical = d.lexical /\ e.dependencies = d.dependencies
      /\ e.records = [r \in DOMAIN d.records |->
                        IF r \in S THEN NextRevision(d.records[r], r[1], state) ELSE d.records[r]]
  BY <1>1 DEF AppendStates, Rows
<1>. QED
  BY <1>1, <1>2

LEMMA Withdrawn ==
    ASSUME NEW d, Sound(d), Store(d), NEW target, IsActive(d, target), NEW state,
           state \in {"Retracted", "Superseded"}
    PROVE  LET e == Withdraw(d, target, state)
           IN /\ Store(e) /\ Gone(e) \subseteq Gone(d) /\ Revised(d, e)
              /\ DOMAIN e = Rows /\ DOMAIN e.records = DOMAIN d.records
              /\ StateOf(e, target) = state
              /\ e.records[target] = NextRevision(d.records[target], target[1], state)
<1>1. PICK lost : lost = ActiveClosure(d, target)
  OBVIOUS
<1>2. PICK f : f = AppendStates(d, {target}, state)
  OBVIOUS
<1>3. PICK g : g = AppendStates(f, lost, "Unsupported")
  OBVIOUS
<1>4. PICK e : e = Withdraw(d, target, state)
  OBVIOUS
<1>5. e = [g EXCEPT !.lexical = @ \ (lost \cup {target})]
  BY <1>1, <1>2, <1>3, <1>4 DEF Withdraw, RemoveLexical
<1>6. /\ DOMAIN f = Rows /\ f.payloads = d.payloads /\ f.blobs = d.blobs
      /\ f.lexical = d.lexical /\ f.dependencies = d.dependencies
      /\ DOMAIN f.records = DOMAIN d.records
      /\ \A r \in DOMAIN d.records :
            f.records[r] = IF r \in {target} THEN NextRevision(d.records[r], r[1], state)
                           ELSE d.records[r]
  BY <1>2, AppendStatesIs DEF Sound
<1>7. /\ DOMAIN g = Rows /\ g.payloads = f.payloads /\ g.blobs = f.blobs
      /\ g.lexical = f.lexical /\ g.dependencies = f.dependencies
      /\ DOMAIN g.records = DOMAIN f.records
      /\ \A r \in DOMAIN f.records :
            g.records[r] = IF r \in lost THEN NextRevision(f.records[r], r[1], "Unsupported")
                           ELSE f.records[r]
  BY <1>3, <1>6, AppendStatesIs
<1>8. /\ DOMAIN e = Rows /\ e.records = g.records /\ e.payloads = g.payloads
      /\ e.blobs = g.blobs /\ e.dependencies = g.dependencies
      /\ e.lexical = g.lexical \ (lost \cup {target})
  BY <1>5, <1>7 DEF Rows
<1>9. \A r : r \in lost <=> r \in Above(d, target) /\ r # target /\ IsActive(d, r)
  BY <1>1 DEF ActiveClosure, Dependents, Above
<1>10. target \in DOMAIN d.records /\ target \in Above(d, target)
  BY DescendantsClosed DEF IsActive, Exists, Above
<1>11. Reached(d, e, target, state, lost \cup {target}, {})
  <2>1. ASSUME NEW r \in DOMAIN d.records
        PROVE  e.records[r] = IF r = target THEN NextRevision(d.records[r], r[1], state)
                              ELSE IF IsActive(d, r) /\ r \in Above(d, target)
                                   THEN NextRevision(d.records[r], r[1], "Unsupported")
                              ELSE d.records[r]
    <3>1. CASE r = target
      BY <1>6, <1>7, <1>8, <1>9, <3>1
    <3>2. CASE r # target
      BY <1>6, <1>7, <1>8, <1>9, <3>2
    <3>. QED
      BY <3>1, <3>2
  <2>2. /\ DOMAIN e.records = DOMAIN d.records /\ e.dependencies = d.dependencies
        /\ e.lexical = d.lexical \ (lost \cup {target})
        /\ e.payloads = d.payloads \ {} /\ e.blobs = d.blobs \ {}
    BY <1>6, <1>7, <1>8
  <2>. QED
    BY <2>1, <2>2 DEF Reached
<1>12. Reachable(d, target, state, lost \cup {target}, {})
  BY <1>9, <1>10 DEF Reachable
<1>13. Store(e) /\ StateOf(e, target) = state /\ Gone(e) \subseteq Gone(d)
  BY <1>11, <1>12, ReachedKeeps
<1>14. Revised(d, e)
  <2>1. StateOf(d, target) # "Purged" /\ state \in RecordState
    BY DEF IsActive, RecordState
  <2>. QED
    BY <1>11, <2>1, ReachedRevises DEF Store
<1>15. e.records[target] = NextRevision(d.records[target], target[1], state)
  BY <1>10, <1>11 DEF Reached
<1>16. DOMAIN e.records = DOMAIN d.records
  BY <1>11 DEF Reached
<1>. QED
  BY <1>4, <1>8, <1>13, <1>14, <1>15, <1>16

LEMMA PurgedIs ==
    ASSUME NEW d, Sound(d), Store(d), NEW target \in DOMAIN d.records,
           StateOf(d, target) # "Purged", NEW p, p.target[1] = target,
           {pin[1] : pin \in p.invalid} = PurgeClosure(d, target)
    PROVE  LET e == Purged(d, p)
           IN /\ Store(e) /\ Gone(e) \subseteq Gone(d) \cup Above(d, target) /\ Revised(d, e)
              /\ DOMAIN e = Rows /\ DOMAIN e.records = DOMAIN d.records
<1>1. PICK below : below = {pin[1] : pin \in p.invalid}
  OBVIOUS
<1>2. PICK live : live = {r \in below : IsActive(d, r)}
  OBVIOUS
<1>3. PICK all : all = below \cup {target}
  OBVIOUS
<1>4. PICK f : f = AppendStates(d, {target}, "Purged")
  OBVIOUS
<1>5. PICK g : g = AppendStates(f, live, "Unsupported")
  OBVIOUS
<1>6. PICK h : h = RemoveLexical(g, all)
  OBVIOUS
<1>7. PICK e : e = Purged(d, p)
  OBVIOUS
<1>8. e = RemovePayloads(h, all)
  BY <1>1, <1>2, <1>3, <1>4, <1>5, <1>6, <1>7, Zenon DEF Purged
<1>9. /\ DOMAIN f = Rows /\ f.payloads = d.payloads /\ f.blobs = d.blobs
      /\ f.lexical = d.lexical /\ f.dependencies = d.dependencies
      /\ DOMAIN f.records = DOMAIN d.records
      /\ \A r \in DOMAIN d.records :
            f.records[r] = IF r \in {target} THEN NextRevision(d.records[r], r[1], "Purged")
                           ELSE d.records[r]
  BY <1>4, AppendStatesIs DEF Sound
<1>10. /\ DOMAIN g = Rows /\ g.payloads = f.payloads /\ g.blobs = f.blobs
       /\ g.lexical = f.lexical /\ g.dependencies = f.dependencies
       /\ DOMAIN g.records = DOMAIN f.records
       /\ \A r \in DOMAIN f.records :
             g.records[r] = IF r \in live THEN NextRevision(f.records[r], r[1], "Unsupported")
                            ELSE f.records[r]
  BY <1>5, <1>9, AppendStatesIs
<1>11. /\ DOMAIN h = Rows /\ h.records = g.records /\ h.payloads = g.payloads
       /\ h.blobs = g.blobs /\ h.dependencies = g.dependencies /\ h.lexical = g.lexical \ all
  BY <1>6, <1>10 DEF RemoveLexical, Rows
<1>12. /\ DOMAIN e = Rows /\ e.records = g.records /\ e.payloads = g.payloads \ all
       /\ e.blobs = g.blobs \ all /\ e.dependencies = g.dependencies
       /\ e.lexical = g.lexical \ all
  BY <1>8, <1>11 DEF RemovePayloads, Rows
<1>13. \A r : r \in below <=> r \in Above(d, target) /\ r # target /\ StateOf(d, r) # "Purged"
  BY <1>1 DEF PurgeClosure, Dependents, Above
<1>14. target \in Above(d, target) /\ target \notin live
  BY <1>2, <1>13, DescendantsClosed DEF Above
<1>15. \A r : r \in live <=> r \in Above(d, target) /\ r # target /\ IsActive(d, r)
  BY <1>2, <1>13 DEF IsActive
<1>16. Reached(d, e, target, "Purged", all, all)
  <2>1. ASSUME NEW r \in DOMAIN d.records
        PROVE  e.records[r] = IF r = target THEN NextRevision(d.records[r], r[1], "Purged")
                              ELSE IF IsActive(d, r) /\ r \in Above(d, target)
                                   THEN NextRevision(d.records[r], r[1], "Unsupported")
                              ELSE d.records[r]
    <3>1. CASE r = target
      BY <1>9, <1>10, <1>12, <1>14, <3>1
    <3>2. CASE r # target
      BY <1>9, <1>10, <1>12, <1>15, <3>2
    <3>. QED
      BY <3>1, <3>2
  <2>2. /\ DOMAIN e.records = DOMAIN d.records /\ e.dependencies = d.dependencies
        /\ e.lexical = d.lexical \ all
        /\ e.payloads = d.payloads \ all /\ e.blobs = d.blobs \ all
    BY <1>9, <1>10, <1>12
  <2>. QED
    BY <2>1, <2>2 DEF Reached
<1>17. Reachable(d, target, "Purged", all, all)
  <2>1. \A r \in Above(d, target) : StateOf(d, r) # "Purged" => r \in all
    BY <1>3, <1>13
  <2>2. \A r \in DOMAIN d.records : (IsActive(d, r) /\ r \in Above(d, target)) \/ r = target => r \in all
    BY <1>3, <1>13 DEF IsActive
  <2>3. all \subseteq Above(d, target)
    BY <1>3, <1>13, <1>14
  <2>. QED
    BY <2>1, <2>2, <2>3 DEF Reachable
<1>18. Store(e) /\ Gone(e) \subseteq Gone(d) \cup Above(d, target)
  BY <1>16, <1>17, ReachedKeeps
<1>19. Revised(d, e)
  <2>1. "Purged" \in RecordState
    BY DEF RecordState
  <2>. QED
    BY <1>16, <2>1, ReachedRevises DEF Store
<1>20. DOMAIN e.records = DOMAIN d.records
  BY <1>16 DEF Reached
<1>. QED
  BY <1>7, <1>12, <1>18, <1>19, <1>20
-----------------------------------------------------------------------------
(* The invariant. *)

\* An operation committed only through a memory that was open.
Rooted ==
    /\ root \in {"absent", "dir", "manifest", "engine", "ready"}
    /\ opening \in {"none", "create", "initialize", "load"}
    /\ open => root = "ready"
    /\ DOMAIN operations \subseteq Ops
    /\ DOMAIN operations # {} => root = "ready"

Memory == Store(db) /\ Dense(db) /\ Clear(db, derived) /\ Rooted

\* What every step leaves.
Held == Memory' /\ Revised(db, db')

LEMMA ClearStays ==
    ASSUME NEW d, NEW e, NEW x, Clear(d, x), Gone(e) \subseteq Gone(d)
    PROVE  Clear(e, x)
BY DEF Clear

LEMMA SameRevised ==
    ASSUME NEW d, NEW e, \A r \in DOMAIN d.records : r \in DOMAIN e.records /\ e.records[r] = d.records[r]
    PROVE  Revised(d, e)
BY DEF Revised

LEMMA AddedKeeps ==
    ASSUME NEW d, NEW e, NEW k, NEW r, NEW rec, Added(d, e, k, r, rec)
    PROVE  /\ \A x \in DOMAIN d.records : x \in DOMAIN e.records /\ e.records[x] = d.records[x]
           /\ DOMAIN e.records = DOMAIN d.records \cup {r} /\ e.records[r] = rec
BY DEF Added, WithRow

LEMMA CommitRooted ==
    ASSUME Rooted, NEW op, Begin(op), NEW receipt, operations' = WithRow(operations, op, receipt),
           UNCHANGED rootVars
    PROVE  Rooted'
BY BeginIsNew DEF Rooted, Begin, rootVars, WithRow

\* A batch of an operation that only adds to the records or withdraws some.
LEMMA CommitHolds ==
    ASSUME Memory, NEW op, Begin(op), NEW receipt, NEW e, Commit(op, receipt, e),
           derived' = derived, Store(e), Dense(e), Gone(e) \subseteq Gone(db), Revised(db, e)
    PROVE  Held
<1>1. db' = e /\ root' = root /\ opening' = opening /\ open' = open /\ open
  BY DEF Commit, rootVars, Begin
<1>2. Clear(e, derived)
  BY ClearStays DEF Memory
<1>3. Rooted'
  BY CommitRooted DEF Memory, Commit
<1>4. Memory'
  BY <1>1, <1>2, <1>3 DEF Memory
<1>. QED
  BY <1>1, <1>4 DEF Held

LEMMA MemoryFacts ==
    ASSUME IInv, Memory
    PROVE  /\ Sound(db) /\ DOMAIN db = Rows /\ Store(db) /\ Dense(db)
           /\ DOMAIN db.records \subseteq RecordRef
           /\ \A r \in DOMAIN db.records :
                 /\ db.records[r] \in Record
                 /\ db.records[r].scope \in Scopes \cup RecordRef
<1>1. Sound(db) /\ DOMAIN db = Rows /\ DOMAIN db.records \subseteq RecordRef
  BY DEF IInv, Sound, Heads
<1>2. Store(db) /\ Dense(db)
  BY DEF Memory
<1>3. \A r \in DOMAIN db.records : db.records[r] \in Record
  BY <1>2 DEF Store, Typed, RowOK
<1>4. \A r \in DOMAIN db.records : db.records[r].scope \in Scopes \cup RecordRef
  BY <1>3 DEF Record
<1>. QED
  BY <1>1, <1>2, <1>3, <1>4

\* The batch that adds one record to the store.
LEMMA AddedHolds ==
    ASSUME Memory, NEW op, Begin(op), NEW receipt, NEW e, Commit(op, receipt, e),
           derived' = derived, NEW k, NEW r, NEW rec, Added(db, e, k, r, rec)
    PROVE  Held
<1>1. Revised(db, e)
  BY AddedKeeps, SameRevised
<1>2. Store(e) /\ Dense(e) /\ Gone(e) \subseteq Gone(db)
  BY DEF Added
<1>. QED
  BY <1>1, <1>2, CommitHolds
-----------------------------------------------------------------------------
(* Every action keeps it. *)

LEMMA CaptureEvidenceHolds ==
    ASSUME IInv, Memory, NEW op, Begin(op), NEW actor, NEW class \in Classes, NEW life,
           NEW scope \in Scopes, CaptureEvidence(op, actor, class, life, scope)
    PROVE  Held
<1>1. PICK e : e = NewId(db, "Evidence")
  OBVIOUS
<1>2. Commit(op, {<<e, 1>>}, InsertEvidence(db, e, class, scope)) /\ derived' = derived
  BY <1>1 DEF CaptureEvidence
<1>3. class \in EvidenceClasses /\ scope \in Scopes \cup RecordRef
  BY MemoryAssumption
<1>4. Added(db, InsertEvidence(db, e, class, scope), "Evidence", e, NewRecord(scope, class, {}, {}))
  BY <1>1, <1>3, MemoryFacts, EvidenceAdded
<1>. QED
  BY <1>2, <1>4, AddedHolds

LEMMA CreateArtifactCollectionHolds ==
    ASSUME IInv, Memory, NEW op, Begin(op), NEW actor, CreateArtifactCollection(op, actor)
    PROVE  Held
<1>1. PICK c : c = NewId(db, "ArtifactCollection")
  OBVIOUS
<1>2. PICK e : e = Insert(db, c, NewRecord(c, "None", {}, {}))
  OBVIOUS
<1>3. /\ Room(db, "ArtifactCollection", 1) /\ Commit(op, {<<c, 1>>}, e) /\ derived' = derived
  BY <1>1, <1>2 DEF CreateArtifactCollection
<1>4. c \in RecordRef
  BY <1>1, <1>3, MemoryFacts, FreshId DEF Kinds, NewId
<1>5. Added(db, e, "ArtifactCollection", c, NewRecord(c, "None", {}, {}))
  BY <1>1, <1>2, <1>4, MemoryFacts, CollectionAdded
<1>. QED
  BY <1>3, <1>5, AddedHolds

LEMMA ArtifactsHold ==
    ASSUME IInv, Memory, NEW op, Begin(op), NEW receipt, NEW e, Commit(op, receipt, e),
           derived' = derived, NEW kind \in ArtifactKinds, NEW parent, IsActive(db, parent),
           parent[1] \in ArtifactKinds \cup {"ArtifactCollection"}, NEW n \in Nat,
           Room(db, kind, n), Room(db, "Evidence", n), Filed(db, e, kind, parent, n)
    PROVE  Held
<1>1. Sound(db) /\ Store(db) /\ Dense(db)
  BY MemoryFacts
<1>2. /\ Store(e) /\ Dense(e) /\ Gone(e) \subseteq Gone(db)
      /\ \A r \in DOMAIN db.records : r \in DOMAIN e.records /\ e.records[r] = db.records[r]
  BY <1>1, ArtifactsAdded
<1>. QED
  BY <1>2, SameRevised, CommitHolds

LEMMA ImportArtifactSnapshotHolds ==
    ASSUME IInv, Memory, NEW op, Begin(op), NEW actor,
           NEW c \in OfKind(db, "ArtifactCollection"), NEW n,
           ImportArtifactSnapshot(op, actor, c, n)
    PROVE  Held
<1>1. PICK s : s = NewId(db, "ArtifactSnapshot")
  OBVIOUS
<1>2. PICK f : f = InsertArtifacts(db, "ArtifactSnapshot", c, 1)
  OBVIOUS
<1>3. PICK e : e = [f EXCEPT !.blobs = @ \cup {s}]
  OBVIOUS
<1>4. PICK receipt : receipt = {<<s, 1>>, <<NewId(db, "Evidence"), 1>>}
  OBVIOUS
<1>5. /\ IsActive(db, c) /\ Room(db, "ArtifactSnapshot", 1) /\ Room(db, "Evidence", 1)
      /\ Commit(op, receipt, e) /\ derived' = derived
  BY <1>1, <1>2, <1>3, <1>4 DEF ImportArtifactSnapshot
<1>6. "ArtifactSnapshot" \in Kinds /\ "ArtifactSnapshot" \in ArtifactKinds
  BY DEF Kinds, ArtifactKinds
<1>7. DOMAIN f = Rows /\ f.blobs = db.blobs
  BY <1>2, MemoryFacts DEF InsertArtifacts, InsertAll, Rows
<1>8. /\ e.records = f.records /\ e.payloads = f.payloads /\ e.lexical = f.lexical
      /\ e.dependencies = f.dependencies /\ e.blobs = db.blobs \cup {s}
  BY <1>3, <1>7 DEF Rows
<1>9. {NthId(db, "ArtifactSnapshot", i) : i \in 1..1} = {s}
  BY <1>1 DEF NewId
<1>10. Filed(db, e, "ArtifactSnapshot", c, 1)
  BY <1>2, <1>8, <1>9 DEF Filed
<1>11. c[1] = "ArtifactCollection"
  BY DEF OfKind
<1>. QED
  BY <1>5, <1>6, <1>10, <1>11, ArtifactsHold

LEMMA CreateArtifactPassagesHolds ==
    ASSUME IInv, Memory, NEW op, Begin(op), NEW actor,
           NEW snapshot \in OfKind(db, "ArtifactSnapshot"), NEW expected,
           NEW ordinals \in (SUBSET (1..2)) \ {{}},
           CreateArtifactPassages(op, actor, snapshot, expected, ordinals)
    PROVE  Held
<1>1. PICK n : n = Cardinality(ordinals)
  OBVIOUS
<1>2. n \in Nat
  BY <1>1, CardinalityOfFew
<1>3. PICK f : f = InsertArtifacts(db, "ArtifactPassage", snapshot, n)
  OBVIOUS
<1>4. PICK e : e = [f EXCEPT !.ordinals = @ \cup ({snapshot} \X ordinals)]
  OBVIOUS
<1>5. PICK receipt : receipt = {Pin(f, r) : r \in DOMAIN f.records \ DOMAIN db.records}
  OBVIOUS
<1>6. /\ IsActive(db, snapshot) /\ Room(db, "ArtifactPassage", n) /\ Room(db, "Evidence", n)
      /\ Commit(op, receipt, e) /\ derived' = derived
  BY <1>1, <1>3, <1>4, <1>5 DEF CreateArtifactPassages
<1>7. "ArtifactPassage" \in Kinds /\ "ArtifactPassage" \in ArtifactKinds
  BY DEF Kinds, ArtifactKinds
<1>8. DOMAIN f = Rows /\ f.blobs = db.blobs
  BY <1>3, MemoryFacts DEF InsertArtifacts, InsertAll, Rows
<1>9. /\ e.records = f.records /\ e.payloads = f.payloads /\ e.lexical = f.lexical
      /\ e.dependencies = f.dependencies /\ e.blobs = db.blobs
  BY <1>4, <1>8 DEF Rows
<1>10. Filed(db, e, "ArtifactPassage", snapshot, n)
  BY <1>3, <1>9 DEF Filed
<1>11. snapshot[1] \in ArtifactKinds
  BY DEF OfKind, ArtifactKinds
<1>. QED
  BY <1>2, <1>6, <1>7, <1>10, <1>11, ArtifactsHold

LEMMA CreateClaimHolds ==
    ASSUME IInv, Memory, NEW op, Begin(op), NEW actor, NEW domain \in Domains,
           NEW scope \in Scopes \cup OfKind(db, "ArtifactCollection"), NEW E \in EvidenceSets,
           CreateClaim(op, actor, domain, scope, E)
    PROVE  Held
<1>1. PICK c : c = NewId(db, "Claim")
  OBVIOUS
<1>2. /\ SourcesActive(db, E, scope) /\ derived' = derived
      /\ Commit(op, {<<c, 1>>}, InsertClaim(db, c, domain, scope, E))
  BY <1>1 DEF CreateClaim
<1>3. domain \in ClaimDomains
  BY MemoryAssumption
<1>4. scope \in Scopes \cup RecordRef
  BY MemoryFacts DEF OfKind
<1>5. E \in SUBSET RecordRef /\ \A s \in E : s[1] = "Evidence"
  BY MemoryFacts DEF EvidenceSets, OfKind
<1>6. Added(db, InsertClaim(db, c, domain, scope, E), "Claim", c, NewRecord(scope, domain, E, {}))
  BY <1>1, <1>2, <1>3, <1>4, <1>5, MemoryFacts, ClaimAdded
<1>. QED
  BY <1>2, <1>6, AddedHolds

\* Evidence and a claim that rests on it, one after the other.
LEMMA EvidenceThenClaim ==
    ASSUME NEW d, Store(d), Dense(d), DOMAIN d = Rows, NEW class \in EvidenceClasses,
           NEW domain \in ClaimDomains, NEW scope \in Scopes \cup RecordRef,
           NewId(d, "Evidence") \in RecordRef
    PROVE  LET e == NewId(d, "Evidence")
               c == NewId(d, "Claim")
               one == InsertEvidence(d, e, class, scope)
               two == InsertClaim(one, c, domain, scope, {e})
           IN /\ Added(d, one, "Evidence", e, NewRecord(scope, class, {}, {}))
              /\ Added(one, two, "Claim", c, NewRecord(scope, domain, {e}, {}))
<1>1. PICK e : e = NewId(d, "Evidence")
  OBVIOUS
<1>2. PICK c : c = NewId(d, "Claim")
  OBVIOUS
<1>3. PICK one : one = InsertEvidence(d, e, class, scope)
  OBVIOUS
<1>4. PICK rec : rec = NewRecord(scope, class, {}, {})
  OBVIOUS
<1>5. Added(d, one, "Evidence", e, rec)
  BY <1>1, <1>3, <1>4, EvidenceAdded
<1>6. rec.state = "Active" /\ rec.scope = scope
  BY <1>4, NewRecordFields
<1>7. /\ Store(one) /\ Dense(one) /\ DOMAIN one = Rows /\ NewId(one, "Claim") = c
      /\ e[1] = "Evidence"
  BY <1>2, <1>5 DEF Added, Kinds
<1>8. e \in DOMAIN one.records /\ one.records[e] = rec
  BY <1>5, AddedKeeps
<1>9. SourcesActive(one, {e}, scope)
  BY <1>6, <1>8 DEF SourcesActive, IsActive, Exists, StateOf
<1>10. {e} \in SUBSET RecordRef /\ \A s \in {e} : s[1] = "Evidence"
  BY <1>1, <1>7
<1>11. Added(one, InsertClaim(one, c, domain, scope, {e}), "Claim", c,
             NewRecord(scope, domain, {e}, {}))
  BY <1>7, <1>9, <1>10, ClaimAdded
<1>. QED
  BY <1>1, <1>2, <1>3, <1>4, <1>5, <1>11

LEMMA RememberUserClaimHolds ==
    ASSUME IInv, Memory, NEW op, Begin(op), NEW domain \in Domains, NEW scope \in Scopes,
           RememberUserClaim(op, domain, scope)
    PROVE  Held
<1>1. PICK e : e = NewId(db, "Evidence")
  OBVIOUS
<1>2. PICK c : c = NewId(db, "Claim")
  OBVIOUS
<1>3. PICK one : one = InsertEvidence(db, e, "UserAssertion", scope)
  OBVIOUS
<1>4. PICK two : two = InsertClaim(one, c, domain, scope, {e})
  OBVIOUS
<1>5. /\ Room(db, "Evidence", 1) /\ derived' = derived
      /\ Commit(op, {<<e, 1>>, <<c, 1>>}, two)
  BY <1>1, <1>2, <1>3, <1>4 DEF RememberUserClaim
<1>6. e \in RecordRef
  BY <1>1, <1>5, MemoryFacts, FreshId DEF Kinds, NewId
<1>7. domain \in ClaimDomains /\ "UserAssertion" \in EvidenceClasses /\ scope \in Scopes \cup RecordRef
  BY MemoryAssumption DEF EvidenceClasses
<1>8. /\ Added(db, one, "Evidence", e, NewRecord(scope, "UserAssertion", {}, {}))
      /\ Added(one, two, "Claim", c, NewRecord(scope, domain, {e}, {}))
  BY <1>1, <1>2, <1>3, <1>4, <1>6, <1>7, MemoryFacts, EvidenceThenClaim
<1>9. \A x \in DOMAIN db.records : x \in DOMAIN two.records /\ two.records[x] = db.records[x]
  <2>1. \A x \in DOMAIN db.records : x \in DOMAIN one.records /\ one.records[x] = db.records[x]
    BY <1>8, AddedKeeps
  <2>2. \A x \in DOMAIN one.records : x \in DOMAIN two.records /\ two.records[x] = one.records[x]
    BY <1>8, AddedKeeps
  <2>. QED
    BY <2>1, <2>2
<1>10. Store(two) /\ Dense(two) /\ Gone(two) \subseteq Gone(db)
  BY <1>8 DEF Added
<1>. QED
  BY <1>5, <1>9, <1>10, SameRevised, CommitHolds

LEMMA CreateSemanticRelationHolds ==
    ASSUME IInv, Memory, NEW op, Begin(op), NEW actor, NEW kind \in RelationKinds,
           NEW from \in Truths(db), NEW to \in Truths(db), NEW E \in EvidenceSets,
           CreateSemanticRelation(op, actor, kind, from, to, E)
    PROVE  Held
<1>1. PICK r : r = NewId(db, "SemanticRelation")
  OBVIOUS
<1>2. PICK scope : scope = db.records[from].scope
  OBVIOUS
<1>3. /\ IsActive(db, from) /\ IsActive(db, to) /\ db.records[to].scope = scope
      /\ SourcesActive(db, E, scope) /\ derived' = derived
      /\ Commit(op, {<<r, 1>>}, InsertRelation(db, r, kind, scope, from, to, E))
  BY <1>1, <1>2 DEF CreateSemanticRelation
<1>4. kind \in SemanticRelationKinds
  BY MemoryAssumption
<1>5. /\ from \in DOMAIN db.records /\ to \in DOMAIN db.records
      /\ from \in RecordRef /\ to \in RecordRef /\ scope \in Scopes \cup RecordRef
  BY <1>2, <1>3, MemoryFacts DEF IsActive, Exists
<1>6. E \in SUBSET RecordRef
  BY MemoryFacts DEF EvidenceSets, OfKind
<1>7. ASSUME NEW s \in E \cup {from, to}
      PROVE  RelationEnd(db, s, kind, scope, {from, to})
  <2>1. IsActive(db, s) /\ db.records[s].scope = scope
    BY <1>2, <1>3 DEF SourcesActive
  <2>. QED
    BY <2>1, MemoryFacts, ActiveStays DEF RelationEnd
<1>8. Added(db, InsertRelation(db, r, kind, scope, from, to, E), "SemanticRelation", r,
            NewRecord(scope, kind, E, {from, to}))
  BY <1>1, <1>4, <1>5, <1>6, <1>7, MemoryFacts, RelationAdded
<1>. QED
  BY <1>3, <1>8, AddedHolds

LEMMA RetractHolds ==
    ASSUME IInv, Memory, NEW op, Begin(op), NEW actor, NEW r, NEW n, Retract(op, actor, r, n)
    PROVE  Held
<1>1. PICK e : e = Withdraw(db, r, "Retracted")
  OBVIOUS
<1>2. /\ IsActive(db, r) /\ derived' = derived
      /\ Commit(op, WithdrawReceipt(db, r), e)
  BY <1>1 DEF Retract
<1>3. /\ Store(e) /\ Gone(e) \subseteq Gone(db) /\ Revised(db, e)
      /\ DOMAIN e.records = DOMAIN db.records
  BY <1>1, <1>2, MemoryFacts, Withdrawn
<1>4. Dense(e)
  BY <1>3, SameIds, MemoryFacts
<1>. QED
  BY <1>2, <1>3, <1>4, CommitHolds

LEMMA CorrectUserClaimHolds ==
    ASSUME IInv, Memory, NEW op, Begin(op), NEW target \in OfKind(db, "Claim"), NEW n,
           CorrectUserClaim(op, target, n)
    PROVE  Held
<1>1. PICK scope : scope = db.records[target].scope
  OBVIOUS
<1>2. PICK domain : domain = db.records[target].label
  OBVIOUS
<1>3. PICK e : e = NewId(db, "Evidence")
  OBVIOUS
<1>4. PICK c : c = NewId(db, "Claim")
  OBVIOUS
<1>5. PICK r : r = NewId(db, "SemanticRelation")
  OBVIOUS
<1>6. PICK w : w = Withdraw(db, target, "Superseded")
  OBVIOUS
<1>7. PICK one : one = InsertEvidence(w, e, "UserCorrection", scope)
  OBVIOUS
<1>8. PICK two : two = InsertClaim(one, c, domain, scope, {e})
  OBVIOUS
<1>9. PICK f : f = InsertRelation(two, r, "Supersedes", scope, c, target, {e})
  OBVIOUS
<1>10. PICK receipt :
         receipt = WithdrawReceipt(db, target) \cup {<<e, 1>>, <<c, 1>>, <<r, 1>>}
  OBVIOUS
<1>11. /\ IsActive(db, target) /\ domain \in Admissible("UserCorrection")
       /\ Room(db, "Evidence", 1) /\ Room(db, "Claim", 1)
       /\ derived' = derived /\ Commit(op, receipt, f)
  BY <1>1, <1>2, <1>3, <1>4, <1>5, <1>6, <1>7, <1>8, <1>9, <1>10 DEF CorrectUserClaim
<1>12. /\ "Evidence" \in Kinds /\ "Claim" \in Kinds /\ "SemanticRelation" \in Kinds
       /\ "UserCorrection" \in EvidenceClasses /\ "Supersedes" \in SemanticRelationKinds
       /\ domain \in ClaimDomains
  BY <1>11 DEF Kinds, EvidenceClasses, SemanticRelationKinds, Admissible, UserDomains, ClaimDomains
<1>13. /\ target \in DOMAIN db.records /\ target \in RecordRef /\ db.records[target] \in Record
       /\ scope \in Scopes \cup RecordRef /\ target \notin Gone(db)
  BY <1>1, <1>11, MemoryFacts, ActiveStays DEF OfKind
<1>14. e \in RecordRef /\ c \in RecordRef
  BY <1>3, <1>4, <1>11, <1>12, MemoryFacts, FreshId DEF NewId
<1>15. /\ Store(w) /\ Gone(w) \subseteq Gone(db) /\ Revised(db, w) /\ DOMAIN w = Rows
       /\ DOMAIN w.records = DOMAIN db.records /\ StateOf(w, target) = "Superseded"
       /\ w.records[target] = NextRevision(db.records[target], target[1], "Superseded")
  BY <1>6, <1>11, MemoryFacts, Withdrawn
<1>16. w.records[target].scope = scope
  BY <1>1, <1>13, <1>15, NextRevisionFields DEF RecordState
<1>17. Dense(w) /\ \A k \in Kinds : NewId(w, k) = NewId(db, k)
  BY <1>15, MemoryFacts, SameIds
<1>18. NewId(w, "Evidence") = e /\ NewId(w, "Claim") = c /\ NewId(w, "SemanticRelation") = r
  BY <1>3, <1>4, <1>5, <1>12, <1>17
<1>19. /\ Added(w, one, "Evidence", e, NewRecord(scope, "UserCorrection", {}, {}))
       /\ Added(one, two, "Claim", c, NewRecord(scope, domain, {e}, {}))
  BY <1>7, <1>8, <1>12, <1>13, <1>14, <1>15, <1>17, <1>18, EvidenceThenClaim
<1>20. /\ \A x \in DOMAIN w.records : x \in DOMAIN one.records /\ one.records[x] = w.records[x]
       /\ e \in DOMAIN one.records
       /\ one.records[e] = NewRecord(scope, "UserCorrection", {}, {})
  BY <1>19, AddedKeeps
<1>21. /\ \A x \in DOMAIN one.records : x \in DOMAIN two.records /\ two.records[x] = one.records[x]
       /\ c \in DOMAIN two.records
       /\ two.records[c] = NewRecord(scope, domain, {e}, {})
  BY <1>19, AddedKeeps
<1>22. /\ Store(two) /\ Dense(two) /\ DOMAIN two = Rows /\ Gone(two) \subseteq Gone(db)
       /\ NewId(two, "SemanticRelation") = r
  <2>1. NewId(one, "SemanticRelation") = r
    BY <1>12, <1>18, <1>19 DEF Added
  <2>2. NewId(two, "SemanticRelation") = r
    BY <1>12, <1>19, <2>1 DEF Added
  <2>. QED
    BY <1>15, <1>19, <2>2 DEF Added
<1>23. /\ IsActive(two, e) /\ two.records[e].scope = scope
       /\ IsActive(two, c) /\ two.records[c].scope = scope
  <2>1. two.records[e] = NewRecord(scope, "UserCorrection", {}, {}) /\ e \in DOMAIN two.records
    BY <1>20, <1>21
  <2>. QED
    BY <1>21, <2>1 DEF IsActive, Exists, StateOf, NewRecord
<1>24. /\ target \in DOMAIN two.records /\ two.records[target].scope = scope
       /\ StateOf(two, target) = "Superseded"
  <2>1. target \in DOMAIN two.records /\ two.records[target] = w.records[target]
    BY <1>13, <1>15, <1>20, <1>21
  <2>. QED
    BY <1>15, <1>16, <2>1 DEF StateOf
<1>25. ASSUME NEW s \in {e} \cup {c, target}
       PROVE  RelationEnd(two, s, "Supersedes", scope, {c, target})
  <2>1. CASE s = target
    BY <1>13, <1>22, <1>24, <2>1 DEF RelationEnd
  <2>2. CASE s \in {e, c}
    BY <1>22, <1>23, <2>2, ActiveStays DEF RelationEnd
  <2>. QED
    BY <2>1, <2>2
<1>26. {e} \in SUBSET RecordRef
  BY <1>14
<1>27. Added(two, f, "SemanticRelation", r, NewRecord(scope, "Supersedes", {e}, {c, target}))
  BY <1>9, <1>12, <1>13, <1>14, <1>22, <1>25, <1>26, RelationAdded
<1>28. \A x \in DOMAIN two.records : x \in DOMAIN f.records /\ f.records[x] = two.records[x]
  BY <1>27, AddedKeeps
<1>29. Revised(db, f)
  BY <1>15, <1>20, <1>21, <1>28 DEF Revised
<1>30. Store(f) /\ Dense(f) /\ Gone(f) \subseteq Gone(db)
  BY <1>22, <1>27 DEF Added
<1>. QED
  BY <1>11, <1>29, <1>30, CommitHolds

\* A purge erases what it reaches, the signals and traces included.
LEMMA CommitPurgeHolds ==
    ASSUME IInv, Memory, NEW op, Begin(op), CommitPurge(op)
    PROVE  Held
<1>1. PICK target : target = preview.target[1]
  OBVIOUS
<1>2. PICK all : all = PurgeClosure(db, target) \cup {target}
  OBVIOUS
<1>3. PICK G : G = {s[1] : s \in preview.signals}
  OBVIOUS
<1>4. PICK H : H = preview.traces
  OBVIOUS
<1>5. PICK y : y = PurgeTraces(PurgeSignals(derived, G), H)
  OBVIOUS
<1>6. PICK e : e = Purged(db, preview)
  OBVIOUS
<1>7. /\ preview # None /\ PreviewCurrent(preview) /\ derived' = y
      /\ db' = e /\ UNCHANGED rootVars
  BY <1>3, <1>4, <1>5, <1>6 DEF CommitPurge, Commit
<1>8. target \in DOMAIN db.records /\ DerivedOK(db, derived)
  BY <1>1, <1>7 DEF IInv, Shown
<1>9. /\ preview.invalid = {Pin(db, r) : r \in PurgeClosure(db, target)}
      /\ G = SignalsOf(derived, all) /\ H = TracesOf(derived, all)
  BY <1>1, <1>2, <1>3, <1>4, <1>7, CurrentPreviewIs, Zenon
<1>10. StateOf(db, target) # "Purged"
  BY <1>1, <1>7 DEF PreviewCurrent
<1>11. {pin[1] : pin \in preview.invalid} = PurgeClosure(db, target)
  <2>1. PICK below : below = PurgeClosure(db, target)
    OBVIOUS
  <2>2. preview.invalid = {Pin(db, r) : r \in below} /\ \A r \in below : Pin(db, r)[1] = r
    BY <1>9, <2>1 DEF Pin
  <2>3. ASSUME NEW r \in below
        PROVE  r \in {pin[1] : pin \in preview.invalid}
    <3>1. Pin(db, r) \in preview.invalid /\ Pin(db, r)[1] = r
      BY <2>2
    <3>. QED
      BY <3>1, Zenon
  <2>4. ASSUME NEW pin \in preview.invalid
        PROVE  pin[1] \in below
    BY <2>2
  <2>. QED
    BY <2>1, <2>3, <2>4, Zenon
<1>12. /\ Store(e) /\ Gone(e) \subseteq Gone(db) \cup Above(db, target) /\ Revised(db, e)
       /\ DOMAIN e.records = DOMAIN db.records
  BY <1>1, <1>6, <1>8, <1>10, <1>11, MemoryFacts, PurgedIs
<1>13. Dense(e)
  BY <1>12, MemoryFacts, SameIds
<1>14. \A r \in Gone(e) : r \in Gone(db) \/ r \in all
  <2> SUFFICES ASSUME NEW r \in Gone(e), r \notin Gone(db)
               PROVE  r \in all
    OBVIOUS
  <2>1. r \in Above(db, target) /\ r \in DOMAIN db.records
    BY <1>12 DEF Gone
  <2>2. StateOf(db, r) # "Purged"
    BY <2>1, MemoryFacts, GoneClosed DEF Store, Purges
  <2>. QED
    BY <1>2, <2>1, <2>2 DEF PurgeClosure, Dependents, Above
<1>15. /\ ErasedSignals(derived, y, G) /\ ErasedTraces(derived, y, H)
  BY <1>5, <1>8, PurgeErasesRows DEF DerivedOK
<1>16. Clear(e, y)
  <2>1. ASSUME NEW s \in DOMAIN y.signals, y.signals[s].state # "Purged"
        PROVE  y.signals[s].from[1] \notin Gone(e) /\ y.signals[s].to[1] \notin Gone(e)
    <3>1. s \in DOMAIN derived.signals /\ SignalOK(db, derived, derived.signals[s])
      BY <1>8, <1>15 DEF ErasedSignals, DerivedOK, Signals
    <3>2. s \notin G
      <4>1. ASSUME s \in G
            PROVE  y.signals[s].state = "Purged"
        BY <1>15, <3>1, <4>1, PurgedSignalFields DEF ErasedSignals, SignalOK
      <4>. QED
        BY <2>1, <4>1
    <3>3. y.signals[s] = derived.signals[s]
      BY <1>15, <3>1, <3>2 DEF ErasedSignals
    <3>4. derived.signals[s].from[1] \notin all /\ derived.signals[s].to[1] \notin all
      BY <1>9, <2>1, <3>1, <3>2, <3>3 DEF SignalsOf
    <3>5. derived.signals[s].from[1] \notin Gone(db) /\ derived.signals[s].to[1] \notin Gone(db)
      BY <2>1, <3>1, <3>3 DEF Memory, Clear
    <3>. QED
      BY <1>14, <3>3, <3>4, <3>5
  <2>2. ASSUME NEW t \in DOMAIN y.traces, y.traces[t].payload, NEW p \in y.traces[t].candidates
        PROVE  p[1] \notin Gone(e)
    <3>1. t \in DOMAIN derived.traces /\ TraceOK(db, derived, derived.traces[t])
      BY <1>8, <1>15 DEF ErasedTraces, DerivedOK, Traces
    <3>2. t \notin H
      <4>1. ASSUME t \in H
            PROVE  ~y.traces[t].payload
        BY <1>15, <3>1, <4>1, PurgedTraceFields DEF ErasedTraces, TraceOK
      <4>. QED
        BY <2>2, <4>1
    <3>3. y.traces[t] = derived.traces[t]
      BY <1>15, <3>1, <3>2 DEF ErasedTraces
    <3>4. p[1] \notin all
      BY <1>9, <2>2, <3>1, <3>2, <3>3 DEF TracesOf
    <3>5. p[1] \notin Gone(db)
      BY <2>2, <3>1, <3>3 DEF Memory, Clear
    <3>. QED
      BY <1>14, <3>4, <3>5
  <2>. QED
    BY <2>1, <2>2 DEF Clear
<1>17. Rooted'
  BY CommitRooted DEF Memory, CommitPurge, Commit
<1>. QED
  BY <1>7, <1>12, <1>13, <1>16, <1>17 DEF Held, Memory
-----------------------------------------------------------------------------
(* Steps that leave the records as they are. *)

SameRecords(d, e) ==
    /\ e.records = d.records /\ e.payloads = d.payloads /\ e.blobs = d.blobs
    /\ e.lexical = d.lexical /\ e.dependencies = d.dependencies

LEMMA SameStore ==
    ASSUME NEW d, NEW e, SameRecords(d, e), Store(d), Dense(d)
    PROVE  Store(e) /\ Dense(e) /\ Gone(e) = Gone(d) /\ Revised(d, e)
<1>1. /\ \A r : IsActive(e, r) <=> IsActive(d, r)
      /\ \A r : StateOf(e, r) = StateOf(d, r)
  BY DEF SameRecords, IsActive, Exists, StateOf
<1>2. Purges(e) = Purges(d) /\ Gone(e) = Gone(d)
  BY <1>1 DEF SameRecords, Purges, Gone
<1>3. Typed(e)
  BY DEF SameRecords, Store, Typed
<1>4. Edges(e)
  BY <1>1 DEF SameRecords, Store, Edges, EdgeOK, Supported
<1>5. Readable(e)
  BY <1>1 DEF SameRecords, Store, Readable
<1>6. Erasing(e)
  BY <1>1, <1>2 DEF SameRecords, Store, Erasing
<1>7. Dense(e) /\ Revised(d, e)
  BY SameIds, SameRevised DEF SameRecords
<1>. QED
  BY <1>2, <1>3, <1>4, <1>5, <1>6, <1>7 DEF Store

LEMMA PreviewPurgeHolds ==
    ASSUME IInv, Memory, NEW r, PreviewPurge(r)
    PROVE  Held
<1>1. /\ db' = db /\ derived' = derived /\ operations' = operations
      /\ root' = root /\ opening' = opening /\ open' = open
  BY DEF PreviewPurge, rootVars
<1>2. Revised(db, db)
  BY SameRevised
<1>. QED
  BY <1>1, <1>2 DEF Held, Memory, Rooted

LEMMA StillHolds ==
    ASSUME IInv, Memory, UNCHANGED memVars
    PROVE  Held
<1>1. /\ db' = db /\ derived' = derived /\ operations' = operations
      /\ root' = root /\ opening' = opening /\ open' = open
  BY DEF memVars
<1>2. Revised(db, db)
  BY SameRevised
<1>. QED
  BY <1>1, <1>2 DEF Held, Memory, Rooted

LEMMA RootStepHolds ==
    ASSUME IInv, Memory, RootStep
    PROVE  Held
<1>1. db' = db /\ derived' = derived /\ operations' = operations
  BY DEF RootStep, CreateRoot, WriteManifest, OpenRoot, OpenEngine, LoadMetadata, Crash, dbVars
<1>2. Rooted
  BY DEF Memory
<1>3. Rooted'
  <2>1. CASE CreateRoot
    BY <1>1, <1>2, <2>1 DEF Rooted, CreateRoot
  <2>2. CASE WriteManifest
    BY <1>1, <1>2, <2>2 DEF Rooted, WriteManifest
  <2>3. CASE OpenRoot
    BY <1>1, <1>2, <2>3 DEF Rooted, OpenRoot
  <2>4. CASE OpenEngine
    BY <1>1, <1>2, <2>4 DEF Rooted, OpenEngine
  <2>5. CASE LoadMetadata
    BY <1>1, <1>2, <2>5 DEF Rooted, LoadMetadata
  <2>6. CASE Crash
    BY <1>1, <1>2, <2>6 DEF Rooted, Crash
  <2>. QED
    BY <2>1, <2>2, <2>3, <2>4, <2>5, <2>6 DEF RootStep
<1>4. Revised(db, db)
  BY SameRevised
<1>. QED
  BY <1>1, <1>3, <1>4 DEF Held, Memory

LEMMA WithCaseIs ==
    ASSUME NEW d, DOMAIN d = Rows, NEW scopes, NEW C
    PROVE  SameRecords(d, WithCase(d, scopes, C))
BY DEF SameRecords, WithCase, Rows

\* A recall that leaves a case and no operation.
LEMMA CaseHolds ==
    ASSUME IInv, Memory, NEW scopes, NEW C, db' = WithCase(db, scopes, C),
           UNCHANGED <<derived, operations, rootVars>>
    PROVE  Held
<1>1. SameRecords(db, db')
  BY MemoryFacts, WithCaseIs
<1>2. Store(db') /\ Dense(db') /\ Gone(db') = Gone(db) /\ Revised(db, db')
  BY <1>1, MemoryFacts, SameStore
<1>3. Clear(db', derived)
  BY <1>2, ClearStays DEF Memory
<1>4. Rooted'
  BY DEF Rooted, Memory, rootVars
<1>. QED
  BY <1>2, <1>3, <1>4 DEF Held, Memory

LEMMA BeginTurnRecallHolds ==
    ASSUME IInv, Memory, NEW op, Begin(op), NEW class \in Classes, NEW scope \in Scopes, NEW C,
           BeginTurnRecall(op, class, scope, C)
    PROVE  Held
<1>1. PICK e : e = NewId(db, "Evidence")
  OBVIOUS
<1>2. PICK one : one = InsertEvidence(db, e, class, scope)
  OBVIOUS
<1>3. PICK f : f = WithCase(one, {scope}, C)
  OBVIOUS
<1>4. Commit(op, {<<e, 1>>}, f) /\ derived' = derived
  BY <1>1, <1>2, <1>3 DEF BeginTurnRecall
<1>5. class \in EvidenceClasses /\ scope \in Scopes \cup RecordRef
  BY MemoryAssumption
<1>6. Added(db, one, "Evidence", e, NewRecord(scope, class, {}, {}))
  BY <1>1, <1>2, <1>5, MemoryFacts, EvidenceAdded
<1>7. Store(one) /\ Dense(one) /\ DOMAIN one = Rows /\ Gone(one) \subseteq Gone(db)
  BY <1>6 DEF Added
<1>8. SameRecords(one, f)
  BY <1>3, <1>7, WithCaseIs
<1>9. Store(f) /\ Dense(f) /\ Gone(f) = Gone(one)
  BY <1>7, <1>8, SameStore
<1>10. Revised(db, f)
  <2>1. \A x \in DOMAIN db.records : x \in DOMAIN one.records /\ one.records[x] = db.records[x]
    BY <1>6, AddedKeeps
  <2>. QED
    BY <1>8, <2>1, SameRevised DEF SameRecords
<1>. QED
  BY <1>4, <1>7, <1>9, <1>10, CommitHolds

LEMMA RecordRecallFeedbackHolds ==
    ASSUME IInv, Memory, NEW op, Begin(op), NEW actor, NEW case, NEW candidates,
           RecordRecallFeedback(op, actor, case, candidates)
    PROVE  Held
<1>1. PICK e : e = [db EXCEPT !.feedback = @ \cup {<<case, candidates>>}]
  OBVIOUS
<1>2. Commit(op, candidates, e) /\ derived' = derived
  BY <1>1 DEF RecordRecallFeedback
<1>3. SameRecords(db, e)
  BY <1>1, MemoryFacts DEF SameRecords, Rows
<1>4. Store(e) /\ Dense(e) /\ Gone(e) \subseteq Gone(db) /\ Revised(db, e)
  BY <1>3, MemoryFacts, SameStore
<1>. QED
  BY <1>2, <1>4, CommitHolds
-----------------------------------------------------------------------------
(* Derived rows: what is computed is computed from active records. *)

LEMMA DerivedHolds ==
    ASSUME IInv, Memory, NEW op, Begin(op), NEW receipt, NEW x, CommitDerived(op, receipt, x),
           Clear(db, x)
    PROVE  Held
<1>1. /\ db' = db /\ derived' = x /\ UNCHANGED rootVars
      /\ operations' = WithRow(operations, op, receipt)
  BY DEF CommitDerived, Commit
<1>2. Rooted'
  BY <1>1, CommitRooted DEF Memory
<1>3. Revised(db, db)
  BY SameRevised
<1>. QED
  BY <1>1, <1>2, <1>3 DEF Held, Memory

LEMMA SameClear ==
    ASSUME NEW d, NEW x, NEW y, Clear(d, x), y.signals = x.signals, y.traces = x.traces
    PROVE  Clear(d, y)
BY DEF Clear

LEMMA ErasureClears ==
    ASSUME NEW d, NEW x, NEW y, NEW G, NEW H, DerivedOK(d, x), Clear(d, x),
           ErasedSignals(x, y, G), ErasedTraces(x, y, H)
    PROVE  Clear(d, y)
<1>1. ASSUME NEW s \in DOMAIN y.signals, y.signals[s].state # "Purged"
      PROVE  y.signals[s].from[1] \notin Gone(d) /\ y.signals[s].to[1] \notin Gone(d)
  <2>1. s \in DOMAIN x.signals /\ SignalOK(d, x, x.signals[s])
    BY DEF ErasedSignals, DerivedOK, Signals
  <2>2. s \notin G
    <3>1. ASSUME s \in G
          PROVE  y.signals[s].state = "Purged"
      BY <2>1, <3>1, PurgedSignalFields DEF ErasedSignals, SignalOK
    <3>. QED
      BY <1>1, <3>1
  <2>3. y.signals[s] = x.signals[s]
    BY <2>1, <2>2 DEF ErasedSignals
  <2>. QED
    BY <1>1, <2>1, <2>3 DEF Clear
<1>2. ASSUME NEW t \in DOMAIN y.traces, y.traces[t].payload, NEW p \in y.traces[t].candidates
      PROVE  p[1] \notin Gone(d)
  <2>1. t \in DOMAIN x.traces /\ TraceOK(d, x, x.traces[t])
    BY DEF ErasedTraces, DerivedOK, Traces
  <2>2. t \notin H
    <3>1. ASSUME t \in H
          PROVE  ~y.traces[t].payload
      BY <2>1, <3>1, PurgedTraceFields DEF ErasedTraces, TraceOK
    <3>. QED
      BY <1>2, <3>1
  <2>3. y.traces[t] = x.traces[t]
    BY <2>1, <2>2 DEF ErasedTraces
  <2>. QED
    BY <1>2, <2>1, <2>3 DEF Clear
<1>. QED
  BY <1>1, <1>2 DEF Clear

LEMMA PutRelationEvaluatorHolds ==
    ASSUME IInv, Memory, NEW op, Begin(op), NEW e, NEW expected, NEW dims,
           PutRelationEvaluator(op, e, expected, dims)
    PROVE  Held
<1>1. PICK y : y = [derived EXCEPT !.evaluators =
         WithRow(@, e, [revision |-> expected + 1, state |-> "Active", dims |-> dims])]
  OBVIOUS
<1>2. CommitDerived(op, {<<EvaluatorRef(e), expected + 1>>}, y)
  BY <1>1 DEF PutRelationEvaluator
<1>3. y.signals = derived.signals /\ y.traces = derived.traces
  BY <1>1 DEF IInv, DerivedOK, DerivedRows
<1>. QED
  BY <1>2, <1>3, SameClear, DerivedHolds DEF Memory

LEMMA PutRelationProfileHolds ==
    ASSUME IInv, Memory, NEW op, Begin(op), NEW p, NEW expected, NEW evaluator, NEW heads,
           PutRelationProfile(op, p, expected, evaluator, heads)
    PROVE  Held
<1>1. PICK y : y = [derived EXCEPT !.profiles =
         WithRow(@, p, [revision |-> expected + 1, state |-> "Active",
                        evaluator |-> evaluator, heads |-> heads])]
  OBVIOUS
<1>2. CommitDerived(op, {<<ProfileRef(p), expected + 1>>}, y)
  BY <1>1 DEF PutRelationProfile
<1>3. y.signals = derived.signals /\ y.traces = derived.traces
  BY <1>1 DEF IInv, DerivedOK, DerivedRows
<1>. QED
  BY <1>2, <1>3, SameClear, DerivedHolds DEF Memory

LEMMA SetRelationEvaluatorStateHolds ==
    ASSUME IInv, Memory, NEW op, Begin(op), NEW e, NEW expected, NEW state,
           SetRelationEvaluatorState(op, e, expected, state)
    PROVE  Held
<1>1. PICK y : y = [derived EXCEPT !.evaluators[e].revision = @ + 1, !.evaluators[e].state = state]
  OBVIOUS
<1>2. PICK G : G = IF state = "Purged" THEN SignalsOfEvaluator(derived, e) ELSE {}
  OBVIOUS
<1>3. PICK H : H = IF state = "Purged" THEN TracesOfEvaluator(derived, e) ELSE {}
  OBVIOUS
<1>4. PICK z : z = PurgeTraces(PurgeSignals(y, G), H)
  OBVIOUS
<1>5. CommitDerived(op, {<<EvaluatorRef(e), expected + 1>>} \cup SignalPins(z, G), z)
  BY <1>1, <1>2, <1>3, <1>4 DEF SetRelationEvaluatorState
<1>6. DOMAIN derived = DerivedRows /\ DerivedOK(db, derived)
  BY DEF IInv, DerivedOK
<1>7. /\ DOMAIN y = DerivedRows /\ y.signals = derived.signals /\ y.scores = derived.scores
      /\ y.byEvaluator = derived.byEvaluator /\ y.traces = derived.traces
  BY <1>1, <1>6 DEF DerivedRows
<1>8. ErasedSignals(derived, z, G) /\ ErasedTraces(derived, z, H)
  BY <1>4, <1>7, PurgeErasesRows
<1>. QED
  BY <1>5, <1>6, <1>8, ErasureClears, DerivedHolds DEF Memory

LEMMA SetRelationProfileStateHolds ==
    ASSUME IInv, Memory, NEW op, Begin(op), NEW p, NEW expected, NEW state,
           SetRelationProfileState(op, p, expected, state)
    PROVE  Held
<1>1. PICK y : y = [derived EXCEPT !.profiles[p].revision = @ + 1, !.profiles[p].state = state]
  OBVIOUS
<1>2. PICK G : G = IF state = "Purged" THEN SignalsOfProfile(derived, p) ELSE {}
  OBVIOUS
<1>3. PICK H : H = IF state = "Purged" THEN TracesOfProfile(derived, p) ELSE {}
  OBVIOUS
<1>4. PICK z : z = PurgeTraces(PurgeSignals(y, G), H)
  OBVIOUS
<1>5. CommitDerived(op, {<<ProfileRef(p), expected + 1>>} \cup SignalPins(z, G), z)
  BY <1>1, <1>2, <1>3, <1>4 DEF SetRelationProfileState
<1>6. DOMAIN derived = DerivedRows /\ DerivedOK(db, derived)
  BY DEF IInv, DerivedOK
<1>7. /\ DOMAIN y = DerivedRows /\ y.signals = derived.signals /\ y.scores = derived.scores
      /\ y.byEvaluator = derived.byEvaluator /\ y.traces = derived.traces
  BY <1>1, <1>6 DEF DerivedRows
<1>8. ErasedSignals(derived, z, G) /\ ErasedTraces(derived, z, H)
  BY <1>4, <1>7, PurgeErasesRows
<1>. QED
  BY <1>5, <1>6, <1>8, ErasureClears, DerivedHolds DEF Memory

\* One more signal between records that are not gone.
LEMMA SignalPutClears ==
    ASSUME NEW d, NEW x, NEW y, NEW evaluator, NEW profile, NEW new, NEW s, Clear(d, x),
           SignalPut(x, y, evaluator, profile, new, s),
           new.from[1] \notin Gone(d), new.to[1] \notin Gone(d)
    PROVE  Clear(d, y)
<1>1. PICK row : row = NewSignal(evaluator, profile, new)
  OBVIOUS
<1>2. row.from = new.from /\ row.to = new.to
  BY <1>1 DEF NewSignal
<1>3. y.traces = x.traces /\ y.signals = WithRow(x.signals, s, row)
  BY <1>1 DEF SignalPut
<1>4. /\ DOMAIN y.signals = DOMAIN x.signals \cup {s} /\ y.signals[s] = row
      /\ \A u \in DOMAIN x.signals : u # s => y.signals[u] = x.signals[u]
  BY <1>3 DEF WithRow
<1>5. ASSUME NEW u \in DOMAIN y.signals, y.signals[u].state # "Purged"
      PROVE  y.signals[u].from[1] \notin Gone(d) /\ y.signals[u].to[1] \notin Gone(d)
  <2>1. CASE u = s
    BY <1>2, <1>4, <2>1
  <2>2. CASE u # s
    BY <1>4, <1>5, <2>2 DEF Clear
  <2>. QED
    BY <2>1, <2>2
<1>. QED
  BY <1>3, <1>5 DEF Clear

LEMMA FitsIsThere ==
    ASSUME Memory, NEW x, NEW profile, NEW new, SignalFits(x, profile, new)
    PROVE  new.from[1] \notin Gone(db) /\ new.to[1] \notin Gone(db)
BY ActiveStays DEF Memory, SignalFits, PinCurrent

LEMMA PutRelationSignalsHolds ==
    ASSUME IInv, Memory, NEW op, Begin(op), NEW evaluator, NEW profile,
           NEW new1, NEW new2, new1.expected \in Nat,
           PutRelationSignals(op, evaluator, profile, new1, new2)
    PROVE  Held
<1>1. PICK one : one = WithSignal(derived, evaluator, profile, new1)
  OBVIOUS
<1>2. PICK x : x = IF new1 = new2 THEN one ELSE WithSignal(one, evaluator, profile, new2)
  OBVIOUS
<1>3. PICK changed : changed = {s \in DOMAIN x.signals :
                 s \notin DOMAIN derived.signals \/ x.signals[s] # derived.signals[s]}
  OBVIOUS
<1>4. /\ JointlyCurrent(derived, evaluator, profile)
      /\ SignalFits(derived, profile, new1) /\ SignalFits(derived, profile, new2)
      /\ CommitDerived(op, SignalPins(x, changed), x)
  BY <1>1, <1>2, <1>3 DEF PutRelationSignals
<1>5. DerivedOK(db, derived) /\ DOMAIN derived = DerivedRows
  BY DEF IInv, DerivedOK
<1>6. SignalPut(derived, one, evaluator, profile, new1, SignalId(derived, profile, new1))
  BY <1>1, <1>5, WithSignalPuts
<1>7. Clear(db, one) /\ DOMAIN one = DerivedRows
  BY <1>4, <1>6, FitsIsThere, SignalPutClears DEF Memory, SignalPut
<1>8. Clear(db, x)
  <2>1. CASE new1 = new2
    BY <1>2, <1>7, <2>1
  <2>2. CASE new1 # new2
    <3>1. SignalPut(one, x, evaluator, profile, new2, SignalId(one, profile, new2))
      BY <1>2, <1>7, <2>2, WithSignalPuts
    <3>. QED
      BY <1>4, <1>7, <3>1, FitsIsThere, SignalPutClears
  <2>. QED
    BY <2>1, <2>2
<1>. QED
  BY <1>4, <1>8, DerivedHolds

LEMMA ShadowActivateHolds ==
    ASSUME IInv, Memory, NEW op, Begin(op), NEW case, NEW evaluator, NEW profile, NEW C,
           ShadowActivate(op, case, evaluator, profile, C)
    PROVE  Held
<1>1. PICK row : row = [evaluator |-> evaluator, profile |-> profile, candidates |-> C,
           contributions |-> Contributions(db, derived, evaluator, profile, C),
           payload |-> TRUE]
  OBVIOUS
<1>2. PICK t : t = Cardinality(DOMAIN derived.traces) + 1
  OBVIOUS
<1>3. PICK y : y = [derived EXCEPT !.traces = WithRow(@, t, row)]
  OBVIOUS
<1>4. /\ \A pin \in C : PinCurrent(db, pin)
      /\ CommitDerived(op, {<<<<"ActivationTrace", t>>, 1>>}, y)
  BY <1>1, <1>2, <1>3 DEF ShadowActivate
<1>5. y.signals = derived.signals /\ y.traces = WithRow(derived.traces, t, row)
  BY <1>3 DEF IInv, DerivedOK, DerivedRows
<1>6. \A pin \in C : pin[1] \notin Gone(db)
  BY <1>4, ActiveStays DEF Memory, PinCurrent
<1>7. Clear(db, y)
  <2>1. /\ DOMAIN y.traces = DOMAIN derived.traces \cup {t} /\ y.traces[t].candidates = C
        /\ \A u \in DOMAIN derived.traces : u # t => y.traces[u] = derived.traces[u]
    BY <1>1, <1>5 DEF WithRow
  <2>. QED
    BY <1>5, <1>6, <2>1 DEF Memory, Clear
<1>. QED
  BY <1>4, <1>7, DerivedHolds
-----------------------------------------------------------------------------
(* Steps. *)

LEMMA MemoryStepHolds ==
    ASSUME IInv, Memory, MemoryStep
    PROVE  Held
<1>1. PICK op \in Ops : Begin(op) /\
      \/ \E actor \in Actors, class \in Classes, life \in {"Direct", "Completed"},
            scope \in Scopes : CaptureEvidence(op, actor, class, life, scope)
      \/ \E actor \in Actors : CreateArtifactCollection(op, actor)
      \/ \E actor \in Actors, c \in OfKind(db, "ArtifactCollection"), n \in 1..2 :
            ImportArtifactSnapshot(op, actor, c, n)
      \/ \E actor \in Actors, s \in OfKind(db, "ArtifactSnapshot"), n \in 1..2,
            ordinals \in (SUBSET (1..2)) \ {{}} : CreateArtifactPassages(op, actor, s, n, ordinals)
      \/ \E actor \in Actors, domain \in Domains, scope \in Scopes
              \cup OfKind(db, "ArtifactCollection"), E \in EvidenceSets :
            CreateClaim(op, actor, domain, scope, E)
      \/ \E domain \in Domains, scope \in Scopes : RememberUserClaim(op, domain, scope)
      \/ \E actor \in Actors, kind \in RelationKinds, from, to \in Truths(db),
            E \in EvidenceSets : CreateSemanticRelation(op, actor, kind, from, to, E)
      \/ \E actor \in Actors, r \in DOMAIN db.records, n \in 1..3 : Retract(op, actor, r, n)
      \/ \E c \in OfKind(db, "Claim"), n \in 1..2 : CorrectUserClaim(op, c, n)
      \/ CommitPurge(op)
  BY DEF MemoryStep
<1>2. CASE \E actor \in Actors, class \in Classes, life \in {"Direct", "Completed"},
              scope \in Scopes : CaptureEvidence(op, actor, class, life, scope)
  BY <1>1, <1>2, CaptureEvidenceHolds
<1>3. CASE \E actor \in Actors : CreateArtifactCollection(op, actor)
  BY <1>1, <1>3, CreateArtifactCollectionHolds
<1>4. CASE \E actor \in Actors, c \in OfKind(db, "ArtifactCollection"), n \in 1..2 :
              ImportArtifactSnapshot(op, actor, c, n)
  BY <1>1, <1>4, ImportArtifactSnapshotHolds
<1>5. CASE \E actor \in Actors, s \in OfKind(db, "ArtifactSnapshot"), n \in 1..2,
              ordinals \in (SUBSET (1..2)) \ {{}} :
                 CreateArtifactPassages(op, actor, s, n, ordinals)
  BY <1>1, <1>5, CreateArtifactPassagesHolds
<1>6. CASE \E actor \in Actors, domain \in Domains, scope \in Scopes
                \cup OfKind(db, "ArtifactCollection"), E \in EvidenceSets :
              CreateClaim(op, actor, domain, scope, E)
  BY <1>1, <1>6, CreateClaimHolds
<1>7. CASE \E domain \in Domains, scope \in Scopes : RememberUserClaim(op, domain, scope)
  BY <1>1, <1>7, RememberUserClaimHolds
<1>8. CASE \E actor \in Actors, kind \in RelationKinds, from, to \in Truths(db),
              E \in EvidenceSets : CreateSemanticRelation(op, actor, kind, from, to, E)
  BY <1>1, <1>8, CreateSemanticRelationHolds
<1>9. CASE \E actor \in Actors, r \in DOMAIN db.records, n \in 1..3 : Retract(op, actor, r, n)
  BY <1>1, <1>9, RetractHolds
<1>10. CASE \E c \in OfKind(db, "Claim"), n \in 1..2 : CorrectUserClaim(op, c, n)
  BY <1>1, <1>10, CorrectUserClaimHolds
<1>11. CASE CommitPurge(op)
  BY <1>1, <1>11, CommitPurgeHolds
<1>. QED
  BY <1>1, <1>2, <1>3, <1>4, <1>5, <1>6, <1>7, <1>8, <1>9, <1>10, <1>11

LEMMA RecallStepHolds ==
    ASSUME IInv, Memory, RecallStep
    PROVE  Held
<1>1. CASE \E scopes \in SUBSET Scopes : \E C \in Matched(scopes) : Recall(scopes, C)
  <2>1. PICK scopes \in SUBSET Scopes : \E C \in Matched(scopes) : Recall(scopes, C)
    BY <1>1
  <2>2. PICK C \in Matched(scopes) : Recall(scopes, C)
    BY <2>1
  <2>. QED
    BY <2>2, CaseHolds DEF Recall
<1>2. CASE \E op \in Ops, scope \in Scopes : \E C \in Matched({scope}) :
              Begin(op) /\ \E class \in Classes : BeginTurnRecall(op, class, scope, C)
  BY <1>2, BeginTurnRecallHolds
<1>3. CASE \E op \in Ops, scope \in Scopes : \E C \in Matched({scope}) :
              RetryTurnRecall(op, scope, C)
  <2>1. PICK op \in Ops, scope \in Scopes : \E C \in Matched({scope}) :
              RetryTurnRecall(op, scope, C)
    BY <1>3
  <2>2. PICK C \in Matched({scope}) : RetryTurnRecall(op, scope, C)
    BY <2>1
  <2>3. /\ \E e \in OfKind(db, "Evidence") : db' = WithCase(db, {scope}, C \ {e})
        /\ UNCHANGED <<derived, operations, rootVars>>
    BY <2>2 DEF RetryTurnRecall
  <2>. QED
    BY <2>3, CaseHolds
<1>4. CASE \E op \in Ops, actor \in Actors, case \in Cases : Begin(op) /\
              \E cs \in SUBSET db.cases[case].candidates :
                 RecordRecallFeedback(op, actor, case, cs)
  BY <1>4, RecordRecallFeedbackHolds
<1>. QED
  BY <1>1, <1>2, <1>3, <1>4 DEF RecallStep

LEMMA SignalStepHolds ==
    ASSUME IInv, Memory, SignalStep
    PROVE  Held
<1>1. PICK op \in Ops : Begin(op) /\ (DefinitionStep(op) \/ ComputeStep(op))
  BY DEF SignalStep
<1>2. CASE DefinitionStep(op)
  <2>1. CASE \E e \in Evaluators, n \in 0..2, dims \in SUBSET Dimensions :
                PutRelationEvaluator(op, e, n, dims)
    BY <1>1, <2>1, PutRelationEvaluatorHolds
  <2>2. CASE \E p \in Profiles, n \in 0..2, e \in DefinitionPins(derived.evaluators),
                heads \in SUBSET Dimensions : PutRelationProfile(op, p, n, e, heads)
    BY <1>1, <2>2, PutRelationProfileHolds
  <2>3. CASE \E e \in DOMAIN derived.evaluators, n \in 1..3, state \in {"Retracted", "Purged"} :
                SetRelationEvaluatorState(op, e, n, state)
    BY <1>1, <2>3, SetRelationEvaluatorStateHolds
  <2>4. CASE \E p \in DOMAIN derived.profiles, n \in 1..3, state \in {"Retracted", "Purged"} :
                SetRelationProfileState(op, p, n, state)
    BY <1>1, <2>4, SetRelationProfileStateHolds
  <2>. QED
    BY <1>2, <2>1, <2>2, <2>3, <2>4 DEF DefinitionStep
<1>3. CASE ComputeStep(op)
  <2>1. ASSUME NEW e \in DefinitionPins(derived.evaluators),
               NEW p \in DefinitionPins(derived.profiles), NEW new1 \in NewSignals,
               NEW new2 \in NewSignals, PutRelationSignals(op, e, p, new1, new2)
        PROVE  Held
    <3>1. new1.expected \in Nat
      BY DEF NewSignals
    <3>. QED
      BY <1>1, <2>1, <3>1, PutRelationSignalsHolds
  <2>2. ASSUME NEW e \in DefinitionPins(derived.evaluators),
               NEW p \in DefinitionPins(derived.profiles), NEW case \in Cases,
               NEW C \in SUBSET db.cases[case].candidates, ShadowActivate(op, case, e, p, C)
        PROVE  Held
    BY <1>1, <2>2, ShadowActivateHolds
  <2>. QED
    BY <1>3, <2>1, <2>2 DEF ComputeStep
<1>. QED
  BY <1>1, <1>2, <1>3

LEMMA NextHolds ==
    ASSUME IInv, Memory, [SignalsNext]_memVars
    PROVE  Held
<1>1. CASE RootStep
  BY <1>1, RootStepHolds
<1>2. CASE MemoryStep
  BY <1>2, MemoryStepHolds
<1>3. CASE \E r \in DOMAIN db.records : r[1] \in PurgeKinds /\ PreviewPurge(r)
  BY <1>3, PreviewPurgeHolds
<1>4. CASE RecallStep
  BY <1>4, RecallStepHolds
<1>5. CASE SignalStep
  BY <1>5, SignalStepHolds
<1>6. CASE UNCHANGED memVars
  BY <1>6, StillHolds
<1>. QED
  BY <1>1, <1>2, <1>3, <1>4, <1>5, <1>6 DEF SignalsNext, Next

LEMMA InitMemory ==
    ASSUME Init
    PROVE  Memory
<1>1. /\ db = EmptyDb /\ derived = EmptyDerived /\ operations = [op \in {} |-> {}]
      /\ root = "absent" /\ opening = "none" /\ open = FALSE
  BY DEF Init, InitKernel
<1>2. /\ DOMAIN db.records = {} /\ db.payloads = {} /\ db.blobs = {} /\ db.lexical = {}
      /\ db.dependencies = {} /\ DOMAIN derived.signals = {} /\ DOMAIN derived.traces = {}
  BY <1>1 DEF EmptyDb, EmptyDerived
<1>3. Store(db)
  BY <1>2 DEF Store, Typed, Edges, Readable, Erasing, Gone
<1>4. Dense(db)
  <2>1. ASSUME NEW k \in Kinds
        PROVE  OfKind(db, k) = {k} \X (1..0)
    BY <1>2 DEF OfKind
  <2>. QED
    BY <2>1 DEF Dense
<1>5. Clear(db, derived)
  BY <1>2 DEF Clear
<1>6. Rooted
  BY <1>1 DEF Rooted
<1>. QED
  BY <1>3, <1>4, <1>5, <1>6 DEF Memory

\* The records and what is derived from them are sound in every reachable
\* state of a store with recall, signals and shadow activation.
THEOREM MemoryInvariance == SignalsSpec => []Memory
<1>1. Init => IInv /\ Memory
  BY InitHolds, InitMemory
<1>2. IInv /\ Memory /\ [SignalsNext]_memVars => (IInv /\ Memory)'
  BY NextKeeps, NextHolds DEF Kept, Held
<1>. QED
  BY <1>1, <1>2, PTL DEF SignalsSpec
-----------------------------------------------------------------------------
(* What the invariant says. *)

\* What recall may return and rest on, below the record itself.
Ground(d) ==
    {x \in DOMAIN d.records :
       /\ x[1] \in {"Evidence", "ArtifactCollection"} \cup ArtifactKinds
       /\ IsActive(d, x) /\ d.records[x].label # "AssistantUtterance"}

\* Evidence of an artifact rests on the artifact, an artifact on its evidence
\* and its parent: support never leaves the ground.
LEMMA GroundClosed ==
    ASSUME NEW d, Store(d), NEW e \in d.dependencies, e[2] \in Ground(d)
    PROVE  e[1] \in Ground(d)
<1>1. /\ e[1] \in DOMAIN d.records /\ e[2] \in DOMAIN d.records /\ EdgeOK(d, e)
      /\ RowOK(e[1], d.records[e[1]]) /\ RowOK(e[2], d.records[e[2]])
      /\ IsActive(d, e[2]) => Supported(d, e)
  BY DEF Store, Edges, Typed
<1>2. e[2][1] \in {"Evidence", "ArtifactCollection"} \cup ArtifactKinds /\ IsActive(d, e[2])
  BY DEF Ground
<1>3. IsActive(d, e[1])
  BY <1>1, <1>2 DEF Supported, RowOK, ArtifactKinds
<1>4. CASE e[2][1] = "Evidence"
  BY <1>1, <1>3, <1>4 DEF Ground, EdgeOK, RowOK, ArtifactKinds
<1>5. CASE e[2][1] \in ArtifactKinds
  BY <1>1, <1>3, <1>5 DEF Ground, EdgeOK, RowOK, ArtifactKinds
<1>. QED
  BY <1>1, <1>2, <1>4, <1>5 DEF EdgeOK

LEMMA RecallIsSound ==
    ASSUME Store(db)
    PROVE  RecallSound
<1> SUFFICES ASSUME NEW r \in DOMAIN db.records, Recallable(db, r), NEW a \in Ancestors(db, r)
             PROVE  /\ IsActive(db, a) /\ a \in db.payloads
                    /\ db.records[a].label # "AssistantUtterance"
  BY DEF RecallSound
<1>1. PICK edges : edges = {<<e[2], e[1]>> : e \in db.dependencies}
  OBVIOUS
<1>2. RowOK(r, db.records[r]) /\ IsActive(db, r) /\ r \in db.payloads
  BY DEF Store, Typed, Recallable
<1>3. r[1] \in {"Evidence", "Claim"}
  BY <1>2 DEF Recallable, RowOK, KernelKinds, ArtifactKinds
<1>4. db.records[r].label # "AssistantUtterance"
  <2>1. CASE r[1] = "Evidence"
    BY <2>1 DEF Recallable
  <2>2. CASE r[1] = "Claim"
    BY <1>2, <2>2 DEF RowOK
  <2>. QED
    BY <1>3, <2>1, <2>2
<1>5. Closed(edges, {r} \cup Ground(db))
  <2> SUFFICES ASSUME NEW f \in edges, f[1] \in {r} \cup Ground(db)
               PROVE  f[2] \in {r} \cup Ground(db)
    BY DEF Closed
  <2>1. PICK e \in db.dependencies : f = <<e[2], e[1]>>
    BY <1>1
  <2>2. f[1] = e[2] /\ f[2] = e[1]
    BY <2>1
  <2>3. CASE e[2] \in Ground(db)
    BY <2>2, <2>3, GroundClosed
  <2>4. CASE e[2] = r /\ r[1] = "Evidence"
    <3>1. r \in Ground(db)
      BY <1>2, <1>4, <2>4 DEF Ground
    <3>. QED
      BY <2>2, <2>4, <3>1, GroundClosed
  <2>5. CASE e[2] = r /\ r[1] = "Claim"
    <3>1. EdgeOK(db, e) /\ e[1] \in DOMAIN db.records
      BY DEF Store, Edges
    <3>2. e[1][1] = "Evidence" /\ e[1] \in db.records[r].evidence
      BY <2>5, <3>1 DEF EdgeOK
    <3>3. EvidenceTruth(db, db.records[r].evidence)
      BY <2>5 DEF Recallable
    <3>4. e[1] \in Ground(db)
      BY <3>1, <3>2, <3>3 DEF EvidenceTruth, Ground
    <3>. QED
      BY <2>2, <3>4
  <2>. QED
    BY <1>3, <2>2, <2>3, <2>4, <2>5
<1>6. a \in {r} \cup Ground(db)
  <2>1. Descendants(edges, {r}) \subseteq {r} \cup Ground(db)
    BY <1>5, DescendantsLeast
  <2>. QED
    BY <1>1, <2>1 DEF Ancestors
<1>7. CASE a = r
  BY <1>2, <1>4, <1>7
<1>8. CASE a \in Ground(db)
  BY <1>8 DEF Ground, Store, Readable
<1>. QED
  BY <1>6, <1>7, <1>8

LEMMA PurgesErase ==
    ASSUME Store(db), Clear(db, derived)
    PROVE  PurgeErases
<1> SUFFICES ASSUME NEW r \in DOMAIN db.records, StateOf(db, r) = "Purged",
                    NEW gone, gone = {x \in Descendants(db.dependencies, {r}) : x[1] # "ProposalReview"}
             PROVE  /\ gone \cap (db.payloads \cup db.blobs \cup db.lexical) = {}
                    /\ \A x \in gone : ~IsActive(db, x)
                    /\ SignalsOf(derived, gone) = {} /\ TracesOf(derived, gone) = {}
  BY DEF PurgeErases
<1>1. gone \subseteq Gone(db)
  <2>1. Descendants(db.dependencies, {r}) \subseteq DOMAIN db.records
    BY DescendantsStored DEF Store
  <2>. QED
    BY <2>1 DEF Gone, Purges
<1>2. \A x \in gone : x \notin db.payloads /\ ~IsActive(db, x)
  BY <1>1 DEF Store, Erasing
<1>3. gone \cap (db.payloads \cup db.blobs \cup db.lexical) = {}
  BY <1>2 DEF Store, Readable
<1>4. SignalsOf(derived, gone) = {}
  BY <1>1 DEF SignalsOf, Clear
<1>5. TracesOf(derived, gone) = {}
  BY <1>1 DEF TracesOf, Clear
<1>. QED
  BY <1>2, <1>3, <1>4, <1>5

LEMMA ProjectionIsExact ==
    ASSUME Store(db)
    PROVE  ProjectionExact
BY DEF Store, Readable, ProjectionExact, TruthKinds, SnapshotReadable, OfKind

LEMMA TypesHold ==
    ASSUME IInv, Memory
    PROVE  TypeOK
<1>1. DOMAIN db.records \subseteq RecordRef /\ \A r \in DOMAIN db.records : db.records[r] \in Record
  BY MemoryFacts
<1>2. /\ db.payloads \subseteq DOMAIN db.records /\ db.blobs \subseteq db.payloads
      /\ db.lexical \subseteq db.payloads
      /\ db.dependencies \subseteq (DOMAIN db.records) \X (DOMAIN db.records)
  BY DEF Memory, Store, Readable, Edges
<1>3. \A op \in DOMAIN operations : operations[op] \in SUBSET ((RecordRef \cup DerivedRef) \X Nat)
  BY DEF IInv, Booked, Receipt
<1>. QED
  BY <1>1, <1>2, <1>3 DEF TypeOK, Memory, Rooted
-----------------------------------------------------------------------------
(* Theorems. *)

\* No active record loses its support, and support never crosses scopes,
\* whatever is retracted, corrected and purged in which order (retract,
\* correct_user_claim, commit_purge, active_dependency_closure).
THEOREM SupportIsSound == SignalsSpec => []SupportSound
<1>1. ASSUME Store(db)
      PROVE  SupportSound
  <2>1. ActiveIsSupported
    BY <1>1 DEF ActiveIsSupported, Store, Edges, Supported
  <2>2. OneScope
    BY <1>1 DEF OneScope, Store, Edges, EdgeOK
  <2>. QED
    BY <2>1, <2>2 DEF SupportSound
<1>2. Memory => SupportSound
  BY <1>1 DEF Memory
<1>. QED
  BY <1>2, MemoryInvariance, PTL

\* Every partition is well typed; what recall returns rests on active,
\* readable records all the way down; nothing derived from a purged record can
\* be read; the lexical projection is exact; and a store in which an operation
\* committed can be opened again (recallable_record, commit_purge,
\* remove_lexical_document, load_or_create_native_metadata).
THEOREM ReadsAreSound == SignalsSpec => []ReadsSound
<1>1. ASSUME IInv, Memory
      PROVE  ReadsSound
  <2>1. Store(db) /\ Clear(db, derived) /\ CommittedStoreOpens
    BY <1>1 DEF Memory, Rooted, CommittedStoreOpens
  <2>. QED
    BY <1>1, <2>1, TypesHold, RecallIsSound, PurgesErase, ProjectionIsExact DEF ReadsSound
<1>2. IInv /\ Memory => ReadsSound
  BY <1>1
<1>. QED
  BY <1>2, Invariance, MemoryInvariance, PTL

\* Revisions advance one at a time, no record is ever lost, and a purged one
\* is final (append_state_revision).
THEOREM RevisionsAlwaysAdvance == SignalsSpec => [][RevisionsAdvance]_memVars
<1>1. ASSUME IInv, Memory, [SignalsNext]_memVars
      PROVE  RevisionsAdvance
  <2>1. Revised(db, db')
    BY <1>1, NextHolds DEF Held
  <2>. QED
    BY <2>1 DEF Revised, RevisionsAdvance
<1>2. IInv /\ Memory /\ [SignalsNext]_memVars => [RevisionsAdvance]_memVars
  BY <1>1
<1>. QED
  BY <1>2, Invariance, MemoryInvariance, PTL DEF SignalsSpec

\* The same for the store without recall and signals, as native_memory has it.
THEOREM MemoryIsSound ==
    Spec => [](SupportSound /\ ReadsSound) /\ [][RevisionsAdvance]_memVars
<1>1. Spec => SignalsSpec
  <2>1. [Next]_memVars => [SignalsNext]_memVars
    BY DEF SignalsNext
  <2>. QED
    BY <2>1, PTL DEF Spec, SignalsSpec
<1>. QED
  BY <1>1, SupportIsSound, ReadsAreSound, RevisionsAlwaysAdvance, PTL
=============================================================================
