--------------------------- MODULE NativeSignals ----------------------------
(***************************************************************************)
(* Derived relation data of a native memory store: evaluators, profiles of *)
(* evaluators, signals (scores of ordered pairs of records) and the traces *)
(* of shadow activation.  All of it is pinned to exact revisions, and all  *)
(* of it goes when what it was computed from is purged.                    *)
(*                                                                         *)
(* Scores and weights are left out; which dimensions have one is kept.     *)
(***************************************************************************)
EXTENDS NativeRecall

CONSTANTS
    Evaluators, Profiles,   \* identifiers operators choose, numbers
    Dimensions,
    MaxSignals, MaxTraces

ASSUME SignalsAssumption == Evaluators \subseteq Nat /\ Profiles \subseteq Nat

EvaluatorRef(e) == <<"RelationEvaluator", e>>
ProfileRef(p) == <<"RelationProfile", p>>

\* A definition is revised by naming its head revision; 0 creates it.
HeadRevision(f, id) == IF id \in DOMAIN f THEN f[id].revision ELSE 0
MayRevise(f, id, expected) ==
    /\ HeadRevision(f, id) = expected
    /\ id \in DOMAIN f => f[id].state = "Active"

CurrentDefinition(f, pin) ==
    pin[1] \in DOMAIN f /\ f[pin[1]].revision = pin[2] /\ f[pin[1]].state = "Active"

\* relation_profile_availability is Available.
ProfileAvailable(x, p) ==
    x.profiles[p].state = "Active" /\ CurrentDefinition(x.evaluators, x.profiles[p].evaluator)

JointlyCurrent(x, evaluator, profile) ==
    /\ CurrentDefinition(x.evaluators, evaluator)
    /\ CurrentDefinition(x.profiles, profile)
    /\ ProfileAvailable(x, profile[1])
    /\ x.profiles[profile[1]].evaluator = evaluator

CommitDerived(op, receipt, x) ==
    /\ Commit(op, receipt, db) /\ derived' = x /\ UNCHANGED preview
-----------------------------------------------------------------------------
(* Evaluators and profiles. *)

PutRelationEvaluator(op, e, expected, dims) ==
    /\ dims # {}
    /\ MayRevise(derived.evaluators, e, expected)
    /\ CommitDerived(op, {<<EvaluatorRef(e), expected + 1>>},
         [derived EXCEPT !.evaluators =
            WithRow(@, e, [revision |-> expected + 1, state |-> "Active", dims |-> dims])])

PutRelationProfile(op, p, expected, evaluator, heads) ==
    /\ heads # {}
    /\ CurrentDefinition(derived.evaluators, evaluator)
    /\ heads \subseteq derived.evaluators[evaluator[1]].dims
    /\ MayRevise(derived.profiles, p, expected)
    /\ CommitDerived(op, {<<ProfileRef(p), expected + 1>>},
         [derived EXCEPT !.profiles =
            WithRow(@, p, [revision |-> expected + 1, state |-> "Active",
                           evaluator |-> evaluator, heads |-> heads])])

\* Purging a definition erases every score and trace computed with it.
SignalsOfEvaluator(x, e) ==
    {s \in DOMAIN x.signals : <<e, s>> \in x.byEvaluator /\ x.signals[s].state # "Purged"}
SignalsOfProfile(x, p) ==
    {s \in DOMAIN x.signals : x.signals[s].profile[1] = p /\ x.signals[s].state # "Purged"}
TracesOfEvaluator(x, e) == {t \in DOMAIN x.traces : x.traces[t].evaluator[1] = e}
TracesOfProfile(x, p) == {t \in DOMAIN x.traces : x.traces[t].profile[1] = p}

MayReach(rec, expected, state) ==
    rec.revision = expected /\ rec.state \notin {"Purged", state}

SignalPins(x, S) == {<<<<"RelationSignal", s>>, x.signals[s].revision>> : s \in S}

SetRelationEvaluatorState(op, e, expected, state) ==
    /\ MayReach(derived.evaluators[e], expected, state)
    /\ LET x == [derived EXCEPT !.evaluators[e].revision = @ + 1, !.evaluators[e].state = state]
           gone == IF state = "Purged" THEN SignalsOfEvaluator(derived, e) ELSE {}
           traces == IF state = "Purged" THEN TracesOfEvaluator(derived, e) ELSE {}
           after == PurgeTraces(PurgeSignals(x, gone), traces)
       IN CommitDerived(op, {<<EvaluatorRef(e), expected + 1>>} \cup SignalPins(after, gone), after)

SetRelationProfileState(op, p, expected, state) ==
    /\ MayReach(derived.profiles[p], expected, state)
    /\ LET x == [derived EXCEPT !.profiles[p].revision = @ + 1, !.profiles[p].state = state]
           gone == IF state = "Purged" THEN SignalsOfProfile(derived, p) ELSE {}
           traces == IF state = "Purged" THEN TracesOfProfile(derived, p) ELSE {}
           after == PurgeTraces(PurgeSignals(x, gone), traces)
       IN CommitDerived(op, {<<ProfileRef(p), expected + 1>>} \cup SignalPins(after, gone), after)
-----------------------------------------------------------------------------
(* Signals: one per profile and ordered pair of records, for good. *)

Pair(x, s) == <<x.signals[s].profile[1], x.signals[s].from[1], x.signals[s].to[1]>>
SignalFor(x, p, from, to) == {s \in DOMAIN x.signals : Pair(x, s) = <<p, from[1], to[1]>>}

\* Mutant: a purged pair may be scored again.
SignalFitsPurged(x, profile, new) ==
    LET found == SignalFor(x, profile[1], new.from, new.to)
    IN /\ new.from[1] # new.to[1]
       /\ new.dims # {} /\ new.dims \subseteq x.profiles[profile[1]].heads
       /\ PinCurrent(db, new.from) /\ PinCurrent(db, new.to)
       /\ IF found = {} THEN new.expected = 0
          ELSE \A s \in found : x.signals[s].revision = new.expected

\* expected is 0 for a new pair, else the head revision of its signal.
SignalFits(x, profile, new) ==
    LET found == SignalFor(x, profile[1], new.from, new.to)
    IN /\ new.from[1] # new.to[1]
       /\ new.dims # {} /\ new.dims \subseteq x.profiles[profile[1]].heads
       /\ PinCurrent(db, new.from) /\ PinCurrent(db, new.to)
       /\ IF found = {} THEN new.expected = 0
          ELSE \A s \in found : x.signals[s].revision = new.expected
                                /\ x.signals[s].state = "Active"

\* The signal in its next revision.
SignalRow(x, evaluator, profile, new, s) ==
    [x EXCEPT !.signals = WithRow(@, s, [revision |-> new.expected + 1, state |-> "Active",
                                         evaluator |-> evaluator, profile |-> profile,
                                         from |-> new.from, to |-> new.to]),
              !.scores = @ \cup {s}]
SignalId(x, profile, new) ==
    LET found == SignalFor(x, profile[1], new.from, new.to)
    IN IF found = {} THEN Cardinality(DOMAIN x.signals) + 1 ELSE CHOOSE f \in found : TRUE

\* Mutant: a revised signal stays with its first evaluator.
WithSignalOfFirst(x, evaluator, profile, new) ==
    LET s == SignalId(x, profile, new)
    IN [SignalRow(x, evaluator, profile, new, s) EXCEPT
          !.byEvaluator = IF \E i \in @ : i[2] = s THEN @ ELSE @ \cup {<<evaluator[1], s>>}]
\* A signal moves to the index of the evaluator that computed it last.
WithSignal(x, evaluator, profile, new) ==
    LET s == SignalId(x, profile, new)
    IN [SignalRow(x, evaluator, profile, new, s) EXCEPT
          !.byEvaluator = {i \in @ : i[2] # s} \cup {<<evaluator[1], s>>}]

\* A batch of one or two signals of different pairs, all or none.
PutRelationSignals(op, evaluator, profile, new1, new2) ==
    /\ new1 # new2 => <<new1.from[1], new1.to[1]>> # <<new2.from[1], new2.to[1]>>
    /\ JointlyCurrent(derived, evaluator, profile)
    /\ SignalFits(derived, profile, new1) /\ SignalFits(derived, profile, new2)
    /\ LET one == WithSignal(derived, evaluator, profile, new1)
           x == IF new1 = new2 THEN one ELSE WithSignal(one, evaluator, profile, new2)
       IN /\ Cardinality(DOMAIN x.signals) <= MaxSignals
          /\ CommitDerived(op, SignalPins(x, {s \in DOMAIN x.signals :
                 s \notin DOMAIN derived.signals \/ x.signals[s] # derived.signals[s]}), x)

\* relation_signal_availability is Available.
SignalAvailable(d, x, s) ==
    LET h == x.signals[s]
    IN /\ h.state # "Purged" /\ s \in x.scores
       /\ CurrentDefinition(x.evaluators, h.evaluator)
       /\ CurrentDefinition(x.profiles, h.profile)
       /\ PinCurrent(d, h.from) /\ PinCurrent(d, h.to)
-----------------------------------------------------------------------------
(* Shadow activation: what the signals would make of a recall case. *)

Contributions(d, x, evaluator, profile, C) ==
    {<<s, x.signals[s].revision>> : s \in {i \in DOMAIN x.signals :
        /\ x.signals[i].from \in C /\ x.signals[i].to \in C
        /\ x.signals[i].evaluator = evaluator /\ x.signals[i].profile = profile
        /\ SignalAvailable(d, x, i)}}

ShadowActivate(op, case, evaluator, profile, C) ==
    /\ C # {} /\ C \subseteq db.cases[case].candidates
    /\ JointlyCurrent(derived, evaluator, profile)
    /\ \A pin \in C : PinCurrent(db, pin)
    /\ Cardinality(DOMAIN derived.traces) < MaxTraces
    /\ LET t == Cardinality(DOMAIN derived.traces) + 1
       IN CommitDerived(op, {<<<<"ActivationTrace", t>>, 1>>},
            [derived EXCEPT !.traces = WithRow(@, t,
               [evaluator |-> evaluator, profile |-> profile, candidates |-> C,
                contributions |-> Contributions(db, derived, evaluator, profile, C),
                payload |-> TRUE])])
-----------------------------------------------------------------------------
DefinitionPins(f) == {<<id, f[id].revision>> : id \in DOMAIN f}

\* Signals callers may put: any pair of active records, any expectation.
NewSignals ==
    LET pins == {Pin(db, r) : r \in {t \in Truths(db) : IsActive(db, t)}}
    IN [from : pins, to : pins, expected : 0..2, dims : SUBSET Dimensions]

\* Only an operator defines, only the system computes.
DefinitionStep(op) ==
    \/ \E e \in Evaluators, n \in 0..2, dims \in SUBSET Dimensions :
          PutRelationEvaluator(op, e, n, dims)
    \/ \E p \in Profiles, n \in 0..2, e \in DefinitionPins(derived.evaluators),
          heads \in SUBSET Dimensions : PutRelationProfile(op, p, n, e, heads)
    \/ \E e \in DOMAIN derived.evaluators, n \in 1..3, state \in {"Retracted", "Purged"} :
          SetRelationEvaluatorState(op, e, n, state)
    \/ \E p \in DOMAIN derived.profiles, n \in 1..3, state \in {"Retracted", "Purged"} :
          SetRelationProfileState(op, p, n, state)

ComputeStep(op) ==
    \E e \in DefinitionPins(derived.evaluators), p \in DefinitionPins(derived.profiles) :
      \/ \E new1, new2 \in NewSignals : PutRelationSignals(op, e, p, new1, new2)
      \/ \E case \in Cases : \E C \in SUBSET db.cases[case].candidates :
            ShadowActivate(op, case, e, p, C)

SignalStep ==
    \E op \in Ops, actor \in Actors : Begin(op) /\
      \/ actor = "Operator" /\ DefinitionStep(op)
      \/ actor = "System" /\ ComputeStep(op)

SignalsNext == Next \/ RecallStep \/ SignalStep

SignalsSpec == Init /\ [][SignalsNext]_memVars
-----------------------------------------------------------------------------
(* Properties. *)

PurgedDefinition(f, pin) == f[pin[1]].state = "Purged"

\* No score and no trace outlives a purge of the evaluator or profile it was
\* computed with, or of a record it is about (the definitions' purges walk
\* owner indexes, a record's purge walks the record index).
DerivedErased ==
    /\ \A s \in derived.scores :
          LET h == derived.signals[s]
          IN /\ ~PurgedDefinition(derived.evaluators, h.evaluator)
             /\ ~PurgedDefinition(derived.profiles, h.profile)
             /\ \A pin \in {h.from, h.to} : StateOf(db, pin[1]) # "Purged"
    /\ \A t \in DOMAIN derived.traces : derived.traces[t].payload =>
          /\ ~PurgedDefinition(derived.evaluators, derived.traces[t].evaluator)
          /\ ~PurgedDefinition(derived.profiles, derived.traces[t].profile)
          /\ \A pin \in derived.traces[t].candidates : StateOf(db, pin[1]) # "Purged"

\* The index of an evaluator lists exactly the signals it computed last, and
\* a signal has scores as long as it is not purged.
OwnerIndexExact ==
    /\ derived.byEvaluator = {<<derived.signals[s].evaluator[1], s>> : s \in DOMAIN derived.signals}
    /\ derived.scores = {s \in DOMAIN derived.signals : derived.signals[s].state = "Active"}

\* A signal that is available was computed by the evaluator its profile names
\* now, although relation_signal_availability never compares the two.
AvailableAgrees ==
    \A s \in DOMAIN derived.signals : SignalAvailable(db, derived, s) =>
      LET h == derived.signals[s]
      IN derived.profiles[h.profile[1]].evaluator = h.evaluator

\* Signals, their owner index and their availability agree with the evaluators,
\* profiles and records they were computed from.
SignalsExact == DerivedErased /\ OwnerIndexExact /\ AvailableAgrees

\* A pair of a profile has one signal, its revisions advance by one, and once
\* purged it is never scored again.
SignalsAdvance ==
    [][/\ \A s, u \in DOMAIN derived'.signals : Pair(derived', s) = Pair(derived', u) => s = u
       /\ \A s \in DOMAIN derived.signals : derived'.signals[s] # derived.signals[s] =>
            /\ derived'.signals[s].revision = derived.signals[s].revision + 1
            /\ derived.signals[s].state = "Active"
            /\ Pair(derived', s) = Pair(derived, s)]_memVars
=============================================================================
