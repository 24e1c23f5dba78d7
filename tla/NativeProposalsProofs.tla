------------------------ MODULE NativeProposalsProofs -----------------------
(***************************************************************************)
(* Proofs about proposals of the native memory kernel: the two queues of   *)
(* proposals are exact, an open proposal pins current revisions, a claim   *)
(* is admissible to its evidence, and a decision is made once.             *)
(*                                                                         *)
(* None of it is inductive alone. Orderly adds the ledger that makes it    *)
(* so: every pin of a bundle is a dependency edge, so that invalidating a  *)
(* record reaches the proposals that pin it; a review pins the revision    *)
(* before the one it made, so that its proposal can still be decided; and  *)
(* a recall preview shows its reader what the store would. A step of the   *)
(* specification is a batch of one of six shapes (Withdraws, Decorates,    *)
(* Inserts, Enters, Judges, Decides), each shown to keep the ledger.       *)
(***************************************************************************)
EXTENDS NativeMemoryProofs, NativeProposals

ProposalsOf(d) == OfKind(d, "Proposal")
ReviewsOf(d) == OfKind(d, "ProposalReview")

HeadsOK(d) == DOMAIN d = Rows /\ \A r \in DOMAIN d.records : HeadOK(d.records[r])

\* Identifiers of evidence, proposals and reviews are drawn in order.
SerialKinds == {"Evidence"} \cup Workflow
Serial(d) == \A k \in SerialKinds : \E n \in Nat : OfKind(d, k) = {k} \X (1..n)

\* Every proposal has its bundle, every review what it reviewed, and a
\* proposal depends on all that its bundle pins.
PinsOf(b) == b.sources \cup ExistingPins(b)
PinOK(d, p, pin) ==
    pin[1] \in DOMAIN d.records /\ pin[1][1] \notin Workflow /\ <<pin[1], p>> \in d.dependencies
Bundled(d) ==
    /\ DOMAIN d.bundles = ProposalsOf(d) /\ DOMAIN d.reviews = ReviewsOf(d)
    /\ \A p \in DOMAIN d.bundles :
          WellFormed(d.bundles[p]) /\ \A pin \in PinsOf(d.bundles[p]) : PinOK(d, p, pin)

ReviewedBy(d, p) == \E v \in ReviewsOf(d) : d.reviews[v].proposal = <<p, d.records[p].revision - 1>>
Queued(d) ==
    /\ d.pending = {p \in ProposalsOf(d) : IsActive(d, p) /\ d.records[p].status = "PendingReview"}
    /\ d.awaiting = {p \in ProposalsOf(d) : IsActive(d, p) /\ AwaitsAdjudication(d.records[p].status)}
    /\ \A p \in d.awaiting : ReviewedBy(d, p)

\* A pending proposal is as it was submitted; what a review is about came
\* before the present revision, and well before a decision.
Unreviewed(d, p) ==
    /\ d.records[p].revision \in Nat \ {0}
    /\ IsActive(d, p) /\ d.records[p].status = "PendingReview" => d.records[p].revision = 1
ReviewOK(d, p, n) ==
    /\ n < d.records[p].revision
    /\ IsActive(d, p) /\ d.records[p].status \notin Undecided => n + 1 < d.records[p].revision
Reviewed(d) ==
    /\ \A p \in ProposalsOf(d) : Unreviewed(d, p)
    /\ \A v \in ReviewsOf(d) : \E p \in ProposalsOf(d), n \in Nat \ {0} :
          d.reviews[v].proposal = <<p, n>> /\ ReviewOK(d, p, n)

ClaimOK(d, rec) ==
    /\ rec.evidence # {}
    /\ \A e \in rec.evidence :
          e \in DOMAIN d.records /\ rec.label \in Admissible(d.records[e].label)
Grounded(d) == \A c \in OfKind(d, "Claim") : ClaimOK(d, d.records[c])

Book(d) == HeadsOK(d) /\ Serial(d) /\ Bundled(d) /\ Queued(d) /\ Reviewed(d) /\ Grounded(d)

\* The open proposals, but for those in X, pin current revisions.
OpenProposal(d, p) == IsActive(d, p) /\ d.records[p].status \in Undecided
Fresh(d, X) ==
    \A p \in ProposalsOf(d) \ X : OpenProposal(d, p) =>
       \A pin \in PinsOf(d.bundles[p]) : PinCurrent(d, pin)

\* What may become of a record, and of a decision, between d and e.
Final(d, e) ==
    \A p \in ProposalsOf(d) :
       d.records[p].status \notin Undecided /\ e.records[p] # d.records[p] => ~IsActive(e, p)
Forward(d, e) == Revised(d, e) /\ Final(d, e)
-----------------------------------------------------------------------------
(* Batches that withdraw: the records of W lose their state. *)

Withdraws(d, e, W) ==
    /\ DOMAIN e = Rows /\ DOMAIN e.records = DOMAIN d.records
    /\ \A r \in DOMAIN d.records :
          /\ r \in W => \E state \in RecordState \ {"Active"} :
                           e.records[r] = NextRevision(d.records[r], r[1], state)
          /\ r \notin W => e.records[r] = d.records[r]
    /\ e.pending = d.pending \ {r \in W : d.records[r].status = "PendingReview"}
    /\ e.awaiting = d.awaiting \ {r \in W : AwaitsAdjudication(d.records[r].status)}
    /\ e.dependencies = d.dependencies
    /\ e.bundles = d.bundles /\ e.reviews = d.reviews

\* What rests on W and is still active is in W too, but for proposals in X.
Shuts(d, W, X) ==
    \A a \in d.dependencies :
       a[1] \in W /\ a[2][1] = "Proposal" /\ IsActive(d, a[2]) => a[2] \in W \cup X

LEMMA NextRevisionIs ==
    ASSUME NEW rec, HeadOK(rec), NEW kind, NEW state
    PROVE  LET next == NextRevision(rec, kind, state)
           IN /\ HeadOK(next) /\ next.state = state /\ next.revision = rec.revision + 1
              /\ next.label = rec.label /\ next.evidence = rec.evidence
<1>1. PICK status : status = IF kind # "Proposal" THEN rec.status
                             ELSE IF state = "Unsupported" THEN "Stale"
                             ELSE IF state = "Retracted" THEN "Rejected" ELSE rec.status
  OBVIOUS
<1>2. PICK next : next = NextRevision(rec, kind, state)
  OBVIOUS
<1>3. next = [rec EXCEPT !.revision = rec.revision + 1, !.state = state, !.status = status]
  BY <1>1, <1>2 DEF NextRevision
<1>. QED
  BY <1>2, <1>3 DEF HeadOK, RecordRows

LEMMA SameKinds ==
    ASSUME NEW d, NEW e, DOMAIN e.records = DOMAIN d.records, NEW k
    PROVE  OfKind(e, k) = OfKind(d, k)
BY DEF OfKind

LEMMA WithdrawsKeep ==
    ASSUME NEW d, NEW e, NEW W, Book(d), Withdraws(d, e, W)
    PROVE  Book(e)
<1>1. HeadsOK(d) /\ Serial(d) /\ Bundled(d) /\ Queued(d) /\ Reviewed(d) /\ Grounded(d)
  BY DEF Book
<1>2. \A k : OfKind(e, k) = OfKind(d, k)
  BY DEF OfKind, Withdraws
<1>3. ASSUME NEW r \in DOMAIN d.records
      PROVE  /\ HeadOK(e.records[r])
             /\ e.records[r].label = d.records[r].label
             /\ e.records[r].evidence = d.records[r].evidence
             /\ r \in W => ~IsActive(e, r) /\ e.records[r].revision = d.records[r].revision + 1
             /\ r \notin W => e.records[r] = d.records[r]
             /\ r \notin W => (IsActive(e, r) <=> IsActive(d, r))
  <2>1. HeadOK(d.records[r]) /\ r \in DOMAIN e.records
    BY <1>1 DEF HeadsOK, Withdraws
  <2>2. CASE r \in W
    <3>1. PICK state \in RecordState \ {"Active"} :
             e.records[r] = NextRevision(d.records[r], r[1], state)
      BY <2>2 DEF Withdraws
    <3>. QED
      BY <2>1, <2>2, <3>1, NextRevisionIs DEF IsActive, StateOf
  <2>3. CASE r \notin W
    <3>1. e.records[r] = d.records[r]
      BY <2>3 DEF Withdraws
    <3>. QED
      BY <2>1, <2>3, <3>1 DEF IsActive, StateOf, Exists
  <2>. QED
    BY <2>2, <2>3
<1>4. /\ DOMAIN e.records = DOMAIN d.records /\ DOMAIN e = Rows
      /\ e.dependencies = d.dependencies /\ e.bundles = d.bundles /\ e.reviews = d.reviews
  BY DEF Withdraws
<1>5. HeadsOK(e)
  BY <1>3, <1>4 DEF HeadsOK
<1>6. Serial(e)
  BY <1>1, <1>2 DEF Serial
<1>7. Bundled(e)
  BY <1>1, <1>2, <1>4 DEF Bundled, ProposalsOf, ReviewsOf, PinOK
<1>8. ProposalsOf(d) \subseteq DOMAIN d.records
  BY DEF ProposalsOf, OfKind
<1>9. Queued(e)
  <2>1. e.pending = {p \in ProposalsOf(e) : IsActive(e, p) /\ e.records[p].status = "PendingReview"}
    <3>1. e.pending = d.pending \ {r \in W : d.records[r].status = "PendingReview"}
      BY DEF Withdraws
    <3>2. d.pending = {p \in ProposalsOf(d) : IsActive(d, p) /\ d.records[p].status = "PendingReview"}
      BY <1>1 DEF Queued
    <3>. QED
      BY <1>2, <1>3, <1>8, <3>1, <3>2 DEF ProposalsOf
  <2>2. e.awaiting = {p \in ProposalsOf(e) : IsActive(e, p) /\ AwaitsAdjudication(e.records[p].status)}
    <3>1. e.awaiting = d.awaiting \ {r \in W : AwaitsAdjudication(d.records[r].status)}
      BY DEF Withdraws
    <3>2. d.awaiting = {p \in ProposalsOf(d) : IsActive(d, p) /\ AwaitsAdjudication(d.records[p].status)}
      BY <1>1 DEF Queued
    <3>. QED
      BY <1>2, <1>3, <1>8, <3>1, <3>2 DEF ProposalsOf
  <2>3. ASSUME NEW p \in e.awaiting
        PROVE  ReviewedBy(e, p)
    <3>1. p \in d.awaiting /\ p \in DOMAIN d.records /\ p \notin W
      BY <1>1, <1>3, <1>8, <2>2, <1>2 DEF Withdraws, Queued, ProposalsOf
    <3>2. e.records[p] = d.records[p]
      BY <1>3, <3>1
    <3>. QED
      BY <1>1, <1>2, <1>4, <3>1, <3>2 DEF Queued, ReviewedBy, ReviewsOf
  <2>. QED
    BY <2>1, <2>2, <2>3 DEF Queued
<1>10. Reviewed(e)
  <2>1. ASSUME NEW p \in ProposalsOf(e)
        PROVE  Unreviewed(e, p)
    <3>1. p \in ProposalsOf(d) /\ p \in DOMAIN d.records /\ Unreviewed(d, p)
      BY <1>1, <1>2, <1>8 DEF ProposalsOf, Reviewed
    <3>. QED
      BY <1>3, <3>1 DEF Unreviewed
  <2>2. ASSUME NEW v \in ReviewsOf(e)
        PROVE  \E p \in ProposalsOf(e), n \in Nat \ {0} :
                  e.reviews[v].proposal = <<p, n>> /\ ReviewOK(e, p, n)
    <3>1. v \in ReviewsOf(d)
      BY <1>2 DEF ReviewsOf
    <3>2. PICK p \in ProposalsOf(d), n \in Nat \ {0} :
             d.reviews[v].proposal = <<p, n>> /\ ReviewOK(d, p, n)
      BY <1>1, <3>1 DEF Reviewed
    <3>3. p \in DOMAIN d.records /\ d.records[p].revision \in Nat
      BY <1>1, <1>8 DEF HeadsOK, HeadOK
    <3>4. ReviewOK(e, p, n)
      BY <1>3, <3>2, <3>3 DEF ReviewOK
    <3>. QED
      BY <1>2, <1>4, <3>2, <3>4 DEF ProposalsOf
  <2>. QED
    BY <2>1, <2>2 DEF Reviewed
<1>11. Grounded(e)
  <2> SUFFICES ASSUME NEW c \in OfKind(e, "Claim")
               PROVE  ClaimOK(e, e.records[c])
    BY DEF Grounded
  <2>1. c \in DOMAIN d.records /\ ClaimOK(d, d.records[c])
    BY <1>1, <1>2 DEF Grounded, OfKind
  <2>2. /\ e.records[c].evidence = d.records[c].evidence
        /\ e.records[c].label = d.records[c].label
        /\ \A x \in DOMAIN d.records : e.records[x].label = d.records[x].label
    BY <1>3, <2>1
  <2>. QED
    BY <1>4, <2>1, <2>2 DEF ClaimOK
<1>. QED
  BY <1>5, <1>6, <1>7, <1>9, <1>10, <1>11 DEF Book

LEMMA WithdrawsFresh ==
    ASSUME NEW d, NEW e, NEW W, NEW X, Book(d), Withdraws(d, e, W), Shuts(d, W, X), Fresh(d, X)
    PROVE  Fresh(e, X)
<1> SUFFICES ASSUME NEW p \in ProposalsOf(e) \ X, OpenProposal(e, p),
                    NEW pin \in PinsOf(e.bundles[p])
             PROVE  PinCurrent(e, pin)
  BY DEF Fresh
<1>1. /\ DOMAIN e.records = DOMAIN d.records /\ e.bundles = d.bundles
      /\ p \in ProposalsOf(d) \ X /\ p \in DOMAIN d.records /\ p[1] = "Proposal"
  BY DEF Withdraws, ProposalsOf, OfKind
<1>2. p \notin W /\ e.records[p] = d.records[p]
  <2>1. ASSUME p \in W
        PROVE  FALSE
    <3>1. PICK state \in RecordState \ {"Active"} :
             e.records[p] = NextRevision(d.records[p], p[1], state)
      BY <1>1, <2>1 DEF Withdraws
    <3>2. HeadOK(d.records[p])
      BY <1>1 DEF Book, HeadsOK
    <3>3. e.records[p].state = state
      BY <3>1, <3>2, NextRevisionIs
    <3>. QED
      BY <3>3 DEF OpenProposal, IsActive, StateOf
  <2>. QED
    BY <1>1, <2>1 DEF Withdraws
<1>3. IsActive(d, p) /\ OpenProposal(d, p)
  BY <1>1, <1>2 DEF OpenProposal, IsActive, StateOf, Exists
<1>4. PinCurrent(d, pin)
  BY <1>1, <1>3 DEF Fresh
<1>5. PinOK(d, p, pin)
  BY <1>1 DEF Book, Bundled
<1>6. pin[1] \notin W
  <2>1. <<pin[1], p>> \in d.dependencies
    BY <1>5 DEF PinOK
  <2>2. ASSUME pin[1] \in W
        PROVE  p \in W \cup X
    BY <1>1, <1>3, <2>1, <2>2 DEF Shuts
  <2>. QED
    BY <1>1, <1>2, <2>2
<1>7. pin[1] \in DOMAIN d.records /\ e.records[pin[1]] = d.records[pin[1]]
  BY <1>5, <1>6 DEF PinOK, Withdraws
<1>. QED
  BY <1>1, <1>4, <1>7 DEF PinCurrent, IsActive, StateOf, Exists

LEMMA WithdrawsForward ==
    ASSUME NEW d, NEW e, NEW W, Book(d), Withdraws(d, e, W),
           \A r \in W : r \in DOMAIN d.records => StateOf(d, r) # "Purged"
    PROVE  Forward(d, e)
<1>1. ASSUME NEW r \in DOMAIN d.records, r \in W
      PROVE  ~IsActive(e, r) /\ e.records[r].revision = d.records[r].revision + 1
  <2>1. PICK state \in RecordState \ {"Active"} :
           e.records[r] = NextRevision(d.records[r], r[1], state)
    BY <1>1 DEF Withdraws
  <2>2. HeadOK(d.records[r])
    BY DEF Book, HeadsOK
  <2>. QED
    BY <2>1, <2>2, NextRevisionIs DEF IsActive, StateOf
<1>2. Revised(d, e)
  BY <1>1 DEF Revised, Withdraws
<1>3. Final(d, e)
  BY <1>1 DEF Final, Withdraws, ProposalsOf, OfKind
<1>. QED
  BY <1>2, <1>3 DEF Forward

LEMMA WithdrawsChain ==
    ASSUME NEW d, NEW e, NEW f, NEW W, NEW V, HeadsOK(d), Withdraws(d, e, W), Withdraws(e, f, V),
           W \cap V = {}, d.pending \subseteq DOMAIN d.records, d.awaiting \subseteq DOMAIN d.records
    PROVE  Withdraws(d, f, W \cup V)
<1>1. /\ DOMAIN f = Rows /\ DOMAIN f.records = DOMAIN d.records
      /\ f.dependencies = d.dependencies /\ f.bundles = d.bundles /\ f.reviews = d.reviews
  BY DEF Withdraws
<1>2. ASSUME NEW r \in DOMAIN d.records
      PROVE  /\ r \in W \cup V => \E state \in RecordState \ {"Active"} :
                                     f.records[r] = NextRevision(d.records[r], r[1], state)
             /\ r \notin W \cup V => f.records[r] = d.records[r]
  BY DEF Withdraws
<1>3. \A r \in DOMAIN d.records : r \notin W => e.records[r] = d.records[r]
  BY DEF Withdraws
<1>4. f.pending = d.pending \ {r \in W \cup V : d.records[r].status = "PendingReview"}
  <2>1. /\ e.pending = d.pending \ {r \in W : d.records[r].status = "PendingReview"}
        /\ f.pending = e.pending \ {r \in V : e.records[r].status = "PendingReview"}
    BY DEF Withdraws
  <2>. QED
    BY <1>3, <2>1
<1>5. f.awaiting = d.awaiting \ {r \in W \cup V : AwaitsAdjudication(d.records[r].status)}
  <2>1. /\ e.awaiting = d.awaiting \ {r \in W : AwaitsAdjudication(d.records[r].status)}
        /\ f.awaiting = e.awaiting \ {r \in V : AwaitsAdjudication(e.records[r].status)}
    BY DEF Withdraws
  <2>. QED
    BY <1>3, <2>1
<1>. QED
  BY <1>1, <1>2, <1>4, <1>5 DEF Withdraws
-----------------------------------------------------------------------------
(* Batches that insert. *)

LEMMA SerialIds ==
    ASSUME NEW d, Serial(d), NEW k \in SerialKinds
    PROVE  /\ Cardinality(OfKind(d, k)) \in Nat
           /\ OfKind(d, k) = {k} \X (1..Cardinality(OfKind(d, k)))
           /\ NewId(d, k) = <<k, Cardinality(OfKind(d, k)) + 1>>
           /\ \A i \in Nat \ {0} : NthId(d, k, i) \notin DOMAIN d.records
<1>1. PICK n \in Nat : OfKind(d, k) = {k} \X (1..n)
  BY DEF Serial
<1>2. Cardinality({k} \X (1..n)) = n
  <2>1. IsFiniteSet({k}) /\ Cardinality({k}) = 1
    BY FS_Singleton
  <2>2. IsFiniteSet(1..n) /\ Cardinality(1..n) = n
    BY FS_Interval
  <2>3. Cardinality({k} \X (1..n)) = Cardinality({k}) * Cardinality(1..n)
    BY <2>1, <2>2, FS_Product
  <2>. QED
    BY <2>1, <2>2, <2>3
<1>3. ASSUME NEW i \in Nat \ {0}
      PROVE  NthId(d, k, i) \notin DOMAIN d.records
  <2>1. NthId(d, k, i) = <<k, n + i>>
    BY <1>1, <1>2 DEF NthId
  <2>2. <<k, n + i>> \notin {k} \X (1..n)
    OBVIOUS
  <2>. QED
    BY <1>1, <2>1, <2>2 DEF OfKind
<1>4. NewId(d, k) = <<k, Cardinality(OfKind(d, k)) + 1>>
  BY DEF NewId, NthId
<1>. QED
  BY <1>1, <1>2, <1>3, <1>4

\* The kinds whose records of N carry the numbers that follow.
Following(d, N, k) == \E n \in Nat : {r \in N : r[1] = k} = {NthId(d, k, i) : i \in 1..n}

LEMMA SerialInsertion ==
    ASSUME NEW d, NEW e, NEW N, Serial(d), DOMAIN e.records = DOMAIN d.records \cup N,
           \A k \in SerialKinds : Following(d, N, k)
    PROVE  Serial(e)
<1> SUFFICES ASSUME NEW k \in SerialKinds
             PROVE  \E n \in Nat : OfKind(e, k) = {k} \X (1..n)
  BY DEF Serial
<1>1. PICK n \in Nat : {r \in N : r[1] = k} = {NthId(d, k, i) : i \in 1..n}
  BY DEF Following
<1>2. PICK m : m = Cardinality(OfKind(d, k))
  OBVIOUS
<1>3. m \in Nat /\ OfKind(d, k) = {k} \X (1..m)
  BY <1>2, SerialIds
<1>4. \A i \in 1..n : NthId(d, k, i) = <<k, m + i>>
  BY <1>2 DEF NthId
<1>5. {NthId(d, k, i) : i \in 1..n} = {k} \X ((m + 1)..(m + n))
  <2>1. ASSUME NEW x \in {k} \X ((m + 1)..(m + n))
        PROVE  x \in {NthId(d, k, i) : i \in 1..n}
    <3>1. x[2] - m \in 1..n /\ x = <<k, m + (x[2] - m)>>
      BY <1>3
    <3>. QED
      BY <1>4, <3>1
  <2>2. ASSUME NEW i \in 1..n
        PROVE  NthId(d, k, i) \in {k} \X ((m + 1)..(m + n))
    BY <1>3, <1>4
  <2>. QED
    BY <2>1, <2>2
<1>6. OfKind(e, k) = OfKind(d, k) \cup {r \in N : r[1] = k}
  BY DEF OfKind
<1>7. OfKind(e, k) = {k} \X (1..(m + n))
  BY <1>1, <1>3, <1>5, <1>6
<1>. QED
  BY <1>3, <1>7

\* Nothing the ledger of proposals is about changes, but for new edges.
Decorates(d, e) ==
    /\ DOMAIN e = Rows /\ e.records = d.records /\ d.dependencies \subseteq e.dependencies
    /\ e.pending = d.pending /\ e.awaiting = d.awaiting
    /\ e.bundles = d.bundles /\ e.reviews = d.reviews

Inserts(d, e, new) ==
    /\ DOMAIN e = Rows /\ d.dependencies \subseteq e.dependencies
    /\ e.records = [r \in DOMAIN d.records \cup DOMAIN new |->
                      IF r \in DOMAIN d.records THEN d.records[r] ELSE new[r]]
    /\ e.pending = d.pending /\ e.awaiting = d.awaiting
    /\ e.bundles = d.bundles /\ e.reviews = d.reviews

\* Records of other kinds, numbered in order where that matters.
NewOK(d, e, new) ==
    /\ \A r \in DOMAIN new :
          /\ HeadOK(new[r]) /\ r[1] \notin Workflow
          /\ r[1] = "Claim" => ClaimOK(e, new[r])
    /\ Following(d, DOMAIN new, "Evidence")

\* No record changes.
Unchanged(d, e) == \A r \in DOMAIN d.records : r \in DOMAIN e.records /\ e.records[r] = d.records[r]

LEMMA DecoratesKeep ==
    ASSUME NEW d, NEW e, NEW X, Book(d), Fresh(d, X), Decorates(d, e)
    PROVE  Book(e) /\ Fresh(e, X) /\ Unchanged(d, e)
<1>1. /\ DOMAIN e = Rows /\ e.records = d.records /\ d.dependencies \subseteq e.dependencies
      /\ e.pending = d.pending /\ e.awaiting = d.awaiting
      /\ e.bundles = d.bundles /\ e.reviews = d.reviews
  BY DEF Decorates
<1>2. \A k : OfKind(e, k) = OfKind(d, k)
  BY <1>1 DEF OfKind
<1>3. \A r : IsActive(e, r) <=> IsActive(d, r)
  BY <1>1 DEF IsActive, Exists, StateOf
<1>4. HeadsOK(d) /\ Serial(d) /\ Bundled(d) /\ Queued(d) /\ Reviewed(d) /\ Grounded(d)
  BY DEF Book
<1>5. HeadsOK(e) /\ Serial(e)
  BY <1>1, <1>2, <1>4 DEF HeadsOK, Serial
<1>6. Bundled(e)
  BY <1>1, <1>2, <1>4 DEF Bundled, PinOK, ProposalsOf, ReviewsOf
<1>7. Queued(e)
  <2>1. /\ ProposalsOf(e) = ProposalsOf(d) /\ ReviewsOf(e) = ReviewsOf(d)
        /\ \A p : ReviewedBy(d, p) => ReviewedBy(e, p)
    BY <1>1, <1>2 DEF ReviewedBy, ProposalsOf, ReviewsOf
  <2>2. e.pending = {p \in ProposalsOf(e) : IsActive(e, p) /\ e.records[p].status = "PendingReview"}
    BY <1>1, <1>3, <1>4, <2>1 DEF Queued
  <2>3. e.awaiting = {p \in ProposalsOf(e) : IsActive(e, p)
                                              /\ AwaitsAdjudication(e.records[p].status)}
    BY <1>1, <1>3, <1>4, <2>1 DEF Queued
  <2>. QED
    BY <1>1, <1>4, <2>1, <2>2, <2>3 DEF Queued
<1>8. Reviewed(e)
  BY <1>1, <1>2, <1>3, <1>4 DEF Reviewed, Unreviewed, ReviewOK, ProposalsOf, ReviewsOf
<1>9. Grounded(e)
  BY <1>1, <1>2, <1>4 DEF Grounded, ClaimOK
<1>10. Fresh(e, X)
  BY <1>1, <1>2, <1>3 DEF Fresh, OpenProposal, PinCurrent, ProposalsOf
<1>11. Unchanged(d, e)
  BY <1>1 DEF Unchanged
<1>. QED
  BY <1>5, <1>6, <1>7, <1>8, <1>9, <1>10, <1>11 DEF Book

LEMMA InsertsKeep ==
    ASSUME NEW d, NEW e, NEW new, NEW X, Book(d), Fresh(d, X), Inserts(d, e, new), NewOK(d, e, new)
    PROVE  Book(e) /\ Fresh(e, X) /\ Unchanged(d, e)
<1>1. /\ DOMAIN e = Rows /\ d.dependencies \subseteq e.dependencies
      /\ DOMAIN e.records = DOMAIN d.records \cup DOMAIN new
      /\ e.pending = d.pending /\ e.awaiting = d.awaiting
      /\ e.bundles = d.bundles /\ e.reviews = d.reviews
  BY DEF Inserts
<1>2. /\ \A r \in DOMAIN d.records : e.records[r] = d.records[r]
      /\ \A r \in DOMAIN new : r \notin DOMAIN d.records => e.records[r] = new[r]
  BY DEF Inserts
<1>3. \A r \in DOMAIN d.records : IsActive(e, r) <=> IsActive(d, r)
  BY <1>1, <1>2 DEF IsActive, Exists, StateOf
<1>4. HeadsOK(d) /\ Serial(d) /\ Bundled(d) /\ Queued(d) /\ Reviewed(d) /\ Grounded(d)
  BY DEF Book
<1>5. \A r \in DOMAIN new : HeadOK(new[r]) /\ r[1] \notin Workflow
  BY DEF NewOK
<1>6. \A k \in Workflow : OfKind(e, k) = OfKind(d, k)
  BY <1>1, <1>5 DEF OfKind
<1>7. /\ ProposalsOf(e) = ProposalsOf(d) /\ ReviewsOf(e) = ReviewsOf(d)
      /\ ProposalsOf(d) \subseteq DOMAIN d.records
  BY <1>6 DEF ProposalsOf, ReviewsOf, Workflow, OfKind
<1>8. HeadsOK(e)
  BY <1>1, <1>2, <1>4, <1>5 DEF HeadsOK
<1>9. Serial(e)
  <2>1. ASSUME NEW k \in Workflow
        PROVE  Following(d, DOMAIN new, k)
    <3>1. {r \in DOMAIN new : r[1] = k} = {NthId(d, k, i) : i \in 1..0}
      BY <1>5
    <3>. QED
      BY <3>1 DEF Following
  <2>2. Following(d, DOMAIN new, "Evidence")
    BY DEF NewOK
  <2>3. \A k \in SerialKinds : Following(d, DOMAIN new, k)
    BY <2>1, <2>2 DEF SerialKinds
  <2>. QED
    BY <1>1, <1>4, <2>3, SerialInsertion
<1>10. Bundled(e)
  BY <1>1, <1>4, <1>7 DEF Bundled, PinOK
<1>11. Queued(e)
  BY <1>1, <1>2, <1>3, <1>4, <1>7 DEF Queued, ReviewedBy
<1>12. Reviewed(e)
  BY <1>1, <1>2, <1>3, <1>4, <1>7 DEF Reviewed, Unreviewed, ReviewOK
<1>13. Grounded(e)
  <2> SUFFICES ASSUME NEW c \in OfKind(e, "Claim")
               PROVE  ClaimOK(e, e.records[c])
    BY DEF Grounded
  <2>1. CASE c \in DOMAIN d.records
    <3>1. ClaimOK(d, d.records[c])
      BY <1>4, <2>1 DEF Grounded, OfKind
    <3>. QED
      BY <1>1, <1>2, <2>1, <3>1 DEF ClaimOK
  <2>2. CASE c \notin DOMAIN d.records
    <3>1. c \in DOMAIN new /\ c[1] = "Claim"
      BY <1>1, <2>2 DEF OfKind
    <3>. QED
      BY <1>2, <2>2, <3>1 DEF NewOK
  <2>. QED
    BY <2>1, <2>2
<1>14. Fresh(e, X)
  <2> SUFFICES ASSUME NEW p \in ProposalsOf(e) \ X, OpenProposal(e, p),
                      NEW pin \in PinsOf(e.bundles[p])
               PROVE  PinCurrent(e, pin)
    BY DEF Fresh
  <2>1. p \in ProposalsOf(d) \ X /\ OpenProposal(d, p) /\ p \in DOMAIN d.records
    BY <1>2, <1>3, <1>7 DEF OpenProposal
  <2>2. PinCurrent(d, pin) /\ pin[1] \in DOMAIN d.records
    BY <1>1, <2>1 DEF Fresh, PinCurrent, IsActive, Exists
  <2>. QED
    BY <1>2, <1>3, <2>2 DEF PinCurrent
<1>15. Unchanged(d, e)
  BY <1>1, <1>2 DEF Unchanged
<1>. QED
  BY <1>8, <1>9, <1>10, <1>11, <1>12, <1>13, <1>14, <1>15 DEF Book

LEMMA ForwardStays ==
    ASSUME NEW d, NEW e, NEW f, Forward(d, e), Unchanged(e, f)
    PROVE  Forward(d, f)
<1>1. Revised(d, f)
  BY DEF Forward, Revised, Unchanged
<1>2. Final(d, f)
  BY DEF Forward, Revised, Final, Unchanged, ProposalsOf, OfKind, IsActive, StateOf, Exists
<1>. QED
  BY <1>1, <1>2 DEF Forward

LEMMA ForwardSame ==
    ASSUME NEW d, NEW e, Unchanged(d, e)
    PROVE  Forward(d, e)
<1>1. Revised(d, e) /\ Final(d, e)
  BY DEF Revised, Final, Unchanged, ProposalsOf, OfKind
<1>. QED
  BY <1>1 DEF Forward

LEMMA UnchangedChain ==
    ASSUME NEW d, NEW e, NEW f, Unchanged(d, e), Unchanged(e, f)
    PROVE  Unchanged(d, f)
BY DEF Unchanged
-----------------------------------------------------------------------------
(* The steps batches are made of. *)

Ledger(d) == Book(d) /\ Fresh(d, {})

\* A batch as a whole.
Carries(d, e) == Ledger(e) /\ Forward(d, e)

LEMMA LedgerRows ==
    ASSUME NEW d, Book(d)
    PROVE  /\ DOMAIN d = Rows /\ \A r \in DOMAIN d.records : HeadOK(d.records[r])
           /\ d.pending \subseteq DOMAIN d.records /\ d.awaiting \subseteq DOMAIN d.records
BY DEF Book, HeadsOK, Queued, ProposalsOf, OfKind

LEMMA AppendWithdraws ==
    ASSUME NEW d, DOMAIN d = Rows, NEW S, NEW state \in RecordState \ {"Active"}
    PROVE  Withdraws(d, AppendStates(d, S, state), S)
<1>1. PICK e : e = AppendStates(d, S, state)
  OBVIOUS
<1>2. /\ DOMAIN e = Rows /\ e.dependencies = d.dependencies
      /\ e.bundles = d.bundles /\ e.reviews = d.reviews
      /\ e.records = [r \in DOMAIN d.records |->
                        IF r \in S THEN NextRevision(d.records[r], r[1], state) ELSE d.records[r]]
      /\ e.pending = d.pending \ {r \in S : d.records[r].status = "PendingReview"}
      /\ e.awaiting = d.awaiting \ {r \in S : AwaitsAdjudication(d.records[r].status)}
  BY <1>1 DEF AppendStates, Rows
<1>. QED
  BY <1>1, <1>2 DEF Withdraws

LEMMA ErasesDecorate ==
    ASSUME NEW d, DOMAIN d = Rows, NEW S, NEW r
    PROVE  /\ Decorates(d, InsertLexical(d, r)) /\ Decorates(d, RemoveLexical(d, S))
           /\ Decorates(d, RemovePayloads(d, S))
<1>1. Decorates(d, InsertLexical(d, r))
  BY DEF Decorates, InsertLexical, Rows
<1>2. Decorates(d, RemoveLexical(d, S))
  BY DEF Decorates, RemoveLexical, Rows
<1>3. Decorates(d, RemovePayloads(d, S))
  BY DEF Decorates, RemovePayloads, Rows
<1>. QED
  BY <1>1, <1>2, <1>3

LEMMA CaseDecorates ==
    ASSUME NEW d, DOMAIN d = Rows, NEW scopes, NEW C
    PROVE  Decorates(d, WithCase(d, scopes, C))
BY DEF Decorates, WithCase, Rows

LEMMA InsertAllInserts ==
    ASSUME NEW d, DOMAIN d = Rows, NEW new
    PROVE  Inserts(d, InsertAll(d, new), new)
<1>1. PICK A : A = UNION {{<<s, r>> : s \in new[r].evidence \cup new[r].ends} : r \in DOMAIN new}
  OBVIOUS
<1>2. PICK e : e = InsertAll(d, new)
  OBVIOUS
<1>3. /\ DOMAIN e = Rows /\ e.dependencies = d.dependencies \cup A
      /\ e.records = [r \in DOMAIN d.records \cup DOMAIN new |->
                        IF r \in DOMAIN d.records THEN d.records[r] ELSE new[r]]
      /\ e.pending = d.pending /\ e.awaiting = d.awaiting
      /\ e.bundles = d.bundles /\ e.reviews = d.reviews
  BY <1>1, <1>2 DEF InsertAll, Rows
<1>. QED
  BY <1>2, <1>3 DEF Inserts

LEMMA DecoratesCarry ==
    ASSUME NEW d, NEW e, Ledger(d), Decorates(d, e)
    PROVE  Carries(d, e) /\ Unchanged(d, e)
<1>1. PICK X : X = {}
  OBVIOUS
<1>2. Book(e) /\ Fresh(e, X) /\ Unchanged(d, e)
  BY <1>1, DecoratesKeep DEF Ledger
<1>. QED
  BY <1>1, <1>2, ForwardSame DEF Carries, Ledger

LEMMA InsertsCarry ==
    ASSUME NEW d, NEW e, NEW new, Ledger(d), Inserts(d, e, new), NewOK(d, e, new)
    PROVE  Carries(d, e) /\ Unchanged(d, e)
<1>1. PICK X : X = {}
  OBVIOUS
<1>2. Book(e) /\ Fresh(e, X) /\ Unchanged(d, e)
  BY <1>1, InsertsKeep DEF Ledger
<1>. QED
  BY <1>1, <1>2, ForwardSame DEF Carries, Ledger

LEMMA CarriesOn ==
    ASSUME NEW d, NEW e, NEW f, Carries(d, e), Carries(e, f), Unchanged(e, f)
    PROVE  Carries(d, f)
BY ForwardStays DEF Carries

\* One record of a kind that is not numbered here.
LEMMA InsertCarries ==
    ASSUME NEW d, Ledger(d), NEW r, NEW rec, HeadOK(rec), r[1] \notin SerialKinds,
           r[1] = "Claim" => ClaimOK(d, rec)
    PROVE  Carries(d, Insert(d, r, rec)) /\ Unchanged(d, Insert(d, r, rec))
<1>1. PICK new : new = [x \in {r} |-> rec]
  OBVIOUS
<1>2. PICK e : e = InsertAll(d, new)
  OBVIOUS
<1>3. Inserts(d, e, new)
  BY <1>2, LedgerRows, InsertAllInserts DEF Ledger
<1>4. DOMAIN new = {r} /\ new[r] = rec /\ r[1] \notin Workflow /\ r[1] # "Evidence"
  BY <1>1 DEF SerialKinds
<1>5. Following(d, DOMAIN new, "Evidence")
  <2>1. {x \in DOMAIN new : x[1] = "Evidence"} = {NthId(d, "Evidence", i) : i \in 1..0}
    BY <1>4
  <2>. QED
    BY <2>1 DEF Following
<1>6. r[1] = "Claim" => ClaimOK(e, rec)
  BY <1>3 DEF ClaimOK, Inserts
<1>7. NewOK(d, e, new)
  BY <1>4, <1>5, <1>6 DEF NewOK
<1>8. e = Insert(d, r, rec)
  BY <1>1, <1>2 DEF Insert
<1>. QED
  BY <1>3, <1>7, <1>8, InsertsCarry

LEMMA NewRecordIs ==
    ASSUME NEW scope, NEW label, NEW evidence, NEW ends
    PROVE  /\ HeadOK(NewRecord(scope, label, evidence, ends))
           /\ NewRecord(scope, label, evidence, ends).label = label
           /\ NewRecord(scope, label, evidence, ends).evidence = evidence
           /\ NewRecord(scope, label, evidence, ends).state = "Active"
           /\ NewRecord(scope, label, evidence, ends).revision = 1
BY DEF NewRecord, HeadOK, RecordRows

LEMMA ClaimCarries ==
    ASSUME NEW d, Ledger(d), NEW id, id[1] = "Claim", NEW domain, NEW scope, NEW E, E # {},
           \A x \in E : x \in DOMAIN d.records /\ domain \in Admissible(d.records[x].label)
    PROVE  Carries(d, InsertClaim(d, id, domain, scope, E))
           /\ Unchanged(d, InsertClaim(d, id, domain, scope, E))
<1>1. PICK ends : ends = {}
  OBVIOUS
<1>2. PICK rec : rec = NewRecord(scope, domain, E, ends)
  OBVIOUS
<1>3. PICK e : e = Insert(d, id, rec)
  OBVIOUS
<1>4. HeadOK(rec) /\ ClaimOK(d, rec)
  BY <1>2, NewRecordIs DEF ClaimOK
<1>5. Carries(d, e) /\ Unchanged(d, e)
  BY <1>3, <1>4, InsertCarries DEF SerialKinds, Workflow
<1>6. PICK f : f = InsertLexical(e, id)
  OBVIOUS
<1>7. Decorates(e, f)
  BY <1>5, <1>6, LedgerRows, ErasesDecorate DEF Carries, Ledger
<1>8. Carries(e, f) /\ Unchanged(e, f)
  BY <1>5, <1>7, DecoratesCarry DEF Carries
<1>9. f = InsertClaim(d, id, domain, scope, E)
  BY <1>1, <1>2, <1>3, <1>6 DEF InsertClaim
<1>. QED
  BY <1>5, <1>8, <1>9, CarriesOn, UnchangedChain

LEMMA RelationCarries ==
    ASSUME NEW d, Ledger(d), NEW id, id[1] = "SemanticRelation", NEW kind, NEW scope,
           NEW from, NEW to, NEW E
    PROVE  Carries(d, InsertRelation(d, id, kind, scope, from, to, E))
           /\ Unchanged(d, InsertRelation(d, id, kind, scope, from, to, E))
<1>1. PICK rec : rec = NewRecord(scope, kind, E, {from, to})
  OBVIOUS
<1>2. HeadOK(rec)
  BY <1>1, NewRecordIs
<1>3. Carries(d, Insert(d, id, rec)) /\ Unchanged(d, Insert(d, id, rec))
  BY <1>2, InsertCarries DEF SerialKinds, Workflow
<1>. QED
  BY <1>1, <1>3 DEF InsertRelation

\* Evidence gets the next identifier.
LEMMA EvidenceCarries ==
    ASSUME NEW d, Ledger(d), NEW class, NEW scope
    PROVE  LET id == NewId(d, "Evidence")
               e == InsertEvidence(d, id, class, scope)
           IN /\ Carries(d, e) /\ Unchanged(d, e)
              /\ id \in DOMAIN e.records /\ e.records[id].label = class
              /\ DOMAIN e.records = DOMAIN d.records \cup {id}
<1>1. PICK id : id = NewId(d, "Evidence")
  OBVIOUS
<1>2. PICK none : none = {}
  OBVIOUS
<1>3. PICK rec : rec = NewRecord(scope, class, none, none)
  OBVIOUS
<1>4. PICK new : new = [x \in {id} |-> rec]
  OBVIOUS
<1>5. PICK e : e = InsertAll(d, new)
  OBVIOUS
<1>6. Inserts(d, e, new)
  BY <1>5, LedgerRows, InsertAllInserts DEF Ledger
<1>7. id = NthId(d, "Evidence", 1) /\ id[1] = "Evidence" /\ id \notin DOMAIN d.records
  <2>1. Serial(d) /\ "Evidence" \in SerialKinds /\ 1 \in Nat \ {0}
    BY DEF Ledger, Book, SerialKinds
  <2>2. id = NthId(d, "Evidence", 1) /\ id[1] = "Evidence"
    BY <1>1 DEF NewId, NthId
  <2>. QED
    BY <2>1, <2>2, SerialIds
<1>8. DOMAIN new = {id} /\ new[id] = rec /\ HeadOK(rec) /\ rec.label = class
  BY <1>3, <1>4, NewRecordIs
<1>9. Following(d, DOMAIN new, "Evidence")
  <2>1. {x \in DOMAIN new : x[1] = "Evidence"} = {NthId(d, "Evidence", i) : i \in 1..1}
    BY <1>7, <1>8
  <2>. QED
    BY <2>1 DEF Following
<1>10. NewOK(d, e, new)
  BY <1>7, <1>8, <1>9 DEF NewOK, Workflow
<1>11. Carries(d, e) /\ Unchanged(d, e)
  BY <1>6, <1>10, InsertsCarry
<1>12. PICK f : f = InsertLexical(e, id)
  OBVIOUS
<1>13. Decorates(e, f)
  BY <1>11, <1>12, LedgerRows, ErasesDecorate DEF Carries, Ledger
<1>14. Carries(e, f) /\ Unchanged(e, f)
  BY <1>11, <1>13, DecoratesCarry DEF Carries
<1>15. /\ DOMAIN f.records = DOMAIN d.records \cup {id} /\ f.records[id] = rec
  BY <1>6, <1>7, <1>8, <1>13 DEF Inserts, Decorates
<1>16. f = InsertEvidence(d, id, class, scope)
  BY <1>2, <1>3, <1>4, <1>5, <1>12 DEF InsertEvidence, Insert
<1>17. Carries(d, f) /\ Unchanged(d, f)
  BY <1>11, <1>14, CarriesOn, UnchangedChain
<1>. QED
  BY <1>1, <1>8, <1>15, <1>16, <1>17

\* Artifacts, each with evidence of its own.
LEMMA ArtifactsCarry ==
    ASSUME NEW d, Ledger(d), NEW kind, kind \notin SerialKinds \cup {"Claim"}, NEW parent, NEW n \in Nat
    PROVE  Carries(d, InsertArtifacts(d, kind, parent, n))
           /\ Unchanged(d, InsertArtifacts(d, kind, parent, n))
<1> DEFINE scope == d.records[parent].scope
           ids == {NthId(d, kind, i) : i \in 1..n}
           es == {NthId(d, "Evidence", i) : i \in 1..n}
<1>1. PICK new : new = [r \in ids \cup es |->
                  IF r[1] = "Evidence" THEN NewRecord(scope, kind, {}, {})
                  ELSE NewRecord(scope, "None",
                         {NthId(d, "Evidence", i) : i \in {j \in 1..n : NthId(d, kind, j) = r}},
                         {parent})]
  OBVIOUS
<1>2. PICK deps : deps = {<<NthId(d, kind, i), NthId(d, "Evidence", i)>> : i \in 1..n}
  OBVIOUS
<1>3. PICK e : e = InsertAll(d, new)
  OBVIOUS
<1>4. PICK f : f = [e EXCEPT !.lexical = @ \cup es, !.dependencies = @ \cup deps]
  OBVIOUS
<1>5. f = InsertArtifacts(d, kind, parent, n)
  BY <1>1, <1>2, <1>3, <1>4 DEF InsertArtifacts
<1>6. DOMAIN new = ids \cup es /\ \A r \in DOMAIN new : HeadOK(new[r])
  BY <1>1, NewRecordIs
<1>7. /\ \A r \in ids : r[1] = kind
      /\ \A r \in es : r[1] = "Evidence"
  BY DEF NthId
<1>8. Following(d, DOMAIN new, "Evidence")
  <2>1. {r \in DOMAIN new : r[1] = "Evidence"} = es
    BY <1>6, <1>7 DEF SerialKinds
  <2>. QED
    BY <2>1 DEF Following
<1> HIDE DEF ids, es
<1>9. NewOK(d, e, new)
  BY <1>6, <1>7, <1>8 DEF NewOK, SerialKinds, Workflow
<1>10. Inserts(d, e, new)
  BY <1>3, LedgerRows, InsertAllInserts DEF Ledger
<1>11. Carries(d, e) /\ Unchanged(d, e)
  BY <1>9, <1>10, InsertsCarry
<1>12. Decorates(e, f)
  <2>1. DOMAIN e = Rows
    BY <1>11, LedgerRows DEF Carries, Ledger
  <2>. QED
    BY <1>4, <2>1 DEF Decorates, Rows
<1>13. Carries(e, f) /\ Unchanged(e, f)
  BY <1>11, <1>12, DecoratesCarry DEF Carries
<1>. QED
  BY <1>5, <1>11, <1>13, CarriesOn, UnchangedChain

LEMMA SharedRows ==
    ASSUME NEW d, NEW e, NEW f, NEW W, Withdraws(d, e, W), Decorates(e, f), f.dependencies = e.dependencies
    PROVE  Withdraws(d, f, W)
BY DEF Withdraws, Decorates

\* A batch that withdraws all that rests on what it withdraws.
LEMMA WithdrawsCarry ==
    ASSUME NEW d, NEW e, NEW W, Ledger(d), Withdraws(d, e, W), Shuts(d, W, {}),
           \A r \in W : r \in DOMAIN d.records => StateOf(d, r) # "Purged"
    PROVE  Carries(d, e)
<1>1. PICK X : X = {}
  OBVIOUS
<1>2. Book(e) /\ Forward(d, e)
  BY WithdrawsKeep, WithdrawsForward DEF Ledger
<1>3. Fresh(e, X)
  BY <1>1, WithdrawsFresh DEF Ledger
<1>. QED
  BY <1>1, <1>2, <1>3 DEF Carries, Ledger

LEMMA WithdrawnCarries ==
    ASSUME NEW d, Ledger(d), NEW target, IsActive(d, target), NEW state,
           state \in {"Retracted", "Superseded"}
    PROVE  LET e == Withdraw(d, target, state)
           IN Carries(d, e) /\ DOMAIN e.records = DOMAIN d.records
<1>1. PICK lost : lost = ActiveClosure(d, target)
  OBVIOUS
<1>2. PICK T : T = {target}
  OBVIOUS
<1>3. PICK f : f = AppendStates(d, T, state)
  OBVIOUS
<1>4. PICK g : g = AppendStates(f, lost, "Unsupported")
  OBVIOUS
<1>5. PICK e : e = RemoveLexical(g, lost \cup T)
  OBVIOUS
<1>6. e = Withdraw(d, target, state)
  BY <1>1, <1>2, <1>3, <1>4, <1>5 DEF Withdraw
<1>7. /\ DOMAIN d = Rows /\ Book(d) /\ HeadsOK(d)
      /\ d.pending \subseteq DOMAIN d.records /\ d.awaiting \subseteq DOMAIN d.records
  BY LedgerRows DEF Ledger, Book
<1>8. state \in RecordState \ {"Active"} /\ "Unsupported" \in RecordState \ {"Active"}
  BY DEF RecordState
<1>9. Withdraws(d, f, T)
  BY <1>3, <1>7, <1>8, AppendWithdraws
<1>10. DOMAIN f = Rows
  BY <1>9 DEF Withdraws
<1>11. Withdraws(f, g, lost)
  BY <1>4, <1>8, <1>10, AppendWithdraws
<1>12. \A r : r \in lost <=> /\ r \in DOMAIN d.records /\ r \in Above(d, target)
                              /\ r # target /\ IsActive(d, r)
  BY <1>1 DEF ActiveClosure, Dependents, Above, IsActive, Exists
<1>13. PICK W : W = T \cup lost
  OBVIOUS
<1>14. T \cap lost = {}
  BY <1>2, <1>12
<1>15. Withdraws(d, g, W)
  BY <1>7, <1>9, <1>11, <1>13, <1>14, WithdrawsChain
<1>16. DOMAIN g = Rows
  BY <1>15 DEF Withdraws
<1>17. Decorates(g, e) /\ e.dependencies = g.dependencies
  BY <1>5, <1>16, ErasesDecorate DEF RemoveLexical, Rows
<1>18. Withdraws(d, e, W)
  BY <1>15, <1>17, SharedRows
<1>19. Shuts(d, W, {})
  <2> SUFFICES ASSUME NEW a \in d.dependencies, a[1] \in W, IsActive(d, a[2])
               PROVE  a[2] \in W
    BY DEF Shuts
  <2>1. target \in Above(d, target) /\ Closed(d.dependencies, Above(d, target))
    BY DescendantsClosed DEF Above
  <2>2. a[1] \in Above(d, target)
    BY <1>2, <1>12, <1>13, <2>1
  <2>3. a[2] \in Above(d, target)
    BY <2>1, <2>2 DEF Closed
  <2>4. a[2] \in DOMAIN d.records
    BY DEF IsActive, Exists
  <2>. QED
    BY <1>2, <1>12, <1>13, <2>3, <2>4
<1>20. \A r \in W : StateOf(d, r) # "Purged"
  BY <1>2, <1>12, <1>13 DEF IsActive
<1>21. Carries(d, e)
  BY <1>18, <1>19, <1>20, WithdrawsCarry
<1>. QED
  BY <1>6, <1>18, <1>21 DEF Withdraws

LEMMA PurgedCarries ==
    ASSUME NEW d, Ledger(d), NEW target \in DOMAIN d.records, StateOf(d, target) # "Purged",
           NEW p, p.target[1] = target, {pin[1] : pin \in p.invalid} = PurgeClosure(d, target)
    PROVE  Carries(d, Purged(d, p))
<1>1. PICK below : below = {pin[1] : pin \in p.invalid}
  OBVIOUS
<1>2. PICK live : live = {r \in below : IsActive(d, r)}
  OBVIOUS
<1>3. PICK T : T = {target}
  OBVIOUS
<1>4. PICK all : all = below \cup T
  OBVIOUS
<1>5. PICK f : f = AppendStates(d, T, "Purged")
  OBVIOUS
<1>6. PICK g : g = AppendStates(f, live, "Unsupported")
  OBVIOUS
<1>7. PICK h : h = RemoveLexical(g, all)
  OBVIOUS
<1>8. PICK e : e = RemovePayloads(h, all)
  OBVIOUS
<1>9. e = Purged(d, p)
  BY <1>1, <1>2, <1>3, <1>4, <1>5, <1>6, <1>7, <1>8, Zenon DEF Purged
<1>10. /\ DOMAIN d = Rows /\ Book(d) /\ HeadsOK(d)
       /\ d.pending \subseteq DOMAIN d.records /\ d.awaiting \subseteq DOMAIN d.records
  BY LedgerRows DEF Ledger, Book
<1>11. "Purged" \in RecordState \ {"Active"} /\ "Unsupported" \in RecordState \ {"Active"}
  BY DEF RecordState
<1>12. Withdraws(d, f, T)
  BY <1>5, <1>10, <1>11, AppendWithdraws
<1>13. DOMAIN f = Rows
  BY <1>12 DEF Withdraws
<1>14. Withdraws(f, g, live)
  BY <1>6, <1>11, <1>13, AppendWithdraws
<1>15. \A r : r \in live <=> /\ r \in DOMAIN d.records /\ r \in Above(d, target)
                              /\ r # target /\ IsActive(d, r)
  BY <1>1, <1>2 DEF PurgeClosure, Dependents, Above, IsActive, Exists
<1>16. PICK W : W = T \cup live
  OBVIOUS
<1>17. T \cap live = {}
  BY <1>3, <1>15
<1>18. Withdraws(d, g, W)
  BY <1>10, <1>12, <1>14, <1>16, <1>17, WithdrawsChain
<1>19. DOMAIN g = Rows
  BY <1>18 DEF Withdraws
<1>20. Decorates(g, h) /\ h.dependencies = g.dependencies
  BY <1>7, <1>19, ErasesDecorate DEF RemoveLexical, Rows
<1>21. DOMAIN h = Rows
  BY <1>20 DEF Decorates
<1>22. Decorates(h, e) /\ e.dependencies = h.dependencies
  BY <1>8, <1>21, ErasesDecorate DEF RemovePayloads, Rows
<1>23. Withdraws(d, e, W)
  BY <1>18, <1>20, <1>22, SharedRows
<1>24. Shuts(d, W, {})
  <2> SUFFICES ASSUME NEW a \in d.dependencies, a[1] \in W, IsActive(d, a[2])
               PROVE  a[2] \in W
    BY DEF Shuts
  <2>1. target \in Above(d, target) /\ Closed(d.dependencies, Above(d, target))
    BY DescendantsClosed DEF Above
  <2>2. a[1] \in Above(d, target)
    BY <1>3, <1>15, <1>16, <2>1
  <2>3. a[2] \in Above(d, target)
    BY <2>1, <2>2 DEF Closed
  <2>4. a[2] \in DOMAIN d.records
    BY DEF IsActive, Exists
  <2>. QED
    BY <1>3, <1>15, <1>16, <2>3, <2>4
<1>25. \A r \in W : StateOf(d, r) # "Purged"
  BY <1>3, <1>15, <1>16 DEF IsActive
<1>. QED
  BY <1>9, <1>23, <1>24, <1>25, WithdrawsCarry
-----------------------------------------------------------------------------
(* The invariant. *)

Orderly == Ledger(db) /\ Shown

\* What every step leaves.
Leaves == Orderly' /\ Forward(db, db')

LEMMA CommitLeaves ==
    ASSUME Orderly, NEW op, NEW receipt, NEW e, Commit(op, receipt, e), preview' = preview,
           Carries(db, e)
    PROVE  Leaves
<1>1. db' = e
  BY DEF Commit
<1>2. Shown'
  BY <1>1 DEF Orderly, Shown, Carries, Forward, Revised
<1>. QED
  BY <1>1, <1>2 DEF Leaves, Orderly, Carries

LEMMA SameLeaves ==
    ASSUME Orderly, db' = db, preview' = preview
    PROVE  Leaves
<1>1. Unchanged(db, db')
  BY DEF Unchanged
<1>2. Forward(db, db')
  BY <1>1, ForwardSame
<1>3. Ledger(db')
  BY DEF Orderly
<1>4. Shown'
  BY DEF Orderly, Shown
<1>. QED
  BY <1>2, <1>3, <1>4 DEF Leaves, Orderly

LEMMA DecoratedLeaves ==
    ASSUME Orderly, Decorates(db, db'), preview' = preview
    PROVE  Leaves
<1>1. Carries(db, db')
  BY DecoratesCarry DEF Orderly
<1>2. Shown'
  BY <1>1 DEF Orderly, Shown, Carries, Forward, Revised
<1>. QED
  BY <1>1, <1>2 DEF Leaves, Orderly, Carries

LEMMA CaptureEvidenceLeaves ==
    ASSUME Orderly, NEW op, NEW actor, NEW class, NEW lifecycle, NEW scope,
           CaptureEvidence(op, actor, class, lifecycle, scope)
    PROVE  Leaves
<1>1. PICK e : e = InsertEvidence(db, NewId(db, "Evidence"), class, scope)
  OBVIOUS
<1>2. Commit(op, {<<NewId(db, "Evidence"), 1>>}, e) /\ preview' = preview
  BY <1>1 DEF CaptureEvidence
<1>3. Carries(db, e)
  BY <1>1, EvidenceCarries DEF Orderly
<1>. QED
  BY <1>2, <1>3, CommitLeaves

LEMMA CreateArtifactCollectionLeaves ==
    ASSUME Orderly, NEW op, NEW actor, CreateArtifactCollection(op, actor)
    PROVE  Leaves
<1>1. PICK c : c = NewId(db, "ArtifactCollection")
  OBVIOUS
<1>2. PICK rec : rec = NewRecord(c, "None", {}, {})
  OBVIOUS
<1>3. PICK e : e = Insert(db, c, rec)
  OBVIOUS
<1>4. Commit(op, {<<c, 1>>}, e) /\ preview' = preview
  BY <1>1, <1>2, <1>3 DEF CreateArtifactCollection
<1>5. HeadOK(rec)
  BY <1>2, NewRecordIs
<1>6. c[1] = "ArtifactCollection"
  BY <1>1 DEF NewId, NthId
<1>7. Carries(db, e)
  BY <1>3, <1>5, <1>6, InsertCarries DEF Orderly, SerialKinds, Workflow
<1>. QED
  BY <1>4, <1>7, CommitLeaves

LEMMA ImportArtifactSnapshotLeaves ==
    ASSUME Orderly, NEW op, NEW actor, NEW collection, NEW expected,
           ImportArtifactSnapshot(op, actor, collection, expected)
    PROVE  Leaves
<1>1. PICK d : d = InsertArtifacts(db, "ArtifactSnapshot", collection, 1)
  OBVIOUS
<1>2. PICK s : s = NewId(db, "ArtifactSnapshot")
  OBVIOUS
<1>3. PICK e : e = [d EXCEPT !.blobs = @ \cup {s}]
  OBVIOUS
<1>4. Commit(op, {<<s, 1>>, <<NewId(db, "Evidence"), 1>>}, e) /\ preview' = preview
  BY <1>1, <1>2, <1>3 DEF ImportArtifactSnapshot
<1>5. Carries(db, d)
  BY <1>1, ArtifactsCarry DEF Orderly, SerialKinds, Workflow
<1>6. Decorates(d, e)
  <2>1. DOMAIN d = Rows
    BY <1>5, LedgerRows DEF Carries, Ledger
  <2>. QED
    BY <1>3, <2>1 DEF Decorates, Rows
<1>7. Carries(d, e) /\ Unchanged(d, e)
  BY <1>5, <1>6, DecoratesCarry DEF Carries
<1>8. Carries(db, e)
  BY <1>5, <1>7, CarriesOn
<1>. QED
  BY <1>4, <1>8, CommitLeaves

LEMMA CreateArtifactPassagesLeaves ==
    ASSUME Orderly, NEW op, NEW actor, NEW snapshot, NEW expected, NEW ordinals \in SUBSET (1..2),
           CreateArtifactPassages(op, actor, snapshot, expected, ordinals)
    PROVE  Leaves
<1>1. PICK n : n = Cardinality(ordinals)
  OBVIOUS
<1>2. PICK d : d = InsertArtifacts(db, "ArtifactPassage", snapshot, n)
  OBVIOUS
<1>3. PICK slots : slots = {snapshot} \X ordinals
  OBVIOUS
<1>4. PICK e : e = [d EXCEPT !.ordinals = @ \cup slots]
  OBVIOUS
<1>5. PICK receipt : Commit(op, receipt, e) /\ preview' = preview
  BY <1>1, <1>2, <1>3, <1>4 DEF CreateArtifactPassages
<1>6. n \in Nat
  BY <1>1, CardinalityOfFew
<1>7. Carries(db, d)
  BY <1>2, <1>6, ArtifactsCarry DEF Orderly, SerialKinds, Workflow
<1>8. Decorates(d, e)
  <2>1. DOMAIN d = Rows
    BY <1>7, LedgerRows DEF Carries, Ledger
  <2>. QED
    BY <1>4, <2>1 DEF Decorates, Rows
<1>9. Carries(d, e) /\ Unchanged(d, e)
  BY <1>7, <1>8, DecoratesCarry DEF Carries
<1>10. Carries(db, e)
  BY <1>7, <1>9, CarriesOn
<1>. QED
  BY <1>5, <1>10, CommitLeaves

LEMMA CreateClaimLeaves ==
    ASSUME Orderly, NEW op, NEW actor, NEW domain, NEW scope, NEW E, E # {},
           CreateClaim(op, actor, domain, scope, E)
    PROVE  Leaves
<1>1. PICK c : c = NewId(db, "Claim")
  OBVIOUS
<1>2. PICK e : e = InsertClaim(db, c, domain, scope, E)
  OBVIOUS
<1>3. Commit(op, {<<c, 1>>}, e) /\ preview' = preview
  BY <1>1, <1>2 DEF CreateClaim
<1>4. \A x \in E : x \in DOMAIN db.records /\ domain \in Admissible(db.records[x].label)
  BY DEF CreateClaim, SourcesActive, IsActive, Exists
<1>5. c[1] = "Claim"
  BY <1>1 DEF NewId, NthId
<1>6. Carries(db, e)
  BY <1>2, <1>4, <1>5, ClaimCarries DEF Orderly
<1>. QED
  BY <1>3, <1>6, CommitLeaves

\* Evidence and a claim on it.
LEMMA EvidenceThenClaimCarries ==
    ASSUME NEW d, Ledger(d), NEW class, NEW scope, NEW c, c[1] = "Claim", NEW domain,
           domain \in Admissible(class), NEW e, e = NewId(d, "Evidence"),
           NEW f, f = InsertClaim(InsertEvidence(d, e, class, scope), c, domain, scope, {e})
    PROVE  Carries(d, f) /\ Unchanged(d, f)
<1>1. PICK g : g = InsertEvidence(d, e, class, scope)
  OBVIOUS
<1>2. PICK E : E = {e}
  OBVIOUS
<1>3. Carries(d, g) /\ Unchanged(d, g) /\ e \in DOMAIN g.records /\ g.records[e].label = class
  BY <1>1, EvidenceCarries
<1>4. f = InsertClaim(g, c, domain, scope, E)
  BY <1>1, <1>2
<1>5. E # {} /\ \A x \in E : x \in DOMAIN g.records /\ domain \in Admissible(g.records[x].label)
  BY <1>2, <1>3
<1>6. Carries(g, f) /\ Unchanged(g, f)
  BY <1>3, <1>4, <1>5, ClaimCarries DEF Carries
<1>. QED
  BY <1>3, <1>6, CarriesOn, UnchangedChain

LEMMA RememberUserClaimLeaves ==
    ASSUME Orderly, NEW op, NEW domain, NEW scope, RememberUserClaim(op, domain, scope)
    PROVE  Leaves
<1>1. PICK e : e = NewId(db, "Evidence")
  OBVIOUS
<1>2. PICK c : c = NewId(db, "Claim")
  OBVIOUS
<1>3. PICK f : f = InsertClaim(InsertEvidence(db, e, "UserAssertion", scope), c, domain, scope, {e})
  OBVIOUS
<1>4. /\ Commit(op, {<<e, 1>>, <<c, 1>>}, f) /\ preview' = preview
      /\ domain \in Admissible("UserAssertion")
  BY <1>1, <1>2, <1>3 DEF RememberUserClaim
<1>5. c[1] = "Claim"
  BY <1>2 DEF NewId, NthId
<1>6. Carries(db, f)
  BY <1>1, <1>3, <1>4, <1>5, EvidenceThenClaimCarries DEF Orderly
<1>. QED
  BY <1>4, <1>6, CommitLeaves

LEMMA CreateSemanticRelationLeaves ==
    ASSUME Orderly, NEW op, NEW actor, NEW kind, NEW from, NEW to, NEW E,
           CreateSemanticRelation(op, actor, kind, from, to, E)
    PROVE  Leaves
<1>1. PICK r : r = NewId(db, "SemanticRelation")
  OBVIOUS
<1>2. PICK scope : scope = db.records[from].scope
  OBVIOUS
<1>3. PICK e : e = InsertRelation(db, r, kind, scope, from, to, E)
  OBVIOUS
<1>4. Commit(op, {<<r, 1>>}, e) /\ preview' = preview
  BY <1>1, <1>2, <1>3 DEF CreateSemanticRelation
<1>5. r[1] = "SemanticRelation"
  BY <1>1 DEF NewId, NthId
<1>6. Carries(db, e)
  BY <1>3, <1>5, RelationCarries DEF Orderly
<1>. QED
  BY <1>4, <1>6, CommitLeaves

LEMMA RetractLeaves ==
    ASSUME Orderly, NEW op, NEW actor, NEW target, NEW expected,
           Retract(op, actor, target, expected)
    PROVE  Leaves
<1>1. PICK e : e = Withdraw(db, target, "Retracted")
  OBVIOUS
<1>2. PICK receipt : Commit(op, receipt, e) /\ preview' = preview
  BY <1>1 DEF Retract
<1>3. IsActive(db, target)
  BY DEF Retract
<1>4. Carries(db, e)
  BY <1>1, <1>3, WithdrawnCarries DEF Orderly
<1>. QED
  BY <1>2, <1>4, CommitLeaves

LEMMA CorrectUserClaimLeaves ==
    ASSUME Orderly, NEW op, NEW target, NEW expected, CorrectUserClaim(op, target, expected)
    PROVE  Leaves
<1>1. PICK scope : scope = db.records[target].scope
  OBVIOUS
<1>2. PICK domain : domain = db.records[target].label
  OBVIOUS
<1>3. PICK e : e = NewId(db, "Evidence")
  OBVIOUS
<1>4. PICK c : c = NewId(db, "Claim")
  OBVIOUS
<1>5. PICK r : r = NewId(db, "SemanticRelation")
  OBVIOUS
<1>6. PICK w : w = Withdraw(db, target, "Superseded")
  OBVIOUS
<1>7. PICK f : f = InsertClaim(InsertEvidence(w, e, "UserCorrection", scope), c, domain, scope, {e})
  OBVIOUS
<1>8. PICK E : E = {e}
  OBVIOUS
<1>9. PICK g : g = InsertRelation(f, r, "Supersedes", scope, c, target, E)
  OBVIOUS
<1>10. PICK receipt : Commit(op, receipt, g) /\ preview' = preview
  BY <1>1, <1>2, <1>3, <1>4, <1>5, <1>6, <1>7, <1>8, <1>9 DEF CorrectUserClaim
<1>11. IsActive(db, target) /\ domain \in Admissible("UserCorrection")
  BY <1>2 DEF CorrectUserClaim
<1>12. Carries(db, w) /\ DOMAIN w.records = DOMAIN db.records
  BY <1>6, <1>11, WithdrawnCarries DEF Orderly
<1>13. e = NewId(w, "Evidence")
  BY <1>3, <1>12 DEF NewId, NthId, OfKind
<1>14. c[1] = "Claim" /\ r[1] = "SemanticRelation"
  BY <1>4, <1>5 DEF NewId, NthId
<1>15. Carries(w, f) /\ Unchanged(w, f)
  BY <1>7, <1>11, <1>12, <1>13, <1>14, EvidenceThenClaimCarries DEF Carries
<1>16. Carries(f, g) /\ Unchanged(f, g)
  BY <1>9, <1>14, <1>15, RelationCarries DEF Carries
<1>17. Carries(db, g)
  BY <1>12, <1>15, <1>16, CarriesOn
<1>. QED
  BY <1>10, <1>17, CommitLeaves

LEMMA CommitPurgeLeaves ==
    ASSUME Orderly, NEW op, CommitPurge(op)
    PROVE  Leaves
<1>1. PICK e : e = Purged(db, preview)
  OBVIOUS
<1>2. PICK receipt : Commit(op, receipt, e) /\ preview' = preview
  BY <1>1 DEF CommitPurge
<1>3. PICK target : target = preview.target[1]
  OBVIOUS
<1>4. PreviewCurrent(preview) /\ target \in DOMAIN db.records
  BY <1>3 DEF CommitPurge, Orderly, Shown
<1>5. StateOf(db, target) # "Purged"
  BY <1>3, <1>4 DEF PreviewCurrent
<1>6. preview.invalid = {Pin(db, r) : r \in PurgeClosure(db, target)}
  BY <1>3, <1>4, CurrentPreviewIs
<1>7. {pin[1] : pin \in preview.invalid} = PurgeClosure(db, target)
  <2>1. ASSUME NEW r \in PurgeClosure(db, target)
        PROVE  r \in {pin[1] : pin \in preview.invalid}
    <3>1. Pin(db, r) \in preview.invalid /\ Pin(db, r)[1] = r
      BY <1>6 DEF Pin
    <3>. QED
      BY <3>1, Zenon
  <2>2. ASSUME NEW pin \in preview.invalid
        PROVE  pin[1] \in PurgeClosure(db, target)
    BY <1>6 DEF Pin
  <2>. QED
    BY <2>1, <2>2, Zenon
<1>8. Carries(db, e)
  BY <1>1, <1>3, <1>4, <1>5, <1>7, PurgedCarries DEF Orderly
<1>. QED
  BY <1>2, <1>8, CommitLeaves

LEMMA PreviewPurgeLeaves ==
    ASSUME Orderly, NEW target, PreviewPurge(target)
    PROVE  Leaves
<1>1. db' = db /\ target \in DOMAIN db.records /\ preview' = BuildPreview(db, derived, target)
  BY DEF PreviewPurge, Exists
<1>2. preview'.target = Pin(db, target)
  BY <1>1 DEF BuildPreview
<1>3. Shown'
  BY <1>1, <1>2 DEF Shown, Pin
<1>4. Unchanged(db, db')
  BY <1>1 DEF Unchanged
<1>5. Forward(db, db')
  BY <1>4, ForwardSame
<1>. QED
  BY <1>1, <1>3, <1>5 DEF Leaves, Orderly

LEMMA RecallStepLeaves ==
    ASSUME Orderly, RecallStep
    PROVE  Leaves
<1> USE DEF Orderly
<1>1. DOMAIN db = Rows
  BY LedgerRows DEF Ledger
<1>2. ASSUME NEW scopes, NEW C, Recall(scopes, C)
      PROVE  Leaves
  <2>1. db' = WithCase(db, scopes, C) /\ preview' = preview
    BY <1>2 DEF Recall
  <2>. QED
    BY <1>1, <2>1, CaseDecorates, DecoratedLeaves
<1>3. ASSUME NEW op, NEW class, NEW scope, NEW C, BeginTurnRecall(op, class, scope, C)
      PROVE  Leaves
  <2>1. PICK d : d = InsertEvidence(db, NewId(db, "Evidence"), class, scope)
    OBVIOUS
  <2>2. PICK e : e = WithCase(d, {scope}, C)
    OBVIOUS
  <2>3. Commit(op, {<<NewId(db, "Evidence"), 1>>}, e) /\ preview' = preview
    BY <1>3, <2>1, <2>2 DEF BeginTurnRecall
  <2>4. Carries(db, d)
    BY <2>1, EvidenceCarries
  <2>5. DOMAIN d = Rows
    BY <2>4, LedgerRows DEF Carries, Ledger
  <2>6. Decorates(d, e)
    BY <2>2, <2>5, CaseDecorates
  <2>7. Carries(d, e) /\ Unchanged(d, e)
    BY <2>4, <2>6, DecoratesCarry DEF Carries
  <2>8. Carries(db, e)
    BY <2>4, <2>7, CarriesOn
  <2>. QED
    BY <2>3, <2>8, CommitLeaves
<1>4. ASSUME NEW op, NEW scope, NEW C, RetryTurnRecall(op, scope, C)
      PROVE  Leaves
  <2>1. PICK B : db' = WithCase(db, {scope}, B) /\ preview' = preview
    BY <1>4 DEF RetryTurnRecall
  <2>2. Decorates(db, db')
    BY <1>1, <2>1, CaseDecorates
  <2>. QED
    BY <2>1, <2>2, DecoratedLeaves
<1>5. ASSUME NEW op, NEW actor, NEW case, NEW cs, RecordRecallFeedback(op, actor, case, cs)
      PROVE  Leaves
  <2>1. db' = [db EXCEPT !.feedback = @ \cup {<<case, cs>>}] /\ preview' = preview
    BY <1>5 DEF RecordRecallFeedback, Commit
  <2>2. Decorates(db, db')
    BY <1>1, <2>1 DEF Decorates, Rows
  <2>. QED
    BY <2>1, <2>2, DecoratedLeaves
<1>. QED
  BY <1>2, <1>3, <1>4, <1>5 DEF RecallStep

LEMMA MemoryStepLeaves ==
    ASSUME Orderly, MemoryStep
    PROVE  Leaves
<1>1. PICK op \in Ops :
        \/ \E actor \in Actors, class \in Classes, life \in {"Direct", "Completed"},
              scope \in Scopes : CaptureEvidence(op, actor, class, life, scope)
        \/ \E actor \in Actors : CreateArtifactCollection(op, actor)
        \/ \E actor \in Actors, c \in OfKind(db, "ArtifactCollection"), n \in 1..2 :
              ImportArtifactSnapshot(op, actor, c, n)
        \/ \E actor \in Actors, s \in OfKind(db, "ArtifactSnapshot"), n \in 1..2,
              ordinals \in (SUBSET (1..2)) \ {{}} : CreateArtifactPassages(op, actor, s, n, ordinals)
        \/ \E actor \in Actors, domain \in Domains, scope \in Scopes
                \cup OfKind(db, "ArtifactCollection"), E \in EvidenceSets :
              CreateClaim(op, actor, domain, scope, E)
        \/ \E domain \in Domains, scope \in Scopes : RememberUserClaim(op, domain, scope)
        \/ \E actor \in Actors, kind \in RelationKinds, from, to \in Truths(db),
              E \in EvidenceSets : CreateSemanticRelation(op, actor, kind, from, to, E)
        \/ \E actor \in Actors, r \in DOMAIN db.records, n \in 1..3 : Retract(op, actor, r, n)
        \/ \E c \in OfKind(db, "Claim"), n \in 1..2 : CorrectUserClaim(op, c, n)
        \/ CommitPurge(op)
  BY DEF MemoryStep
<1>2. CASE \E actor \in Actors, class \in Classes, life \in {"Direct", "Completed"},
              scope \in Scopes : CaptureEvidence(op, actor, class, life, scope)
  BY <1>2, CaptureEvidenceLeaves
<1>3. CASE \E actor \in Actors : CreateArtifactCollection(op, actor)
  BY <1>3, CreateArtifactCollectionLeaves
<1>4. CASE \E actor \in Actors, c \in OfKind(db, "ArtifactCollection"), n \in 1..2 :
              ImportArtifactSnapshot(op, actor, c, n)
  BY <1>4, ImportArtifactSnapshotLeaves
<1>5. CASE \E actor \in Actors, s \in OfKind(db, "ArtifactSnapshot"), n \in 1..2,
              ordinals \in (SUBSET (1..2)) \ {{}} : CreateArtifactPassages(op, actor, s, n, ordinals)
  <2>1. PICK actor \in Actors, s \in OfKind(db, "ArtifactSnapshot"), n \in 1..2,
              ordinals \in SUBSET (1..2) : CreateArtifactPassages(op, actor, s, n, ordinals)
    BY <1>5
  <2>. QED
    BY <2>1, CreateArtifactPassagesLeaves
<1>6. CASE \E actor \in Actors, domain \in Domains, scope \in Scopes
                \cup OfKind(db, "ArtifactCollection"), E \in EvidenceSets :
              CreateClaim(op, actor, domain, scope, E)
  <2>1. PICK actor \in Actors, domain \in Domains, scope \in Scopes
                \cup OfKind(db, "ArtifactCollection"), E \in EvidenceSets :
              CreateClaim(op, actor, domain, scope, E)
    BY <1>6
  <2>2. E # {}
    <3>1. PICK none : none = {}
      OBVIOUS
    <3>2. E \in (SUBSET OfKind(db, "Evidence")) \ {none}
      BY <3>1 DEF EvidenceSets
    <3>. QED
      BY <3>1, <3>2
  <2>. QED
    BY <2>1, <2>2, CreateClaimLeaves
<1>7. CASE \E domain \in Domains, scope \in Scopes : RememberUserClaim(op, domain, scope)
  BY <1>7, RememberUserClaimLeaves
<1>8. CASE \E actor \in Actors, kind \in RelationKinds, from, to \in Truths(db),
              E \in EvidenceSets : CreateSemanticRelation(op, actor, kind, from, to, E)
  BY <1>8, CreateSemanticRelationLeaves
<1>9. CASE \E actor \in Actors, r \in DOMAIN db.records, n \in 1..3 : Retract(op, actor, r, n)
  BY <1>9, RetractLeaves
<1>10. CASE \E c \in OfKind(db, "Claim"), n \in 1..2 : CorrectUserClaim(op, c, n)
  BY <1>10, CorrectUserClaimLeaves
<1>11. CASE CommitPurge(op)
  BY <1>11, CommitPurgeLeaves
<1>. QED
  BY <1>1, <1>2, <1>3, <1>4, <1>5, <1>6, <1>7, <1>8, <1>9, <1>10, <1>11

LEMMA KernelNextLeaves ==
    ASSUME Orderly, Next
    PROVE  Leaves
<1>1. CASE RootStep /\ UNCHANGED preview
  <2>1. db' = db /\ preview' = preview
    BY <1>1 DEF RootStep, CreateRoot, WriteManifest, OpenRoot, OpenEngine, LoadMetadata, Crash,
                dbVars
  <2>. QED
    BY <2>1, SameLeaves
<1>2. CASE MemoryStep
  BY <1>2, MemoryStepLeaves
<1>3. CASE \E r \in DOMAIN db.records : r[1] \in PurgeKinds /\ PreviewPurge(r)
  BY <1>3, PreviewPurgeLeaves
<1>. QED
  BY <1>1, <1>2, <1>3 DEF Next
-----------------------------------------------------------------------------
(* Submission and review. *)

LEMMA PinnedKinds ==
    ASSUME NEW b, WellFormed(b), \A pin \in b.sources : pin[1][1] = "Evidence"
    PROVE  \A pin \in PinsOf(b) : pin[1][1] \notin Workflow
<1>1. ASSUME NEW pin \in ExistingEndpoints(b)
      PROVE  pin[1][1] \in {"Evidence", "Claim", "Entity"}
  <2>1. PICK ch \in Relates(b) : pin \in {ch.from, ch.to}
    BY DEF ExistingEndpoints, EndpointPins
  <2>2. {EndpointKind(b, ch.from), EndpointKind(b, ch.to)} \subseteq {"Evidence", "Claim", "Entity"}
    BY DEF WellFormed, RelationWellFormed
  <2>3. EndpointKind(b, pin) \in {"Evidence", "Claim", "Entity"}
    BY <2>1, <2>2
  <2>4. pin[1][1] # "Draft"
    BY DEF ExistingEndpoints
  <2>. QED
    BY <2>3, <2>4 DEF EndpointKind
<1>2. ASSUME NEW ch \in Mutates(b)
      PROVE  ch.target[1][1] \notin Workflow
  <2>1. MutationWellFormed(b, ch) /\ ch.kind \in {"Retract", "Supersede"}
    BY DEF WellFormed, Mutates
  <2>. QED
    BY <2>1 DEF MutationWellFormed, Workflow
<1>3. ASSUME NEW pin \in b.sources
      PROVE  pin[1][1] \notin Workflow
  BY DEF Workflow
<1>4. ASSUME NEW pin \in ExistingPins(b)
      PROVE  pin[1][1] \notin Workflow
  <2>1. CASE pin \in ExistingEndpoints(b)
    BY <1>1, <2>1 DEF Workflow
  <2>2. CASE pin \in {ch.target : ch \in Mutates(b)}
    BY <1>2, <2>2
  <2>. QED
    BY <2>1, <2>2 DEF ExistingPins
<1>. QED
  BY <1>3, <1>4 DEF PinsOf

LEMMA TargetKinds ==
    ASSUME NEW b, WellFormed(b)
    PROVE  \A r \in Targets(b) : r[1] \notin Workflow
<1> SUFFICES ASSUME NEW ch \in Mutates(b)
             PROVE  ch.target[1][1] \notin Workflow
  BY DEF Targets
<1>1. MutationWellFormed(b, ch) /\ ch.kind \in {"Retract", "Supersede"}
  BY DEF WellFormed, Mutates
<1>. QED
  BY <1>1 DEF MutationWellFormed, Workflow

\* A proposal p of bundle b enters the ledger.
Enters(d, e, p, b) ==
    /\ DOMAIN e = Rows /\ d.dependencies \subseteq e.dependencies
    /\ \A pin \in PinsOf(b) : <<pin[1], p>> \in e.dependencies
    /\ DOMAIN e.records = DOMAIN d.records \cup {p}
    /\ HeadOK(e.records[p]) /\ e.records[p].revision = 1
    /\ e.records[p].state = "Active" /\ e.records[p].status = "PendingReview"
    /\ \A r \in DOMAIN d.records : e.records[r] = d.records[r]
    /\ DOMAIN e.bundles = DOMAIN d.bundles \cup {p} /\ e.bundles[p] = b
    /\ \A q \in DOMAIN d.bundles : q # p => e.bundles[q] = d.bundles[q]
    /\ e.pending = d.pending \cup {p} /\ e.awaiting = d.awaiting /\ e.reviews = d.reviews

LEMMA ProposalEnters ==
    ASSUME NEW d, DOMAIN d = Rows, NEW p, p \notin DOMAIN d.records, NEW actor, NEW job,
           NEW scope, NEW b
    PROVE  Enters(d, WithProposal(d, p, actor, job, scope, b), p, b)
<1>1. PICK S : S = SourceIds(b)
  OBVIOUS
<1>2. PICK T : T = {pin[1] : pin \in ExistingPins(b)}
  OBVIOUS
<1>3. PICK rec : rec = [NewRecord(scope, "None", S, T) EXCEPT !.status = "PendingReview"]
  OBVIOUS
<1>4. /\ HeadOK(rec) /\ rec.state = "Active" /\ rec.revision = 1 /\ rec.status = "PendingReview"
      /\ rec.evidence = S /\ rec.ends = T
  BY <1>3 DEF NewRecord, HeadOK, RecordRows
<1>5. PICK new : new = [x \in {p} |-> rec]
  OBVIOUS
<1>6. PICK A : A = UNION {{<<s, r>> : s \in new[r].evidence \cup new[r].ends} : r \in DOMAIN new}
  OBVIOUS
<1>7. PICK f : f = InsertAll(d, new)
  OBVIOUS
<1>8. /\ DOMAIN f = Rows /\ f.dependencies = d.dependencies \cup A
      /\ f.records = [r \in DOMAIN d.records \cup DOMAIN new |->
                        IF r \in DOMAIN d.records THEN d.records[r] ELSE new[r]]
      /\ f.pending = d.pending /\ f.awaiting = d.awaiting
      /\ f.bundles = d.bundles /\ f.reviews = d.reviews
  BY <1>6, <1>7 DEF InsertAll, Rows
<1>9. PICK bundles : bundles = WithRow(d.bundles, p, b)
  OBVIOUS
<1>10. PICK jobs : jobs = WithRow(d.jobs, job, [proposal |-> p, actor |-> actor, bundle |-> b])
  OBVIOUS
<1>11. PICK e : e = WithProposal(d, p, actor, job, scope, b)
  OBVIOUS
<1>12. f.jobs = d.jobs
  BY <1>7 DEF InsertAll, Rows
<1>13. e = [f EXCEPT !.bundles = bundles, !.pending = f.pending \cup {p}, !.jobs = jobs]
  BY <1>1, <1>2, <1>3, <1>5, <1>7, <1>8, <1>9, <1>10, <1>11, <1>12 DEF WithProposal, Insert
<1>14. /\ DOMAIN e = Rows /\ e.dependencies = f.dependencies /\ e.records = f.records
       /\ e.pending = f.pending \cup {p} /\ e.awaiting = f.awaiting
       /\ e.bundles = bundles /\ e.reviews = f.reviews
  BY <1>8, <1>13 DEF Rows
<1>15. DOMAIN new = {p} /\ new[p] = rec
  BY <1>5
<1>16. ASSUME NEW pin \in PinsOf(b)
       PROVE  <<pin[1], p>> \in e.dependencies
  <2>1. pin[1] \in S \cup T
    BY <1>1, <1>2 DEF PinsOf, SourceIds
  <2>2. <<pin[1], p>> \in A
    BY <1>4, <1>6, <1>15, <2>1
  <2>. QED
    BY <1>8, <1>14, <2>2
<1>17. /\ DOMAIN bundles = DOMAIN d.bundles \cup {p} /\ bundles[p] = b
       /\ \A q \in DOMAIN d.bundles : q # p => bundles[q] = d.bundles[q]
  BY <1>9 DEF WithRow
<1>18. /\ DOMAIN e.records = DOMAIN d.records \cup {p} /\ e.records[p] = rec
       /\ \A r \in DOMAIN d.records : e.records[r] = d.records[r]
  BY <1>8, <1>14, <1>15
<1>19. d.dependencies \subseteq e.dependencies
  BY <1>8, <1>14
<1>. QED
  BY <1>4, <1>8, <1>11, <1>14, <1>16, <1>17, <1>18, <1>19 DEF Enters

\* The new proposal is pending, unreviewed, and pins what is current.
LEMMA EntersKeep ==
    ASSUME NEW d, Ledger(d), NEW p, p = NewId(d, "Proposal"), NEW b, WellFormed(b),
           \A pin \in b.sources : pin[1][1] = "Evidence",
           \A pin \in PinsOf(b) : PinCurrent(d, pin), NEW e, Enters(d, e, p, b)
    PROVE  Carries(d, e)
<1>1. HeadsOK(d) /\ Serial(d) /\ Bundled(d) /\ Queued(d) /\ Reviewed(d) /\ Grounded(d) /\ Fresh(d, {})
  BY DEF Ledger, Book
<1>2. p = NthId(d, "Proposal", 1) /\ p[1] = "Proposal" /\ p \notin DOMAIN d.records
  <2>1. "Proposal" \in SerialKinds /\ 1 \in Nat \ {0}
    BY DEF SerialKinds, Workflow
  <2>2. p = NthId(d, "Proposal", 1) /\ p[1] = "Proposal"
    BY DEF NewId, NthId
  <2>. QED
    BY <1>1, <2>1, <2>2, SerialIds
<1>3. /\ DOMAIN e = Rows /\ d.dependencies \subseteq e.dependencies
      /\ \A pin \in PinsOf(b) : <<pin[1], p>> \in e.dependencies
      /\ DOMAIN e.records = DOMAIN d.records \cup {p}
      /\ HeadOK(e.records[p]) /\ e.records[p].revision = 1
      /\ e.records[p].state = "Active" /\ e.records[p].status = "PendingReview"
      /\ \A r \in DOMAIN d.records : e.records[r] = d.records[r]
  BY DEF Enters
<1>4. /\ DOMAIN e.bundles = DOMAIN d.bundles \cup {p} /\ e.bundles[p] = b
      /\ \A q \in DOMAIN d.bundles : q # p => e.bundles[q] = d.bundles[q]
      /\ e.pending = d.pending \cup {p} /\ e.awaiting = d.awaiting /\ e.reviews = d.reviews
  BY DEF Enters
<1>5. /\ \A r \in DOMAIN d.records : IsActive(e, r) <=> IsActive(d, r)
      /\ IsActive(e, p)
  BY <1>3 DEF IsActive, Exists, StateOf
<1>6. /\ OfKind(e, "Proposal") = OfKind(d, "Proposal") \cup {p}
      /\ \A k : k # "Proposal" => OfKind(e, k) = OfKind(d, k)
  BY <1>2, <1>3 DEF OfKind
<1>7. /\ ProposalsOf(e) = ProposalsOf(d) \cup {p} /\ ReviewsOf(e) = ReviewsOf(d)
      /\ p \notin ProposalsOf(d) /\ ProposalsOf(d) \subseteq DOMAIN d.records
  <2>1. ReviewsOf(e) = ReviewsOf(d)
    BY <1>6 DEF ReviewsOf
  <2>2. ProposalsOf(e) = ProposalsOf(d) \cup {p}
    BY <1>6 DEF ProposalsOf
  <2>. QED
    BY <1>2, <2>1, <2>2 DEF ProposalsOf, OfKind
<1>8. HeadsOK(e)
  BY <1>1, <1>3 DEF HeadsOK
<1>9. Serial(e)
  <2>1. PICK N : N = {p}
    OBVIOUS
  <2>2. ASSUME NEW k \in SerialKinds
        PROVE  Following(d, N, k)
    <3>1. CASE k = "Proposal"
      <4>1. {r \in N : r[1] = k} = {NthId(d, k, i) : i \in 1..1}
        BY <1>2, <2>1, <3>1
      <4>. QED
        BY <4>1 DEF Following
    <3>2. CASE k # "Proposal"
      <4>1. {r \in N : r[1] = k} = {NthId(d, k, i) : i \in 1..0}
        BY <1>2, <2>1, <3>2
      <4>. QED
        BY <4>1 DEF Following
    <3>. QED
      BY <3>1, <3>2
  <2>. QED
    BY <1>1, <1>3, <2>1, <2>2, SerialInsertion
<1>10. Bundled(e)
  <2>1. DOMAIN e.bundles = ProposalsOf(e) /\ DOMAIN e.reviews = ReviewsOf(e)
    BY <1>1, <1>4, <1>7 DEF Bundled
  <2>2. ASSUME NEW q \in DOMAIN d.bundles
        PROVE  /\ WellFormed(e.bundles[q])
               /\ \A pin \in PinsOf(e.bundles[q]) : PinOK(e, q, pin)
    <3>1. e.bundles[q] = d.bundles[q]
      BY <1>1, <1>4, <1>7 DEF Bundled
    <3>. QED
      BY <1>1, <1>3, <3>1 DEF Bundled, PinOK
  <2>3. WellFormed(e.bundles[p]) /\ \A pin \in PinsOf(e.bundles[p]) : PinOK(e, p, pin)
    <3>1. \A pin \in PinsOf(b) : pin[1][1] \notin Workflow
      BY PinnedKinds
    <3>2. \A pin \in PinsOf(b) : pin[1] \in DOMAIN d.records
      BY DEF PinCurrent, IsActive, Exists
    <3>. QED
      BY <1>3, <1>4, <3>1, <3>2 DEF PinOK
  <2>. QED
    BY <1>4, <2>1, <2>2, <2>3 DEF Bundled
<1>11. Queued(e)
  <2>1. e.pending = {q \in ProposalsOf(e) : IsActive(e, q) /\ e.records[q].status = "PendingReview"}
    BY <1>1, <1>3, <1>4, <1>5, <1>7 DEF Queued
  <2>2. ~AwaitsAdjudication(e.records[p].status)
    BY <1>3 DEF AwaitsAdjudication
  <2>3. e.awaiting = {q \in ProposalsOf(e) : IsActive(e, q)
                                              /\ AwaitsAdjudication(e.records[q].status)}
    BY <1>1, <1>3, <1>4, <1>5, <1>7, <2>2 DEF Queued
  <2>4. ASSUME NEW q \in e.awaiting
        PROVE  ReviewedBy(e, q)
    <3>1. q \in d.awaiting /\ q \in DOMAIN d.records /\ ReviewedBy(d, q)
      BY <1>1, <1>4, <1>7 DEF Queued
    <3>2. e.records[q] = d.records[q]
      BY <1>3, <3>1
    <3>. QED
      BY <1>4, <1>7, <3>1, <3>2 DEF ReviewedBy
  <2>. QED
    BY <2>1, <2>3, <2>4 DEF Queued
<1>12. Reviewed(e)
  <2>1. \A q \in ProposalsOf(e) : Unreviewed(e, q)
    BY <1>1, <1>3, <1>5, <1>7 DEF Reviewed, Unreviewed
  <2>2. \A q \in ProposalsOf(d), n \in Nat : ReviewOK(d, q, n) => ReviewOK(e, q, n)
    BY <1>3, <1>5, <1>7 DEF ReviewOK
  <2>. QED
    BY <1>1, <1>4, <1>7, <2>1, <2>2 DEF Reviewed
<1>13. Grounded(e)
  <2>1. OfKind(e, "Claim") = OfKind(d, "Claim")
    BY <1>6
  <2>. QED
    BY <1>1, <1>3, <2>1 DEF Grounded, ClaimOK, OfKind
<1>14. Fresh(e, {})
  <2> SUFFICES ASSUME NEW q \in ProposalsOf(e), OpenProposal(e, q), NEW pin \in PinsOf(e.bundles[q])
               PROVE  PinCurrent(e, pin)
    BY DEF Fresh
  <2>1. PinCurrent(d, pin)
    <3>1. CASE q = p
      BY <1>4, <3>1
    <3>2. CASE q # p
      <4>1. q \in ProposalsOf(d) /\ OpenProposal(d, q) /\ e.bundles[q] = d.bundles[q]
        BY <1>1, <1>3, <1>4, <1>5, <1>7, <3>2 DEF OpenProposal, Bundled
      <4>. QED
        BY <1>1, <4>1 DEF Fresh
    <3>. QED
      BY <3>1, <3>2
  <2>. QED
    BY <1>3, <1>5, <2>1 DEF PinCurrent, IsActive, Exists
<1>15. Forward(d, e)
  BY <1>3, ForwardSame DEF Unchanged
<1>. QED
  BY <1>8, <1>9, <1>10, <1>11, <1>12, <1>13, <1>14, <1>15 DEF Carries, Ledger, Book

LEMMA SubmitProposalLeaves ==
    ASSUME Orderly, NEW op, NEW actor, NEW job, NEW scope, NEW b,
           \A pin \in b.sources : pin[1][1] = "Evidence",
           SubmitProposal(op, actor, job, scope, b)
    PROVE  Leaves
<1>1. PICK p : p = NewId(db, "Proposal")
  OBVIOUS
<1>2. PICK e : e = WithProposal(db, p, actor, job, scope, b)
  OBVIOUS
<1>3. WellFormed(b) /\ Commit(op, {<<p, 1>>}, e) /\ preview' = preview
  BY <1>1, <1>2 DEF SubmitProposal
<1>4. \A pin \in PinsOf(b) : PinCurrent(db, pin)
  BY DEF SubmitProposal, PinInScope, PinsOf
<1>5. p \notin DOMAIN db.records
  <2>1. "Proposal" \in SerialKinds /\ 1 \in Nat \ {0}
    BY DEF SerialKinds, Workflow
  <2>. QED
    BY <1>1, <2>1, SerialIds DEF Orderly, Ledger, Book, NewId
<1>6. Enters(db, e, p, b)
  BY <1>2, <1>5, LedgerRows, ProposalEnters DEF Orderly, Ledger
<1>7. Carries(db, e)
  BY <1>1, <1>3, <1>4, <1>6, EntersKeep DEF Orderly
<1>. QED
  BY <1>3, <1>7, CommitLeaves

LEMMA ResubmitProposalLeaves ==
    ASSUME Orderly, NEW op, NEW actor, NEW job, NEW b, ResubmitProposal(op, actor, job, b)
    PROVE  Leaves
<1>1. db' = db /\ preview' = preview
  BY DEF ResubmitProposal, CommitReceipt
<1>. QED
  BY <1>1, SameLeaves

\* Statuses after a review, and of decisions.
ReviewStatuses == {"ReviewedApprove", "ReviewedReject", "NeedsUser", "Unsupported"}
Decisions == {"Applied", "Rejected", "Stale"}

\* Proposal p goes to its next revision in another status; other records of d
\* stay.
Restated(d, e, p, status) ==
    /\ DOMAIN e = Rows /\ d.dependencies \subseteq e.dependencies /\ e.bundles = d.bundles
    /\ e.records[p] = [d.records[p] EXCEPT !.revision = @ + 1, !.status = status]
    /\ \A r \in DOMAIN d.records : r \in DOMAIN e.records /\ (r # p => e.records[r] = d.records[r])

Judges(d, e, p, v, status) ==
    /\ Restated(d, e, p, status)
    /\ DOMAIN e.records = DOMAIN d.records \cup {v} /\ HeadOK(e.records[v])
    /\ DOMAIN e.reviews = DOMAIN d.reviews \cup {v} /\ e.reviews[v].proposal = Pin(d, p)
    /\ \A w \in DOMAIN d.reviews : w # v => e.reviews[w] = d.reviews[w]
    /\ e.pending = d.pending \ {p}
    /\ e.awaiting = IF AwaitsAdjudication(status) THEN d.awaiting \cup {p} ELSE d.awaiting

Decides(d, e, p, status) ==
    /\ Restated(d, e, p, status)
    /\ DOMAIN e.records = DOMAIN d.records /\ e.reviews = d.reviews
    /\ e.pending = d.pending /\ e.awaiting = d.awaiting \ {p}

LEMMA RestatedIs ==
    ASSUME NEW d, NEW p \in ProposalsOf(d), HeadsOK(d), NEW status, NEW e, Restated(d, e, p, status)
    PROVE  /\ p \in DOMAIN d.records /\ p[1] = "Proposal" /\ HeadOK(e.records[p])
           /\ e.records[p].revision = d.records[p].revision + 1 /\ e.records[p].status = status
           /\ d.records[p].revision \in Nat
           /\ e.records[p].label = d.records[p].label
           /\ \A r \in DOMAIN d.records : /\ r \in DOMAIN e.records
                                          /\ IsActive(e, r) <=> IsActive(d, r)
                                          /\ e.records[r].label = d.records[r].label
                                          /\ r # p => e.records[r] = d.records[r]
<1>1. p \in DOMAIN d.records /\ p[1] = "Proposal" /\ HeadOK(d.records[p])
  BY DEF HeadsOK, ProposalsOf, OfKind
<1>2. e.records[p] = [d.records[p] EXCEPT !.revision = @ + 1, !.status = status]
  BY DEF Restated
<1>3. PICK rec : rec = d.records[p]
  OBVIOUS
<1>4. PICK next : next = e.records[p]
  OBVIOUS
<1>5. next = [rec EXCEPT !.revision = rec.revision + 1, !.status = status]
  BY <1>2, <1>3, <1>4
<1>6. /\ HeadOK(next) /\ next.revision = rec.revision + 1 /\ next.status = status
      /\ next.state = rec.state /\ next.label = rec.label /\ rec.revision \in Nat
  BY <1>1, <1>3, <1>5 DEF HeadOK, RecordRows
<1>7. p \in DOMAIN e.records /\ (IsActive(e, p) <=> IsActive(d, p))
  BY <1>1, <1>3, <1>4, <1>6 DEF IsActive, StateOf, Exists, Restated
<1>8. ASSUME NEW r \in DOMAIN d.records, r # p
      PROVE  /\ r \in DOMAIN e.records /\ e.records[r] = d.records[r]
             /\ IsActive(e, r) <=> IsActive(d, r)
  BY <1>8 DEF IsActive, StateOf, Exists, Restated
<1>9. ASSUME NEW r \in DOMAIN d.records
      PROVE  /\ r \in DOMAIN e.records
             /\ IsActive(e, r) <=> IsActive(d, r)
             /\ e.records[r].label = d.records[r].label
             /\ r # p => e.records[r] = d.records[r]
  BY <1>3, <1>4, <1>6, <1>7, <1>8
<1>. QED
  BY <1>1, <1>3, <1>4, <1>6, <1>9

\* What the two have in common.
LEMMA RestatedKeeps ==
    ASSUME NEW d, NEW p \in ProposalsOf(d), Book(d), NEW status, NEW e, Restated(d, e, p, status),
           d.records[p].status \in Undecided, IsActive(d, p)
    PROVE  /\ \A q \in DOMAIN d.bundles :
                 WellFormed(e.bundles[q]) /\ \A pin \in PinsOf(e.bundles[q]) : PinOK(e, q, pin)
           /\ \A r \in DOMAIN d.records : r[1] = "Claim" => ClaimOK(e, e.records[r])
           /\ \A q \in DOMAIN d.bundles : \A pin : pin \in PinsOf(e.bundles[q]) /\ PinCurrent(d, pin) =>
                 PinCurrent(e, pin)
           /\ Forward(d, e)
<1>1. HeadsOK(d) /\ Bundled(d) /\ Grounded(d)
  BY DEF Book
<1>2. /\ p \in DOMAIN d.records /\ p[1] = "Proposal" /\ HeadOK(e.records[p])
      /\ e.records[p].revision = d.records[p].revision + 1 /\ e.records[p].status = status
      /\ \A r \in DOMAIN d.records : /\ r \in DOMAIN e.records
                                     /\ IsActive(e, r) <=> IsActive(d, r)
                                     /\ e.records[r].label = d.records[r].label
                                     /\ r # p => e.records[r] = d.records[r]
  BY <1>1, RestatedIs
<1>3. ASSUME NEW q \in DOMAIN d.bundles
      PROVE  WellFormed(e.bundles[q]) /\ \A pin \in PinsOf(e.bundles[q]) : PinOK(e, q, pin)
  BY <1>1, <1>2 DEF Bundled, PinOK, Restated
<1>4. ASSUME NEW r \in DOMAIN d.records, r[1] = "Claim"
      PROVE  ClaimOK(e, e.records[r])
  <2>1. ClaimOK(d, d.records[r]) /\ e.records[r] = d.records[r]
    BY <1>1, <1>2, <1>4 DEF Grounded, OfKind
  <2>. QED
    BY <1>2, <2>1 DEF ClaimOK
<1>5. ASSUME NEW q \in DOMAIN d.bundles, NEW pin, pin \in PinsOf(e.bundles[q]), PinCurrent(d, pin)
      PROVE  PinCurrent(e, pin)
  <2>1. pin[1] \in DOMAIN d.records /\ pin[1] # p
    <3>1. PinOK(d, q, pin)
      BY <1>1, <1>5 DEF Bundled, Restated
    <3>. QED
      BY <1>2, <3>1 DEF PinOK, Workflow
  <2>. QED
    BY <1>2, <1>5, <2>1 DEF PinCurrent
<1>6. Revised(d, e)
  <2>1. StateOf(d, p) # "Purged"
    BY DEF IsActive
  <2>2. ASSUME NEW r \in DOMAIN d.records
        PROVE  /\ r \in DOMAIN e.records
               /\ e.records[r] # d.records[r] =>
                     e.records[r].revision = d.records[r].revision + 1 /\ StateOf(d, r) # "Purged"
    BY <1>2, <2>1
  <2>. QED
    BY <2>2 DEF Revised
<1>7. Final(d, e)
  BY <1>2 DEF Final, ProposalsOf, OfKind
<1>. QED
  BY <1>3, <1>4, <1>5, <1>6, <1>7 DEF Forward

LEMMA DecidesKeep ==
    ASSUME NEW d, NEW p \in ProposalsOf(d), Book(d), Fresh(d, {p}), IsActive(d, p),
           d.records[p].status \in ReviewStatuses, NEW status \in Decisions,
           NEW e, Decides(d, e, p, status)
    PROVE  Ledger(e) /\ Forward(d, e)
<1>1. HeadsOK(d) /\ Serial(d) /\ Bundled(d) /\ Queued(d) /\ Reviewed(d) /\ Grounded(d)
  BY DEF Book
<1>2. Restated(d, e, p, status) /\ DOMAIN e = Rows /\ e.bundles = d.bundles
  BY DEF Decides, Restated
<1>3. /\ DOMAIN e.records = DOMAIN d.records /\ e.reviews = d.reviews
      /\ e.pending = d.pending /\ e.awaiting = d.awaiting \ {p}
  BY DEF Decides
<1>4. /\ p \in DOMAIN d.records /\ p[1] = "Proposal" /\ HeadOK(e.records[p])
      /\ e.records[p].revision = d.records[p].revision + 1 /\ e.records[p].status = status
      /\ d.records[p].revision \in Nat
      /\ \A r \in DOMAIN d.records : /\ IsActive(e, r) <=> IsActive(d, r)
                                     /\ r # p => e.records[r] = d.records[r]
  BY <1>1, <1>2, RestatedIs
<1>5. /\ status \notin Undecided /\ status # "PendingReview" /\ ~AwaitsAdjudication(status)
      /\ d.records[p].status \in Undecided /\ d.records[p].status # "PendingReview"
  BY DEF Decisions, ReviewStatuses, Undecided, AwaitsAdjudication
<1>6. /\ \A q \in DOMAIN d.bundles :
            WellFormed(e.bundles[q]) /\ \A pin \in PinsOf(e.bundles[q]) : PinOK(e, q, pin)
      /\ \A r \in DOMAIN d.records : r[1] = "Claim" => ClaimOK(e, e.records[r])
      /\ \A q \in DOMAIN d.bundles : \A pin : pin \in PinsOf(e.bundles[q]) /\ PinCurrent(d, pin) =>
            PinCurrent(e, pin)
      /\ Forward(d, e)
  BY <1>2, <1>5, RestatedKeeps
<1>7. \A k : OfKind(e, k) = OfKind(d, k)
  BY <1>3 DEF OfKind
<1>8. /\ ProposalsOf(e) = ProposalsOf(d) /\ ReviewsOf(e) = ReviewsOf(d)
      /\ ProposalsOf(d) \subseteq DOMAIN d.records
  BY <1>7 DEF ProposalsOf, ReviewsOf, OfKind
<1>9. HeadsOK(e)
  BY <1>1, <1>2, <1>3, <1>4 DEF HeadsOK
<1>10. Serial(e)
  BY <1>1, <1>7 DEF Serial
<1>11. Bundled(e)
  BY <1>1, <1>2, <1>3, <1>6, <1>8 DEF Bundled
<1>12. Queued(e)
  <2>1. e.pending = {q \in ProposalsOf(e) : IsActive(e, q) /\ e.records[q].status = "PendingReview"}
    BY <1>1, <1>3, <1>4, <1>5, <1>8 DEF Queued
  <2>2. e.awaiting = {q \in ProposalsOf(e) : IsActive(e, q)
                                              /\ AwaitsAdjudication(e.records[q].status)}
    BY <1>1, <1>3, <1>4, <1>5, <1>8 DEF Queued
  <2>3. ASSUME NEW q \in e.awaiting
        PROVE  ReviewedBy(e, q)
    <3>1. q \in d.awaiting /\ q # p /\ q \in DOMAIN d.records /\ ReviewedBy(d, q)
      BY <1>1, <1>3, <1>8 DEF Queued
    <3>2. e.records[q] = d.records[q]
      BY <1>4, <3>1
    <3>. QED
      BY <1>3, <1>8, <3>1, <3>2 DEF ReviewedBy
  <2>. QED
    BY <2>1, <2>2, <2>3 DEF Queued
<1>13. Reviewed(e)
  <2>1. ASSUME NEW q \in ProposalsOf(e)
        PROVE  Unreviewed(e, q)
    <3>1. q \in DOMAIN d.records /\ Unreviewed(d, q)
      BY <1>1, <1>8 DEF Reviewed
    <3>. QED
      BY <1>4, <1>5, <3>1 DEF Unreviewed
  <2>2. ASSUME NEW q \in ProposalsOf(d), NEW n \in Nat, ReviewOK(d, q, n)
        PROVE  ReviewOK(e, q, n)
    <3>1. q \in DOMAIN d.records
      BY <1>8
    <3>2. CASE q = p
      BY <1>4, <2>2, <3>2 DEF ReviewOK
    <3>3. CASE q # p
      BY <1>4, <2>2, <3>1, <3>3 DEF ReviewOK
    <3>. QED
      BY <3>2, <3>3
  <2>. QED
    BY <1>1, <1>3, <1>8, <2>1, <2>2 DEF Reviewed
<1>14. Grounded(e)
  BY <1>3, <1>6 DEF Grounded, OfKind
<1>15. Fresh(e, {})
  <2> SUFFICES ASSUME NEW q \in ProposalsOf(e), OpenProposal(e, q), NEW pin \in PinsOf(e.bundles[q])
               PROVE  PinCurrent(e, pin)
    BY DEF Fresh
  <2>1. q # p /\ q \in DOMAIN d.records /\ q \in ProposalsOf(d) \ {p}
    BY <1>4, <1>5, <1>8 DEF OpenProposal
  <2>2. OpenProposal(d, q)
    BY <1>4, <2>1 DEF OpenProposal
  <2>3. PinCurrent(d, pin)
    BY <1>2, <2>1, <2>2 DEF Fresh
  <2>4. q \in DOMAIN d.bundles
    BY <1>1, <2>1 DEF Bundled
  <2>. QED
    BY <1>6, <2>3, <2>4
<1>. QED
  BY <1>6, <1>9, <1>10, <1>11, <1>12, <1>13, <1>14, <1>15 DEF Ledger, Book

LEMMA JudgesKeep ==
    ASSUME NEW d, NEW p \in ProposalsOf(d), Ledger(d), IsActive(d, p),
           d.records[p].status = "PendingReview", NEW status \in ReviewStatuses,
           NEW v, v = NewId(d, "ProposalReview"), NEW e, Judges(d, e, p, v, status)
    PROVE  Carries(d, e)
<1>1. /\ HeadsOK(d) /\ Serial(d) /\ Bundled(d) /\ Queued(d) /\ Reviewed(d) /\ Grounded(d)
      /\ Fresh(d, {}) /\ Book(d)
  BY DEF Ledger, Book
<1>2. Restated(d, e, p, status) /\ DOMAIN e = Rows /\ e.bundles = d.bundles
  BY DEF Judges, Restated
<1>3. /\ DOMAIN e.records = DOMAIN d.records \cup {v} /\ HeadOK(e.records[v])
      /\ DOMAIN e.reviews = DOMAIN d.reviews \cup {v} /\ e.reviews[v].proposal = Pin(d, p)
      /\ \A w \in DOMAIN d.reviews : w # v => e.reviews[w] = d.reviews[w]
      /\ e.pending = d.pending \ {p}
      /\ e.awaiting = IF AwaitsAdjudication(status) THEN d.awaiting \cup {p} ELSE d.awaiting
  BY DEF Judges
<1>4. /\ p \in DOMAIN d.records /\ p[1] = "Proposal" /\ HeadOK(e.records[p])
      /\ e.records[p].revision = d.records[p].revision + 1 /\ e.records[p].status = status
      /\ d.records[p].revision \in Nat
      /\ \A r \in DOMAIN d.records : /\ r \in DOMAIN e.records
                                     /\ IsActive(e, r) <=> IsActive(d, r)
                                     /\ r # p => e.records[r] = d.records[r]
  BY <1>1, <1>2, RestatedIs
<1>5. /\ status \in Undecided /\ status # "PendingReview"
      /\ d.records[p].status \in Undecided /\ ~AwaitsAdjudication(d.records[p].status)
  BY DEF ReviewStatuses, Undecided, AwaitsAdjudication
<1>6. /\ \A q \in DOMAIN d.bundles :
            WellFormed(e.bundles[q]) /\ \A pin \in PinsOf(e.bundles[q]) : PinOK(e, q, pin)
      /\ \A r \in DOMAIN d.records : r[1] = "Claim" => ClaimOK(e, e.records[r])
      /\ \A q \in DOMAIN d.bundles : \A pin : pin \in PinsOf(e.bundles[q]) /\ PinCurrent(d, pin) =>
            PinCurrent(e, pin)
      /\ Forward(d, e)
  BY <1>1, <1>2, <1>5, RestatedKeeps
<1>7. v = NthId(d, "ProposalReview", 1) /\ v[1] = "ProposalReview" /\ v \notin DOMAIN d.records
  <2>1. "ProposalReview" \in SerialKinds /\ 1 \in Nat \ {0}
    BY DEF SerialKinds, Workflow
  <2>2. v = NthId(d, "ProposalReview", 1) /\ v[1] = "ProposalReview"
    BY DEF NewId, NthId
  <2>. QED
    BY <1>1, <2>1, <2>2, SerialIds
<1>8. /\ ProposalsOf(e) = ProposalsOf(d) /\ ReviewsOf(e) = ReviewsOf(d) \cup {v}
      /\ ProposalsOf(d) \subseteq DOMAIN d.records /\ v \notin ReviewsOf(d)
  BY <1>3, <1>7 DEF ProposalsOf, ReviewsOf, OfKind
<1>9. HeadsOK(e)
  <2>1. ASSUME NEW r \in DOMAIN e.records
        PROVE  HeadOK(e.records[r])
    BY <1>1, <1>3, <1>4 DEF HeadsOK
  <2>. QED
    BY <1>2, <2>1 DEF HeadsOK
<1>10. Serial(e)
  <2>1. PICK N : N = {v}
    OBVIOUS
  <2>2. ASSUME NEW k \in SerialKinds
        PROVE  Following(d, N, k)
    <3>1. CASE k = "ProposalReview"
      <4>1. {r \in N : r[1] = k} = {NthId(d, k, i) : i \in 1..1}
        BY <1>7, <2>1, <3>1
      <4>. QED
        BY <4>1 DEF Following
    <3>2. CASE k # "ProposalReview"
      <4>1. {r \in N : r[1] = k} = {NthId(d, k, i) : i \in 1..0}
        BY <1>7, <2>1, <3>2
      <4>. QED
        BY <4>1 DEF Following
    <3>. QED
      BY <3>1, <3>2
  <2>. QED
    BY <1>1, <1>3, <2>1, <2>2, SerialInsertion
<1>11. Bundled(e)
  BY <1>1, <1>2, <1>3, <1>6, <1>8 DEF Bundled
<1>12. \A w \in ReviewsOf(d) : w \in ReviewsOf(e) /\ e.reviews[w] = d.reviews[w]
  BY <1>1, <1>3, <1>8 DEF Bundled
<1>13. Queued(e)
  <2>1. e.pending = {q \in ProposalsOf(e) : IsActive(e, q) /\ e.records[q].status = "PendingReview"}
    BY <1>1, <1>3, <1>4, <1>5, <1>8 DEF Queued
  <2>2. e.awaiting = {q \in ProposalsOf(e) : IsActive(e, q)
                                              /\ AwaitsAdjudication(e.records[q].status)}
    <3>1. d.awaiting = {q \in ProposalsOf(d) : IsActive(d, q)
                                                /\ AwaitsAdjudication(d.records[q].status)}
      BY <1>1 DEF Queued
    <3>2. CASE AwaitsAdjudication(status)
      BY <1>3, <1>4, <1>8, <3>1, <3>2
    <3>3. CASE ~AwaitsAdjudication(status)
      BY <1>3, <1>4, <1>5, <1>8, <3>1, <3>3
    <3>. QED
      BY <3>2, <3>3
  <2>3. ASSUME NEW q \in e.awaiting, q # p
        PROVE  ReviewedBy(e, q)
    <3>1. q \in d.awaiting /\ q \in DOMAIN d.records /\ ReviewedBy(d, q)
      BY <1>1, <1>3, <1>8, <2>3 DEF Queued
    <3>2. e.records[q] = d.records[q]
      BY <1>4, <2>3, <3>1
    <3>. QED
      BY <1>12, <3>1, <3>2 DEF ReviewedBy
  <2>4. ReviewedBy(e, p)
    <3>1. e.reviews[v].proposal = <<p, e.records[p].revision - 1>>
      BY <1>3, <1>4 DEF Pin
    <3>. QED
      BY <1>8, <3>1 DEF ReviewedBy
  <2>. QED
    BY <2>1, <2>2, <2>3, <2>4 DEF Queued
<1>14. Reviewed(e)
  <2>1. ASSUME NEW q \in ProposalsOf(e)
        PROVE  Unreviewed(e, q)
    <3>1. q \in DOMAIN d.records /\ Unreviewed(d, q)
      BY <1>1, <1>8 DEF Reviewed
    <3>. QED
      BY <1>4, <1>5, <3>1 DEF Unreviewed
  <2>2. ASSUME NEW q \in ProposalsOf(d), NEW n \in Nat, ReviewOK(d, q, n)
        PROVE  ReviewOK(e, q, n)
    <3>1. q \in DOMAIN d.records
      BY <1>8
    <3>2. CASE q = p
      BY <1>4, <1>5, <2>2, <3>2 DEF ReviewOK
    <3>3. CASE q # p
      BY <1>4, <2>2, <3>1, <3>3 DEF ReviewOK
    <3>. QED
      BY <3>2, <3>3
  <2>3. ASSUME NEW w \in ReviewsOf(e)
        PROVE  \E q \in ProposalsOf(e), n \in Nat \ {0} :
                  e.reviews[w].proposal = <<q, n>> /\ ReviewOK(e, q, n)
    <3>1. CASE w = v
      <4>1. e.reviews[v].proposal = <<p, d.records[p].revision>>
        BY <1>3 DEF Pin
      <4>2. d.records[p].revision \in Nat \ {0}
        BY <1>1 DEF Reviewed, Unreviewed
      <4>3. ReviewOK(e, p, d.records[p].revision)
        BY <1>4, <1>5 DEF ReviewOK
      <4>. QED
        BY <1>8, <3>1, <4>1, <4>2, <4>3
    <3>2. CASE w # v
      <4>1. w \in ReviewsOf(d)
        BY <1>8, <3>2
      <4>2. PICK q \in ProposalsOf(d), n \in Nat \ {0} :
               d.reviews[w].proposal = <<q, n>> /\ ReviewOK(d, q, n)
        BY <1>1, <4>1 DEF Reviewed
      <4>3. ReviewOK(e, q, n)
        BY <2>2, <4>2
      <4>. QED
        BY <1>8, <1>12, <4>1, <4>2, <4>3
    <3>. QED
      BY <3>1, <3>2
  <2>. QED
    BY <2>1, <2>3 DEF Reviewed
<1>15. Grounded(e)
  <2>1. OfKind(e, "Claim") \subseteq DOMAIN d.records
    BY <1>3, <1>7 DEF OfKind
  <2>. QED
    BY <1>6, <2>1 DEF Grounded, OfKind
<1>16. Fresh(e, {})
  <2> SUFFICES ASSUME NEW q \in ProposalsOf(e), OpenProposal(e, q), NEW pin \in PinsOf(e.bundles[q])
               PROVE  PinCurrent(e, pin)
    BY DEF Fresh
  <2>1. q \in DOMAIN d.records /\ q \in ProposalsOf(d)
    BY <1>8
  <2>2. OpenProposal(d, q)
    BY <1>4, <1>5, <2>1 DEF OpenProposal
  <2>3. PinCurrent(d, pin)
    BY <1>1, <1>2, <2>1, <2>2 DEF Fresh
  <2>4. q \in DOMAIN d.bundles
    BY <1>1, <2>1 DEF Bundled
  <2>. QED
    BY <1>6, <2>3, <2>4
<1>. QED
  BY <1>6, <1>9, <1>10, <1>11, <1>13, <1>14, <1>15, <1>16 DEF Carries, Ledger, Book

LEMMA StatusRestates ==
    ASSUME NEW d, DOMAIN d = Rows, NEW p \in DOMAIN d.records, NEW status,
           NEW f, f = SetStatus(d, p, status)
    PROVE  /\ Restated(d, f, p, status)
           /\ DOMAIN f = Rows /\ DOMAIN f.records = DOMAIN d.records /\ f.reviews = d.reviews
           /\ f.pending = d.pending /\ f.awaiting = d.awaiting /\ f.bundles = d.bundles
<1>1. PICK rec : rec = [d.records[p] EXCEPT !.revision = @ + 1, !.status = status]
  OBVIOUS
<1>2. PICK records : records = [d.records EXCEPT ![p] = rec]
  OBVIOUS
<1>3. f = [d EXCEPT !.records = records]
  BY <1>1, <1>2 DEF SetStatus
<1>4. /\ DOMAIN f = Rows /\ f.records = records /\ f.dependencies = d.dependencies
      /\ f.reviews = d.reviews /\ f.pending = d.pending /\ f.awaiting = d.awaiting
      /\ f.bundles = d.bundles
  BY <1>3 DEF Rows
<1>5. /\ DOMAIN records = DOMAIN d.records /\ records[p] = rec
      /\ \A r \in DOMAIN d.records : r # p => records[r] = d.records[r]
  BY <1>2
<1>6. Restated(d, f, p, status)
  BY <1>1, <1>4, <1>5 DEF Restated
<1>. QED
  BY <1>4, <1>5, <1>6

LEMMA ReviewJudges ==
    ASSUME NEW d, DOMAIN d = Rows, NEW p \in DOMAIN d.records, NEW v, v \notin DOMAIN d.records,
           NEW case, NEW verdict, NEW findings
    PROVE  Judges(d, WithReview(d, v, p, case, verdict, findings), p, v, ReviewStatus(verdict))
<1>1. PICK status : status = ReviewStatus(verdict)
  OBVIOUS
<1>2. PICK about : about = {p} \cup {pin[1] : pin \in d.cases[case].candidates \cup findings}
  OBVIOUS
<1>3. PICK f : f = SetStatus(d, p, status)
  OBVIOUS
<1>4. /\ Restated(d, f, p, status)
      /\ DOMAIN f = Rows /\ DOMAIN f.records = DOMAIN d.records /\ f.reviews = d.reviews
      /\ f.pending = d.pending /\ f.awaiting = d.awaiting /\ f.bundles = d.bundles
  BY <1>3, StatusRestates
<1>5. PICK none : none = {}
  OBVIOUS
<1>6. PICK rec : rec = NewRecord(d.records[p].scope, "None", none, about)
  OBVIOUS
<1>7. PICK new : new = [x \in {v} |-> rec]
  OBVIOUS
<1>8. PICK g : g = InsertAll(f, new)
  OBVIOUS
<1>9. Inserts(f, g, new) /\ g.reviews = f.reviews
  BY <1>4, <1>8, InsertAllInserts DEF Inserts
<1>10. PICK row : row = [proposal |-> Pin(d, p), case |-> case, verdict |-> verdict,
                         findings |-> findings]
  OBVIOUS
<1>11. PICK awaiting : awaiting = IF AwaitsAdjudication(status) THEN g.awaiting \cup {p} ELSE g.awaiting
  OBVIOUS
<1>12. PICK e : e = WithReview(d, v, p, case, verdict, findings)
  OBVIOUS
<1>13. PICK reviews : reviews = WithRow(g.reviews, v, row)
  OBVIOUS
<1>14. e = [g EXCEPT !.reviews = reviews, !.pending = g.pending \ {p}, !.awaiting = awaiting]
  BY <1>1, <1>2, <1>3, <1>5, <1>6, <1>7, <1>8, <1>10, <1>11, <1>12, <1>13 DEF WithReview, Insert
<1>15. DOMAIN g = Rows
  BY <1>9 DEF Inserts
<1>16. /\ DOMAIN e = Rows /\ e.records = g.records /\ e.dependencies = g.dependencies
       /\ e.bundles = g.bundles /\ e.reviews = reviews
       /\ e.pending = g.pending \ {p} /\ e.awaiting = awaiting
  BY <1>14, <1>15 DEF Rows
<1>17. /\ DOMAIN reviews = DOMAIN d.reviews \cup {v} /\ reviews[v].proposal = Pin(d, p)
       /\ \A w \in DOMAIN d.reviews : w # v => reviews[w] = d.reviews[w]
  BY <1>4, <1>9, <1>10, <1>13 DEF WithRow
<1>18. /\ g.records = [r \in DOMAIN f.records \cup DOMAIN new |->
                         IF r \in DOMAIN f.records THEN f.records[r] ELSE new[r]]
       /\ f.dependencies \subseteq g.dependencies /\ g.bundles = f.bundles
       /\ g.pending = f.pending /\ g.awaiting = f.awaiting
  BY <1>9 DEF Inserts
<1>19. DOMAIN new = {v} /\ new[v] = rec /\ HeadOK(rec)
  BY <1>6, <1>7, NewRecordIs
<1>20. /\ DOMAIN e.records = DOMAIN d.records \cup {v} /\ e.records[v] = rec
       /\ \A r \in DOMAIN d.records : e.records[r] = f.records[r]
  BY <1>4, <1>16, <1>18, <1>19
<1>21. Restated(d, e, p, status)
  BY <1>4, <1>16, <1>18, <1>20 DEF Restated
<1>. QED
  BY <1>1, <1>4, <1>11, <1>12, <1>16, <1>17, <1>18, <1>19, <1>20, <1>21 DEF Judges

LEMMA ReviewProposalLeaves ==
    ASSUME Orderly, NEW op, NEW actor, NEW p \in Proposals, NEW n, NEW case, NEW verdict \in Verdicts,
           NEW findings, ReviewProposal(op, actor, p, n, case, verdict, findings)
    PROVE  Leaves
<1>1. PICK v : v = NewId(db, "ProposalReview")
  OBVIOUS
<1>2. PICK e : e = WithReview(db, v, p, case, verdict, findings)
  OBVIOUS
<1>3. PICK receipt : Commit(op, receipt, e) /\ preview' = preview
  BY <1>1, <1>2 DEF ReviewProposal
<1>4. IsActive(db, p) /\ db.records[p].status = "PendingReview"
  BY DEF ReviewProposal, Reviewable
<1>5. p \in ProposalsOf(db) /\ p \in DOMAIN db.records
  BY DEF Proposals, ProposalsOf, OfKind
<1>6. v \notin DOMAIN db.records
  <2>1. "ProposalReview" \in SerialKinds /\ 1 \in Nat \ {0}
    BY DEF SerialKinds, Workflow
  <2>. QED
    BY <1>1, <2>1, SerialIds DEF Orderly, Ledger, Book, NewId
<1>7. PICK status : status = ReviewStatus(verdict)
  OBVIOUS
<1>8. status \in ReviewStatuses
  BY <1>7 DEF ReviewStatus, ReviewStatuses, Verdicts
<1>9. Judges(db, e, p, v, status)
  BY <1>2, <1>5, <1>6, <1>7, LedgerRows, ReviewJudges DEF Orderly, Ledger
<1>10. Carries(db, e)
  BY <1>1, <1>4, <1>5, <1>8, <1>9, JudgesKeep DEF Orderly
<1>. QED
  BY <1>3, <1>10, CommitLeaves
-----------------------------------------------------------------------------
(* Decisions. *)

LEMMA DecidedDecides ==
    ASSUME NEW d, DOMAIN d = Rows, NEW p \in DOMAIN d.records, NEW status
    PROVE  Decides(d, Decided(d, p, status), p, status)
<1>1. PICK f : f = SetStatus(d, p, status)
  OBVIOUS
<1>2. PICK e : e = [f EXCEPT !.awaiting = f.awaiting \ {p}]
  OBVIOUS
<1>3. /\ Restated(d, f, p, status)
      /\ DOMAIN f = Rows /\ DOMAIN f.records = DOMAIN d.records /\ f.reviews = d.reviews
      /\ f.pending = d.pending /\ f.awaiting = d.awaiting /\ f.bundles = d.bundles
  BY <1>1, StatusRestates
<1>4. e = Decided(d, p, status)
  BY <1>1, <1>2 DEF Decided
<1>5. /\ DOMAIN e = Rows /\ e.records = f.records /\ e.dependencies = f.dependencies
      /\ e.bundles = f.bundles /\ e.reviews = f.reviews
      /\ e.pending = f.pending /\ e.awaiting = f.awaiting \ {p}
  BY <1>2, <1>3 DEF Rows
<1>6. Restated(d, e, p, status)
  BY <1>3, <1>5 DEF Restated
<1>. QED
  BY <1>3, <1>4, <1>5, <1>6 DEF Decides

\* A review pins the revision before the present one only while nothing was
\* decided since.
LEMMA ReviewedIsOpen ==
    ASSUME Orderly, NEW p \in Proposals, NEW v \in Reviews, NEW m, ReviewPins(p, v, m)
    PROVE  IsActive(db, p) /\ db.records[p].status \in ReviewStatuses
<1>1. /\ IsActive(db, p) /\ db.reviews[v].proposal = <<p, db.records[p].revision - 1>>
  BY DEF ReviewPins
<1>2. p \in ProposalsOf(db) /\ v \in ReviewsOf(db)
  BY DEF Proposals, ProposalsOf, Reviews, ReviewsOf
<1>3. Reviewed(db)
  BY DEF Orderly, Ledger, Book
<1>4. PICK q \in ProposalsOf(db), n \in Nat \ {0} :
         db.reviews[v].proposal = <<q, n>> /\ ReviewOK(db, q, n)
  BY <1>2, <1>3 DEF Reviewed
<1>5. q = p /\ n = db.records[p].revision - 1
  BY <1>1, <1>4
<1>6. db.records[p].revision \in Nat \ {0} /\ Unreviewed(db, p)
  BY <1>2, <1>3 DEF Reviewed, Unreviewed
<1>7. db.records[p].status # "PendingReview"
  BY <1>1, <1>4, <1>5, <1>6 DEF Unreviewed
<1>8. db.records[p].status \in Undecided
  <2>1. n + 1 = db.records[p].revision
    BY <1>5, <1>6
  <2>2. ~(n + 1 < db.records[p].revision)
    BY <2>1, <1>6
  <2>. QED
    BY <1>1, <1>4, <1>5, <2>2 DEF ReviewOK
<1>. QED
  BY <1>1, <1>7, <1>8 DEF Undecided, ReviewStatuses

LEMMA DecidedCarries ==
    ASSUME NEW d, Ledger(d), NEW p \in ProposalsOf(d), IsActive(d, p),
           d.records[p].status \in ReviewStatuses, NEW status \in Decisions
    PROVE  Carries(d, Decided(d, p, status))
<1>1. PICK e : e = Decided(d, p, status)
  OBVIOUS
<1>2. p \in DOMAIN d.records
  BY DEF IsActive, Exists
<1>3. Decides(d, e, p, status)
  BY <1>1, <1>2, LedgerRows, DecidedDecides DEF Ledger
<1>4. Book(d) /\ Fresh(d, {p})
  BY DEF Ledger, Fresh
<1>5. Ledger(e) /\ Forward(d, e)
  BY <1>3, <1>4, DecidesKeep
<1>. QED
  BY <1>1, <1>5 DEF Carries

LEMMA AdjudicateStaleLeaves ==
    ASSUME Orderly, NEW op, NEW actor, NEW p \in Proposals, NEW n, AdjudicateStale(op, actor, p, n)
    PROVE  Leaves
<1>1. PICK e : e = [db EXCEPT !.awaiting = @ \ {p}]
  OBVIOUS
<1>2. /\ Commit(op, {Pin(db, p)}, e) /\ preview' = preview
      /\ db.records[p].status = "Stale"
  BY <1>1 DEF AdjudicateStale
<1>3. Queued(db) /\ DOMAIN db = Rows
  BY LedgerRows DEF Orderly, Ledger, Book
<1>4. p \notin db.awaiting
  BY <1>2, <1>3 DEF Queued, AwaitsAdjudication
<1>5. db.awaiting \ {p} = db.awaiting
  BY <1>4
<1>6. Decorates(db, e)
  BY <1>1, <1>3, <1>5 DEF Decorates, Rows
<1>7. Carries(db, e)
  BY <1>6, DecoratesCarry DEF Orderly
<1>. QED
  BY <1>2, <1>7, CommitLeaves

LEMMA RejectProposalLeaves ==
    ASSUME Orderly, NEW op, NEW actor, NEW p \in Proposals, NEW n, NEW v \in Reviews, NEW m,
           RejectProposal(op, actor, p, n, v, m)
    PROVE  Leaves
<1>1. PICK e : e = Decided(db, p, "Rejected")
  OBVIOUS
<1>2. ReviewPins(p, v, m) /\ Commit(op, {<<p, n + 1>>}, e) /\ preview' = preview
  BY <1>1 DEF RejectProposal
<1>3. IsActive(db, p) /\ db.records[p].status \in ReviewStatuses
  BY <1>2, ReviewedIsOpen
<1>4. Carries(db, e)
  BY <1>1, <1>3, DecidedCarries DEF Orderly, Decisions, Proposals, ProposalsOf
<1>. QED
  BY <1>2, <1>4, CommitLeaves

LEMMA AcceptOutdatedLeaves ==
    ASSUME Orderly, NEW op, NEW actor, NEW p \in Proposals, NEW n, NEW v \in Reviews, NEW m,
           AcceptOutdated(op, actor, p, n, v, m)
    PROVE  Leaves
<1>1. PICK e : e = Decided(db, p, "Stale")
  OBVIOUS
<1>2. ReviewPins(p, v, m) /\ Commit(op, {<<p, n + 1>>}, e) /\ preview' = preview
  BY <1>1 DEF AcceptOutdated
<1>3. IsActive(db, p) /\ db.records[p].status \in ReviewStatuses
  BY <1>2, ReviewedIsOpen
<1>4. Carries(db, e)
  BY <1>1, <1>3, DecidedCarries DEF Orderly, Decisions, Proposals, ProposalsOf
<1>. QED
  BY <1>2, <1>4, CommitLeaves

\* What a bundle creates: claims, entities and relations on its sources.
LEMMA CreatedIs ==
    ASSUME NEW d, NEW b, NEW scope, NEW new, new = Created(d, b, scope), NEW r \in DOMAIN new
    PROVE  \E ch \in Creating(b) : r[1] = AppliedKind(ch) /\ new[r] = NewRecordOf(d, b, scope, ch)
<1> DEFINE refs == {RefOf(d, b, ch) : ch \in Creating(b)}
           Of(x) == CHOOSE ch \in Creating(b) : RefOf(d, b, ch) = x
<1>1. new = [x \in refs |-> NewRecordOf(d, b, scope, Of(x))]
  BY DEF Created
<1>2. r \in refs /\ new[r] = NewRecordOf(d, b, scope, Of(r))
  BY <1>1
<1>3. PICK ch \in Creating(b) : RefOf(d, b, ch) = r
  BY <1>2
<1>4. Of(r) \in Creating(b) /\ RefOf(d, b, Of(r)) = r
  BY <1>3
<1>5. ASSUME NEW x
      PROVE  RefOf(d, b, x)[1] = AppliedKind(x)
  BY DEF RefOf
<1>. QED
  BY <1>2, <1>4, <1>5

LEMMA CreatedOK ==
    ASSUME NEW d, NEW b, WellFormed(b), NEW actor, \A ch \in Creates(b) : ChangeAllowed(d, actor, ch),
           \A s \in SourceIds(b) : s \in DOMAIN d.records,
           NEW scope, NEW new, new = Created(d, b, scope), NEW r \in DOMAIN new
    PROVE  /\ HeadOK(new[r]) /\ r[1] \notin SerialKinds
           /\ r[1] = "Claim" => ClaimOK(d, new[r])
<1>1. PICK ch \in Creating(b) : r[1] = AppliedKind(ch) /\ new[r] = NewRecordOf(d, b, scope, ch)
  BY CreatedIs
<1>2. HeadOK(new[r])
  <2>1. PICK ends : new[r] = NewRecord(scope, ch.label, ch.evidence, ends)
                    \/ new[r] = NewRecord(scope, "None", ch.evidence, ends)
                    \/ new[r] = NewRecord(scope, "Supersedes", SourceIds(b), ends)
    BY <1>1 DEF NewRecordOf
  <2>. QED
    BY <2>1, NewRecordIs
<1>3. r[1] \notin SerialKinds
  BY <1>1 DEF AppliedKind, SerialKinds, Workflow
<1>4. ASSUME r[1] = "Claim"
      PROVE  ClaimOK(d, new[r])
  <2>1. ch.kind = "CreateClaim"
    BY <1>1, <1>4 DEF AppliedKind
  <2>2. ch \in Creates(b)
    BY <2>1 DEF Creating, Supersessions, Mutates
  <2>3. PICK ends : new[r] = NewRecord(scope, ch.label, ch.evidence, ends)
    BY <1>1, <2>1 DEF NewRecordOf
  <2>4. new[r].label = ch.label /\ new[r].evidence = ch.evidence
    BY <2>3, NewRecordIs
  <2>5. ch.evidence # {} /\ ch.evidence \subseteq SourceIds(b)
    BY <2>2 DEF WellFormed
  <2>6. \A c \in ClassesOf(d, ch.evidence) : ch.label \in Admissible(c)
    BY <2>1, <2>2 DEF ChangeAllowed
  <2>7. \A s \in ch.evidence : d.records[s].label \in ClassesOf(d, ch.evidence)
    BY DEF ClassesOf
  <2>. QED
    BY <2>4, <2>5, <2>6, <2>7 DEF ClaimOK
<1>. QED
  BY <1>2, <1>3, <1>4

LEMMA WithdrawsLabels ==
    ASSUME NEW d, NEW e, NEW W, Book(d), Withdraws(d, e, W), NEW rec, ClaimOK(d, rec)
    PROVE  ClaimOK(e, rec)
<1>1. ASSUME NEW r \in DOMAIN d.records
      PROVE  e.records[r].label = d.records[r].label
  <2>1. HeadOK(d.records[r])
    BY DEF Book, HeadsOK
  <2>2. CASE r \in W
    <3>1. PICK state \in RecordState \ {"Active"} :
             e.records[r] = NextRevision(d.records[r], r[1], state)
      BY <2>2 DEF Withdraws
    <3>. QED
      BY <2>1, <3>1, NextRevisionIs
  <2>3. CASE r \notin W
    BY <2>3 DEF Withdraws
  <2>. QED
    BY <2>2, <2>3
<1>2. DOMAIN e.records = DOMAIN d.records
  BY DEF Withdraws
<1>. QED
  BY <1>1, <1>2 DEF ClaimOK

\* The changes of a bundle to what there is: T is retracted, or superseded
\* for those in S, and what is active above T is lost.
Targeted(d, T) == \A r \in T : IsActive(d, r) /\ r[1] \notin Workflow
Loses(d, T, p, v, lost) ==
    \A r : r \in lost <=> (\E t \in T : r \in ActiveClosure(d, t)) /\ r \notin T \cup {p, v}
TargetsWithdrawn(d, T, S, lost) ==
    AppendStates(AppendStates(AppendStates(d, T \ S, "Retracted"), S, "Superseded"),
                 lost, "Unsupported")

LEMMA BundleWithdraws ==
    ASSUME NEW d, Ledger(d), NEW p \in ProposalsOf(d), NEW v \in ReviewsOf(d),
           NEW T, Targeted(d, T), NEW S, S \subseteq T, NEW lost, Loses(d, T, p, v, lost),
           NEW f, f = TargetsWithdrawn(d, T, S, lost), NEW W, W = T \cup lost
    PROVE  Withdraws(d, f, W)
<1>1. /\ DOMAIN d = Rows /\ Book(d) /\ HeadsOK(d)
      /\ d.pending \subseteq DOMAIN d.records /\ d.awaiting \subseteq DOMAIN d.records
  BY LedgerRows DEF Ledger, Book
<1>2. {"Retracted", "Superseded", "Unsupported"} \subseteq RecordState \ {"Active"}
  BY DEF RecordState
<1>3. PICK R : R = T \ S
  OBVIOUS
<1>4. PICK x : x = AppendStates(d, R, "Retracted")
  OBVIOUS
<1>5. PICK y : y = AppendStates(x, S, "Superseded")
  OBVIOUS
<1>6. f = AppendStates(y, lost, "Unsupported")
  BY <1>3, <1>4, <1>5 DEF TargetsWithdrawn
<1>7. Withdraws(d, x, R)
  BY <1>1, <1>2, <1>4, AppendWithdraws
<1>8. Withdraws(x, y, S)
  <2>1. DOMAIN x = Rows
    BY <1>7 DEF Withdraws
  <2>. QED
    BY <1>2, <1>5, <2>1, AppendWithdraws
<1>9. Withdraws(y, f, lost)
  <2>1. DOMAIN y = Rows
    BY <1>8 DEF Withdraws
  <2>. QED
    BY <1>2, <1>6, <2>1, AppendWithdraws
<1>10. R \cap S = {} /\ R \cup S = T
  BY <1>3
<1>11. Withdraws(d, y, T)
  BY <1>1, <1>7, <1>8, <1>10, WithdrawsChain
<1>12. T \cap lost = {}
  BY DEF Loses
<1>. QED
  BY <1>1, <1>9, <1>11, <1>12, WithdrawsChain

LEMMA BundleShuts ==
    ASSUME NEW d, NEW p \in ProposalsOf(d), NEW v \in ReviewsOf(d), NEW T, Targeted(d, T),
           NEW lost, Loses(d, T, p, v, lost), NEW W, W = T \cup lost, NEW X, X = {p}
    PROVE  /\ Shuts(d, W, X) /\ p \notin W
           /\ \A r \in W : r \in DOMAIN d.records /\ StateOf(d, r) # "Purged"
<1>1. \A t, r : r \in ActiveClosure(d, t) <=> /\ r \in DOMAIN d.records /\ r \in Above(d, t)
                                                 /\ r # t /\ IsActive(d, r)
  BY DEF ActiveClosure, Dependents, Above, IsActive, Exists
<1>2. /\ p[1] = "Proposal" /\ v[1] = "ProposalReview" /\ p \notin T
  BY DEF ProposalsOf, ReviewsOf, OfKind, Workflow, Targeted
<1>3. Shuts(d, W, X)
  <2> SUFFICES ASSUME NEW a \in d.dependencies, a[1] \in W, a[2][1] = "Proposal", IsActive(d, a[2])
               PROVE  a[2] \in W \cup X
    BY DEF Shuts
  <2>1. PICK t \in T : a[1] \in Above(d, t)
    <3>1. CASE a[1] \in T
      <4>1. a[1] \in Above(d, a[1])
        BY DescendantsClosed DEF Above
      <4>. QED
        BY <3>1, <4>1
    <3>2. CASE a[1] \in lost
      BY <1>1, <3>2 DEF Loses
    <3>. QED
      BY <3>1, <3>2
  <2>2. a[2] \in Above(d, t)
    <3>1. Closed(d.dependencies, Above(d, t))
      BY DescendantsClosed DEF Above
    <3>. QED
      BY <2>1, <3>1 DEF Closed
  <2>3. a[2] \in T \/ a[2] \in ActiveClosure(d, t)
    BY <1>1, <2>2 DEF IsActive, Exists
  <2>4. a[2] # v
    BY <1>2
  <2>. QED
    BY <2>3, <2>4 DEF Loses
<1>4. \A r \in W : r \in DOMAIN d.records /\ StateOf(d, r) # "Purged"
  BY <1>1 DEF IsActive, Exists, Loses, Targeted
<1>5. p \notin W
  BY <1>2 DEF Loses
<1>. QED
  BY <1>3, <1>4, <1>5

IdsOf(Z) == {pin[1] : pin \in Z}
Built(Z, C, D) ==
    {b \in {[sources |-> Z, changes |-> {c1, c2}] : c1 \in C, c2 \in D} : WellFormed(b)}

LEMMA SourcesOfBuilt ==
    ASSUME NEW Z, NEW C, NEW D, NEW b \in Built(Z, C, D)
    PROVE  b.sources = Z
BY DEF Built

LEMMA AppliedCarries ==
    ASSUME NEW d, Ledger(d), NEW p \in ProposalsOf(d), NEW v \in ReviewsOf(d), IsActive(d, p),
           d.records[p].status \in ReviewStatuses, NEW actor,
           \A ch \in Creates(d.bundles[p]) : ChangeAllowed(d, actor, ch),
           \A pin \in PinsOf(d.bundles[p]) : PinCurrent(d, pin)
    PROVE  Carries(d, Applied(d, p, v))
<1>1. PICK b : b = d.bundles[p]
  OBVIOUS
<1>2. PICK T : T = Targets(b)
  OBVIOUS
<1>3. PICK S : S = {ch.target[1] : ch \in Supersessions(b)}
  OBVIOUS
<1>4. PICK lost : lost = (UNION {ActiveClosure(d, t) : t \in T}) \ (T \cup {p, v})
  OBVIOUS
<1>5. PICK changed : changed = TargetsWithdrawn(d, T, S, lost)
  OBVIOUS
<1>6. PICK W : W = T \cup lost
  OBVIOUS
<1>7. PICK indexed : indexed = RemoveLexical(changed, W)
  OBVIOUS
<1>8. PICK new : new = Created(d, b, d.records[p].scope)
  OBVIOUS
<1>9. PICK inserted : inserted = InsertAll(indexed, new)
  OBVIOUS
<1>10. PICK texts : texts = {r \in DOMAIN new : r[1] \in {"Claim", "Entity"}}
  OBVIOUS
<1>11. PICK g : g = [inserted EXCEPT !.lexical = @ \cup texts]
  OBVIOUS
<1>12. PICK e : e = Decided(g, p, "Applied")
  OBVIOUS
<1>13. e = Applied(d, p, v)
  BY <1>1, <1>2, <1>3, <1>4, <1>5, <1>6, <1>7, <1>8, <1>9, <1>10, <1>11, <1>12
     DEF Applied, Invalidated, TargetsWithdrawn
<1>14. Book(d) /\ Bundled(d) /\ DOMAIN d = Rows /\ p \in DOMAIN d.records
  BY LedgerRows DEF Ledger, Book, ProposalsOf, OfKind
<1>15. WellFormed(b) /\ \A pin \in PinsOf(b) : pin[1] \in DOMAIN d.records /\ IsActive(d, pin[1])
  BY <1>1, <1>14 DEF Bundled, PinCurrent, IsActive, Exists
<1>16. \A r \in T : IsActive(d, r) /\ r[1] \notin Workflow
  <2>1. \A r \in T : r[1] \notin Workflow
    BY <1>2, <1>15, TargetKinds
  <2>2. \A r \in T : IsActive(d, r)
    BY <1>2, <1>15 DEF Targets, PinsOf, ExistingPins
  <2>. QED
    BY <2>1, <2>2
<1>17. S \subseteq T
  BY <1>2, <1>3 DEF Targets, Supersessions, Mutates
<1>19. PICK X : X = {p}
  OBVIOUS
<1>18. /\ Withdraws(d, changed, W) /\ Shuts(d, W, X) /\ p \notin W
       /\ \A r \in W : r \in DOMAIN d.records /\ StateOf(d, r) # "Purged"
  <2>1. Loses(d, T, p, v, lost)
    BY <1>4 DEF Loses
  <2>2. Targeted(d, T)
    BY <1>16 DEF Targeted
  <2>3. Withdraws(d, changed, W)
    BY <1>5, <1>6, <1>17, <2>1, <2>2, BundleWithdraws
  <2>4. /\ Shuts(d, W, X) /\ p \notin W
        /\ \A r \in W : r \in DOMAIN d.records /\ StateOf(d, r) # "Purged"
    BY <1>6, <1>19, <2>1, <2>2, BundleShuts
  <2>. QED
    BY <2>3, <2>4
<1>20. Fresh(d, X)
  BY DEF Ledger, Fresh
<1>21. Book(changed) /\ Fresh(changed, X) /\ Forward(d, changed)
  <2>1. Book(changed)
    BY <1>14, <1>18, WithdrawsKeep
  <2>2. Fresh(changed, X)
    BY <1>14, <1>18, <1>20, WithdrawsFresh
  <2>3. Forward(d, changed)
    BY <1>14, <1>18, WithdrawsForward
  <2>. QED
    BY <2>1, <2>2, <2>3
<1>22. Decorates(changed, indexed)
  BY <1>7, <1>21, LedgerRows, ErasesDecorate
<1>23. Book(indexed) /\ Fresh(indexed, X) /\ Unchanged(changed, indexed)
  BY <1>21, <1>22, DecoratesKeep
<1>24. Inserts(indexed, inserted, new)
  BY <1>9, <1>23, LedgerRows, InsertAllInserts
<1>25. NewOK(indexed, inserted, new)
  <2>1. \A s \in SourceIds(b) : s \in DOMAIN d.records
    BY <1>15 DEF SourceIds, PinsOf
  <2>2. \A ch \in Creates(b) : ChangeAllowed(d, actor, ch)
    BY <1>1
  <2>3. ASSUME NEW r \in DOMAIN new
        PROVE  /\ HeadOK(new[r]) /\ r[1] \notin SerialKinds
               /\ r[1] = "Claim" => ClaimOK(inserted, new[r])
    <3>1. /\ HeadOK(new[r]) /\ r[1] \notin SerialKinds
          /\ r[1] = "Claim" => ClaimOK(d, new[r])
      BY <1>8, <1>15, <2>1, <2>2, CreatedOK
    <3>2. ASSUME ClaimOK(d, new[r])
          PROVE  ClaimOK(inserted, new[r])
      <4>1. ClaimOK(changed, new[r])
        BY <1>14, <1>18, <3>2, WithdrawsLabels
      <4>2. ClaimOK(indexed, new[r])
        BY <1>22, <4>1 DEF ClaimOK, Decorates
      <4>. QED
        BY <1>24, <4>2 DEF ClaimOK, Inserts
    <3>. QED
      BY <3>1, <3>2
  <2>4. Following(indexed, DOMAIN new, "Evidence")
    <3>1. {r \in DOMAIN new : r[1] = "Evidence"} = {NthId(indexed, "Evidence", i) : i \in 1..0}
      BY <2>3 DEF SerialKinds
    <3>. QED
      BY <3>1 DEF Following
  <2>. QED
    BY <2>3, <2>4 DEF NewOK, SerialKinds
<1>26. Book(inserted) /\ Fresh(inserted, X) /\ Unchanged(indexed, inserted)
  BY <1>23, <1>24, <1>25, InsertsKeep
<1>27. Decorates(inserted, g)
  <2>1. DOMAIN inserted = Rows
    BY <1>26, LedgerRows
  <2>. QED
    BY <1>11, <2>1 DEF Decorates, Rows
<1>28. Book(g) /\ Fresh(g, X) /\ Unchanged(inserted, g)
  BY <1>26, <1>27, DecoratesKeep
<1>29. Unchanged(changed, g)
  BY <1>23, <1>26, <1>28, UnchangedChain
<1>30. Forward(d, g)
  BY <1>21, <1>29, ForwardStays
<1>31. p \in DOMAIN g.records /\ g.records[p] = d.records[p]
  BY <1>14, <1>18, <1>29 DEF Withdraws, Unchanged
<1>32. p \in ProposalsOf(g) /\ IsActive(g, p) /\ g.records[p].status \in ReviewStatuses
  BY <1>31 DEF ProposalsOf, OfKind, IsActive, StateOf, Exists
<1>33. DOMAIN g = Rows
  BY <1>28, LedgerRows
<1>34. Decides(g, e, p, "Applied")
  BY <1>12, <1>31, <1>33, DecidedDecides
<1>35. Ledger(e) /\ Forward(g, e)
  BY <1>19, <1>28, <1>32, <1>34, DecidesKeep DEF Decisions
<1>36. HeadsOK(g) /\ Restated(g, e, p, "Applied")
  BY <1>28, <1>34 DEF Book, Decides
<1>37. \A r \in DOMAIN g.records : /\ r \in DOMAIN e.records
                                   /\ IsActive(e, r) <=> IsActive(g, r)
                                   /\ r # p => e.records[r] = g.records[r]
  BY <1>32, <1>36, RestatedIs
<1>38. Revised(d, e)
  <2> SUFFICES ASSUME NEW r \in DOMAIN d.records
               PROVE  /\ r \in DOMAIN e.records
                      /\ e.records[r] # d.records[r] =>
                            /\ e.records[r].revision = d.records[r].revision + 1
                            /\ StateOf(d, r) # "Purged"
    BY DEF Revised
  <2>1. r \in DOMAIN g.records
    BY <1>30 DEF Forward, Revised
  <2>2. CASE r = p
    BY <1>31, <1>35, <2>2 DEF Forward, Revised, StateOf
  <2>3. CASE r # p
    BY <1>30, <1>37, <2>1, <2>3 DEF Forward, Revised
  <2>. QED
    BY <2>2, <2>3
<1>39. Final(d, e)
  <2> SUFFICES ASSUME NEW q \in ProposalsOf(d), d.records[q].status \notin Undecided,
                      e.records[q] # d.records[q]
               PROVE  ~IsActive(e, q)
    BY DEF Final
  <2>1. q # p
    BY DEF ReviewStatuses, Undecided
  <2>2. q \in DOMAIN g.records
    BY <1>30 DEF Forward, Revised, ProposalsOf, OfKind
  <2>3. e.records[q] = g.records[q] /\ (IsActive(e, q) <=> IsActive(g, q))
    BY <1>37, <2>1, <2>2
  <2>. QED
    BY <1>30, <2>3 DEF Forward, Final
<1>. QED
  BY <1>13, <1>35, <1>38, <1>39 DEF Carries, Forward

LEMMA AcceptProposalLeaves ==
    ASSUME Orderly, NEW op, NEW actor, NEW p \in Proposals, NEW n, NEW v \in Reviews, NEW m,
           AcceptProposal(op, actor, p, n, v, m)
    PROVE  Leaves
<1>1. PICK e : e = Applied(db, p, v)
  OBVIOUS
<1>2. PICK receipt : Commit(op, receipt, e) /\ preview' = preview
  BY <1>1 DEF AcceptProposal
<1>3. IsActive(db, p) /\ db.records[p].status \in ReviewStatuses
  BY ReviewedIsOpen DEF AcceptProposal
<1>4. \A ch \in Creates(db.bundles[p]) : ChangeAllowed(db, actor, ch)
  BY DEF AcceptProposal, ActivationAllowed
<1>5. \A pin \in PinsOf(db.bundles[p]) : PinCurrent(db, pin)
  BY DEF AcceptProposal, PinsCurrent, PinInScope, PinsOf
<1>6. Ledger(db) /\ p \in ProposalsOf(db) /\ v \in ReviewsOf(db)
  BY DEF Orderly, Proposals, ProposalsOf, Reviews, ReviewsOf
<1>7. Carries(db, e)
  BY <1>1, <1>3, <1>4, <1>5, <1>6, AppliedCarries
<1>. QED
  BY <1>2, <1>7, CommitLeaves

\* Bundles rest on evidence.
LEMMA BundleSources ==
    ASSUME NEW b \in Bundles
    PROVE  \A pin \in b.sources : pin[1][1] = "Evidence"
<1>1. PICK A : A = ActivePins({"Evidence"})
  OBVIOUS
<1>2. \E Z \in SUBSET A : b.sources = Z
  <2> DEFINE Candidates(Z, shape) ==
               Built(Z, ProposedChanges(shape[1], IdsOf(Z)), ProposedChanges(shape[2], IdsOf(Z)))
  <2>1. PICK none : none = {}
    OBVIOUS
  <2>2. Bundles = UNION {UNION {Candidates(Z, shape) : shape \in Shapes} : Z \in (SUBSET A) \ {none}}
    BY <1>1, <2>1 DEF Bundles, Built, IdsOf
  <2>3. ASSUME NEW Z, NEW shape, NEW x \in Candidates(Z, shape)
        PROVE  x.sources = Z
    BY SourcesOfBuilt
  <2> HIDE DEF Candidates
  <2>4. PICK Z \in (SUBSET A) \ {none} : b \in UNION {Candidates(Z, shape) : shape \in Shapes}
    BY <2>2
  <2>5. PICK shape \in Shapes : b \in Candidates(Z, shape)
    BY <2>4
  <2>. QED
    BY <2>3, <2>5
<1>3. \A pin \in A : pin[1][1] = "Evidence"
  BY <1>1 DEF ActivePins, Pin
<1>. QED
  BY <1>2, <1>3

LEMMA ProposalStepLeaves ==
    ASSUME Orderly, ProposalStep
    PROVE  Leaves
<1>1. PICK op \in Ops :
         \/ \E actor \in Proposers, job \in Jobs, scope \in Scopes, b \in Bundles :
               SubmitProposal(op, actor, job, scope, b)
         \/ \E actor \in Proposers, job \in DOMAIN db.jobs :
               ResubmitProposal(op, actor, job, db.jobs[job].bundle)
         \/ \E actor \in Actors, p \in Proposals, n \in 1..2, case \in Cases, verdict \in Verdicts :
               \E findings \in {{}} \cup {{pin} : pin \in FindingPins(db, p, case)} :
                  ReviewProposal(op, actor, p, n, case, verdict, findings)
         \/ \E actor \in Actors, p \in Proposals, n \in 1..4 :
               \/ AdjudicateStale(op, actor, p, n)
               \/ \E v \in Reviews, m \in 1..2 :
                     \/ RejectProposal(op, actor, p, n, v, m)
                     \/ AcceptOutdated(op, actor, p, n, v, m)
                     \/ AcceptProposal(op, actor, p, n, v, m)
  BY DEF ProposalStep
<1>2. CASE \E actor \in Proposers, job \in Jobs, scope \in Scopes, b \in Bundles :
              SubmitProposal(op, actor, job, scope, b)
  <2>1. PICK actor \in Proposers, job \in Jobs, scope \in Scopes, b \in Bundles :
           SubmitProposal(op, actor, job, scope, b)
    BY <1>2
  <2>2. \A pin \in b.sources : pin[1][1] = "Evidence"
    BY BundleSources
  <2>. QED
    BY <2>1, <2>2, SubmitProposalLeaves
<1>3. CASE \E actor \in Proposers, job \in DOMAIN db.jobs :
              ResubmitProposal(op, actor, job, db.jobs[job].bundle)
  BY <1>3, ResubmitProposalLeaves
<1>4. CASE \E actor \in Actors, p \in Proposals, n \in 1..2, case \in Cases, verdict \in Verdicts :
              \E findings \in {{}} \cup {{pin} : pin \in FindingPins(db, p, case)} :
                 ReviewProposal(op, actor, p, n, case, verdict, findings)
  <2>1. PICK actor \in Actors, p \in Proposals, n \in 1..2, case \in Cases, verdict \in Verdicts :
           \E findings : ReviewProposal(op, actor, p, n, case, verdict, findings)
    BY <1>4
  <2>2. PICK findings : ReviewProposal(op, actor, p, n, case, verdict, findings)
    BY <2>1
  <2>. QED
    BY <2>2, ReviewProposalLeaves
<1>5. CASE \E actor \in Actors, p \in Proposals, n \in 1..4 :
              \/ AdjudicateStale(op, actor, p, n)
              \/ \E v \in Reviews, m \in 1..2 :
                    \/ RejectProposal(op, actor, p, n, v, m)
                    \/ AcceptOutdated(op, actor, p, n, v, m)
                    \/ AcceptProposal(op, actor, p, n, v, m)
  BY <1>5, AdjudicateStaleLeaves, RejectProposalLeaves, AcceptOutdatedLeaves, AcceptProposalLeaves
<1>. QED
  BY <1>1, <1>2, <1>3, <1>4, <1>5

LEMMA ProposalsNextLeaves ==
    ASSUME Orderly, ProposalsNext
    PROVE  Leaves
BY KernelNextLeaves, RecallStepLeaves, ProposalStepLeaves DEF ProposalsNext
-----------------------------------------------------------------------------
(* The theorems. *)

LEMMA OrderlyAtFirst == Init => Orderly
<1> SUFFICES ASSUME Init PROVE Orderly
  OBVIOUS
<1>1. db = EmptyDb /\ preview = None
  BY DEF Init, InitKernel
<1>2. /\ DOMAIN db = Rows /\ DOMAIN db.records = {} /\ DOMAIN db.bundles = {}
      /\ DOMAIN db.reviews = {} /\ db.pending = {} /\ db.awaiting = {}
  BY <1>1 DEF EmptyDb, Rows
<1>3. \A k : OfKind(db, k) = {}
  BY <1>2 DEF OfKind
<1>4. HeadsOK(db)
  BY <1>2 DEF HeadsOK
<1>5. Serial(db)
  <2>1. ASSUME NEW k \in SerialKinds
        PROVE  OfKind(db, k) = {k} \X (1..0)
    BY <1>3
  <2>. QED
    BY <2>1 DEF Serial
<1>6. Bundled(db) /\ Queued(db) /\ Reviewed(db) /\ Grounded(db) /\ Fresh(db, {})
  BY <1>2, <1>3 DEF Bundled, Queued, Reviewed, Grounded, Fresh, ProposalsOf, ReviewsOf
<1>. QED
  BY <1>1, <1>4, <1>5, <1>6 DEF Orderly, Ledger, Book, Shown

\* The ledger of proposals holds in every reachable state: every batch that
\* submit_proposal, review_proposal, adjudicate, insert and append_states
\* commit keeps bundles, reviews, queues and dependency edges in step.
THEOREM OrderlyInvariance == ProposalsSpec => []Orderly
<1>1. Init => Orderly
  BY OrderlyAtFirst
<1>2. Orderly /\ [ProposalsNext]_memVars => Orderly'
  <2> SUFFICES ASSUME Orderly, [ProposalsNext]_memVars
               PROVE  Orderly'
    OBVIOUS
  <2>1. CASE ProposalsNext
    BY <2>1, ProposalsNextLeaves DEF Leaves
  <2>2. CASE UNCHANGED memVars
    <3>1. db' = db /\ preview' = preview
      BY <2>2 DEF memVars
    <3>. QED
      BY <3>1, SameLeaves DEF Leaves
  <2>. QED
    BY <2>1, <2>2
<1>. QED
  BY <1>1, <1>2, PTL DEF ProposalsSpec

\* list_pending_proposals and list_awaiting_adjudication list the proposals
\* with that status and no others, a proposal still undecided pins current
\* revisions (append_states reaches it through its dependencies), and what
\* adjudicate or remember stored as a claim is admissible to its evidence.
THEOREM ProposalsAreExact == ProposalsSpec => []ProposalsExact
<1>1. Orderly => ProposalsExact
  <2> SUFFICES ASSUME Orderly PROVE ProposalsExact
    OBVIOUS
  <2>1. Queued(db) /\ Grounded(db) /\ Fresh(db, {})
    BY DEF Orderly, Ledger, Book
  <2>2. Proposals = ProposalsOf(db) /\ Reviews = ReviewsOf(db)
    BY DEF Proposals, ProposalsOf, Reviews, ReviewsOf
  <2>3. QueuesExact
    BY <2>1, <2>2 DEF QueuesExact, Queued, ReviewedBy
  <2>4. OpenProposalsCurrent
    BY <2>1, <2>2 DEF OpenProposalsCurrent, Fresh, OpenProposal, PinsOf
  <2>5. ClaimsAdmissible
    BY <2>1 DEF ClaimsAdmissible, Grounded, ClaimOK
  <2>. QED
    BY <2>3, <2>4, <2>5 DEF ProposalsExact
<1>. QED
  BY <1>1, OrderlyInvariance, PTL

\* Whatever append_states and adjudicate write, a record changes to its next
\* revision or not at all, a purged one never, and a decided proposal is not
\* decided again.
THEOREM ProposalsOnlyForward == ProposalsSpec => ForwardOnly
<1>1. Orderly /\ [ProposalsNext]_memVars => [RevisionsAdvance /\ DecidedOnce]_memVars
  <2> SUFFICES ASSUME Orderly, ProposalsNext
               PROVE  RevisionsAdvance /\ DecidedOnce
    OBVIOUS
  <2>1. Revised(db, db') /\ Final(db, db')
    BY ProposalsNextLeaves DEF Leaves, Forward
  <2>2. RevisionsAdvance
    BY <2>1 DEF Revised, RevisionsAdvance
  <2>3. DecidedOnce
    BY <2>1 DEF Final, DecidedOnce, Proposals, ProposalsOf
  <2>. QED
    BY <2>2, <2>3
<1>. QED
  BY <1>1, OrderlyInvariance, PTL DEF ProposalsSpec, ForwardOnly
=============================================================================
