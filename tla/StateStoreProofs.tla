-------------------------- MODULE StateStoreProofs --------------------------
(***************************************************************************)
(* Proofs about StateStore, for every number of keys, clients and values.  *)
(*                                                                         *)
(* The safety properties are not inductive: that a prepared batch is       *)
(* computed from the current disk rests on the lock, and that a revision   *)
(* names one version rests on the prepared batch.  IInv puts them together *)
(* with the two facts that connect them.  What replace_prefix leaves and   *)
(* what the pages of a scan return are proved from it.                     *)
(***************************************************************************)
EXTENDS StateStore, FiniteSetTheorems, WellFoundedInduction, TLAPS

\* Only the holder of write_lock is inside a mutation.
LockHeld == \A c \in Clients : phase[c] # "idle" <=> lock = c

\* A key has been written at most once by every mutation begun, the one under
\* way excluded: saturating_add never saturates.
RevisionsBounded ==
  \A k \in Keys : disk[k].revision + (IF lock = NoClient THEN 0 ELSE 1) <= ops

\* A key that was never written holds nothing.
UnwrittenIsAbsent == \A k \in Keys : disk[k].revision = 0 => disk[k] = Absent

IInv ==
  /\ TypeOK
  /\ LockHeld
  /\ RevisionsBounded
  /\ UnwrittenIsAbsent
  /\ PreparedIsCurrent
  /\ RevisionNamesVersion

USE KeyAssumption, SentinelAssumption, BoundAssumption

-----------------------------------------------------------------------------
\* Reading a stored value out of its type.
LEMMA StoredFields ==
  ASSUME NEW s \in Stored
  PROVE  /\ s.revision \in 0 .. MaxRevision
         /\ s.value \in Values \cup {NoValue}
         /\ s.deleted \in BOOLEAN
  BY DEF Stored

LEMMA AbsentIsStored == Absent \in Stored /\ Absent.revision = 0
  BY DEF Absent, Stored

\* The initial state satisfies the invariant.
LEMMA InitIInv == Init => IInv
<1> SUFFICES ASSUME Init PROVE IInv
  OBVIOUS
<1>1. TypeOK
  <2>1. NoRequest \in Request
    BY DEF NoRequest, Request, NoMutation, Mutation
  <2>2. view \in [Clients -> View]
    BY AbsentIsStored DEF Init, View
  <2>3. NoScan \in Scan
    BY DEF NoScan, Scan, Keys
  <2>. QED
    BY <2>1, <2>2, <2>3, AbsentIsStored DEF Init, TypeOK, NoWrites
<1>2. LockHeld /\ RevisionsBounded /\ UnwrittenIsAbsent /\ PreparedIsCurrent
  BY DEF Init, LockHeld, RevisionsBounded, UnwrittenIsAbsent, PreparedIsCurrent, Absent
<1>3. RevisionNamesVersion
  <2>1. \A c \in Clients : view[c] \in [key: Keys, entry: {Absent}]
    BY DEF Init
  <2>2. \A c \in Clients : view[c].entry = Absent /\ disk[view[c].key] = Absent
    BY <2>1 DEF Init
  <2>. QED
    BY <2>2, AbsentIsStored DEF RevisionNamesVersion
<1>. QED
  BY <1>1, <1>2, <1>3 DEF IInv

\* get records what is on the disk, or revision 0.
LEMMA GetIInv ==
  ASSUME IInv, NEW c \in Clients, NEW k \in Keys, Get(c, k)
  PROVE  IInv'
<1> DEFINE entry == IF Live(disk, k) THEN disk[k] ELSE Absent
<1>1. entry \in Stored /\ entry.revision <= disk[k].revision
      /\ (entry.revision = disk[k].revision => entry = disk[k])
  <2>1. disk[k] \in Stored
    BY DEF IInv, TypeOK
  <2>. QED
    BY <2>1, AbsentIsStored, StoredFields DEF IInv, Live, UnwrittenIsAbsent
<1>2. view' = [view EXCEPT ![c] = [key |-> k, entry |-> entry]]
  BY DEF Get
<1>3. TypeOK'
  <2>1. [key |-> k, entry |-> entry] \in View
    BY <1>1 DEF View
  <2>. QED
    BY <2>1, <1>2 DEF Get, IInv, TypeOK
<1>4. LockHeld' /\ RevisionsBounded' /\ UnwrittenIsAbsent' /\ PreparedIsCurrent'
  BY DEF Get, IInv, LockHeld, RevisionsBounded, UnwrittenIsAbsent, PreparedIsCurrent
<1>5. RevisionNamesVersion'
  <2> HIDE DEF entry
  <2>1. disk' = disk
    BY DEF Get
  <2>. QED
    BY <1>1, <1>2, <2>1 DEF IInv, TypeOK, RevisionNamesVersion, View
<1>. QED
  BY <1>3, <1>4, <1>5 DEF IInv

\* Paging reads the disk and changes only the scan.
LEMMA ScanIInv ==
  ASSUME IInv, BeginScan \/ NextPage
  PROVE  IInv'
<1>1. UNCHANGED <<disk, lock, phase, request, pending, view, ops>>
  BY DEF BeginScan, NextPage
<1>2. PrefixKeys \subseteq Keys /\ Keys \subseteq 0 .. NumKeys
  BY DEF PrefixKeys, Keys
<1>3. scan' \in Scan
  <2>1. CASE BeginScan
    <3> DEFINE steady == {k \in PrefixKeys : Live(disk, k)}
    <3>1. steady \subseteq Keys
      BY <1>2, Zenon
    <3>2. scan' = [running |-> TRUE, cursor |-> 0, got |-> {}, steady |-> steady]
      BY <2>1 DEF BeginScan
    <3> HIDE DEF steady
    <3>. QED
      BY <3>1, <3>2 DEF Scan
  <2>2. CASE NextPage
    <3>1. Page \subseteq Keys
      BY <1>2 DEF Page
    <3>2. scan \in Scan
      BY DEF IInv, TypeOK
    <3>. QED
      BY <2>2, <3>1, <3>2, <1>2 DEF NextPage, Scan
  <2>. QED
    BY <2>1, <2>2
<1>. QED
  BY <1>1, <1>3 DEF IInv, TypeOK, LockHeld, RevisionsBounded, UnwrittenIsAbsent,
                    PreparedIsCurrent, RevisionNamesVersion

\* Taking the lock.
LEMMA BeginIInv ==
  ASSUME IInv, NEW c \in Clients, NEW kind \in {"put", "apply", "replace"},
         NEW batch \in [Keys -> Mutation], Begin(c, kind, batch)
  PROVE  IInv'
<1>1. TypeOK'
  <2>1. [kind |-> kind, batch |-> batch] \in Request
    BY DEF Request
  <2>. QED
    BY <2>1 DEF Begin, Lock, IInv, TypeOK
<1>2. LockHeld'
  BY DEF Begin, Lock, IInv, TypeOK, LockHeld
<1>3. RevisionsBounded'
  <2>1. \A k \in Keys : disk[k].revision \in Nat
    BY StoredFields DEF IInv, TypeOK
  <2>. QED
    BY <2>1 DEF Begin, Lock, IInv, TypeOK, RevisionsBounded
<1>4. UnwrittenIsAbsent' /\ RevisionNamesVersion'
  BY DEF Begin, IInv, UnwrittenIsAbsent, RevisionNamesVersion
<1>5. PreparedIsCurrent'
  BY DEF Begin, Lock, IInv, TypeOK, PreparedIsCurrent
<1>. QED
  BY <1>1, <1>2, <1>3, <1>4, <1>5 DEF IInv

\* What each kind of mutation asks for is a batch.
LEMMA BatchesTyped ==
  /\ NoMutation \in Mutation
  /\ \A v \in Values, b \in BOOLEAN : Put(v, b) \in Mutation
  /\ \A b \in BOOLEAN : Delete(b) \in Mutation
  /\ NoRequest.batch \in [Keys -> Mutation]
  BY DEF NoMutation, Mutation, Put, Delete, NoRequest

LEMMA BeginAnyIInv ==
  ASSUME IInv, NEW c \in Clients, BeginPut(c) \/ BeginApply(c) \/ BeginReplace(c)
  PROVE  IInv'
<1>1. CASE BeginPut(c)
  <2>1. PICK k \in Keys, v \in Values :
          Begin(c, "put", [NoRequest.batch EXCEPT ![k] = Put(v, FALSE)])
    BY <1>1 DEF BeginPut
  <2>2. [NoRequest.batch EXCEPT ![k] = Put(v, FALSE)] \in [Keys -> Mutation]
    BY BatchesTyped
  <2>. QED
    BY <2>1, <2>2, BeginIInv
<1>2. CASE BeginApply(c)
  <2>1. PICK b \in Applicable(c) : Begin(c, "apply", b)
    BY <1>2 DEF BeginApply
  <2>2. view[c].key \in Keys
    BY DEF IInv, TypeOK, View
  <2> DEFINE plain == {NoMutation, Delete(FALSE)} \cup {Put(v, FALSE) : v \in Values}
             checked == {Delete(TRUE)} \cup {Put(v, TRUE) : v \in Values}
  <2>a. plain \subseteq Mutation /\ checked \subseteq Mutation
    BY BatchesTyped
  <2>b. b \in [Keys -> plain]
        \/ \E m \in checked : b = [NoRequest.batch EXCEPT ![view[c].key] = m]
    BY <2>1 DEF Applicable
  <2>3. b \in [Keys -> Mutation]
    <3> HIDE DEF plain, checked
    <3>. QED
      BY <2>a, <2>b, <2>2, BatchesTyped
  <2>. QED
    BY <2>1, <2>3, BeginIInv
<1>3. CASE BeginReplace(c)
  <2>1. PICK ks \in SUBSET PrefixKeys, v \in Values :
          Begin(c, "replace", [k \in Keys |-> IF k \in ks THEN Put(v, FALSE) ELSE NoMutation])
    BY <1>3 DEF BeginReplace
  <2>2. [k \in Keys |-> IF k \in ks THEN Put(v, FALSE) ELSE NoMutation] \in [Keys -> Mutation]
    BY BatchesTyped
  <2>. QED
    BY <2>1, <2>2, BeginIInv
<1>. QED
  BY <1>1, <1>2, <1>3

-----------------------------------------------------------------------------
\* Giving the lock back leaves no trace of the mutation.
LEMMA UnlockTyped ==
  ASSUME TypeOK, LockHeld, NEW c \in Clients, lock = c, Unlock(c)
  PROVE  /\ lock' = NoClient
         /\ phase' = [d \in Clients |-> "idle"]
         /\ request' \in [Clients -> Request]
         /\ pending' \in [Clients -> [Keys -> Stored]]
<1>1. NoRequest \in Request
  BY BatchesTyped DEF NoRequest, Request
<1>2. NoWrites \in [Keys -> Stored]
  BY AbsentIsStored DEF NoWrites
<1>. QED
  BY <1>1, <1>2 DEF Unlock, TypeOK, LockHeld

\* The writes of a prepared batch: revision 0 for the keys it leaves alone, the
\* successor of the current revision for the others.
LEMMA WrittenIsNext ==
  ASSUME IInv, NEW c \in Clients, lock = c, NEW k \in Keys
  PROVE  /\ Written(c, k) \in Stored
         /\ Written(c, k).revision > 0 => Written(c, k).revision = disk[k].revision + 1
<1>1. disk[k].revision \in Nat /\ disk[k].revision < MaxRevision
  <2>1. disk[k].revision \in Nat /\ disk[k].revision + 1 <= ops
    BY StoredFields DEF IInv, TypeOK, RevisionsBounded
  <2>. QED
    BY <2>1 DEF IInv, TypeOK
<1>2. NextRevision(k) = disk[k].revision + 1 /\ NextRevision(k) \in 0 .. MaxRevision
  BY <1>1 DEF NextRevision
<1>3. Mutations(c)[k] \in Mutation
  <2>1. request[c].batch[k] \in Mutation
    BY DEF IInv, TypeOK, Request
  <2>. QED
    BY <2>1, BatchesTyped DEF Mutations
<1> DEFINE m == Mutations(c)[k]
<1>4. m.value \in Values \cup {NoValue} /\ (m.kind = "delete") \in BOOLEAN
  BY <1>3 DEF Mutation
<1>5. CASE m.kind = "none"
  BY <1>5, AbsentIsStored DEF Written
<1>6. CASE m.kind # "none"
  <2>1. Written(c, k) = [value |-> m.value, revision |-> NextRevision(k),
                         deleted |-> m.kind = "delete"]
    BY <1>6 DEF Written
  <2> HIDE DEF m
  <2>. QED
    BY <2>1, <1>2, <1>4 DEF Stored
<1>. QED
  BY <1>5, <1>6

LEMMA PrepareIInv ==
  ASSUME IInv, NEW c \in Clients, Prepare(c)
  PROVE  IInv'
<1>1. lock = c /\ phase[c] = "locked"
  BY DEF Prepare, IInv, LockHeld
<1>2. UNCHANGED <<disk, view, scan, ops>>
  BY DEF Prepare
<1>3. CASE Unlock(c)
  <2>1. /\ lock' = NoClient
        /\ phase' = [d \in Clients |-> "idle"]
        /\ request' \in [Clients -> Request]
        /\ pending' \in [Clients -> [Keys -> Stored]]
    BY <1>1, <1>3, UnlockTyped DEF IInv
  <2>2. TypeOK' /\ LockHeld' /\ UnwrittenIsAbsent' /\ PreparedIsCurrent' /\ RevisionNamesVersion'
    BY <1>2, <2>1 DEF IInv, TypeOK, LockHeld, UnwrittenIsAbsent, PreparedIsCurrent,
                      RevisionNamesVersion
  <2>3. RevisionsBounded'
    <3>1. \A k \in Keys : disk[k].revision \in Nat /\ disk[k].revision + 1 <= ops
      BY <1>1, StoredFields DEF IInv, TypeOK, RevisionsBounded
    <3>. QED
      BY <1>2, <2>1, <3>1 DEF IInv, TypeOK, RevisionsBounded
  <2>. QED
    BY <2>2, <2>3 DEF IInv
<1>4. CASE ~Unlock(c)
  <2>1. /\ pending' = [pending EXCEPT ![c] = [k \in Keys |-> Written(c, k)]]
        /\ phase' = [phase EXCEPT ![c] = "ready"]
        /\ UNCHANGED <<lock, request>>
    BY <1>4 DEF Prepare
  <2>2. [k \in Keys |-> Written(c, k)] \in [Keys -> Stored]
    BY <1>1, WrittenIsNext
  <2>3. TypeOK' /\ LockHeld' /\ RevisionsBounded' /\ UnwrittenIsAbsent' /\ RevisionNamesVersion'
    BY <1>1, <1>2, <2>1, <2>2 DEF IInv, TypeOK, LockHeld, RevisionsBounded, UnwrittenIsAbsent,
                                  RevisionNamesVersion
  <2>4. \A k \in Keys : pending'[c][k].revision > 0 => pending'[c][k].revision = disk'[k].revision + 1
    BY <1>1, <1>2, <2>1, WrittenIsNext DEF IInv, TypeOK
  <2>5. \A d \in Clients : phase'[d] = "ready" => d = c
    BY <1>1, <2>1 DEF IInv, TypeOK, LockHeld
  <2>6. PreparedIsCurrent'
    BY <2>4, <2>5 DEF PreparedIsCurrent
  <2>. QED
    BY <2>3, <2>6 DEF IInv
<1>. QED
  BY <1>3, <1>4

\* A commit leaves every key alone or writes the next version of it.
LEMMA CommittedIsNext ==
  ASSUME IInv, NEW c \in Clients, phase[c] = "ready", NEW k \in Keys
  PROVE  /\ Committed(c)[k] \in Stored
         /\ Committed(c)[k] = disk[k] \/ Committed(c)[k].revision = disk[k].revision + 1
<1>1. pending[c][k] \in Stored /\ disk[k] \in Stored
  BY DEF IInv, TypeOK
<1>2. pending[c][k].revision > 0 => pending[c][k].revision = disk[k].revision + 1
  BY DEF IInv, PreparedIsCurrent
<1>. QED
  BY <1>1, <1>2 DEF Committed

LEMMA CommitIInv ==
  ASSUME IInv, NEW c \in Clients, Commit(c)
  PROVE  IInv'
<1>1. lock = c /\ phase[c] = "ready"
  BY DEF Commit, IInv, LockHeld
<1>2. disk' = Committed(c) /\ UNCHANGED <<view, ops>> /\ Unlock(c)
  BY DEF Commit
<1>3. /\ lock' = NoClient
      /\ phase' = [d \in Clients |-> "idle"]
      /\ request' \in [Clients -> Request]
      /\ pending' \in [Clients -> [Keys -> Stored]]
  BY <1>1, <1>2, UnlockTyped DEF IInv
<1>4. \A k \in Keys : /\ disk[k] \in Stored /\ disk'[k] \in Stored
                      /\ disk'[k] = disk[k] \/ disk'[k].revision = disk[k].revision + 1
  BY <1>1, <1>2, CommittedIsNext DEF IInv, TypeOK
<1>5. \A k \in Keys : disk[k].revision \in Nat /\ disk'[k].revision \in Nat
  BY <1>4, StoredFields
<1>6. disk' \in [Keys -> Stored]
  BY <1>2, <1>4 DEF Committed
<1>7. scan' \in Scan
  <2> DEFINE steady == {k \in scan.steady : Live(Committed(c), k)}
  <2>1. scan' = [scan EXCEPT !.steady = steady]
    BY DEF Commit
  <2>2. scan \in Scan
    BY DEF IInv, TypeOK
  <2>3. steady \subseteq Keys
    BY <2>2 DEF Scan
  <2> HIDE DEF steady
  <2>. QED
    BY <2>1, <2>2, <2>3 DEF Scan
<1>8. TypeOK' /\ LockHeld' /\ PreparedIsCurrent'
  BY <1>2, <1>3, <1>6, <1>7 DEF IInv, TypeOK, LockHeld, PreparedIsCurrent
<1>9. RevisionsBounded'
  <2>1. \A k \in Keys : disk[k].revision + 1 <= ops
    BY <1>1 DEF IInv, RevisionsBounded
  <2>. QED
    BY <1>2, <1>3, <1>4, <1>5, <2>1 DEF IInv, TypeOK, RevisionsBounded
<1>10. UnwrittenIsAbsent'
  BY <1>4, <1>5 DEF IInv, UnwrittenIsAbsent
<1>11. RevisionNamesVersion'
  <2> SUFFICES ASSUME NEW d \in Clients
               PROVE  /\ view[d].entry.revision <= disk'[view[d].key].revision
                      /\ view[d].entry.revision = disk'[view[d].key].revision
                           => view[d].entry = disk'[view[d].key]
    BY <1>2 DEF RevisionNamesVersion
  <2>1. view[d].key \in Keys /\ view[d].entry.revision \in Nat
    BY StoredFields DEF IInv, TypeOK, View
  <2>2. /\ view[d].entry.revision <= disk[view[d].key].revision
        /\ view[d].entry.revision = disk[view[d].key].revision => view[d].entry = disk[view[d].key]
    BY DEF IInv, RevisionNamesVersion
  <2>. QED
    BY <1>4, <1>5, <2>1, <2>2
<1>. QED
  BY <1>8, <1>9, <1>10, <1>11 DEF IInv

LEMMA CrashIInv ==
  ASSUME IInv, Crash
  PROVE  IInv'
<1>1. NoRequest \in Request /\ NoWrites \in [Keys -> Stored] /\ NoScan \in Scan
  BY BatchesTyped, AbsentIsStored DEF NoRequest, Request, NoWrites, NoScan, Scan
<1>2. TypeOK'
  BY <1>1 DEF Crash, IInv, TypeOK
<1>3. LockHeld' /\ UnwrittenIsAbsent' /\ PreparedIsCurrent' /\ RevisionNamesVersion'
  BY DEF Crash, IInv, LockHeld, UnwrittenIsAbsent, PreparedIsCurrent, RevisionNamesVersion
<1>4. RevisionsBounded'
  <2>1. \A k \in Keys : disk[k].revision \in Nat
    BY StoredFields DEF IInv, TypeOK
  <2>. QED
    BY <2>1 DEF Crash, IInv, TypeOK, RevisionsBounded
<1>. QED
  BY <1>2, <1>3, <1>4 DEF IInv

LEMMA NextIInv == IInv /\ [Next]_vars => IInv'
<1> SUFFICES ASSUME IInv, [Next]_vars PROVE IInv'
  OBVIOUS
<1>1. CASE \E c \in Clients, k \in Keys : Get(c, k)
  BY <1>1, GetIInv
<1>2. CASE BeginScan \/ NextPage
  BY <1>2, ScanIInv
<1>3. CASE \E c \in Clients : BeginPut(c) \/ BeginApply(c) \/ BeginReplace(c)
  BY <1>3, BeginAnyIInv
<1>4. CASE \E c \in Clients : Prepare(c)
  BY <1>4, PrepareIInv
<1>5. CASE \E c \in Clients : Commit(c)
  BY <1>5, CommitIInv
<1>6. CASE Crash
  BY <1>6, CrashIInv
<1>7. CASE UNCHANGED vars
  BY <1>7 DEF vars, IInv, TypeOK, LockHeld, RevisionsBounded, UnwrittenIsAbsent,
              PreparedIsCurrent, RevisionNamesVersion
<1>. QED
  BY <1>1, <1>2, <1>3, <1>4, <1>5, <1>6, <1>7 DEF Next

-----------------------------------------------------------------------------
\* Every behaviour of the store keeps the inductive invariant.
THEOREM Invariance == Spec => []IInv
  BY InitIInv, NextIInv, PTL DEF Spec

\* The store's state always has its type.
THEOREM TypeCorrect == Spec => []TypeOK
<1>1. IInv => TypeOK
  BY DEF IInv
<1>. QED
  BY <1>1, Invariance, PTL

\* A batch about to be committed was computed from what is on the disk.
THEOREM PreparedCurrent == Spec => []PreparedIsCurrent
<1>1. IInv => PreparedIsCurrent
  BY DEF IInv
<1>. QED
  BY <1>1, Invariance, PTL

\* A revision names one version of a key for ever: compare-and-swap is free of
\* the ABA problem, deletes and crashes included.
THEOREM RevisionsName == Spec => []RevisionNamesVersion
<1>1. IInv => RevisionNamesVersion
  BY DEF IInv
<1>. QED
  BY <1>1, Invariance, PTL

\* Every change of a key advances its revision by one.
THEOREM RevisionsAlwaysAdvance == Spec => RevisionsAdvance
<1> DEFINE Advance == \A k \in Keys :
             disk'[k] # disk[k] => disk'[k].revision = disk[k].revision + 1
<1>1. IInv /\ [Next]_vars => [Advance]_disk
  <2> SUFFICES ASSUME IInv, Next, disk' # disk PROVE Advance
    BY DEF vars
  <2>1. PICK c \in Clients : Commit(c)
    BY DEF Next, Get, BeginScan, NextPage, BeginPut, BeginApply, BeginReplace, Begin, Prepare,
           Crash
  <2>. QED
    BY <2>1, CommittedIsNext DEF Commit
<1>. QED
  BY <1>1, Invariance, PTL DEF Spec, RevisionsAdvance

-----------------------------------------------------------------------------
(* replace_prefix *)

\* A replacement lists entries and no deletes, and the batch built from it is
\* still what the disk calls for when it is committed.
ReplacementCurrent ==
  \A c \in Clients : (phase[c] # "idle" /\ request[c].kind = "replace") =>
    \A k \in PrefixKeys :
      /\ request[c].batch[k].kind \in {"none", "put"}
      /\ phase[c] = "ready" => pending[c][k] = Written(c, k)

LEMMA PrefixInKeys == PrefixKeys \subseteq Keys
  BY DEF PrefixKeys, Keys

\* The three ways to begin a mutation; only BeginReplace asks for a replacement.
LEMMA BeginReplacement ==
  ASSUME IInv, ReplacementCurrent, NEW c \in Clients,
         BeginPut(c) \/ BeginApply(c) \/ BeginReplace(c)
  PROVE  ReplacementCurrent'
<1>1. PICK kind, batch : /\ Begin(c, kind, batch)
                         /\ kind = "replace" =>
                              \A k \in PrefixKeys : batch[k].kind \in {"none", "put"}
  <2>1. CASE BeginPut(c) \/ BeginApply(c)
    <3>1. PICK kind, batch : Begin(c, kind, batch) /\ kind \in {"put", "apply"}
      BY <2>1, Zenon DEF BeginPut, BeginApply
    <3>2. kind # "replace"
      BY <3>1
    <3>. QED
      BY <3>1, <3>2, Zenon
  <2>2. CASE BeginReplace(c)
    <3>1. PICK ks \in SUBSET PrefixKeys, v \in Values :
            Begin(c, "replace", [k \in Keys |-> IF k \in ks THEN Put(v, FALSE) ELSE NoMutation])
      BY <2>2 DEF BeginReplace
    <3> DEFINE b == [k \in Keys |-> IF k \in ks THEN Put(v, FALSE) ELSE NoMutation]
    <3>2. \A k \in PrefixKeys : b[k].kind \in {"none", "put"}
      BY PrefixInKeys DEF Put, NoMutation
    <3>. QED
      BY <3>1, <3>2, Zenon
  <2>. QED
    BY <2>1, <2>2
<1>2. \A d \in Clients : phase'[d] # "idle" => d = c
  BY <1>1 DEF Begin, Lock, IInv, TypeOK, LockHeld
<1>3. phase'[c] = "locked" /\ request'[c] = [kind |-> kind, batch |-> batch]
  BY <1>1 DEF Begin, IInv, TypeOK
<1>. QED
  BY <1>1, <1>2, <1>3 DEF ReplacementCurrent

LEMMA NextReplacement == IInv /\ ReplacementCurrent /\ [Next]_vars => ReplacementCurrent'
<1> SUFFICES ASSUME IInv, ReplacementCurrent, [Next]_vars PROVE ReplacementCurrent'
  OBVIOUS
<1>1. CASE UNCHANGED <<disk, phase, request, pending>>
  <2>1. \A c, k : Written(c, k)' = Written(c, k)
    BY <1>1 DEF Written, Mutations, NextRevision, Live
  <2>. QED
    BY <1>1, <2>1 DEF ReplacementCurrent
<1>2. CASE \E c \in Clients : BeginPut(c) \/ BeginApply(c) \/ BeginReplace(c)
  BY <1>2, BeginReplacement
<1>3. CASE \E c \in Clients : phase'[c] = "idle" /\ Unlock(c) /\ phase[c] # "idle"
  BY <1>3 DEF Unlock, IInv, TypeOK, LockHeld, ReplacementCurrent
<1>4. ASSUME NEW c \in Clients, Prepare(c), ~Unlock(c)
      PROVE  ReplacementCurrent'
  <2>1. /\ pending' = [pending EXCEPT ![c] = [k \in Keys |-> Written(c, k)]]
        /\ phase' = [phase EXCEPT ![c] = "ready"]
        /\ UNCHANGED <<disk, lock, request>>
        /\ phase[c] = "locked"
    BY <1>4 DEF Prepare
  <2>2. \A d \in Clients : phase'[d] # "idle" => d = c
    BY <2>1 DEF IInv, TypeOK, LockHeld
  <2>3. \A k \in PrefixKeys : pending'[c][k] = Written(c, k)
    BY <2>1, PrefixInKeys DEF IInv, TypeOK
  <2>4. \A k \in PrefixKeys : Written(c, k)' = Written(c, k)
    BY <2>1 DEF Written, Mutations, NextRevision, Live
  <2>. QED
    BY <2>1, <2>2, <2>3, <2>4 DEF ReplacementCurrent
<1>5. CASE Crash
  BY <1>5 DEF Crash, ReplacementCurrent
<1>6. ASSUME NEW c \in Clients, Prepare(c) \/ Commit(c), Unlock(c)
      PROVE  phase'[c] = "idle" /\ phase[c] # "idle"
  BY <1>6 DEF Prepare, Commit, Unlock, IInv, TypeOK
<1>7. ASSUME NEW c \in Clients, Commit(c) PROVE Unlock(c)
  BY <1>7 DEF Commit
<1>. QED
  BY <1>1, <1>2, <1>3, <1>4, <1>5, <1>6, <1>7 DEF Next, vars, Get, BeginScan, NextPage

\* After replace_prefix the prefix holds the replacement and nothing else,
\* whatever the other clients wrote before it took the lock.
THEOREM ReplacementsExact == Spec => ReplaceIsExact
<1> DEFINE Exact == \A c \in Clients :
             (Commit(c) /\ request[c].kind = "replace") =>
               \A k \in PrefixKeys : Live(disk', k) <=> request[c].batch[k].kind = "put"
<1>1. Init => ReplacementCurrent
  BY DEF Init, ReplacementCurrent
<1>2. IInv /\ ReplacementCurrent /\ [Next]_vars => [Exact]_vars
  <2> SUFFICES ASSUME IInv, ReplacementCurrent, NEW c \in Clients, Commit(c),
                      request[c].kind = "replace", NEW k \in PrefixKeys
               PROVE  Live(disk', k) <=> request[c].batch[k].kind = "put"
    BY Zenon
  <2>1. k \in Keys /\ phase[c] = "ready" /\ lock = c /\ disk'[k] = Committed(c)[k]
    BY PrefixInKeys DEF Commit, IInv, LockHeld
  <2>2. /\ request[c].batch[k].kind \in {"none", "put"}
        /\ pending[c][k] = Written(c, k)
    BY <2>1 DEF ReplacementCurrent
  <2>3. disk[k] \in Stored /\ disk[k].revision \in Nat /\ Written(c, k) \in Stored
    BY <2>1, WrittenIsNext, StoredFields DEF IInv, TypeOK
  <2>4. NextRevision(k) > 0 /\ NextRevision(k) \in Nat
    BY <2>3, StoredFields DEF NextRevision
  <2>5. CASE request[c].batch[k].kind = "put"
    <3>1. Mutations(c)[k].kind = "put"
      BY <2>1, <2>5 DEF Mutations
    <3>2. Written(c, k).revision > 0 /\ ~Written(c, k).deleted
      BY <3>1, <2>4 DEF Written
    <3>. QED
      BY <2>1, <2>2, <2>5, <3>2 DEF Committed, Live
  <2>6. CASE request[c].batch[k].kind = "none" /\ Live(disk, k)
    <3>1. Mutations(c)[k].kind = "delete"
      BY <2>1, <2>6 DEF Mutations, Delete
    <3>2. Written(c, k).revision > 0 /\ Written(c, k).deleted
      BY <3>1, <2>4 DEF Written
    <3>. QED
      BY <2>1, <2>2, <2>6, <3>2 DEF Committed, Live
  <2>7. CASE request[c].batch[k].kind = "none" /\ ~Live(disk, k)
    <3>1. Mutations(c)[k].kind = "none"
      BY <2>1, <2>7 DEF Mutations
    <3>2. Written(c, k) = Absent
      BY <3>1 DEF Written
    <3>. QED
      BY <2>1, <2>2, <2>7, <3>2, AbsentIsStored DEF Committed, Live
  <2>. QED
    BY <2>2, <2>5, <2>6, <2>7
<1>. QED
  BY <1>1, <1>2, NextReplacement, Invariance, PTL DEF Spec, ReplaceIsExact

-----------------------------------------------------------------------------
(* scan_prefix_after *)

\* What a page is cut from: the live keys of the prefix after the cursor.
After == {k \in PrefixKeys : k > scan.cursor /\ Live(disk, k)}

\* A steady key is live, and is behind the cursor only if it was returned.
ScanComplete ==
  \A k \in scan.steady :
    /\ k \in PrefixKeys /\ Live(disk, k)
    /\ k \in scan.got \/ (scan.running /\ k > scan.cursor)

LEMMA PageOfAfter == Page = {k \in After : Cardinality({j \in After : j < k}) < PageLimit}
  BY DEF Page, After

LEMMA AfterFinite ==
  /\ After \subseteq Nat
  /\ \A S \in SUBSET After : IsFiniteSet(S) /\ Cardinality(S) \in Nat
<1>1. After \subseteq 1 .. PrefixLen /\ IsFiniteSet(1 .. PrefixLen)
  BY FS_Interval DEF After, PrefixKeys
<1>2. After \subseteq Nat
  BY <1>1
<1>3. \A S \in SUBSET After : IsFiniteSet(S)
  BY <1>1, FS_Subset, Zenon
<1>. QED
  BY <1>2, <1>3, FS_CardinalityType, Zenon

\* A page that is not full holds every live key after the cursor: the first key
\* it left out would have PageLimit keys of the page before it.
LEMMA LastPageIsRest ==
  ASSUME Cardinality(Page) < PageLimit
  PROVE  After \subseteq Page
<1> DEFINE out == After \ Page
<1> SUFFICES ASSUME out # {} PROVE FALSE
  OBVIOUS
<1>1. PICK k \in out : \A j \in out : ~(j < k)
  <2>1. out \subseteq Nat
    BY AfterFinite
  <2>2. PICK k \in out : \A j \in out : <<j, k>> \notin OpToRel(<, Nat)
    <3> HIDE DEF out
    <3>. QED
      BY <2>1, NatLessThanWellFounded, WFMin
  <2>. QED
    BY <2>1, <2>2 DEF OpToRel
<1> DEFINE before == {j \in After : j < k}
<1>2. before \subseteq Page
  BY <1>1
<1>3. Page \in SUBSET After /\ before \in SUBSET After
  BY PageOfAfter
<1>4. Cardinality(before) \in Nat /\ Cardinality(Page) \in Nat /\ IsFiniteSet(Page)
  BY <1>3, AfterFinite
<1>5. Cardinality(before) <= Cardinality(Page)
  BY <1>2, <1>4, FS_Subset
<1>6. ~(Cardinality(before) < PageLimit)
  BY <1>1, PageOfAfter
<1>. QED
  BY <1>4, <1>5, <1>6

\* A page has no holes: with one key it holds every live key between the cursor
\* and that key.
LEMMA PageHasNoHoles ==
  ASSUME NEW last \in Page, NEW k \in After, k <= last
  PROVE  k \in Page
<1> DEFINE before(n) == {j \in After : j < n}
<1>1. last \in Nat /\ k \in Nat
  BY AfterFinite, PageOfAfter
<1>2. before(k) \in SUBSET before(last) /\ before(last) \in SUBSET After
  <2>1. \A j \in After : j < k => j < last
    BY <1>1, AfterFinite
  <2>. QED
    BY <2>1, Zenon
<1>3. IsFiniteSet(before(last)) /\ Cardinality(before(last)) \in Nat
  BY <1>2, AfterFinite
<1>4. Cardinality(before(k)) <= Cardinality(before(last)) /\ Cardinality(before(k)) \in Nat
  BY <1>2, <1>3, FS_Subset, FS_CardinalityType
<1>5. Cardinality(before(last)) < PageLimit
  BY PageOfAfter
<1>6. Cardinality(before(k)) < PageLimit
  BY <1>3, <1>4, <1>5
<1>. QED
  BY <1>6, PageOfAfter

LEMMA NextPageComplete ==
  ASSUME IInv, ScanComplete, NextPage
  PROVE  ScanComplete'
<1>1. scan \in Scan /\ disk' = disk
  BY DEF NextPage, IInv, TypeOK
<1> SUFFICES ASSUME NEW k \in scan'.steady
             PROVE  /\ k \in PrefixKeys /\ Live(disk', k)
                    /\ k \in scan'.got \/ (scan'.running /\ k > scan'.cursor)
  BY DEF ScanComplete
<1>2. /\ k \in scan.steady /\ k \in PrefixKeys /\ Live(disk, k)
      /\ scan'.got = scan.got \cup Page
  BY <1>1 DEF NextPage, Scan, ScanComplete
<1>3. k \in scan.got \/ k \in After
  BY <1>2 DEF ScanComplete, After
<1>4. CASE Cardinality(Page) < PageLimit
  BY <1>1, <1>2, <1>3, <1>4, LastPageIsRest
<1>5. CASE ~(Cardinality(Page) < PageLimit)
  <2>1. PICK last \in Page : scan' = [scan EXCEPT !.cursor = last, !.got = @ \cup Page]
    BY <1>5 DEF NextPage
  <2>2. last \in Nat /\ k \in Nat
    BY <1>2, AfterFinite, PageOfAfter DEF PrefixKeys
  <2>3. scan'.running /\ scan'.cursor = last
    BY <1>1, <2>1 DEF NextPage, Scan
  <2>4. CASE k <= last
    BY <1>1, <1>2, <1>3, <2>4, PageHasNoHoles
  <2>5. CASE k > last
    BY <1>1, <1>2, <2>3, <2>5
  <2>. QED
    BY <2>2, <2>4, <2>5
<1>. QED
  BY <1>4, <1>5

LEMMA NextComplete == IInv /\ ScanComplete /\ [Next]_vars => ScanComplete'
<1> SUFFICES ASSUME IInv, ScanComplete, [Next]_vars PROVE ScanComplete'
  OBVIOUS
<1>0. scan \in Scan
  BY DEF IInv, TypeOK
<1>1. CASE UNCHANGED <<disk, scan>>
  BY <1>1 DEF ScanComplete, Live
<1>2. CASE BeginScan
  <2> DEFINE steady == {k \in PrefixKeys : Live(disk, k)}
  <2>1. /\ scan'.steady = steady /\ scan'.running /\ scan'.cursor = 0
        /\ disk' = disk
    BY <1>2 DEF BeginScan
  <2>2. \A k \in steady : k \in PrefixKeys /\ Live(disk', k) /\ k > 0
    BY <2>1 DEF PrefixKeys
  <2> HIDE DEF steady
  <2>. QED
    BY <2>1, <2>2 DEF ScanComplete
<1>3. CASE NextPage
  BY <1>3, NextPageComplete
<1>4. ASSUME NEW c \in Clients, Commit(c)
      PROVE  ScanComplete'
  <2> DEFINE steady == {k \in scan.steady : Live(Committed(c), k)}
  <2>1. scan' = [scan EXCEPT !.steady = steady] /\ disk' = Committed(c)
    BY <1>4 DEF Commit
  <2>2. \A k \in steady : k \in scan.steady /\ Live(disk', k)
    BY <2>1
  <2> HIDE DEF steady
  <2>. QED
    BY <1>0, <2>1, <2>2 DEF ScanComplete, Scan
<1>5. CASE Crash
  BY <1>5 DEF Crash, NoScan, ScanComplete
<1>. QED
  BY <1>1, <1>2, <1>3, <1>4, <1>5
     DEF Next, vars, Get, BeginPut, BeginApply, BeginReplace, Begin, Prepare

\* A scan that went through the pages returned every entry that was there all
\* along, whatever was written between the pages.
THEOREM ScansComplete == Spec => []ScanMissesNothing
<1>1. Init => ScanComplete
  BY DEF Init, NoScan, ScanComplete
<1>2. ScanComplete => ScanMissesNothing
  BY DEF ScanComplete, ScanMissesNothing
<1>. QED
  BY <1>1, <1>2, NextComplete, Invariance, PTL DEF Spec

=============================================================================
