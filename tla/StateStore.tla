----------------------------- MODULE StateStore -----------------------------
(***************************************************************************)
(* StateStore (crates/mmdb/src/state.rs): revisioned application state     *)
(* with compare-and-swap batches, prefix replacement and paged scans.      *)
(*                                                                         *)
(* A key stands for a namespace and the caller's key in it; keys are       *)
(* ordered as the storage engine orders their encodings, so that the keys  *)
(* with one prefix are an interval.  Readers take no lock.  Every mutation *)
(* takes write_lock, reads what it needs, and commits one batch; the steps *)
(* of different clients interleave everywhere else.                        *)
(***************************************************************************)
EXTENDS Integers, FiniteSets

CONSTANTS
  NumKeys,      \* the keys are 1 .. NumKeys
  PrefixLen,    \* the keys 1 .. PrefixLen share the prefix scanned and replaced
  Values,
  Clients,
  NoClient,
  NoValue,      \* Value::Null, what a tombstone stores
  PageLimit,    \* the limit of scan_prefix_after
  MaxRevision,  \* u64::MAX
  MaxOps        \* bound on mutations begun

Keys == 1 .. NumKeys
PrefixKeys == 1 .. PrefixLen

ASSUME KeyAssumption == NumKeys \in Nat /\ PrefixLen \in 0 .. NumKeys
ASSUME SentinelAssumption == NoClient \notin Clients /\ NoValue \notin Values
ASSUME BoundAssumption ==
  PageLimit \in Nat \ {0} /\ MaxRevision \in Nat /\ MaxOps \in Nat /\ MaxOps < MaxRevision

VARIABLES
  disk,     \* the partition app_state_v1: the stored value of each key
  lock,     \* the holder of write_lock
  phase,    \* how far each client is with its mutation
  request,  \* what each client asked for
  pending,  \* the batch each client is about to commit
  view,     \* what each client last got: one entry, with its key
  scan,     \* a client paging through the prefix
  ops       \* mutations begun

vars == <<disk, lock, phase, request, pending, view, scan, ops>>

-----------------------------------------------------------------------------
\* StoredValue; revision 0 stands for a key that was never written.
Stored == [value: Values \cup {NoValue}, revision: 0 .. MaxRevision, deleted: BOOLEAN]

Absent == [value |-> NoValue, revision |-> 0, deleted |-> FALSE]

\* StateMutation: checked means expected_revision is what the client last got.
Mutation == [kind: {"none", "put", "delete"}, value: Values \cup {NoValue}, checked: BOOLEAN]

Put(v, checked) == [kind |-> "put", value |-> v, checked |-> checked]
Delete(checked) == [kind |-> "delete", value |-> NoValue, checked |-> checked]
NoMutation == [kind |-> "none", value |-> NoValue, checked |-> FALSE]

\* A batch without a duplicate key; a replacement lists the entries that the
\* prefix shall hold.
Request == [kind: {"put", "apply", "replace"}, batch: [Keys -> Mutation]]

NoRequest == [kind |-> "apply", batch |-> [k \in Keys |-> NoMutation]]

\* A batch of writes; a key it leaves alone has revision 0.
NoWrites == [k \in Keys |-> Absent]

View == [key: Keys, entry: Stored]

Scan == [running: BOOLEAN, cursor: 0 .. NumKeys, got: SUBSET Keys, steady: SUBSET Keys]

NoScan == [running |-> FALSE, cursor |-> 0, got |-> {}, steady |-> {}]

TypeOK ==
  /\ disk \in [Keys -> Stored]
  /\ lock \in Clients \cup {NoClient}
  /\ phase \in [Clients -> {"idle", "locked", "ready"}]
  /\ request \in [Clients -> Request]
  /\ pending \in [Clients -> [Keys -> Stored]]
  /\ view \in [Clients -> View]
  /\ scan \in Scan
  /\ ops \in 0 .. MaxOps

Live(d, k) == d[k].revision > 0 /\ ~d[k].deleted

Init ==
  /\ disk = [k \in Keys |-> Absent]
  /\ lock = NoClient
  /\ phase = [c \in Clients |-> "idle"]
  /\ request = [c \in Clients |-> NoRequest]
  /\ pending = [c \in Clients |-> NoWrites]
  /\ view \in [Clients -> [key: Keys, entry: {Absent}]]
  /\ scan = NoScan
  /\ ops = 0

-----------------------------------------------------------------------------
(* Reads, without the lock *)

\* get: a tombstone reads as an absent key, its revision hidden.
Get(c, k) ==
  /\ view' = [view EXCEPT ![c] = [key |-> k, entry |-> IF Live(disk, k) THEN disk[k] ELSE Absent]]
  /\ UNCHANGED <<disk, lock, phase, request, pending, scan, ops>>

BeginScan ==
  /\ ~scan.running
  /\ scan' = [running |-> TRUE, cursor |-> 0, got |-> {},
              steady |-> {k \in PrefixKeys : Live(disk, k)}]
  /\ UNCHANGED <<disk, lock, phase, request, pending, view, ops>>

\* Wrong: deleted entries use up the limit.
PageCountingDeleted ==
  LET after == {k \in PrefixKeys : k > scan.cursor /\ disk[k].revision > 0}
  IN  {k \in after : Live(disk, k) /\ Cardinality({j \in after : j < k}) < PageLimit}

\* The keys of the next page: the first PageLimit live keys after the cursor.
Page ==
  LET after == {k \in PrefixKeys : k > scan.cursor /\ Live(disk, k)}
  IN  {k \in after : Cardinality({j \in after : j < k}) < PageLimit}

\* scan_prefix_after; the caller goes on from the last key of a full page, and
\* a page that is not full is the last one.
NextPage ==
  /\ scan.running
  /\ \/ /\ Cardinality(Page) < PageLimit
        /\ scan' = [scan EXCEPT !.running = FALSE, !.got = @ \cup Page]
     \/ /\ Cardinality(Page) >= PageLimit
        /\ \E last \in Page :
             /\ \A k \in Page : k <= last
             /\ scan' = [scan EXCEPT !.cursor = last, !.got = @ \cup Page]
  /\ UNCHANGED <<disk, lock, phase, request, pending, view, ops>>

-----------------------------------------------------------------------------
(* Mutations, under write_lock *)

\* Wrong: goes ahead while another client holds the lock.
LockNotWaiting(c) == lock' = c

\* write_lock.lock(): first in put, apply and apply_namespaced; replace_prefix
\* has checked its arguments by then, and has read nothing.
Lock(c) == lock = NoClient /\ lock' = c

Unlock(c) ==
  /\ lock' = NoClient
  /\ phase' = [phase EXCEPT ![c] = "idle"]
  /\ request' = [request EXCEPT ![c] = NoRequest]
  /\ pending' = [pending EXCEPT ![c] = NoWrites]

Begin(c, kind, batch) ==
  /\ phase[c] = "idle"
  /\ ops < MaxOps
  /\ Lock(c)
  /\ phase' = [phase EXCEPT ![c] = "locked"]
  /\ request' = [request EXCEPT ![c] = [kind |-> kind, batch |-> batch]]
  /\ ops' = ops + 1
  /\ UNCHANGED <<disk, pending, view, scan>>

BeginPut(c) == \E k \in Keys, v \in Values :
  Begin(c, "put", [NoRequest.batch EXCEPT ![k] = Put(v, FALSE)])

\* The caller checks at most the entry it last got.
Applicable(c) ==
  [Keys -> {NoMutation, Delete(FALSE)} \cup {Put(v, FALSE) : v \in Values}]
  \cup {[NoRequest.batch EXCEPT ![view[c].key] = m] :
          m \in {Delete(TRUE)} \cup {Put(v, TRUE) : v \in Values}}

BeginApply(c) == \E b \in Applicable(c) : Begin(c, "apply", b)

\* Every replacement key has the prefix and is listed once.
BeginReplace(c) ==
  \E ks \in SUBSET PrefixKeys, v \in Values :
    Begin(c, "replace", [k \in Keys |-> IF k \in ks THEN Put(v, FALSE) ELSE NoMutation])

\* Wrong: a replacement keeps the entries that it does not list.
MutationsKeepingRest(c) == request[c].batch

\* The batch that is applied: replace_prefix deletes what the prefix holds and
\* the replacement does not list.
Mutations(c) ==
  [k \in Keys |->
     IF request[c].kind = "replace" /\ k \in PrefixKeys /\ Live(disk, k)
          /\ request[c].batch[k].kind = "none"
     THEN Delete(FALSE)
     ELSE request[c].batch[k]]

\* actual != *expected, for the mutations that carry an expectation.
Conflict(c, k) ==
  /\ Mutations(c)[k].checked
  /\ disk[k].revision # view[c].entry.revision

\* revision.saturating_add(1), or 1 for a key that was never written.
NextRevision(k) == IF disk[k].revision < MaxRevision THEN disk[k].revision + 1 ELSE MaxRevision

Written(c, k) ==
  LET m == Mutations(c)[k]
  IN  IF m.kind = "none" THEN Absent
      ELSE [value |-> m.value, revision |-> NextRevision(k), deleted |-> m.kind = "delete"]

\* apply_namespaced_locked reads every key and checks every expectation before
\* it builds the batch; one conflict fails the whole of it.
Prepare(c) ==
  /\ phase[c] = "locked"
  /\ \/ /\ \A k \in Keys : ~Conflict(c, k)
        /\ pending' = [pending EXCEPT ![c] = [k \in Keys |-> Written(c, k)]]
        /\ phase' = [phase EXCEPT ![c] = "ready"]
        /\ UNCHANGED <<lock, request>>
     \/ (\E k \in Keys : Conflict(c, k)) /\ Unlock(c)
  /\ UNCHANGED <<disk, view, scan, ops>>

\* Wrong: a delete removes the record, and its revision with it.
CommittedWithoutTombstone(c) ==
  [k \in Keys |-> IF pending[c][k].revision = 0 THEN disk[k]
                  ELSE IF pending[c][k].deleted THEN Absent ELSE pending[c][k]]

\* The batch as the storage engine applies it, all keys at once.
Committed(c) == [k \in Keys |-> IF pending[c][k].revision > 0 THEN pending[c][k] ELSE disk[k]]

\* batch.commit() with PersistMode::SyncAll; the guard is dropped on return.
\* A key that is deleted is no longer steady for a scan under way.
Commit(c) ==
  /\ phase[c] = "ready"
  /\ disk' = Committed(c)
  /\ scan' = [scan EXCEPT !.steady = {k \in @ : Live(Committed(c), k)}]
  /\ Unlock(c)
  /\ UNCHANGED <<view, ops>>

\* The process stops: the mutations under way are gone, the partition is not,
\* and a caller may still know a revision it got before.
Crash ==
  /\ lock' = NoClient
  /\ phase' = [c \in Clients |-> "idle"]
  /\ request' = [c \in Clients |-> NoRequest]
  /\ pending' = [c \in Clients |-> NoWrites]
  /\ scan' = NoScan
  /\ UNCHANGED <<disk, view, ops>>

-----------------------------------------------------------------------------
Next ==
  \/ \E c \in Clients, k \in Keys : Get(c, k)
  \/ BeginScan \/ NextPage
  \/ \E c \in Clients : BeginPut(c) \/ BeginApply(c) \/ BeginReplace(c) \/ Prepare(c) \/ Commit(c)
  \/ Crash

Spec == Init /\ [][Next]_vars

-----------------------------------------------------------------------------
(* Properties *)

\* What is about to be committed was computed from what is on the disk: between
\* the reads of a mutation and its commit nobody changes the keys it writes.
PreparedIsCurrent ==
  \A c \in Clients : phase[c] = "ready" =>
    \A k \in Keys : pending[c][k].revision > 0 => pending[c][k].revision = disk[k].revision + 1

\* A revision names one version of a key for ever, through deletes, recreations
\* and crashes: an entry a client got, however long ago, is what the key holds
\* now or has an older revision, so that a compare-and-swap on it that succeeds
\* overwrites exactly what the client saw.
RevisionNamesVersion ==
  \A c \in Clients :
    LET got == view[c].entry  now == disk[view[c].key]
    IN  got.revision <= now.revision /\ (got.revision = now.revision => got = now)

\* Every change of a key advances its revision, by one.
RevisionsAdvance ==
  [][\A k \in Keys : disk'[k] # disk[k] => disk'[k].revision = disk[k].revision + 1]_disk

\* After replace_prefix the prefix holds the replacement and nothing else.
ReplaceIsExact ==
  [][\A c \in Clients :
       (Commit(c) /\ request[c].kind = "replace") =>
         \A k \in PrefixKeys : Live(disk', k) <=> request[c].batch[k].kind = "put"]_vars

\* Paging with the last key as the cursor misses no entry that was there all
\* along, whatever is written between the pages.
ScanMissesNothing ==
  (~scan.running) => scan.steady \subseteq scan.got

=============================================================================
