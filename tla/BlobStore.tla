----------------------------- MODULE BlobStore ------------------------------
(***************************************************************************)
(* The content-addressed blob store (crates/mmdb-blob) under the node      *)
(* operations of the facade that take and release its references           *)
(* (Database::insert_blob, insert, delete and gc_blobs in db.rs).          *)
(*                                                                         *)
(* Each thread runs one operation, one access to the file system, to the   *)
(* metadata partition or to the node partition at a time.  The facade      *)
(* serializes node mutations with node_mutation_lock; put_stream and gc    *)
(* run outside it, and MetaStore's inc_ref and dec_ref are a get followed  *)
(* by an insert.  Overlap says which kinds of operation may run at the     *)
(* same time, Faults which faults occur.                                   *)
(***************************************************************************)
EXTENDS Integers, FiniteSets

CONSTANTS
  Blobs,      \* content hashes, of payloads too large to be inlined
  Nodes,      \* node ids
  Threads,
  Absent,     \* a node id without a record
  Text,       \* a node whose content is not a blob
  NoThread,
  NoBlob,
  Overlap,    \* kinds of operation that may overlap
  Faults,     \* which faults occur
  MaxFaults,
  MaxRefs     \* bound on a refcount

ASSUME SentinelAssumption ==
  /\ Blobs \cap {Absent, Text, NoBlob} = {} /\ Absent # Text /\ Absent \notin Nodes
  /\ NoThread \notin Threads

Kinds == {"insert_blob", "insert", "delete", "gc"}

\* The process stops, the machine stops, put_node fails, a later index write fails.
FaultKinds == {"kill", "power", "put_node", "index"}

ASSUME BoundAssumption ==
  /\ Overlap \subseteq Kinds /\ Faults \subseteq FaultKinds
  /\ IsFiniteSet(Nodes)
  /\ MaxFaults \in Nat /\ MaxRefs \in Nat \ {0}

VARIABLES
  bytes,     \* blobs whose bytes are in the file system
  volatile,  \* those the file system has not yet put on the disk
  meta,      \* refcount of each blob in the metadata partition
  nodes,     \* content of each node
  lock,      \* holder of node_mutation_lock
  thr,       \* what each thread is doing
  faults     \* stops and failed index writes so far

vars == <<bytes, volatile, meta, nodes, lock, thr, faults>>

-----------------------------------------------------------------------------
Untracked == -1

Content == Blobs \cup {Absent, Text}

Steps == {"idle", "put_get", "write_bytes", "insert_new", "lock", "inc", "inc_put", "dec",
          "dec_put", "put_node", "index", "delete_node", "fail", "unlock", "gc_list",
          "gc_bytes", "gc_meta"}

\* hash is the blob whose metadata the thread is changing, seen the refcount it
\* read, then where it goes on; new and old are the node's contents.
Thread == [kind: Kinds \cup {"none"}, at: Steps, node: Nodes \cup {Absent}, new: Content,
           old: Content, hash: Blobs \cup {NoBlob}, seen: 0 .. MaxRefs, then: Steps,
           garbage: SUBSET Blobs]

\* A thread that is about to run an operation on a node.
Called(kind, at, node, new) ==
  [kind |-> kind, at |-> at, node |-> node, new |-> new, old |-> Absent,
   hash |-> NoBlob, seen |-> 0, then |-> "idle", garbage |-> {}]

Idle == Called("none", "idle", Absent, Text)

TypeOK ==
  /\ bytes \subseteq Blobs
  /\ volatile \subseteq bytes
  /\ meta \in [Blobs -> {Untracked} \cup 0 .. MaxRefs]
  /\ nodes \in [Nodes -> Content]
  /\ lock \in Threads \cup {NoThread}
  /\ thr \in [Threads -> Thread]
  /\ faults \in 0 .. MaxFaults

Init ==
  /\ bytes = {}
  /\ volatile = {}
  /\ meta = [b \in Blobs |-> Untracked]
  /\ nodes = [n \in Nodes |-> Absent]
  /\ lock = NoThread
  /\ thr = [t \in Threads |-> Idle]
  /\ faults = 0

At(t, s) == thr[t].at = s

Goto(t, s) == thr' = [thr EXCEPT ![t].at = s]

\* Call inc_ref or dec_ref on a blob and go on at s.
Call(t, f, b, s) == thr' = [thr EXCEPT ![t].at = f, ![t].hash = b, ![t].then = s]

-----------------------------------------------------------------------------
(* Operations begin *)

MayBegin(t, k) ==
  /\ At(t, "idle")
  /\ \A u \in Threads : ~At(u, "idle") => k \in Overlap /\ thr[u].kind \in Overlap

\* Ids of new nodes are fresh: no node and no operation has them.
FreshNode(n) == nodes[n] = Absent /\ \A u \in Threads : thr[u].node # n

InsertBlob(t, b) == \E n \in Nodes :
  /\ MayBegin(t, "insert_blob")
  /\ FreshNode(n)
  /\ thr' = [thr EXCEPT ![t] = Called("insert_blob", "put_get", n, b)]
  /\ UNCHANGED <<bytes, volatile, meta, nodes, lock, faults>>

\* insert: a node whose content may name a blob stored before.
Insert(t, n, c) ==
  /\ MayBegin(t, "insert")
  /\ thr' = [thr EXCEPT ![t] = Called("insert", "lock", n, c)]
  /\ UNCHANGED <<bytes, volatile, meta, nodes, lock, faults>>

Delete(t, n) ==
  /\ MayBegin(t, "delete")
  /\ nodes[n] # Absent
  /\ thr' = [thr EXCEPT ![t] = Called("delete", "lock", n, Text)]
  /\ UNCHANGED <<bytes, volatile, meta, nodes, lock, faults>>

Gc(t) ==
  /\ MayBegin(t, "gc")
  /\ thr' = [thr EXCEPT ![t] = Called("gc", "gc_list", Absent, Text)]
  /\ UNCHANGED <<bytes, volatile, meta, nodes, lock, faults>>

-----------------------------------------------------------------------------
(* BlobStore::put_stream *)

\* Already tracked: count one more reference; else write the bytes.
PutGet(t) ==
  /\ At(t, "put_get")
  /\ IF meta[thr[t].new] # Untracked
     THEN Call(t, "inc", thr[t].new, "lock")
     ELSE Goto(t, "write_bytes")
  /\ UNCHANGED <<bytes, volatile, meta, nodes, lock, faults>>

\* write_blob_bytes, without an fsync.
WriteBytes(t) ==
  /\ At(t, "write_bytes")
  /\ bytes' = bytes \cup {thr[t].new}
  /\ volatile' = volatile \cup {thr[t].new}
  /\ Goto(t, "insert_new")
  /\ UNCHANGED <<meta, nodes, lock, faults>>

\* insert_new: refcount 1, whatever the entry is by now.
InsertNew(t) ==
  /\ At(t, "insert_new")
  /\ meta' = [meta EXCEPT ![thr[t].new] = 1]
  /\ Goto(t, "lock")
  /\ UNCHANGED <<bytes, volatile, nodes, lock, faults>>

-----------------------------------------------------------------------------
(* MetaStore::inc_ref and dec_ref *)

\* A missing entry is NotFound: fatal to an inc_ref, ignored after a dec_ref.
NotFoundStep(t) ==
  IF At(t, "inc") THEN IF lock = t THEN "unlock" ELSE "idle" ELSE thr[t].then

MetaGet(t) ==
  /\ At(t, "inc") \/ At(t, "dec")
  /\ LET count == meta[thr[t].hash] IN
       IF count = Untracked
       THEN IF NotFoundStep(t) = "idle" THEN thr' = [thr EXCEPT ![t] = Idle]
                                        ELSE Goto(t, NotFoundStep(t))
       ELSE thr' = [thr EXCEPT ![t].seen = count,
                               ![t].at = IF @ = "inc" THEN "inc_put" ELSE "dec_put"]
  /\ UNCHANGED <<bytes, volatile, meta, nodes, lock, faults>>

Counted(t) ==
  CASE At(t, "inc_put") -> thr[t].seen + 1
    [] At(t, "dec_put") -> IF thr[t].seen > 0 THEN thr[t].seen - 1 ELSE 0

MetaPut(t) ==
  /\ At(t, "inc_put") \/ At(t, "dec_put")
  /\ Counted(t) <= MaxRefs
  /\ meta' = [meta EXCEPT ![thr[t].hash] = Counted(t)]
  /\ IF thr[t].then = "idle" THEN thr' = [thr EXCEPT ![t] = Idle] ELSE Goto(t, thr[t].then)
  /\ UNCHANGED <<bytes, volatile, nodes, lock, faults>>

-----------------------------------------------------------------------------
(* Database::insert_inner and delete, under node_mutation_lock *)

\* Take the lock, read the previous record, and see what is to be counted: insert
\* acquires the blob it newly names (insert_blob's put_stream already has), delete
\* releases the node's blob before it removes the node.
Lock(t) ==
  /\ At(t, "lock")
  /\ lock = NoThread
  /\ lock' = t
  /\ LET old == nodes[thr[t].node]
         self == [thr[t] EXCEPT !.old = old]
         acquires == self.kind = "insert" /\ self.new \in Blobs /\ self.new # old
         releases == self.kind = "delete" /\ old \in Blobs
     IN  thr' = [thr EXCEPT ![t] =
                  IF acquires THEN [self EXCEPT !.at = "inc", !.hash = self.new, !.then = "put_node"]
                  ELSE IF releases THEN [self EXCEPT !.at = "dec", !.hash = old, !.then = "delete_node"]
                  ELSE [self EXCEPT !.at = IF self.kind = "delete" THEN "delete_node" ELSE "put_node"]]
  /\ UNCHANGED <<bytes, volatile, meta, nodes, faults>>

\* Wrong: keeps the reference of the blob that is replaced.
PutNodeKeepingOld(t) ==
  /\ At(t, "put_node")
  /\ nodes' = [nodes EXCEPT ![thr[t].node] = thr[t].new]
  /\ Goto(t, "index")
  /\ UNCHANGED <<bytes, volatile, meta, lock, faults>>

\* Storage::put_node; then release_previous_blob_if_replaced.
PutNode(t) ==
  /\ At(t, "put_node")
  /\ nodes' = [nodes EXCEPT ![thr[t].node] = thr[t].new]
  /\ IF thr[t].old \in Blobs /\ thr[t].old # thr[t].new
     THEN Call(t, "dec", thr[t].old, "index")
     ELSE Goto(t, "index")
  /\ UNCHANGED <<bytes, volatile, meta, lock, faults>>

\* put_node fails: insert gives back the reference it acquired; insert_blob
\* does so after insert_inner has returned.
PutNodeFails(t) ==
  /\ At(t, "put_node")
  /\ "put_node" \in Faults
  /\ IF thr[t].kind = "insert" /\ thr[t].new \in Blobs /\ thr[t].new # thr[t].old
     THEN Call(t, "dec", thr[t].new, "unlock")
     ELSE Goto(t, "fail")
  /\ UNCHANGED <<bytes, volatile, meta, nodes, lock, faults>>

\* The vector, lexical and audit writes that follow.
Index(t) ==
  /\ At(t, "index")
  /\ Goto(t, "unlock")
  /\ UNCHANGED <<bytes, volatile, meta, nodes, lock, faults>>

IndexFails(t) ==
  /\ At(t, "index")
  /\ "index" \in Faults /\ faults < MaxFaults
  /\ Goto(t, "fail")
  /\ faults' = faults + 1
  /\ UNCHANGED <<bytes, volatile, meta, nodes, lock>>

\* Storage::delete_node and the index deletions.
DeleteNode(t) ==
  /\ At(t, "delete_node")
  /\ nodes' = [nodes EXCEPT ![thr[t].node] = Absent]
  /\ Goto(t, "unlock")
  /\ UNCHANGED <<bytes, volatile, meta, lock, faults>>

\* The operation returns and drops the guard; insert_blob releases its
\* reference when insert_inner returned an error.
Unlock(t) ==
  /\ At(t, "unlock") \/ At(t, "fail")
  /\ lock' = NoThread
  /\ IF At(t, "fail") /\ thr[t].kind = "insert_blob"
     THEN Call(t, "dec", thr[t].new, "idle")
     ELSE thr' = [thr EXCEPT ![t] = Idle]
  /\ UNCHANGED <<bytes, volatile, meta, nodes, faults>>

-----------------------------------------------------------------------------
(* BlobStore::gc *)

GcNext(t, garbage) ==
  thr' = [thr EXCEPT ![t] = IF garbage = {} THEN Idle
                            ELSE [@ EXCEPT !.at = "gc_bytes", !.garbage = garbage]]

\* Wrong: lists blobs with a last reference.
GcListLast(t) ==
  /\ At(t, "gc_list")
  /\ GcNext(t, {b \in Blobs : meta[b] \in 0 .. 1})
  /\ UNCHANGED <<bytes, volatile, meta, nodes, lock, faults>>

GcList(t) ==
  /\ At(t, "gc_list")
  /\ GcNext(t, {b \in Blobs : meta[b] = 0})
  /\ UNCHANGED <<bytes, volatile, meta, nodes, lock, faults>>

GcBytes(t, b) ==
  /\ At(t, "gc_bytes")
  /\ b \in thr[t].garbage
  /\ bytes' = bytes \ {b}
  /\ volatile' = volatile \ {b}
  /\ thr' = [thr EXCEPT ![t].at = "gc_meta", ![t].hash = b]
  /\ UNCHANGED <<meta, nodes, lock, faults>>

\* Wrong: leaves the metadata entry of the removed bytes.
GcMetaKept(t) ==
  /\ At(t, "gc_meta")
  /\ GcNext(t, thr[t].garbage \ {thr[t].hash})
  /\ UNCHANGED <<bytes, volatile, meta, nodes, lock, faults>>

GcMeta(t) ==
  /\ At(t, "gc_meta")
  /\ meta' = [meta EXCEPT ![thr[t].hash] = Untracked]
  /\ GcNext(t, thr[t].garbage \ {thr[t].hash})
  /\ UNCHANGED <<bytes, volatile, nodes, lock, faults>>

-----------------------------------------------------------------------------
(* Faults *)

\* Open: reconcile_on_open warns; open_with_repair also deletes the bytes that
\* have no metadata entry.
Reopen(left) ==
  /\ \E repair \in BOOLEAN : bytes' = {b \in left : repair => meta[b] # Untracked}
  /\ volatile' = volatile \cap bytes'
  /\ lock' = NoThread
  /\ thr' = [t \in Threads |-> Idle]
  /\ faults' = faults + 1
  /\ UNCHANGED <<meta, nodes>>

Kill == "kill" \in Faults /\ faults < MaxFaults /\ Reopen(bytes)

\* Bytes that were not flushed may be gone; metadata and nodes were persisted.
PowerLoss ==
  /\ "power" \in Faults /\ faults < MaxFaults
  /\ \E lost \in SUBSET volatile : Reopen(bytes \ lost)

\* The operating system flushes written bytes in its own time.
Flush ==
  /\ "power" \in Faults
  /\ volatile # {}
  /\ volatile' = {}
  /\ UNCHANGED <<bytes, meta, nodes, lock, thr, faults>>

-----------------------------------------------------------------------------
Step(t) ==
  \/ PutGet(t) \/ WriteBytes(t) \/ InsertNew(t)
  \/ MetaGet(t) \/ MetaPut(t)
  \/ Lock(t) \/ PutNode(t) \/ PutNodeFails(t) \/ Index(t) \/ IndexFails(t) \/ DeleteNode(t) \/ Unlock(t)
  \/ GcList(t) \/ (\E b \in Blobs : GcBytes(t, b)) \/ GcMeta(t)

Next ==
  \/ \E t \in Threads :
       \/ \E b \in Blobs : InsertBlob(t, b)
       \/ \E n \in Nodes, c \in Blobs \cup {Text} : Insert(t, n, c)
       \/ \E n \in Nodes : Delete(t, n)
       \/ Gc(t)
       \/ Step(t)
  \/ Kill \/ PowerLoss \/ Flush

Spec == Init /\ [][Next]_vars

-----------------------------------------------------------------------------
(* Properties *)

Quiet == \A t \in Threads : At(t, "idle")

References(b) == Cardinality({n \in Nodes : nodes[n] = b})

\* Between operations a blob's refcount is the number of nodes that name it:
\* "inserting the same bytes twice ... bumps the refcount to 2".  Every stop of
\* the process or machine and every index write that fails after the node was
\* stored may cost one reference, counted too many or too few; a node write that
\* fails costs none.
RefcountWithinFaults ==
  Quiet => \A b \in Blobs :
             LET counted == IF meta[b] = Untracked THEN 0 ELSE meta[b]
             IN  counted - References(b) \in -faults .. faults

\* Without such a fault the bytes of every blob a node names can be read
\* (get_stream).
ReferencedReadable ==
  faults = 0 =>
    \A n \in Nodes : nodes[n] \in Blobs => meta[nodes[n]] # Untracked /\ nodes[n] \in bytes

\* put_stream persists what it was given: once it has returned, and no fault has
\* left an entry without bytes, the bytes are in the store.
PutIsReadable ==
  faults = 0 =>
    \A t \in Threads :
      (thr[t].kind = "insert_blob" /\ At(t, "lock")) => thr[t].new \in bytes

\* put_stream, insert_blob, delete and gc together: without a fault, what was
\* stored and what a node names can be read.
BytesReadable == TypeOK /\ ReferencedReadable /\ PutIsReadable

\* "gc physically removes blobs whose refcount reached zero": it removes no
\* bytes while the metadata counts a reference to them.
GcRemovesOnlyGarbage ==
  [][\A t \in Threads, b \in Blobs : GcBytes(t, b) => meta[b] = 0]_vars
=============================================================================
