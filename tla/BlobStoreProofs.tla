-------------------------- MODULE BlobStoreProofs ---------------------------
(***************************************************************************)
(* Proofs about BlobStore: gc removes no counted bytes, refcounts stay     *)
(* within one reference per fault of the number of nodes that name a blob, *)
(* and without a fault what a node names can be read, for any blobs,       *)
(* nodes, threads, faults and bounds, when only inserts and deletes        *)
(* overlap (Serial): what node_mutation_lock serializes.                   *)
(*                                                                         *)
(* The refcount is not the number of nodes in the middle of an operation.  *)
(* The inductive invariant says which reference the running operation has  *)
(* counted and not yet stored, or stored and not yet counted (Extra), and  *)
(* that at most one operation at a time is past its wait for the lock.     *)
(***************************************************************************)
EXTENDS BlobStore, FiniteSetTheorems, TLAPS

\* put_stream and gc run by themselves.
Serial == Overlap \subseteq {"insert", "delete"}

\* The thread does nothing, or waits for the lock without having done anything.
Passive(t) == \/ At(t, "idle")
              \/ At(t, "lock") /\ thr[t].kind \in {"insert", "delete"}

Alone == \A t, u \in Threads :
  t # u /\ ~At(t, "idle") /\ ~At(u, "idle") => thr[t].kind \in Overlap /\ thr[u].kind \in Overlap

Solo == \A t, u \in Threads : t = u \/ Passive(t) \/ Passive(u)

\* Counting one more reference to new.
Incs(t) == thr[t].at \in {"inc", "inc_put"}

\* Counting one reference less to hash.
Decs(t) == thr[t].at \in {"dec", "dec_put"}

\* The thread is between Lock and Unlock.
Locked(t) ==
  \/ thr[t].at \in {"put_node", "index", "fail", "unlock", "delete_node"}
  \/ Incs(t) /\ thr[t].kind = "insert"
  \/ Decs(t) /\ thr[t].kind # "insert_blob"

\* The blob is in put_stream's hands and no node names it for this thread yet.
Storing(t) ==
  \/ thr[t].at \in {"put_get", "write_bytes", "insert_new", "lock", "put_node"}
  \/ Incs(t)

\* The node has not been written since the lock was taken.
Unwritten(t) ==
  \/ At(t, "put_node") \/ At(t, "delete_node")
  \/ Incs(t) /\ thr[t].kind = "insert"
  \/ Decs(t) /\ thr[t].kind = "delete"

\* Where each kind of operation can be and what it then holds.
Position(t) ==
  /\ thr[t].kind = "none" <=> At(t, "idle")
  /\ thr[t].kind = "gc" <=> thr[t].at \in {"gc_list", "gc_bytes", "gc_meta"}
  /\ thr[t].at \in {"put_get", "write_bytes", "insert_new"} => thr[t].kind = "insert_blob"
  /\ At(t, "delete_node") => thr[t].kind = "delete"
  /\ thr[t].at \in {"put_node", "index", "fail"} => thr[t].kind \in {"insert", "insert_blob"}
  /\ thr[t].kind = "insert_blob" => thr[t].new \in Blobs
  /\ thr[t].kind \in {"insert_blob", "insert", "delete"} => thr[t].node \in Nodes
  /\ Incs(t) =>
       /\ thr[t].hash = thr[t].new /\ thr[t].new \in Blobs
       /\ \/ thr[t].kind = "insert_blob" /\ thr[t].then = "lock"
          \/ thr[t].kind = "insert" /\ thr[t].then = "put_node" /\ thr[t].new # thr[t].old
  /\ Decs(t) =>
       /\ thr[t].hash \in Blobs
       /\ \/ thr[t].kind = "insert_blob" /\ thr[t].then = "idle" /\ thr[t].hash = thr[t].new
          \/ thr[t].kind = "insert" /\ thr[t].then \in {"unlock", "index"}
          \/ thr[t].kind = "delete" /\ thr[t].then = "delete_node" /\ thr[t].hash = thr[t].old

\* What the thread has read is still so.
Fresh(t) ==
  /\ Locked(t) <=> lock = t
  /\ Unwritten(t) => thr[t].old = nodes[thr[t].node]
  /\ thr[t].kind = "insert_blob" /\ Storing(t) => nodes[thr[t].node] = Absent
  /\ thr[t].at \in {"inc_put", "dec_put"} => thr[t].seen = meta[thr[t].hash]
  /\ thr[t].at \in {"write_bytes", "insert_new"} => meta[thr[t].new] = Untracked
  /\ thr[t].at \in {"gc_bytes", "gc_meta"} => \A b \in thr[t].garbage : meta[b] = 0
  /\ At(t, "gc_meta") => thr[t].hash \in thr[t].garbage

\* The metadata already counts, or still counts, a reference that no node has.
Ahead(t, b) ==
  \/ thr[t].kind = "insert_blob" /\ thr[t].at \in {"lock", "put_node", "fail"} /\ b = thr[t].new
  \/ thr[t].kind = "insert" /\ At(t, "put_node") /\ b = thr[t].new /\ b # thr[t].old
  \/ thr[t].kind # "delete" /\ Decs(t) /\ b = thr[t].hash

\* delete has released the reference of a node that is still there.
Behind(t, b) == At(t, "delete_node") /\ b = thr[t].old

Own(t, b) == IF Ahead(t, b) THEN 1 ELSE IF Behind(t, b) THEN -1 ELSE 0

Extra(b) ==
  IF \E t \in Threads : Ahead(t, b) THEN 1
  ELSE IF \E t \in Threads : Behind(t, b) THEN -1 ELSE 0

Tracked(b) == meta[b] # Untracked

Refs(b) == IF Tracked(b) THEN meta[b] ELSE 0

Account == \A b \in Blobs : Refs(b) - References(b) - Extra(b) \in -faults .. faults

\* A reference that is about to be stored has its entry, an entry about to be
\* written its bytes.
Entered(t) ==
  /\ \/ thr[t].kind = "insert_blob" /\ thr[t].at \in {"lock", "put_node"}
     \/ thr[t].kind = "insert" /\ At(t, "put_node") /\ thr[t].new \in Blobs
     => Tracked(thr[t].new)
  /\ At(t, "insert_new") => thr[t].new \in bytes

\* Entries have their bytes, except the one gc is removing.
EntriesBacked == \A b \in Blobs :
  Tracked(b) => b \in bytes \/ \E t \in Threads : At(t, "gc_meta") /\ thr[t].hash = b

NodesTracked == \A n \in Nodes : nodes[n] \in Blobs => Tracked(nodes[n])

Backed == EntriesBacked /\ NodesTracked /\ \A t \in Threads : Entered(t)

IInv ==
  /\ TypeOK
  /\ Alone /\ Solo
  /\ \A t \in Threads : Position(t) /\ Fresh(t)
  /\ Account
  /\ faults = 0 => Backed

-----------------------------------------------------------------------------
(* Thread records and counts *)

\* A thread that is called is a well-formed thread with the given fields.
LEMMA CalledTyped ==
  ASSUME NEW k \in Kinds \cup {"none"}, NEW s \in Steps, NEW n \in Nodes \cup {Absent},
         NEW c \in Content
  PROVE  /\ Called(k, s, n, c) \in Thread
         /\ Called(k, s, n, c).kind = k /\ Called(k, s, n, c).at = s
         /\ Called(k, s, n, c).node = n /\ Called(k, s, n, c).new = c
  BY BoundAssumption DEF Called, Thread, Steps, Content

LEMMA IdleTyped == Idle \in Thread /\ Idle.at = "idle" /\ Idle.kind = "none"
  BY CalledTyped DEF Idle, Steps, Content

\* Goto changes where one thread is and nothing else.
LEMMA GotoTyped ==
  ASSUME thr \in [Threads -> Thread], NEW t \in Threads, NEW s \in Steps, Goto(t, s)
  PROVE  /\ thr' \in [Threads -> Thread]
         /\ \A u \in Threads : u # t => thr'[u] = thr[u]
         /\ thr'[t].at = s
         /\ thr'[t].kind = thr[t].kind /\ thr'[t].node = thr[t].node
         /\ thr'[t].new = thr[t].new /\ thr'[t].old = thr[t].old
         /\ thr'[t].hash = thr[t].hash /\ thr'[t].seen = thr[t].seen
         /\ thr'[t].then = thr[t].then /\ thr'[t].garbage = thr[t].garbage
  BY DEF Goto, Thread

\* Call changes the blob, the step and the step after it.
LEMMA CallTyped ==
  ASSUME thr \in [Threads -> Thread], NEW t \in Threads, NEW f \in Steps, NEW b \in Blobs,
         NEW s \in Steps, Call(t, f, b, s)
  PROVE  /\ thr' \in [Threads -> Thread]
         /\ \A u \in Threads : u # t => thr'[u] = thr[u]
         /\ thr'[t].at = f /\ thr'[t].hash = b /\ thr'[t].then = s
         /\ thr'[t].kind = thr[t].kind /\ thr'[t].node = thr[t].node
         /\ thr'[t].new = thr[t].new /\ thr'[t].old = thr[t].old
         /\ thr'[t].seen = thr[t].seen /\ thr'[t].garbage = thr[t].garbage
  BY DEF Call, Thread

LEMMA ReferencesNat ==
  ASSUME NEW b
  PROVE  /\ References(b) \in Nat
         /\ (\E n \in Nodes : nodes[n] = b) => References(b) > 0
<1> DEFINE N == {n \in Nodes : nodes[n] = b}
<1>1. IsFiniteSet(N)
  BY BoundAssumption, FS_Subset
<1>2. Cardinality(N) \in Nat /\ (Cardinality(N) = 0 <=> N = {})
  BY <1>1, FS_CardinalityType, FS_EmptySet
<1> QED
  BY <1>2 DEF References

\* Writing one node takes a reference from the content it had and gives one to
\* the content it gets.
LEMMA ReferencesMove ==
  ASSUME nodes \in [Nodes -> Content], NEW n \in Nodes, NEW c \in Content,
         nodes' = [nodes EXCEPT ![n] = c], NEW b
  PROVE  References(b)' = References(b) + (IF c = b THEN 1 ELSE 0)
                                        - (IF nodes[n] = b THEN 1 ELSE 0)
<1> DEFINE N == {m \in Nodes : nodes[m] = b}
           M == {m \in Nodes : nodes'[m] = b}
<1>1. IsFiniteSet(N) /\ Cardinality(N) \in Nat
  BY BoundAssumption, FS_Subset, FS_CardinalityType
<1>2. M = (IF c = b THEN N \cup {n} ELSE N \ {n})
  OBVIOUS
<1>3. Cardinality(N \cup {n}) = IF n \in N THEN Cardinality(N) ELSE Cardinality(N) + 1
  BY <1>1, FS_AddElement
<1>4. Cardinality(N \ {n}) = IF n \in N THEN Cardinality(N) - 1 ELSE Cardinality(N)
  BY <1>1, FS_RemoveElement
<1>5. n \in N <=> nodes[n] = b
  OBVIOUS
<1>6. References(b) = Cardinality(N) /\ References(b)' = Cardinality(M)
  BY DEF References
<1> HIDE DEF N, M
<1> QED
  BY <1>1, <1>2, <1>3, <1>4, <1>5, <1>6

-----------------------------------------------------------------------------
(* One thread moves *)

Threaded == \A t \in Threads : Position(t) /\ Fresh(t)

\* A passive thread owns no reference, holds no lock and has read nothing.
LEMMA PassiveOwnsNothing ==
  ASSUME NEW t \in Threads, Passive(t)
  PROVE  /\ ~Locked(t)
         /\ \A b : ~Ahead(t, b) /\ ~Behind(t, b) /\ Own(t, b) = 0
  BY DEF Passive, At, Locked, Incs, Decs, Ahead, Behind, Own

\* When every other thread is passive the references in flight are the
\* thread's own.
LEMMA ExtraIsOwn ==
  ASSUME NEW t \in Threads, \A u \in Threads : u # t => Passive(u), NEW b
  PROVE  Extra(b) = Own(t, b)
  BY PassiveOwnsNothing DEF Extra, Own, Ahead, Behind

\* A thread that is not passive, or that takes the free lock, is the only one.
LEMMA OthersPassive ==
  ASSUME IInv, Serial, NEW t \in Threads,
         ~Passive(t) \/ (At(t, "lock") /\ lock = NoThread)
  PROVE  \A u \in Threads : u # t => Passive(u)
<1>1. CASE ~Passive(t)
  BY <1>1 DEF IInv, Solo
<1>2. CASE At(t, "lock") /\ lock = NoThread
  <2> SUFFICES ASSUME NEW u \in Threads, u # t, ~Passive(u)
               PROVE  FALSE
    OBVIOUS
  <2>1. ~At(u, "idle") /\ ~At(t, "idle")
    BY <1>2 DEF Passive, At
  <2>2. thr[u].kind \in {"insert", "delete"}
    BY <2>1 DEF IInv, Alone, Serial
  <2>3. lock # u
    BY <1>2, SentinelAssumption
  <2>4. Position(u) /\ ~Locked(u)
    BY <2>3 DEF IInv, Fresh
  <2>5. thr[u].at \in Steps
    BY DEF IInv, TypeOK, Thread
  <2> QED
    BY <2>1, <2>2, <2>4, <2>5 DEF Position, Locked, Incs, Decs, Passive, At, Steps
<1> QED
  BY <1>1, <1>2

\* One step of a thread while the others are passive: what has to be shown is
\* about that thread only.
LEMMA Moves ==
  ASSUME IInv, NEW t \in Threads,
         \A u \in Threads : u # t => Passive(u) /\ thr'[u] = thr[u],
         \/ thr'[t].kind = thr[t].kind /\ ~At(t, "idle")
         \/ At(t, "idle")' /\ thr'[t].kind = "none"
         \/ \A u \in Threads : At(u, "idle"),
         lock' \in {lock, t, NoThread},
         Position(t)', Fresh(t)'
  PROVE  /\ (Alone /\ Solo)'
         /\ (\A u \in Threads : Position(u) /\ Fresh(u))'
         /\ \A b : Extra(b) = Own(t, b)
         /\ \A b : Extra(b)' = Own(t, b)'
<1>1. \A u \in Threads : u # t => Passive(u)'
  BY DEF Passive, At
<1>2. Alone' /\ Solo'
  BY <1>1 DEF IInv, Alone, Solo, At
<1>3. ASSUME NEW u \in Threads, u # t
      PROVE  Position(u)' /\ Fresh(u)'
  <2>1. Position(u) /\ Fresh(u) /\ ~Locked(u) /\ lock # u
    BY <1>3, PassiveOwnsNothing DEF IInv, Fresh
  <2>2. lock' # u
    BY <1>3, <2>1, SentinelAssumption
  <2>3. thr'[u] = thr[u] /\ Passive(u)
    BY <1>3
  <2>4. Position(u)'
    BY <2>1, <2>3 DEF Position, At, Incs, Decs
  <2>5. Fresh(u)'
    BY <2>1, <2>2, <2>3 DEF Fresh, Position, Passive, At, Incs, Decs, Locked, Unwritten, Storing
  <2> QED
    BY <2>4, <2>5
<1>4. \A b : Extra(b) = Own(t, b)
  BY ExtraIsOwn
<1>5. ASSUME NEW b
      PROVE  Extra(b)' = Own(t, b)'
  <2>1. \A u \in Threads : u # t => ~Ahead(u, b)' /\ ~Behind(u, b)'
    BY <1>1 DEF Passive, At, Ahead, Behind, Decs
  <2> QED
    BY <2>1 DEF Extra, Own
<1> QED
  BY <1>2, <1>3, <1>4, <1>5

\* The accounts of a step: each blob's count, nodes and reference in flight
\* change together.
LEMMA Accounts ==
  ASSUME IInv, NEW t \in Threads, faults' = faults,
         \A b : Extra(b) = Own(t, b),
         \A b : Extra(b)' = Own(t, b)',
         \A b \in Blobs : Refs(b)' - References(b)' - Own(t, b)'
                             = Refs(b) - References(b) - Own(t, b)
  PROVE  Account'
  BY DEF IInv, Account

\* Without a fault and without a gc in progress every entry has its bytes.
LEMMA EntriesHaveBytes ==
  ASSUME IInv, faults = 0, NEW t \in Threads, ~At(t, "gc_meta"),
         \A u \in Threads : u # t => Passive(u)
  PROVE  \A b \in Blobs : Tracked(b) => b \in bytes
  BY DEF IInv, Backed, EntriesBacked, Passive, At

\* A passive thread is about to store nothing.
LEMMA PassiveEntered ==
  ASSUME IInv, NEW t \in Threads, NEW u \in Threads, u # t, Passive(u), thr'[u] = thr[u]
  PROVE  Entered(u)'
<1>1. ~(thr[u].kind = "insert_blob" /\ thr[u].at \in {"lock", "put_node"})
      /\ ~At(u, "put_node") /\ ~At(u, "insert_new")
  BY DEF IInv, Position, Passive, At
<1> QED
  BY <1>1 DEF Entered, At

\* A step of a thread that changes no count, no node and no bytes.
LEMMA Stays ==
  ASSUME IInv, NEW t \in Threads,
         \A u \in Threads : u # t => Passive(u) /\ thr'[u] = thr[u],
         thr' \in [Threads -> Thread],
         \/ thr'[t].kind = thr[t].kind /\ ~At(t, "idle")
         \/ At(t, "idle")' /\ thr'[t].kind = "none"
         \/ \A u \in Threads : At(u, "idle"),
         lock' \in {lock, t, NoThread},
         UNCHANGED <<bytes, volatile, meta, nodes, faults>>,
         Position(t)', Fresh(t)',
         \A b \in Blobs : Own(t, b)' = Own(t, b),
         ~At(t, "gc_meta"),
         faults = 0 => Entered(t)'
  PROVE  IInv'
<1>1. TypeOK'
  BY DEF IInv, TypeOK
<1>2. /\ (Alone /\ Solo)'
      /\ (\A u \in Threads : Position(u) /\ Fresh(u))'
      /\ \A b : Extra(b) = Own(t, b)
      /\ \A b : Extra(b)' = Own(t, b)'
  BY Moves
<1>3. \A b : Refs(b)' = Refs(b) /\ References(b)' = References(b)
  BY DEF Refs, References, Tracked
<1>4. Account'
  BY <1>2, <1>3, Accounts
<1>5. ASSUME faults' = 0
      PROVE  Backed'
  <2>1. faults = 0 /\ \A u \in Threads : u # t => Passive(u)
    BY <1>5
  <2>2. \A b \in Blobs : Tracked(b) => b \in bytes
    BY <2>1, EntriesHaveBytes
  <2>3. EntriesBacked'
    BY <2>2 DEF EntriesBacked, Tracked
  <2>4. NodesTracked'
    BY <2>1 DEF IInv, Backed, NodesTracked, Tracked
  <2>5. \A u \in Threads : Entered(u)'
    BY <2>1, PassiveEntered
  <2> QED
    BY <2>3, <2>4, <2>5 DEF Backed
<1> QED
  BY <1>1, <1>2, <1>4, <1>5 DEF IInv

-----------------------------------------------------------------------------
(* Steps that only move the thread *)

USE DEF At

LEMMA PutGetKeeps ==
  ASSUME IInv, Serial, NEW t \in Threads, PutGet(t)
  PROVE  IInv'
<1>0. thr \in [Threads -> Thread] /\ At(t, "put_get")
  BY DEF IInv, TypeOK, PutGet
<1>1. Position(t) /\ Fresh(t) /\ ~Passive(t)
  BY <1>0 DEF IInv, Passive
<1>2. \A u \in Threads : u # t => Passive(u)
  BY <1>1, OthersPassive
<1>3. thr[t].kind = "insert_blob" /\ thr[t].new \in Blobs
  BY <1>0, <1>1 DEF Position
<1>4. CASE Tracked(thr[t].new)
  <2>1. Call(t, "inc", thr[t].new, "lock")
    BY <1>4 DEF PutGet, Tracked
  <2>2. /\ thr' \in [Threads -> Thread]
        /\ \A u \in Threads : u # t => thr'[u] = thr[u]
        /\ thr'[t].at = "inc" /\ thr'[t].hash = thr[t].new /\ thr'[t].then = "lock"
        /\ thr'[t].kind = thr[t].kind /\ thr'[t].node = thr[t].node
        /\ thr'[t].new = thr[t].new /\ thr'[t].old = thr[t].old
    BY <1>0, <1>3, <2>1, CallTyped DEF Steps
  <2>3. Position(t)' /\ Fresh(t)'
    BY <1>0, <1>1, <1>3, <2>2 DEF Position, Fresh, Incs, Decs, Locked, Unwritten, Storing, PutGet
  <2>4. \A b \in Blobs : Own(t, b)' = Own(t, b)
    BY <1>0, <1>3, <2>2 DEF Own, Ahead, Behind, Decs
  <2>5. Entered(t)'
    BY <2>2 DEF Entered
  <2> QED
    BY <1>0, <1>2, <2>2, <2>3, <2>4, <2>5, Stays DEF PutGet
<1>5. CASE ~Tracked(thr[t].new)
  <2>1. Goto(t, "write_bytes")
    BY <1>5 DEF PutGet, Tracked
  <2>2. /\ thr' \in [Threads -> Thread]
        /\ \A u \in Threads : u # t => thr'[u] = thr[u]
        /\ thr'[t].at = "write_bytes"
        /\ thr'[t].kind = thr[t].kind /\ thr'[t].node = thr[t].node
        /\ thr'[t].new = thr[t].new /\ thr'[t].old = thr[t].old
    BY <1>0, <2>1, GotoTyped DEF Steps
  <2>3. Position(t)' /\ Fresh(t)'
    BY <1>0, <1>1, <1>3, <1>5, <2>2
    DEF Position, Fresh, Incs, Decs, Locked, Unwritten, Storing, PutGet, Tracked
  <2>4. \A b \in Blobs : Own(t, b)' = Own(t, b)
    BY <1>0, <1>3, <2>2 DEF Own, Ahead, Behind, Decs
  <2>5. Entered(t)'
    BY <2>2 DEF Entered
  <2> QED
    BY <1>0, <1>2, <2>2, <2>3, <2>4, <2>5, Stays DEF PutGet
<1> QED
  BY <1>4, <1>5

LEMMA LockKeeps ==
  ASSUME IInv, Serial, NEW t \in Threads, Lock(t)
  PROVE  IInv'
<1>0. thr \in [Threads -> Thread] /\ At(t, "lock") /\ lock = NoThread /\ lock' = t
  BY DEF IInv, TypeOK, Lock
<1>1. Position(t) /\ Fresh(t)
  BY DEF IInv
<1>2. \A u \in Threads : u # t => Passive(u)
  BY <1>0, OthersPassive
<1>3. thr[t].kind \in {"insert_blob", "insert", "delete"} /\ thr[t].node \in Nodes
  BY <1>0, <1>1 DEF IInv, TypeOK, Thread, Kinds, Position
<1> DEFINE old == nodes[thr[t].node]
           acquires == thr[t].kind = "insert" /\ thr[t].new \in Blobs /\ thr[t].new # old
           releases == thr[t].kind = "delete" /\ old \in Blobs
<1>4. old \in Content
  BY <1>3 DEF IInv, TypeOK
<1>5. /\ thr' \in [Threads -> Thread]
      /\ \A u \in Threads : u # t => thr'[u] = thr[u]
      /\ thr'[t].kind = thr[t].kind /\ thr'[t].node = thr[t].node
      /\ thr'[t].new = thr[t].new /\ thr'[t].old = old
      /\ acquires => thr'[t].at = "inc" /\ thr'[t].hash = thr[t].new /\ thr'[t].then = "put_node"
      /\ releases => thr'[t].at = "dec" /\ thr'[t].hash = old /\ thr'[t].then = "delete_node"
      /\ ~acquires /\ ~releases =>
           thr'[t].at = IF thr[t].kind = "delete" THEN "delete_node" ELSE "put_node"
  <2> DEFINE self == [thr[t] EXCEPT !.old = old]
             inc == [self EXCEPT !.at = "inc", !.hash = self.new, !.then = "put_node"]
             dec == [self EXCEPT !.at = "dec", !.hash = old, !.then = "delete_node"]
             plain == [self EXCEPT !.at = IF self.kind = "delete" THEN "delete_node" ELSE "put_node"]
  <2>1. /\ self \in Thread /\ self.old = old /\ self.kind = thr[t].kind
        /\ self.node = thr[t].node /\ self.new = thr[t].new
    BY <1>0, <1>4 DEF Thread
  <2>2. thr' = [thr EXCEPT ![t] = IF acquires THEN inc ELSE IF releases THEN dec ELSE plain]
    BY <2>1 DEF Lock
  <2> HIDE DEF self, old
  <2>3. acquires => inc \in Thread /\ inc.at = "inc" /\ inc.hash = thr[t].new /\ inc.then = "put_node"
                    /\ inc.kind = thr[t].kind /\ inc.node = thr[t].node
                    /\ inc.new = thr[t].new /\ inc.old = old
    BY <2>1 DEF Thread, Steps
  <2>4. releases => dec \in Thread /\ dec.at = "dec" /\ dec.hash = old /\ dec.then = "delete_node"
                    /\ dec.kind = thr[t].kind /\ dec.node = thr[t].node
                    /\ dec.new = thr[t].new /\ dec.old = old
    BY <2>1 DEF Thread, Steps
  <2>5. plain \in Thread /\ plain.at = (IF thr[t].kind = "delete" THEN "delete_node" ELSE "put_node")
        /\ plain.kind = thr[t].kind /\ plain.node = thr[t].node
        /\ plain.new = thr[t].new /\ plain.old = old
    BY <2>1 DEF Thread, Steps
  <2> HIDE DEF inc, dec, plain
  <2>6. ~(acquires /\ releases)
    OBVIOUS
  <2> QED
    BY <1>0, <2>2, <2>3, <2>4, <2>5, <2>6
<1> HIDE DEF old
<1>6. old = nodes'[thr[t].node] /\ (thr[t].kind = "insert_blob" => old = Absent)
  BY <1>0, <1>1 DEF old, Lock, Fresh, Storing
<1>7. Position(t)'
  BY <1>0, <1>1, <1>3, <1>5, <1>6 DEF Position, Incs, Decs
<1>8. Fresh(t)'
  BY <1>0, <1>3, <1>5, <1>6 DEF Fresh, Incs, Decs, Locked, Unwritten, Storing
<1>9. \A b \in Blobs : Own(t, b)' = Own(t, b)
  BY <1>0, <1>3, <1>4, <1>5, <1>6, SentinelAssumption DEF Own, Ahead, Behind, Decs
<1>10. faults = 0 => Entered(t)'
  BY <1>0, <1>1, <1>3, <1>5, <1>6 DEF Entered, Tracked, IInv, Backed, NodesTracked, old, Lock
<1> QED
  BY <1>0, <1>2, <1>5, <1>7, <1>8, <1>9, <1>10, Stays DEF Lock

LEMMA PutNodeFailsKeeps ==
  ASSUME IInv, Serial, NEW t \in Threads, PutNodeFails(t)
  PROVE  IInv'
<1>0. thr \in [Threads -> Thread] /\ At(t, "put_node")
  BY DEF IInv, TypeOK, PutNodeFails
<1>1. Position(t) /\ Fresh(t) /\ ~Passive(t)
  BY <1>0 DEF IInv, Passive
<1>2. \A u \in Threads : u # t => Passive(u)
  BY <1>1, OthersPassive
<1>3. thr[t].kind \in {"insert_blob", "insert"}
  BY <1>0, <1>1 DEF Position
<1>4. CASE thr[t].kind = "insert" /\ thr[t].new \in Blobs /\ thr[t].new # thr[t].old
  <2>1. Call(t, "dec", thr[t].new, "unlock")
    BY <1>4 DEF PutNodeFails
  <2>2. /\ thr' \in [Threads -> Thread]
        /\ \A u \in Threads : u # t => thr'[u] = thr[u]
        /\ thr'[t].at = "dec" /\ thr'[t].hash = thr[t].new /\ thr'[t].then = "unlock"
        /\ thr'[t].kind = thr[t].kind /\ thr'[t].node = thr[t].node
        /\ thr'[t].new = thr[t].new /\ thr'[t].old = thr[t].old
    BY <1>0, <1>4, <2>1, CallTyped DEF Steps
  <2>3. Position(t)' /\ Fresh(t)'
    BY <1>0, <1>1, <1>4, <2>2 DEF Position, Fresh, Incs, Decs, Locked, Unwritten, Storing, PutNodeFails
  <2>4. \A b \in Blobs : Own(t, b)' = Own(t, b)
    BY <1>0, <1>4, <2>2 DEF Own, Ahead, Behind, Decs
  <2>5. Entered(t)'
    BY <2>2 DEF Entered
  <2> QED
    BY <1>0, <1>2, <2>2, <2>3, <2>4, <2>5, Stays DEF PutNodeFails
<1>5. CASE ~(thr[t].kind = "insert" /\ thr[t].new \in Blobs /\ thr[t].new # thr[t].old)
  <2>1. Goto(t, "fail")
    BY <1>5 DEF PutNodeFails
  <2>2. /\ thr' \in [Threads -> Thread]
        /\ \A u \in Threads : u # t => thr'[u] = thr[u]
        /\ thr'[t].at = "fail"
        /\ thr'[t].kind = thr[t].kind /\ thr'[t].node = thr[t].node
        /\ thr'[t].new = thr[t].new /\ thr'[t].old = thr[t].old
    BY <1>0, <2>1, GotoTyped DEF Steps
  <2>3. Position(t)' /\ Fresh(t)'
    BY <1>0, <1>1, <1>3, <2>2 DEF Position, Fresh, Incs, Decs, Locked, Unwritten, Storing, PutNodeFails
  <2>4. \A b \in Blobs : Own(t, b)' = Own(t, b)
    BY <1>0, <1>3, <1>5, <2>2 DEF Own, Ahead, Behind, Decs
  <2>5. Entered(t)'
    BY <2>2 DEF Entered
  <2> QED
    BY <1>0, <1>2, <2>2, <2>3, <2>4, <2>5, Stays DEF PutNodeFails
<1> QED
  BY <1>4, <1>5

LEMMA IndexKeeps ==
  ASSUME IInv, Serial, NEW t \in Threads, Index(t)
  PROVE  IInv'
<1>0. thr \in [Threads -> Thread] /\ At(t, "index") /\ Goto(t, "unlock")
  BY DEF IInv, TypeOK, Index
<1>1. Position(t) /\ Fresh(t) /\ ~Passive(t)
  BY <1>0 DEF IInv, Passive
<1>2. \A u \in Threads : u # t => Passive(u)
  BY <1>1, OthersPassive
<1>3. /\ thr' \in [Threads -> Thread]
      /\ \A u \in Threads : u # t => thr'[u] = thr[u]
      /\ thr'[t].at = "unlock"
      /\ thr'[t].kind = thr[t].kind /\ thr'[t].node = thr[t].node
      /\ thr'[t].new = thr[t].new /\ thr'[t].old = thr[t].old
  BY <1>0, GotoTyped DEF Steps
<1>4. Position(t)' /\ Fresh(t)'
  BY <1>0, <1>1, <1>3 DEF Position, Fresh, Incs, Decs, Locked, Unwritten, Storing, Index
<1>5. \A b \in Blobs : Own(t, b)' = Own(t, b)
  BY <1>0, <1>1, <1>3 DEF Own, Ahead, Behind, Decs, Position
<1>6. Entered(t)'
  BY <1>3 DEF Entered
<1> QED
  BY <1>0, <1>2, <1>3, <1>4, <1>5, <1>6, Stays DEF Index

\* A thread that becomes idle.
LEMMA IdlePosition ==
  ASSUME NEW t \in Threads, thr'[t] = Idle, lock' # t
  PROVE  /\ Position(t)' /\ Fresh(t)' /\ Entered(t)'
         /\ At(t, "idle")' /\ thr'[t].kind = "none"
         /\ \A b : Own(t, b)' = 0
<1>1. thr'[t].at = "idle" /\ thr'[t].kind = "none"
  BY IdleTyped
<1> QED
  BY <1>1 DEF Position, Fresh, Incs, Decs, Locked, Unwritten, Storing, Entered, Own, Ahead, Behind

LEMMA UnlockKeeps ==
  ASSUME IInv, Serial, NEW t \in Threads, Unlock(t)
  PROVE  IInv'
<1>0. thr \in [Threads -> Thread] /\ (At(t, "unlock") \/ At(t, "fail")) /\ lock' = NoThread
  BY DEF IInv, TypeOK, Unlock
<1>1. Position(t) /\ Fresh(t) /\ ~Passive(t)
  BY <1>0 DEF IInv, Passive
<1>2. \A u \in Threads : u # t => Passive(u)
  BY <1>1, OthersPassive
<1>3. lock' # t
  BY <1>0, SentinelAssumption
<1>4. CASE At(t, "fail") /\ thr[t].kind = "insert_blob"
  <2>1. Call(t, "dec", thr[t].new, "idle") /\ thr[t].new \in Blobs
    BY <1>1, <1>4 DEF Unlock, Position
  <2>2. /\ thr' \in [Threads -> Thread]
        /\ \A u \in Threads : u # t => thr'[u] = thr[u]
        /\ thr'[t].at = "dec" /\ thr'[t].hash = thr[t].new /\ thr'[t].then = "idle"
        /\ thr'[t].kind = thr[t].kind /\ thr'[t].node = thr[t].node
        /\ thr'[t].new = thr[t].new /\ thr'[t].old = thr[t].old
    BY <1>0, <2>1, CallTyped DEF Steps
  <2>3. Position(t)' /\ Fresh(t)'
    BY <1>1, <1>3, <1>4, <2>1, <2>2 DEF Position, Fresh, Incs, Decs, Locked, Unwritten, Storing
  <2>4. \A b \in Blobs : Own(t, b)' = Own(t, b)
    BY <1>4, <2>2 DEF Own, Ahead, Behind, Decs
  <2>5. Entered(t)'
    BY <2>2 DEF Entered
  <2> QED
    BY <1>0, <1>2, <2>2, <2>3, <2>4, <2>5, Stays DEF Unlock
<1>5. CASE ~(At(t, "fail") /\ thr[t].kind = "insert_blob")
  <2>1. thr' = [thr EXCEPT ![t] = Idle]
    BY <1>5 DEF Unlock
  <2>2. /\ thr' \in [Threads -> Thread] /\ thr'[t] = Idle
        /\ \A u \in Threads : u # t => thr'[u] = thr[u]
    BY <1>0, <2>1, IdleTyped
  <2>3. /\ Position(t)' /\ Fresh(t)' /\ Entered(t)'
        /\ At(t, "idle")' /\ thr'[t].kind = "none"
        /\ \A b : Own(t, b)' = 0
    BY <1>3, <2>2, IdlePosition
  <2>4. \A b \in Blobs : Own(t, b) = 0
    BY <1>0, <1>5 DEF Own, Ahead, Behind, Decs
  <2> QED
    BY <1>0, <1>2, <2>2, <2>3, <2>4, Stays DEF Unlock
<1> QED
  BY <1>4, <1>5

-----------------------------------------------------------------------------
(* gc *)

LEMMA GcNextTyped ==
  ASSUME thr \in [Threads -> Thread], NEW t \in Threads, NEW garbage \in SUBSET Blobs,
         GcNext(t, garbage)
  PROVE  /\ thr' \in [Threads -> Thread]
         /\ \A u \in Threads : u # t => thr'[u] = thr[u]
         /\ garbage = {} => thr'[t] = Idle
         /\ garbage # {} => /\ thr'[t].at = "gc_bytes" /\ thr'[t].garbage = garbage
                            /\ thr'[t].kind = thr[t].kind
<1> DEFINE r == [thr[t] EXCEPT !.at = "gc_bytes", !.garbage = garbage]
<1>1. r \in Thread /\ r.at = "gc_bytes" /\ r.garbage = garbage /\ r.kind = thr[t].kind
  BY DEF Thread, Steps
<1>2. thr' = [thr EXCEPT ![t] = IF garbage = {} THEN Idle ELSE r]
  BY DEF GcNext
<1> HIDE DEF r
<1> QED
  BY <1>1, <1>2, IdleTyped

\* gc goes on with what it listed, or ends.
LEMMA GcNextPosition ==
  ASSUME thr \in [Threads -> Thread], NEW t \in Threads, NEW garbage \in SUBSET Blobs,
         GcNext(t, garbage), thr[t].kind = "gc", lock' # t,
         \A b \in garbage : meta'[b] = 0
  PROVE  /\ Position(t)' /\ Fresh(t)' /\ Entered(t)'
         /\ \/ thr'[t].kind = thr[t].kind
            \/ At(t, "idle")' /\ thr'[t].kind = "none"
         /\ \A b : Own(t, b)' = 0
<1>1. CASE garbage = {}
  BY <1>1, GcNextTyped, IdlePosition
<1>2. CASE garbage # {}
  <2>1. thr'[t].at = "gc_bytes" /\ thr'[t].garbage = garbage /\ thr'[t].kind = "gc"
    BY <1>2, GcNextTyped
  <2> QED
    BY <2>1 DEF Position, Fresh, Incs, Decs, Locked, Unwritten, Storing, Entered, Own, Ahead, Behind
<1> QED
  BY <1>1, <1>2

\* What is true of a thread that runs gc.
LEMMA GcRuns ==
  ASSUME IInv, Serial, NEW t \in Threads, thr[t].at \in {"gc_list", "gc_bytes", "gc_meta"}
  PROVE  /\ thr[t].kind = "gc" /\ lock # t /\ Fresh(t)
         /\ \A b : Own(t, b) = 0
         /\ \A u \in Threads : u # t => Passive(u)
<1>1. Position(t) /\ Fresh(t) /\ ~Passive(t)
  BY DEF IInv, Passive
<1>2. \A u \in Threads : u # t => Passive(u)
  BY <1>1, OthersPassive
<1> QED
  BY <1>1, <1>2 DEF Position, Fresh, Locked, Incs, Decs, Own, Ahead, Behind

LEMMA GcListKeeps ==
  ASSUME IInv, Serial, NEW t \in Threads, GcList(t)
  PROVE  IInv'
<1> DEFINE garbage == {b \in Blobs : meta[b] = 0}
<1>0. thr \in [Threads -> Thread] /\ At(t, "gc_list") /\ GcNext(t, garbage)
  BY DEF IInv, TypeOK, GcList
<1>1. /\ thr[t].kind = "gc" /\ lock # t /\ \A b : Own(t, b) = 0
      /\ \A u \in Threads : u # t => Passive(u)
  BY <1>0, GcRuns
<1>2. lock' # t /\ \A b \in garbage : meta'[b] = 0
  BY <1>1 DEF GcList
<1>3. garbage \in SUBSET Blobs
  OBVIOUS
<1> HIDE DEF garbage
<1>4. thr' \in [Threads -> Thread] /\ \A u \in Threads : u # t => thr'[u] = thr[u]
  BY <1>0, <1>3, GcNextTyped
<1>5. /\ Position(t)' /\ Fresh(t)' /\ Entered(t)'
      /\ \/ thr'[t].kind = thr[t].kind
         \/ At(t, "idle")' /\ thr'[t].kind = "none"
      /\ \A b : Own(t, b)' = 0
  BY <1>0, <1>1, <1>2, <1>3, GcNextPosition
<1> QED
  BY <1>0, <1>1, <1>4, <1>5, Stays DEF GcList

LEMMA GcBytesKeeps ==
  ASSUME IInv, Serial, NEW t \in Threads, NEW b \in Blobs, GcBytes(t, b)
  PROVE  IInv'
<1>0. thr \in [Threads -> Thread] /\ At(t, "gc_bytes") /\ b \in thr[t].garbage
  BY DEF IInv, TypeOK, GcBytes
<1>1. /\ thr[t].kind = "gc" /\ lock # t /\ Fresh(t) /\ \A c : Own(t, c) = 0
      /\ \A u \in Threads : u # t => Passive(u)
  BY <1>0, GcRuns
<1>2. /\ thr' \in [Threads -> Thread]
      /\ \A u \in Threads : u # t => thr'[u] = thr[u]
      /\ thr'[t].at = "gc_meta" /\ thr'[t].hash = b /\ thr'[t].kind = "gc"
      /\ thr'[t].garbage = thr[t].garbage
  <2>1. thr' = [thr EXCEPT ![t].at = "gc_meta", ![t].hash = b]
    BY DEF GcBytes
  <2>2. "gc_meta" \in Steps
    BY DEF Steps
  <2> QED
    BY <1>0, <1>1, <2>1, <2>2 DEF Thread
<1>3. TypeOK'
  BY <1>2 DEF IInv, TypeOK, GcBytes
<1>4. Position(t)'
  BY <1>2 DEF Position, Incs, Decs
<1>5. Fresh(t)'
  BY <1>0, <1>1, <1>2 DEF Fresh, Incs, Decs, Locked, Unwritten, Storing, GcBytes
<1>6. /\ (Alone /\ Solo)'
      /\ (\A u \in Threads : Position(u) /\ Fresh(u))'
      /\ \A c : Extra(c) = Own(t, c)
      /\ \A c : Extra(c)' = Own(t, c)'
  BY <1>0, <1>1, <1>2, <1>4, <1>5, Moves DEF GcBytes
<1>7. \A c : Own(t, c)' = 0 /\ Refs(c)' = Refs(c) /\ References(c)' = References(c)
  BY <1>2 DEF Own, Ahead, Behind, Decs, Refs, References, Tracked, GcBytes
<1>8. Account'
  BY <1>1, <1>6, <1>7, Accounts DEF GcBytes
<1>9. ASSUME faults' = 0
      PROVE  Backed'
  <2>1. faults = 0
    BY <1>9 DEF GcBytes
  <2>2. \A c \in Blobs : Tracked(c) => c \in bytes
    BY <1>0, <1>1, <2>1, EntriesHaveBytes
  <2>3. EntriesBacked'
    BY <1>2, <2>2 DEF EntriesBacked, Tracked, GcBytes
  <2>4. NodesTracked'
    BY <2>1 DEF IInv, Backed, NodesTracked, Tracked, GcBytes
  <2>5. \A u \in Threads : Entered(u)'
    BY <1>1, <1>2, PassiveEntered DEF Entered
  <2> QED
    BY <2>3, <2>4, <2>5 DEF Backed
<1> QED
  BY <1>3, <1>6, <1>8, <1>9 DEF IInv

LEMMA GcMetaKeeps ==
  ASSUME IInv, Serial, NEW t \in Threads, GcMeta(t)
  PROVE  IInv'
<1> DEFINE h == thr[t].hash
           left == thr[t].garbage \ {h}
<1>0. thr \in [Threads -> Thread] /\ At(t, "gc_meta") /\ GcNext(t, left)
  BY DEF IInv, TypeOK, GcMeta
<1>1. /\ thr[t].kind = "gc" /\ lock # t /\ Fresh(t) /\ \A c : Own(t, c) = 0
      /\ \A u \in Threads : u # t => Passive(u)
  BY <1>0, GcRuns
<1>2. h \in Blobs /\ meta[h] = 0 /\ left \in SUBSET Blobs /\ \A c \in left : meta[c] = 0
  BY <1>0, <1>1 DEF Fresh, Thread
<1>3. meta \in [Blobs -> {Untracked} \cup 0 .. MaxRefs] /\ meta' = [meta EXCEPT ![h] = Untracked]
      /\ lock' # t /\ \A c \in left : meta'[c] = 0
  BY <1>1, <1>2 DEF GcMeta, IInv, TypeOK
<1> HIDE DEF left
<1>4. thr' \in [Threads -> Thread] /\ \A u \in Threads : u # t => thr'[u] = thr[u]
  BY <1>0, <1>2, GcNextTyped
<1>5. /\ Position(t)' /\ Fresh(t)' /\ Entered(t)'
      /\ \/ thr'[t].kind = thr[t].kind
         \/ At(t, "idle")' /\ thr'[t].kind = "none"
      /\ \A c : Own(t, c)' = 0
  BY <1>0, <1>1, <1>2, <1>3, GcNextPosition
<1>6. /\ (Alone /\ Solo)'
      /\ (\A u \in Threads : Position(u) /\ Fresh(u))'
      /\ \A c : Extra(c) = Own(t, c)
      /\ \A c : Extra(c)' = Own(t, c)'
  BY <1>0, <1>1, <1>4, <1>5, Moves DEF GcMeta
<1> HIDE DEF h
<1>7. TypeOK'
  BY <1>2, <1>3, <1>4 DEF IInv, TypeOK, GcMeta
<1>8. \A c \in Blobs : Refs(c)' = Refs(c) /\ References(c)' = References(c)
  BY <1>2, <1>3 DEF Refs, References, Tracked, GcMeta, Untracked
<1>9. Account'
  BY <1>1, <1>5, <1>6, <1>8, Accounts DEF GcMeta
<1>10. ASSUME faults' = 0
       PROVE  Backed'
  <2>1. faults = 0
    BY <1>10 DEF GcMeta
  <2>2. \A c \in Blobs : c # h /\ Tracked(c) => c \in bytes
    BY <1>0, <1>1, <2>1 DEF IInv, Backed, EntriesBacked, Passive, h
  <2>3. EntriesBacked'
    BY <1>2, <1>3, <2>2 DEF EntriesBacked, Tracked, GcMeta
  <2>4. Refs(h) - References(h) - Extra(h) \in -faults .. faults
    BY <1>2 DEF IInv, Account
  <2>5. Refs(h) = 0 /\ Extra(h) = 0
    BY <1>1, <1>2, <1>6 DEF Refs
  <2>6. References(h) = 0
    BY <2>1, <2>4, <2>5, ReferencesNat
  <2>7. \A n \in Nodes : nodes[n] # h
    BY <2>6, ReferencesNat
  <2>8. NodesTracked'
    BY <1>2, <1>3, <2>1, <2>7 DEF IInv, Backed, NodesTracked, Tracked, GcMeta
  <2>9. \A u \in Threads : Entered(u)'
    BY <1>1, <1>4, <1>5, PassiveEntered
  <2> QED
    BY <2>3, <2>8, <2>9 DEF Backed
<1> QED
  BY <1>6, <1>7, <1>9, <1>10 DEF IInv

-----------------------------------------------------------------------------
(* inc_ref and dec_ref *)

\* dec_ref, whether it found the entry or not: the count goes down by one, not
\* below zero, and the operation goes on.
LEMMA Releases ==
  ASSUME IInv, Serial, NEW t \in Threads, Decs(t),
         meta' \in [Blobs -> {Untracked} \cup 0 .. MaxRefs],
         \A b \in Blobs : Tracked(b)' <=> Tracked(b),
         NEW h \in Blobs, h = thr[t].hash,
         \A b \in Blobs : b # h => Refs(b)' = Refs(b),
         Refs(h)' = IF Refs(h) > 0 THEN Refs(h) - 1 ELSE 0,
         IF thr[t].then = "idle" THEN thr' = [thr EXCEPT ![t] = Idle] ELSE Goto(t, thr[t].then),
         UNCHANGED <<bytes, volatile, nodes, lock, faults>>
  PROVE  IInv'
<1>0. thr \in [Threads -> Thread]
  BY DEF IInv, TypeOK
<1>1. Position(t) /\ Fresh(t) /\ ~Passive(t) /\ thr[t].hash \in Blobs
  BY DEF IInv, Passive, Decs, Position
<1>2. \A u \in Threads : u # t => Passive(u)
  BY <1>1, OthersPassive
<1>3. /\ thr' \in [Threads -> Thread]
      /\ \A u \in Threads : u # t => thr'[u] = thr[u]
      /\ Position(t)' /\ Fresh(t)' /\ Entered(t)'
      /\ \/ thr'[t].kind = thr[t].kind
         \/ At(t, "idle")' /\ thr'[t].kind = "none"
      /\ \A b : Own(t, b)' = Own(t, b) - (IF b = thr[t].hash THEN 1 ELSE 0)
  <2>1. CASE thr[t].kind = "insert_blob"
    <3>1. thr[t].then = "idle" /\ lock' # t
      BY <1>1, <2>1 DEF Position, Fresh, Locked, Decs, Incs
    <3>2. thr' = [thr EXCEPT ![t] = Idle] /\ thr'[t] = Idle /\ thr' \in [Threads -> Thread]
      BY <1>0, <3>1, IdleTyped
    <3>3. \A b : Own(t, b) = IF b = thr[t].hash THEN 1 ELSE 0
      BY <2>1 DEF Own, Ahead, Behind, Decs
    <3>4. /\ Position(t)' /\ Fresh(t)' /\ Entered(t)'
          /\ At(t, "idle")' /\ thr'[t].kind = "none"
          /\ \A b : Own(t, b)' = 0
      BY <3>1, <3>2, IdlePosition
    <3> QED
      BY <3>2, <3>3, <3>4
  <2>2. CASE thr[t].kind # "insert_blob"
    <3>1. /\ \/ thr[t].kind = "insert" /\ thr[t].then \in {"unlock", "index"}
             \/ thr[t].kind = "delete" /\ thr[t].then = "delete_node" /\ thr[t].hash = thr[t].old
          /\ lock = t
      BY <1>1, <2>2 DEF Position, Fresh, Locked
    <3>2. Goto(t, thr[t].then) /\ thr[t].then \in Steps
      BY <1>0, <3>1 DEF Thread
    <3>3. /\ thr' \in [Threads -> Thread]
          /\ \A u \in Threads : u # t => thr'[u] = thr[u]
          /\ thr'[t].at = thr[t].then
          /\ thr'[t].kind = thr[t].kind /\ thr'[t].node = thr[t].node
          /\ thr'[t].new = thr[t].new /\ thr'[t].old = thr[t].old
      BY <1>0, <3>2, GotoTyped
    <3>4. Position(t)'
      BY <1>1, <3>1, <3>3 DEF Position, Incs, Decs
    <3>5. Fresh(t)'
      BY <1>1, <3>1, <3>3 DEF Fresh, Incs, Decs, Locked, Unwritten, Storing
    <3>6. Entered(t)'
      BY <3>1, <3>3 DEF Entered
    <3>7. \A b : Own(t, b)' = Own(t, b) - (IF b = thr[t].hash THEN 1 ELSE 0)
      BY <3>1, <3>3 DEF Own, Ahead, Behind, Decs
    <3> QED
      BY <3>3, <3>4, <3>5, <3>6, <3>7
  <2> QED
    BY <2>1, <2>2
<1>4. /\ (Alone /\ Solo)'
      /\ (\A u \in Threads : Position(u) /\ Fresh(u))'
      /\ \A b : Extra(b) = Own(t, b)
      /\ \A b : Extra(b)' = Own(t, b)'
  BY <1>2, <1>3, Moves DEF Decs
<1>5. TypeOK'
  BY <1>3 DEF IInv, TypeOK
<1>6. ASSUME NEW b \in Blobs
      PROVE  Refs(b)' - References(b)' - Extra(b)' \in -faults' .. faults'
  <2>1. References(b)' = References(b) /\ References(b) \in Nat /\ faults' = faults /\ faults \in Nat
    <3>1. References(b)' = References(b)
      BY DEF References
    <3> QED
      BY <3>1, ReferencesNat DEF IInv, TypeOK
  <2>2. Refs(b) - References(b) - Own(t, b) \in -faults .. faults
    BY <1>4 DEF IInv, Account
  <2>3. Refs(b) \in Nat /\ Own(t, b) \in {-1, 0, 1}
    BY DEF Refs, Tracked, IInv, TypeOK, Own
  <2>4. CASE b # thr[t].hash
    BY <1>3, <1>4, <2>1, <2>2, <2>3, <2>4
  <2>5. CASE b = thr[t].hash
    <3>1. Own(t, b) = 1 \/ (Own(t, b) = 0 /\ References(b) > 0)
      <4>1. CASE thr[t].kind # "delete"
        BY <2>5, <4>1 DEF Own, Ahead
      <4>2. CASE thr[t].kind = "delete"
        <5>1. b = thr[t].old /\ thr[t].old = nodes[thr[t].node] /\ thr[t].node \in Nodes
          BY <1>1, <2>5, <4>2 DEF Position, Fresh, Unwritten
        <5>2. References(b) > 0
          BY <5>1, ReferencesNat
        <5>3. Own(t, b) = 0
          BY <4>2 DEF Own, Ahead, Behind, Decs
        <5> QED
          BY <5>2, <5>3
      <4> QED
        BY <4>1, <4>2
    <3>2. Own(t, b)' = Own(t, b) - 1
      BY <1>3, <2>5
    <3>3. Refs(b)' = IF Refs(b) > 0 THEN Refs(b) - 1 ELSE 0
      BY <2>5
    <3> QED
      BY <1>4, <2>1, <2>2, <2>3, <3>1, <3>2, <3>3
  <2> QED
    BY <2>4, <2>5
<1>7. Account'
  BY <1>6 DEF Account
<1>8. ASSUME faults' = 0
      PROVE  Backed'
  <2>1. faults = 0 /\ ~At(t, "gc_meta")
    BY <1>8 DEF Decs
  <2>2. \A b \in Blobs : Tracked(b) => b \in bytes
    BY <1>2, <2>1, EntriesHaveBytes
  <2>3. EntriesBacked'
    BY <2>2 DEF EntriesBacked
  <2>4. NodesTracked'
    BY <2>1 DEF IInv, Backed, NodesTracked, Tracked
  <2>5. \A u \in Threads : Entered(u)'
    BY <1>2, <1>3, PassiveEntered
  <2> QED
    BY <2>3, <2>4, <2>5 DEF Backed
<1> QED
  BY <1>4, <1>5, <1>7, <1>8 DEF IInv

LEMMA MetaGetKeeps ==
  ASSUME IInv, Serial, NEW t \in Threads, MetaGet(t)
  PROVE  IInv'
<1>0. thr \in [Threads -> Thread] /\ (At(t, "inc") \/ At(t, "dec"))
  BY DEF IInv, TypeOK, MetaGet
<1>1. Position(t) /\ Fresh(t) /\ ~Passive(t)
  BY <1>0 DEF IInv, Passive
<1>2. \A u \in Threads : u # t => Passive(u)
  BY <1>1, OthersPassive
<1>3. PICK h \in Blobs : h = thr[t].hash
  BY <1>0, <1>1 DEF Position, Incs, Decs
<1>4. CASE Tracked(h)
  <2> DEFINE s == IF At(t, "inc") THEN "inc_put" ELSE "dec_put"
  <2>1. meta[h] \in 0 .. MaxRefs
    BY <1>3, <1>4 DEF Tracked, IInv, TypeOK
  <2>2. thr' = [thr EXCEPT ![t].seen = meta[h],
                           ![t].at = IF @ = "inc" THEN "inc_put" ELSE "dec_put"]
    BY <1>3, <1>4 DEF MetaGet, Tracked
  <2>3. s \in Steps
    BY DEF Steps
  <2>4. /\ thr' \in [Threads -> Thread]
        /\ \A u \in Threads : u # t => thr'[u] = thr[u]
        /\ thr'[t].at = s /\ thr'[t].seen = meta[h] /\ thr'[t].hash = h
        /\ thr'[t].kind = thr[t].kind /\ thr'[t].node = thr[t].node
        /\ thr'[t].new = thr[t].new /\ thr'[t].old = thr[t].old /\ thr'[t].then = thr[t].then
    BY <1>0, <1>3, <2>1, <2>2, <2>3 DEF Thread
  <2>5. Position(t)'
    BY <1>0, <1>1, <1>3, <2>4 DEF Position, Incs, Decs
  <2>6. Fresh(t)'
    BY <1>0, <1>1, <1>3, <2>4 DEF Fresh, Incs, Decs, Locked, Unwritten, Storing, MetaGet
  <2>7. \A b \in Blobs : Own(t, b)' = Own(t, b)
    BY <1>0, <1>3, <2>4 DEF Own, Ahead, Behind, Decs
  <2>8. Entered(t)'
    BY <1>0, <2>4 DEF Entered
  <2> QED
    BY <1>0, <1>2, <2>4, <2>5, <2>6, <2>7, <2>8, Stays DEF MetaGet
<1>5. CASE ~Tracked(h) /\ At(t, "dec")
  <2>1. IF thr[t].then = "idle" THEN thr' = [thr EXCEPT ![t] = Idle] ELSE Goto(t, thr[t].then)
    BY <1>3, <1>5 DEF MetaGet, Tracked, NotFoundStep
  <2>2. \A b : (Tracked(b)' <=> Tracked(b)) /\ Refs(b)' = Refs(b)
    BY DEF MetaGet, Tracked, Refs
  <2>3. Refs(h) = 0
    BY <1>5 DEF Refs
  <2> QED
    BY <1>3, <1>5, <2>1, <2>2, <2>3, Releases DEF MetaGet, IInv, TypeOK, Decs
<1>6. CASE ~Tracked(h) /\ At(t, "inc") /\ lock = t
  <2>1. Goto(t, "unlock")
    BY <1>3, <1>6 DEF MetaGet, Tracked, NotFoundStep
  <2>2. /\ thr' \in [Threads -> Thread]
        /\ \A u \in Threads : u # t => thr'[u] = thr[u]
        /\ thr'[t].at = "unlock"
        /\ thr'[t].kind = thr[t].kind /\ thr'[t].node = thr[t].node
        /\ thr'[t].new = thr[t].new /\ thr'[t].old = thr[t].old
    BY <1>0, <2>1, GotoTyped DEF Steps
  <2>3. Position(t)' /\ Fresh(t)'
    BY <1>1, <1>6, <2>2 DEF Position, Fresh, Incs, Decs, Locked, Unwritten, Storing, MetaGet
  <2>4. \A b \in Blobs : Own(t, b)' = Own(t, b)
    BY <1>6, <2>2 DEF Own, Ahead, Behind, Decs
  <2>5. Entered(t)'
    BY <2>2 DEF Entered
  <2> QED
    BY <1>0, <1>2, <2>2, <2>3, <2>4, <2>5, Stays DEF MetaGet
<1>7. CASE ~Tracked(h) /\ At(t, "inc") /\ lock # t
  <2>1. thr' = [thr EXCEPT ![t] = Idle]
    BY <1>3, <1>7 DEF MetaGet, Tracked, NotFoundStep
  <2>2. /\ thr' \in [Threads -> Thread] /\ thr'[t] = Idle /\ lock' # t
        /\ \A u \in Threads : u # t => thr'[u] = thr[u]
    BY <1>0, <1>7, <2>1, IdleTyped DEF MetaGet
  <2>3. /\ Position(t)' /\ Fresh(t)' /\ Entered(t)'
        /\ At(t, "idle")' /\ thr'[t].kind = "none"
        /\ \A b : Own(t, b)' = 0
    BY <2>2, IdlePosition
  <2>4. \A b \in Blobs : Own(t, b) = 0
    BY <1>7 DEF Own, Ahead, Behind, Decs
  <2> QED
    BY <1>0, <1>2, <2>2, <2>3, <2>4, Stays DEF MetaGet
<1> QED
  BY <1>0, <1>4, <1>5, <1>6, <1>7

LEMMA MetaPutKeeps ==
  ASSUME IInv, Serial, NEW t \in Threads, MetaPut(t)
  PROVE  IInv'
<1>0. thr \in [Threads -> Thread] /\ (At(t, "inc_put") \/ At(t, "dec_put"))
      /\ meta \in [Blobs -> {Untracked} \cup 0 .. MaxRefs]
  BY DEF IInv, TypeOK, MetaPut
<1>1. Position(t) /\ Fresh(t) /\ ~Passive(t)
  BY <1>0 DEF IInv, Passive
<1>2. \A u \in Threads : u # t => Passive(u)
  BY <1>1, OthersPassive
<1>3. PICK h \in Blobs : h = thr[t].hash
  BY <1>0, <1>1 DEF Position, Incs, Decs
<1>4. thr[t].seen = meta[h] /\ thr[t].seen \in Nat /\ Tracked(h) /\ Refs(h) = meta[h]
  BY <1>0, <1>1, <1>3, BoundAssumption DEF Fresh, Thread, Tracked, Untracked, Refs
<1>5. CASE At(t, "dec_put")
  <2>1. meta' = [meta EXCEPT ![h] = IF meta[h] > 0 THEN meta[h] - 1 ELSE 0]
    BY <1>3, <1>4, <1>5 DEF MetaPut, Counted
  <2>2. meta' \in [Blobs -> {Untracked} \cup 0 .. MaxRefs]
    BY <1>0, <1>4, <2>1, BoundAssumption DEF Untracked, Tracked
  <2>3. \A b \in Blobs : (Tracked(b)' <=> Tracked(b)) /\ (b # h => Refs(b)' = Refs(b))
    BY <1>0, <1>4, <2>1 DEF Tracked, Refs, Untracked
  <2>4. Refs(h)' = IF Refs(h) > 0 THEN Refs(h) - 1 ELSE 0
    BY <1>0, <1>4, <2>1 DEF Tracked, Refs, Untracked
  <2> QED
    BY <1>3, <1>5, <2>2, <2>3, <2>4, Releases DEF MetaPut, Decs
<1>6. CASE At(t, "inc_put")
  <2>1. meta' = [meta EXCEPT ![h] = meta[h] + 1] /\ meta[h] + 1 \in 0 .. MaxRefs
    BY <1>3, <1>4, <1>6, BoundAssumption DEF MetaPut, Counted
  <2>2. /\ thr[t].new = h /\ thr[t].then \in {"lock", "put_node"}
        /\ \/ thr[t].kind = "insert_blob" /\ thr[t].then = "lock" /\ lock # t
           \/ thr[t].kind = "insert" /\ thr[t].then = "put_node" /\ h # thr[t].old /\ lock = t
    BY <1>1, <1>3, <1>6 DEF Position, Incs, Fresh, Locked, Decs
  <2>3. Goto(t, thr[t].then) /\ thr[t].then \in Steps
    BY <1>6, <2>2 DEF MetaPut, Steps
  <2>4. /\ thr' \in [Threads -> Thread]
        /\ \A u \in Threads : u # t => thr'[u] = thr[u]
        /\ thr'[t].at = thr[t].then
        /\ thr'[t].kind = thr[t].kind /\ thr'[t].node = thr[t].node
        /\ thr'[t].new = thr[t].new /\ thr'[t].old = thr[t].old
    BY <1>0, <2>3, GotoTyped
  <2>5. Position(t)'
    BY <1>1, <2>2, <2>4 DEF Position, Incs, Decs
  <2>6. Fresh(t)'
    BY <1>1, <1>6, <2>2, <2>4 DEF Fresh, Incs, Decs, Locked, Unwritten, Storing, MetaPut
  <2>7. /\ (Alone /\ Solo)'
        /\ (\A u \in Threads : Position(u) /\ Fresh(u))'
        /\ \A b : Extra(b) = Own(t, b)
        /\ \A b : Extra(b)' = Own(t, b)'
    BY <1>2, <1>6, <2>4, <2>5, <2>6, Moves DEF MetaPut
  <2>8. \A b : Own(t, b) = 0 /\ Own(t, b)' = IF b = h THEN 1 ELSE 0
    BY <1>6, <2>2, <2>4 DEF Own, Ahead, Behind, Decs
  <2>9. \A b \in Blobs : /\ Tracked(b)' <=> Tracked(b)
                         /\ Refs(b)' = IF b = h THEN Refs(b) + 1 ELSE Refs(b)
                         /\ Refs(b) \in Int
    BY <1>0, <1>4, <2>1 DEF Tracked, Refs, Untracked
  <2>10. \A b : References(b)' = References(b)
    BY DEF References, MetaPut
  <2>11. Account'
    BY <2>7, <2>8, <2>9, <2>10, ReferencesNat, Accounts DEF MetaPut
  <2>12. TypeOK'
    BY <1>0, <2>1, <2>4 DEF IInv, TypeOK, MetaPut
  <2>13. ASSUME faults' = 0
         PROVE  Backed'
    <3>1. faults = 0
      BY <2>13 DEF MetaPut
    <3>2. \A b \in Blobs : Tracked(b) => b \in bytes
      BY <1>2, <1>6, <3>1, EntriesHaveBytes
    <3>3. EntriesBacked'
      BY <2>9, <3>2 DEF EntriesBacked, MetaPut
    <3>4. NodesTracked'
      BY <1>0, <1>4, <2>1, <3>1 DEF IInv, Backed, NodesTracked, Tracked, MetaPut, Untracked
    <3>5. Entered(t)'
      BY <1>4, <2>2, <2>4, <2>1, <1>0 DEF Entered, Tracked, Untracked
    <3>6. \A u \in Threads : Entered(u)'
      BY <1>2, <2>4, <3>5, PassiveEntered
    <3> QED
      BY <3>3, <3>4, <3>6 DEF Backed
  <2> QED
    BY <2>7, <2>11, <2>12, <2>13 DEF IInv
<1> QED
  BY <1>0, <1>5, <1>6

-----------------------------------------------------------------------------
(* Bytes, entries and nodes are written *)

LEMMA WriteBytesKeeps ==
  ASSUME IInv, Serial, NEW t \in Threads, WriteBytes(t)
  PROVE  IInv'
<1>0. thr \in [Threads -> Thread] /\ At(t, "write_bytes") /\ Goto(t, "insert_new")
  BY DEF IInv, TypeOK, WriteBytes
<1>1. Position(t) /\ Fresh(t) /\ ~Passive(t)
  BY <1>0 DEF IInv, Passive
<1>2. \A u \in Threads : u # t => Passive(u)
  BY <1>1, OthersPassive
<1>3. thr[t].kind = "insert_blob" /\ thr[t].new \in Blobs
  BY <1>0, <1>1 DEF Position
<1>4. /\ thr' \in [Threads -> Thread]
      /\ \A u \in Threads : u # t => thr'[u] = thr[u]
      /\ thr'[t].at = "insert_new"
      /\ thr'[t].kind = thr[t].kind /\ thr'[t].node = thr[t].node
      /\ thr'[t].new = thr[t].new /\ thr'[t].old = thr[t].old
  BY <1>0, GotoTyped DEF Steps
<1>5. Position(t)' /\ Fresh(t)'
  BY <1>0, <1>1, <1>3, <1>4 DEF Position, Fresh, Incs, Decs, Locked, Unwritten, Storing, WriteBytes
<1>6. /\ (Alone /\ Solo)'
      /\ (\A u \in Threads : Position(u) /\ Fresh(u))'
      /\ \A b : Extra(b) = Own(t, b)
      /\ \A b : Extra(b)' = Own(t, b)'
  BY <1>0, <1>2, <1>4, <1>5, Moves DEF WriteBytes
<1>7. TypeOK'
  BY <1>3, <1>4 DEF IInv, TypeOK, WriteBytes
<1>8. \A b : Own(t, b)' = Own(t, b) /\ Refs(b)' = Refs(b) /\ References(b)' = References(b)
  BY <1>0, <1>3, <1>4 DEF Own, Ahead, Behind, Decs, Refs, References, Tracked, WriteBytes
<1>9. Account'
  BY <1>6, <1>8, Accounts DEF WriteBytes
<1>10. ASSUME faults' = 0
       PROVE  Backed'
  <2>1. faults = 0
    BY <1>10 DEF WriteBytes
  <2>2. \A b \in Blobs : Tracked(b) => b \in bytes
    BY <1>0, <1>2, <2>1, EntriesHaveBytes
  <2>3. EntriesBacked'
    BY <2>2 DEF EntriesBacked, Tracked, WriteBytes
  <2>4. NodesTracked'
    BY <2>1 DEF IInv, Backed, NodesTracked, Tracked, WriteBytes
  <2>5. Entered(t)'
    BY <1>4 DEF Entered, WriteBytes
  <2>6. \A u \in Threads : Entered(u)'
    BY <1>2, <1>4, <2>5, PassiveEntered
  <2> QED
    BY <2>3, <2>4, <2>6 DEF Backed
<1> QED
  BY <1>6, <1>7, <1>9, <1>10 DEF IInv

LEMMA InsertNewKeeps ==
  ASSUME IInv, Serial, NEW t \in Threads, InsertNew(t)
  PROVE  IInv'
<1>0. thr \in [Threads -> Thread] /\ At(t, "insert_new") /\ Goto(t, "lock")
      /\ meta \in [Blobs -> {Untracked} \cup 0 .. MaxRefs]
  BY DEF IInv, TypeOK, InsertNew
<1>1. Position(t) /\ Fresh(t) /\ ~Passive(t)
  BY <1>0 DEF IInv, Passive
<1>2. \A u \in Threads : u # t => Passive(u)
  BY <1>1, OthersPassive
<1>3. PICK h \in Blobs : h = thr[t].new
  BY <1>0, <1>1 DEF Position
<1>4. thr[t].kind = "insert_blob" /\ meta[h] = Untracked /\ meta' = [meta EXCEPT ![h] = 1] /\ lock # t
  BY <1>0, <1>1, <1>3 DEF Position, Fresh, InsertNew, Locked, Incs, Decs
<1>5. /\ thr' \in [Threads -> Thread]
      /\ \A u \in Threads : u # t => thr'[u] = thr[u]
      /\ thr'[t].at = "lock"
      /\ thr'[t].kind = thr[t].kind /\ thr'[t].node = thr[t].node
      /\ thr'[t].new = thr[t].new /\ thr'[t].old = thr[t].old
  BY <1>0, GotoTyped DEF Steps
<1>6. Position(t)' /\ Fresh(t)'
  BY <1>0, <1>1, <1>3, <1>4, <1>5
  DEF Position, Fresh, Incs, Decs, Locked, Unwritten, Storing, InsertNew
<1>7. /\ (Alone /\ Solo)'
      /\ (\A u \in Threads : Position(u) /\ Fresh(u))'
      /\ \A b : Extra(b) = Own(t, b)
      /\ \A b : Extra(b)' = Own(t, b)'
  BY <1>0, <1>2, <1>5, <1>6, Moves DEF InsertNew
<1>8. TypeOK'
  <2>1. meta' \in [Blobs -> {Untracked} \cup 0 .. MaxRefs]
    BY <1>0, <1>4, BoundAssumption
  <2> QED
    BY <1>5, <2>1 DEF IInv, TypeOK, InsertNew
<1>9. \A b : Own(t, b) = 0 /\ Own(t, b)' = IF b = h THEN 1 ELSE 0
  BY <1>0, <1>3, <1>4, <1>5 DEF Own, Ahead, Behind, Decs
<1>10. \A b \in Blobs : Refs(b)' = (IF b = h THEN Refs(b) + 1 ELSE Refs(b)) /\ Refs(b) \in Int
  BY <1>0, <1>4 DEF Tracked, Refs, Untracked
<1>11. \A b : References(b)' = References(b)
  BY DEF References, InsertNew
<1>12. Account'
  BY <1>7, <1>9, <1>10, <1>11, ReferencesNat, Accounts DEF InsertNew
<1>13. ASSUME faults' = 0
       PROVE  Backed'
  <2>1. faults = 0
    BY <1>13 DEF InsertNew
  <2>2. \A b \in Blobs : Tracked(b) => b \in bytes
    BY <1>0, <1>2, <2>1, EntriesHaveBytes
  <2>3. h \in bytes
    BY <1>0, <1>3, <2>1 DEF IInv, Backed, Entered
  <2>4. EntriesBacked'
    BY <1>0, <1>4, <2>2, <2>3 DEF EntriesBacked, Tracked, InsertNew
  <2>5. NodesTracked'
    BY <1>0, <1>4, <2>1 DEF IInv, Backed, NodesTracked, Tracked, InsertNew, Untracked
  <2>6. Entered(t)'
    BY <1>0, <1>3, <1>4, <1>5 DEF Entered, Tracked, Untracked
  <2>7. \A u \in Threads : Entered(u)'
    BY <1>2, <1>5, <2>6, PassiveEntered
  <2> QED
    BY <2>4, <2>5, <2>7 DEF Backed
<1> QED
  BY <1>7, <1>8, <1>12, <1>13 DEF IInv

LEMMA PutNodeKeeps ==
  ASSUME IInv, Serial, NEW t \in Threads, PutNode(t)
  PROVE  IInv'
<1>0. thr \in [Threads -> Thread] /\ At(t, "put_node") /\ nodes \in [Nodes -> Content]
  BY DEF IInv, TypeOK, PutNode
<1>1. Position(t) /\ Fresh(t) /\ ~Passive(t)
  BY <1>0 DEF IInv, Passive
<1>2. \A u \in Threads : u # t => Passive(u)
  BY <1>1, OthersPassive
<1>3. PICK n \in Nodes, c \in Content : n = thr[t].node /\ c = thr[t].new
  BY <1>0, <1>1 DEF Position, Thread
<1>4. /\ thr[t].kind \in {"insert", "insert_blob"} /\ thr[t].old = nodes[n] /\ lock = t
      /\ thr[t].kind = "insert_blob" => nodes[n] = Absent
      /\ nodes' = [nodes EXCEPT ![n] = c]
  BY <1>0, <1>1, <1>3 DEF Position, Fresh, Locked, Unwritten, Storing, PutNode
<1> DEFINE replaces == nodes[n] \in Blobs /\ nodes[n] # c
<1>5. /\ thr' \in [Threads -> Thread]
      /\ \A u \in Threads : u # t => thr'[u] = thr[u]
      /\ replaces => thr'[t].at = "dec" /\ thr'[t].hash = nodes[n] /\ thr'[t].then = "index"
      /\ ~replaces => thr'[t].at = "index"
      /\ thr'[t].kind = thr[t].kind /\ thr'[t].node = thr[t].node
      /\ thr'[t].new = thr[t].new /\ thr'[t].old = thr[t].old
  <2>1. CASE replaces
    <3>1. Call(t, "dec", nodes[n], "index")
      BY <1>3, <1>4, <2>1 DEF PutNode
    <3>2. "dec" \in Steps /\ "index" \in Steps
      BY DEF Steps
    <3> QED
      BY <1>0, <2>1, <3>1, <3>2, CallTyped
  <2>2. CASE ~replaces
    <3>1. Goto(t, "index")
      BY <1>3, <1>4, <2>2 DEF PutNode
    <3> QED
      BY <1>0, <2>2, <3>1, GotoTyped DEF Steps
  <2> QED
    BY <2>1, <2>2
<1>6. replaces => thr[t].kind = "insert"
  BY <1>4, SentinelAssumption
<1>7. Position(t)' /\ Fresh(t)'
  BY <1>0, <1>1, <1>3, <1>4, <1>5, <1>6
  DEF Position, Fresh, Incs, Decs, Locked, Unwritten, Storing, PutNode
<1>8. /\ (Alone /\ Solo)'
      /\ (\A u \in Threads : Position(u) /\ Fresh(u))'
      /\ \A b : Extra(b) = Own(t, b)
      /\ \A b : Extra(b)' = Own(t, b)'
  BY <1>0, <1>2, <1>5, <1>7, Moves DEF PutNode
<1>9. TypeOK'
  BY <1>0, <1>4, <1>5 DEF IInv, TypeOK, PutNode
<1>10. \A b \in Blobs : /\ Own(t, b) = IF b = c /\ c # nodes[n] THEN 1 ELSE 0
                        /\ Own(t, b)' = IF b = nodes[n] /\ c # nodes[n] THEN 1 ELSE 0
  BY <1>0, <1>3, <1>4, <1>5, <1>6, SentinelAssumption DEF Own, Ahead, Behind, Decs, Position
<1>11. \A b \in Blobs : Refs(b)' = Refs(b) /\ Refs(b) \in Int
  <2>1. meta' = meta /\ meta \in [Blobs -> {Untracked} \cup 0 .. MaxRefs]
    BY DEF PutNode, IInv, TypeOK
  <2> QED
    BY <2>1 DEF Refs, Tracked
<1>12. ASSUME NEW b \in Blobs
       PROVE  References(b)' = References(b) + (IF c = b THEN 1 ELSE 0)
                                             - (IF nodes[n] = b THEN 1 ELSE 0)
  <2>1. nodes' = [nodes EXCEPT ![n] = c]
    BY <1>4
  <2> QED
    BY <1>0, <2>1, ReferencesMove, Zenon
<1>13. Account'
  <2>1. \A b \in Blobs : Refs(b)' - References(b)' - Own(t, b)' = Refs(b) - References(b) - Own(t, b)
    BY <1>10, <1>11, <1>12, ReferencesNat
  <2> QED
    BY <1>8, <2>1, Accounts DEF PutNode
<1>14. ASSUME faults' = 0
       PROVE  Backed'
  <2>1. faults = 0
    BY <1>14 DEF PutNode
  <2>2. \A b \in Blobs : Tracked(b) => b \in bytes
    BY <1>0, <1>2, <2>1, EntriesHaveBytes
  <2>3. EntriesBacked'
    BY <2>2 DEF EntriesBacked, Tracked, PutNode
  <2>4. c \in Blobs => Tracked(c)
    BY <1>0, <1>3, <1>4, <2>1 DEF IInv, Backed, Entered
  <2>5. NodesTracked'
    BY <1>0, <1>4, <2>1, <2>4 DEF IInv, Backed, NodesTracked, Tracked, PutNode
  <2>6. Entered(t)'
    BY <1>5 DEF Entered
  <2>7. \A u \in Threads : Entered(u)'
    BY <1>2, <1>5, <2>6, PassiveEntered
  <2> QED
    BY <2>3, <2>5, <2>7 DEF Backed
<1> QED
  BY <1>8, <1>9, <1>13, <1>14 DEF IInv

LEMMA DeleteNodeKeeps ==
  ASSUME IInv, Serial, NEW t \in Threads, DeleteNode(t)
  PROVE  IInv'
<1>0. thr \in [Threads -> Thread] /\ At(t, "delete_node") /\ nodes \in [Nodes -> Content]
      /\ Goto(t, "unlock")
  BY DEF IInv, TypeOK, DeleteNode
<1>1. Position(t) /\ Fresh(t) /\ ~Passive(t)
  BY <1>0 DEF IInv, Passive
<1>2. \A u \in Threads : u # t => Passive(u)
  BY <1>1, OthersPassive
<1>3. PICK n \in Nodes : n = thr[t].node
  BY <1>0, <1>1 DEF Position
<1>4. /\ thr[t].kind = "delete" /\ thr[t].old = nodes[n] /\ lock = t
      /\ nodes' = [nodes EXCEPT ![n] = Absent]
  BY <1>0, <1>1, <1>3 DEF Position, Fresh, Locked, Unwritten, DeleteNode
<1>5. /\ thr' \in [Threads -> Thread]
      /\ \A u \in Threads : u # t => thr'[u] = thr[u]
      /\ thr'[t].at = "unlock"
      /\ thr'[t].kind = thr[t].kind /\ thr'[t].node = thr[t].node
      /\ thr'[t].new = thr[t].new /\ thr'[t].old = thr[t].old
  BY <1>0, GotoTyped DEF Steps
<1>6. Position(t)' /\ Fresh(t)'
  BY <1>0, <1>1, <1>3, <1>4, <1>5
  DEF Position, Fresh, Incs, Decs, Locked, Unwritten, Storing, DeleteNode
<1>7. /\ (Alone /\ Solo)'
      /\ (\A u \in Threads : Position(u) /\ Fresh(u))'
      /\ \A b : Extra(b) = Own(t, b)
      /\ \A b : Extra(b)' = Own(t, b)'
  BY <1>0, <1>2, <1>5, <1>6, Moves DEF DeleteNode
<1>8. TypeOK'
  BY <1>0, <1>4, <1>5 DEF IInv, TypeOK, DeleteNode, Content
<1>9. \A b \in Blobs : /\ Own(t, b) = IF b = nodes[n] THEN -1 ELSE 0
                       /\ Own(t, b)' = 0
  BY <1>0, <1>4, <1>5 DEF Own, Ahead, Behind, Decs
<1>10. \A b \in Blobs : Refs(b)' = Refs(b) /\ Refs(b) \in Int
  <2>1. meta' = meta /\ meta \in [Blobs -> {Untracked} \cup 0 .. MaxRefs]
    BY DEF DeleteNode, IInv, TypeOK
  <2> QED
    BY <2>1 DEF Refs, Tracked
<1>11. ASSUME NEW b \in Blobs
       PROVE  References(b)' = References(b) - (IF nodes[n] = b THEN 1 ELSE 0)
  <2>1. nodes' = [nodes EXCEPT ![n] = Absent] /\ Absent \in Content /\ Absent # b
    BY <1>4, SentinelAssumption DEF Content
  <2>2. References(b)' = References(b) + (IF Absent = b THEN 1 ELSE 0)
                                       - (IF nodes[n] = b THEN 1 ELSE 0)
    BY <1>0, <2>1, ReferencesMove, Zenon
  <2> QED
    BY <2>1, <2>2, ReferencesNat
<1>12. Account'
  <2>1. \A b \in Blobs : Refs(b)' - References(b)' - Own(t, b)' = Refs(b) - References(b) - Own(t, b)
    BY <1>9, <1>10, <1>11, ReferencesNat
  <2> QED
    BY <1>7, <2>1, Accounts DEF DeleteNode
<1>13. ASSUME faults' = 0
       PROVE  Backed'
  <2>1. faults = 0
    BY <1>13 DEF DeleteNode
  <2>2. \A b \in Blobs : Tracked(b) => b \in bytes
    BY <1>0, <1>2, <2>1, EntriesHaveBytes
  <2>3. EntriesBacked'
    BY <2>2 DEF EntriesBacked, Tracked, DeleteNode
  <2>4. NodesTracked'
    BY <1>0, <1>4, <2>1, SentinelAssumption DEF IInv, Backed, NodesTracked, Tracked, DeleteNode
  <2>5. Entered(t)'
    BY <1>5 DEF Entered
  <2>6. \A u \in Threads : Entered(u)'
    BY <1>2, <1>5, <2>5, PassiveEntered
  <2> QED
    BY <2>3, <2>4, <2>6 DEF Backed
<1> QED
  BY <1>7, <1>8, <1>12, <1>13 DEF IInv

LEMMA IndexFailsKeeps ==
  ASSUME IInv, Serial, NEW t \in Threads, IndexFails(t)
  PROVE  IInv'
<1>0. thr \in [Threads -> Thread] /\ At(t, "index") /\ Goto(t, "fail")
      /\ faults \in Nat /\ faults' = faults + 1 /\ faults' \in 0 .. MaxFaults
  BY BoundAssumption DEF IInv, TypeOK, IndexFails
<1>1. Position(t) /\ Fresh(t) /\ ~Passive(t)
  BY <1>0 DEF IInv, Passive
<1>2. \A u \in Threads : u # t => Passive(u)
  BY <1>1, OthersPassive
<1>3. /\ thr' \in [Threads -> Thread]
      /\ \A u \in Threads : u # t => thr'[u] = thr[u]
      /\ thr'[t].at = "fail"
      /\ thr'[t].kind = thr[t].kind /\ thr'[t].node = thr[t].node
      /\ thr'[t].new = thr[t].new /\ thr'[t].old = thr[t].old
  BY <1>0, GotoTyped DEF Steps
<1>4. Position(t)' /\ Fresh(t)'
  BY <1>0, <1>1, <1>3 DEF Position, Fresh, Incs, Decs, Locked, Unwritten, Storing, IndexFails
<1>5. /\ (Alone /\ Solo)'
      /\ (\A u \in Threads : Position(u) /\ Fresh(u))'
      /\ \A b : Extra(b) = Own(t, b)
      /\ \A b : Extra(b)' = Own(t, b)'
  BY <1>0, <1>2, <1>3, <1>4, Moves DEF IndexFails
<1>6. TypeOK'
  BY <1>0, <1>3 DEF IInv, TypeOK, IndexFails
<1>7. \A b : Own(t, b) = 0 /\ Own(t, b)' \in {0, 1}
  BY <1>0, <1>1, <1>3 DEF Own, Ahead, Behind, Decs, Position
<1>8. ASSUME NEW b \in Blobs
      PROVE  Refs(b)' - References(b)' - Extra(b)' \in -faults' .. faults'
  <2>1. Refs(b)' = Refs(b) /\ References(b)' = References(b)
    BY DEF Refs, References, Tracked, IndexFails
  <2>2. Refs(b) \in Int
    BY DEF Refs, Tracked, IInv, TypeOK
  <2>3. Refs(b) - References(b) - Extra(b) \in -faults .. faults
    BY DEF IInv, Account
  <2> QED
    BY <1>0, <1>5, <1>7, <2>1, <2>2, <2>3, ReferencesNat
<1> QED
  BY <1>0, <1>5, <1>6, <1>8 DEF IInv, Account

-----------------------------------------------------------------------------
(* Operations begin, faults *)

\* An operation that only waits for the lock changes nobody's references.
LEMMA Waits ==
  ASSUME IInv, Serial, NEW t \in Threads, NEW k \in {"insert", "delete"}, NEW n \in Nodes,
         NEW c \in Content, MayBegin(t, k), thr' = [thr EXCEPT ![t] = Called(k, "lock", n, c)],
         UNCHANGED <<bytes, volatile, meta, nodes, lock, faults>>
  PROVE  IInv'
<1>0. thr \in [Threads -> Thread] /\ At(t, "idle") /\ Position(t) /\ Fresh(t)
  BY DEF IInv, TypeOK, MayBegin
<1>1. /\ thr' \in [Threads -> Thread]
      /\ thr'[t].kind = k /\ thr'[t].at = "lock" /\ thr'[t].node = n
      /\ \A u \in Threads : u # t => thr'[u] = thr[u]
  BY <1>0, CalledTyped DEF Kinds, Steps
<1>2. TypeOK'
  BY <1>1 DEF IInv, TypeOK
<1>3. Passive(t) /\ Passive(t)' /\ \A u \in Threads : u # t => (Passive(u)' <=> Passive(u))
  BY <1>0, <1>1 DEF Passive
<1>4. Alone' /\ Solo'
  BY <1>1, <1>3 DEF IInv, Alone, Solo, MayBegin
<1>5. lock # t
  BY <1>0 DEF Fresh, Locked, Incs, Decs
<1>6. Position(t)' /\ Fresh(t)'
  BY <1>1, <1>5 DEF Position, Fresh, Incs, Decs, Locked, Unwritten, Storing
<1>7. \A u \in Threads : u # t => Position(u)' /\ Fresh(u)'
  BY <1>1 DEF IInv, Position, Fresh, Incs, Decs, Locked, Unwritten, Storing
<1>8. \A b : ~Ahead(t, b) /\ ~Behind(t, b) /\ ~Ahead(t, b)' /\ ~Behind(t, b)'
  BY <1>0, <1>1 DEF Ahead, Behind, Decs
<1>9. \A b : \A u \in Threads : u # t => (Ahead(u, b)' <=> Ahead(u, b)) /\ (Behind(u, b)' <=> Behind(u, b))
  BY <1>1 DEF Ahead, Behind, Decs
<1>10. \A b : Extra(b)' = Extra(b) /\ Refs(b)' = Refs(b) /\ References(b)' = References(b)
  <2>1. \A b : Extra(b)' = Extra(b)
    BY <1>8, <1>9 DEF Extra
  <2> QED
    BY <2>1 DEF Refs, References, Tracked
<1>11. Account'
  BY <1>10 DEF IInv, Account
<1>12. ASSUME faults' = 0
       PROVE  Backed'
  <2>1. Backed
    BY <1>12 DEF IInv
  <2>2. EntriesBacked' /\ NodesTracked'
    BY <1>0, <1>1, <2>1 DEF Backed, EntriesBacked, NodesTracked, Tracked
  <2>3. \A u \in Threads : Entered(u)'
    BY <1>1, <2>1 DEF Backed, Entered, Tracked
  <2> QED
    BY <2>2, <2>3 DEF Backed
<1> QED
  BY <1>2, <1>4, <1>6, <1>7, <1>11, <1>12 DEF IInv

\* An operation that may not overlap begins by itself.
LEMMA BeginsAlone ==
  ASSUME IInv, Serial, NEW t \in Threads, NEW k \in {"insert_blob", "gc"}, MayBegin(t, k)
  PROVE  /\ thr \in [Threads -> Thread] /\ lock # t
         /\ \A u \in Threads : At(u, "idle")
         /\ \A u \in Threads, b \in Blobs : Own(u, b) = 0
<1>1. thr \in [Threads -> Thread] /\ \A u \in Threads : At(u, "idle") /\ Fresh(u)
  BY DEF MayBegin, Serial, IInv, TypeOK
<1> QED
  BY <1>1 DEF Own, Ahead, Behind, Decs, Fresh, Locked, Incs

LEMMA InsertBlobKeeps ==
  ASSUME IInv, Serial, NEW t \in Threads, NEW b \in Blobs, InsertBlob(t, b)
  PROVE  IInv'
<1>1. PICK n \in Nodes : FreshNode(n) /\ thr' = [thr EXCEPT ![t] = Called("insert_blob", "put_get", n, b)]
  BY DEF InsertBlob
<1>2. /\ thr \in [Threads -> Thread] /\ lock # t
      /\ \A u \in Threads : At(u, "idle")
      /\ \A u \in Threads, c \in Blobs : Own(u, c) = 0
  BY BeginsAlone DEF InsertBlob
<1>3. /\ thr' \in [Threads -> Thread]
      /\ thr'[t].kind = "insert_blob" /\ thr'[t].at = "put_get" /\ thr'[t].node = n /\ thr'[t].new = b
      /\ \A u \in Threads : u # t => thr'[u] = thr[u]
  BY <1>1, <1>2, CalledTyped DEF Kinds, Steps, Content
<1>4. Position(t)' /\ Fresh(t)' /\ Entered(t)'
  BY <1>1, <1>2, <1>3
  DEF Position, Fresh, Entered, Incs, Decs, Locked, Unwritten, Storing, FreshNode, InsertBlob
<1>5. \A c \in Blobs : Own(t, c)' = 0
  BY <1>3 DEF Own, Ahead, Behind, Decs
<1> QED
  BY <1>2, <1>3, <1>4, <1>5, Stays DEF InsertBlob, Passive

LEMMA GcKeeps ==
  ASSUME IInv, Serial, NEW t \in Threads, Gc(t)
  PROVE  IInv'
<1>1. /\ thr \in [Threads -> Thread] /\ lock # t
      /\ \A u \in Threads : At(u, "idle")
      /\ \A u \in Threads, c \in Blobs : Own(u, c) = 0
  BY BeginsAlone DEF Gc
<1>2. /\ thr' \in [Threads -> Thread]
      /\ thr'[t].kind = "gc" /\ thr'[t].at = "gc_list"
      /\ \A u \in Threads : u # t => thr'[u] = thr[u]
  BY <1>1, CalledTyped DEF Gc, Kinds, Steps, Content
<1>3. Position(t)' /\ Fresh(t)' /\ Entered(t)'
  BY <1>1, <1>2 DEF Position, Fresh, Entered, Incs, Decs, Locked, Unwritten, Storing, Gc
<1>4. \A c \in Blobs : Own(t, c)' = 0
  BY <1>2 DEF Own, Ahead, Behind, Decs
<1> QED
  BY <1>1, <1>2, <1>3, <1>4, Stays DEF Gc, Passive

\* A stop costs the reference that was in flight, at most one per blob.
LEMMA ReopenKeeps ==
  ASSUME IInv, NEW left \in SUBSET bytes, faults < MaxFaults, Reopen(left)
  PROVE  IInv'
<1>0. faults \in Nat /\ faults' = faults + 1 /\ faults' \in 0 .. MaxFaults
  BY BoundAssumption DEF IInv, TypeOK, Reopen
<1>1. thr' \in [Threads -> Thread] /\ lock' = NoThread /\ \A t \in Threads : thr'[t] = Idle
  BY IdleTyped DEF Reopen
<1>2. \A t \in Threads : /\ Position(t)' /\ Fresh(t)' /\ At(t, "idle")'
                         /\ \A b : ~Ahead(t, b)' /\ ~Behind(t, b)'
  <2> SUFFICES ASSUME NEW t \in Threads
               PROVE  /\ Position(t)' /\ Fresh(t)' /\ At(t, "idle")'
                      /\ \A b : ~Ahead(t, b)' /\ ~Behind(t, b)'
    OBVIOUS
  <2>1. Position(t)' /\ Fresh(t)' /\ At(t, "idle")' /\ \A b : Own(t, b)' = 0
    BY <1>1, SentinelAssumption, IdlePosition
  <2> QED
    BY <2>1 DEF Ahead, Behind, Decs
<1>3. Alone' /\ Solo'
  BY <1>2 DEF Alone, Solo, Passive
<1>4. TypeOK'
  <2>1. bytes' \subseteq left /\ volatile' \subseteq bytes'
    BY DEF Reopen
  <2> QED
    BY <1>0, <1>1, <2>1 DEF IInv, TypeOK, Reopen
<1>5. ASSUME NEW b \in Blobs
      PROVE  Refs(b)' - References(b)' - Extra(b)' \in -faults' .. faults'
  <2>1. Refs(b)' = Refs(b) /\ References(b)' = References(b)
    BY DEF Refs, References, Tracked, Reopen
  <2>2. Refs(b) \in Int
    BY DEF Refs, Tracked, IInv, TypeOK
  <2>3. Refs(b) - References(b) - Extra(b) \in -faults .. faults
    BY DEF IInv, Account
  <2>4. Extra(b) \in {-1, 0, 1}
    BY DEF Extra
  <2>5. Extra(b)' = 0
    BY <1>2 DEF Extra
  <2> QED
    BY <1>0, <2>1, <2>2, <2>3, <2>4, <2>5, ReferencesNat
<1> QED
  BY <1>0, <1>2, <1>3, <1>4, <1>5 DEF IInv, Account

LEMMA FlushKeeps ==
  ASSUME IInv, Flush
  PROVE  IInv'
<1>1. TypeOK'
  BY DEF IInv, TypeOK, Flush
<1>2. Alone' /\ Solo'
  BY DEF IInv, Flush, Alone, Solo, Passive
<1>3. \A t \in Threads : Position(t)' /\ Fresh(t)'
  BY DEF IInv, Flush, Position, Fresh, Incs, Decs, Locked, Unwritten, Storing
<1>4. \A t \in Threads : \A b : (Ahead(t, b)' <=> Ahead(t, b)) /\ (Behind(t, b)' <=> Behind(t, b))
  BY DEF Flush, Ahead, Behind, Decs
<1>5. \A b : Refs(b)' = Refs(b) /\ References(b)' = References(b)
  BY DEF Flush, Refs, References, Tracked
<1>6. \A b : Extra(b)' = Extra(b)
  BY <1>4 DEF Extra
<1>7. Account'
  BY <1>5, <1>6 DEF IInv, Account, Flush
<1>8. faults' = 0 => Backed'
  BY DEF IInv, Flush, Backed, EntriesBacked, NodesTracked, Entered, Tracked
<1> QED
  BY <1>1, <1>2, <1>3, <1>7, <1>8 DEF IInv

-----------------------------------------------------------------------------
(* Theorems *)

LEMMA InitHolds == Init => IInv
<1> SUFFICES ASSUME Init PROVE IInv
  OBVIOUS
<1>1. \A t \in Threads : thr[t] = Idle /\ thr[t].at = "idle" /\ thr[t].kind = "none"
  BY IdleTyped DEF Init
<1>2. TypeOK
  BY IdleTyped, BoundAssumption DEF Init, TypeOK, Content, Untracked
<1>3. Alone /\ Solo
  BY <1>1 DEF Alone, Solo, Passive
<1>4. \A t \in Threads : Position(t) /\ Fresh(t)
  BY <1>1, SentinelAssumption DEF Init, Position, Fresh, Incs, Decs, Locked, Unwritten, Storing
<1>5. ASSUME NEW b \in Blobs
      PROVE  Refs(b) - References(b) - Extra(b) \in -faults .. faults
  <2>1. Extra(b) = 0
    BY <1>1 DEF Extra, Ahead, Behind, Decs
  <2>2. {n \in Nodes : nodes[n] = b} = {}
    BY SentinelAssumption DEF Init
  <2>3. References(b) = 0
    BY <2>2, FS_EmptySet DEF References
  <2>4. Refs(b) = 0 /\ faults = 0
    BY DEF Init, Refs, Tracked
  <2> QED
    BY <2>1, <2>3, <2>4
<1>6. Backed
  <2>1. \A b \in Blobs : ~Tracked(b)
    BY DEF Init, Tracked
  <2>2. \A n \in Nodes : nodes[n] \notin Blobs
    BY SentinelAssumption DEF Init
  <2> QED
    BY <1>1, <2>1, <2>2 DEF Backed, EntriesBacked, NodesTracked, Entered
<1> QED
  BY <1>2, <1>3, <1>4, <1>5, <1>6 DEF IInv, Account

LEMMA StepKeeps ==
  ASSUME Serial, IInv, [Next]_vars
  PROVE  IInv'
<1>1. ASSUME NEW t \in Threads, NEW b \in Blobs, InsertBlob(t, b)
      PROVE  IInv'
  BY <1>1, InsertBlobKeeps
<1>2. ASSUME NEW t \in Threads, NEW n \in Nodes, NEW c \in Blobs \cup {Text}, Insert(t, n, c)
      PROVE  IInv'
  <2>1. c \in Content
    BY DEF Content
  <2> QED
    BY <1>2, <2>1, Waits DEF Insert
<1>3. ASSUME NEW t \in Threads, NEW n \in Nodes, Delete(t, n)
      PROVE  IInv'
  <2>1. Text \in Content
    BY DEF Content
  <2> QED
    BY <1>3, <2>1, Waits DEF Delete
<1>4. ASSUME NEW t \in Threads, Gc(t)
      PROVE  IInv'
  BY <1>4, GcKeeps
<1>5. ASSUME NEW t \in Threads, Step(t)
      PROVE  IInv'
  BY <1>5, PutGetKeeps, WriteBytesKeeps, InsertNewKeeps, MetaGetKeeps, MetaPutKeeps, LockKeeps,
     PutNodeKeeps, PutNodeFailsKeeps, IndexKeeps, IndexFailsKeeps, DeleteNodeKeeps, UnlockKeeps,
     GcListKeeps, GcBytesKeeps, GcMetaKeeps DEF Step
<1>6. ASSUME Kill
      PROVE  IInv'
  BY <1>6, ReopenKeeps DEF Kill
<1>7. ASSUME PowerLoss
      PROVE  IInv'
  <2>1. PICK lost \in SUBSET volatile : Reopen(bytes \ lost)
    BY <1>7 DEF PowerLoss
  <2>2. bytes \ lost \in SUBSET bytes /\ faults < MaxFaults
    BY <1>7 DEF PowerLoss
  <2> QED
    BY <2>1, <2>2, ReopenKeeps
<1>8. ASSUME UNCHANGED vars
      PROVE  IInv'
  <2>1. \A t \in Threads : \A b : (Ahead(t, b)' <=> Ahead(t, b)) /\ (Behind(t, b)' <=> Behind(t, b))
    BY <1>8 DEF vars, Ahead, Behind, Decs
  <2>2. \A b : Refs(b)' = Refs(b) /\ References(b)' = References(b)
    BY <1>8 DEF vars, Refs, References, Tracked
  <2>3. \A b : Extra(b)' = Extra(b)
    BY <2>1 DEF Extra
  <2>4. Account'
    BY <1>8, <2>2, <2>3 DEF IInv, Account, vars
  <2>5. TypeOK' /\ Alone' /\ Solo'
    BY <1>8 DEF IInv, vars, TypeOK, Alone, Solo, Passive
  <2>6. \A t \in Threads : Position(t)' /\ Fresh(t)'
    BY <1>8 DEF IInv, vars, Position, Fresh, Incs, Decs, Locked, Unwritten, Storing
  <2>7. faults' = 0 => Backed'
    BY <1>8 DEF IInv, vars, Backed, EntriesBacked, NodesTracked, Entered, Tracked
  <2> QED
    BY <2>4, <2>5, <2>6, <2>7 DEF IInv
<1> QED
  BY <1>1, <1>2, <1>3, <1>4, <1>5, <1>6, <1>7, <1>8, FlushKeeps DEF Next

\* The inductive invariant holds in every reachable state.
THEOREM Invariance == ASSUME Serial PROVE Spec => []IInv
  BY InitHolds, StepKeeps, PTL DEF Spec

\* A refcount is the number of nodes that name the blob, up to one reference for
\* each stop and each index write that failed (insert_inner, insert_blob,
\* delete, inc_ref, dec_ref).
THEOREM RefcountsWithinFaults == ASSUME Serial PROVE Spec => []RefcountWithinFaults
<1>1. IInv => RefcountWithinFaults
  <2> SUFFICES ASSUME IInv, Quiet, NEW b \in Blobs
               PROVE  (IF meta[b] = Untracked THEN 0 ELSE meta[b]) - References(b) \in -faults .. faults
    BY DEF RefcountWithinFaults
  <2>1. Extra(b) = 0
    BY DEF Extra, Ahead, Behind, Decs, Quiet
  <2>2. Refs(b) - References(b) - Extra(b) \in -faults .. faults
    BY DEF IInv, Account
  <2>3. Refs(b) = (IF meta[b] = Untracked THEN 0 ELSE meta[b]) /\ Refs(b) \in Int
    BY DEF Refs, Tracked, IInv, TypeOK
  <2> QED
    BY <2>1, <2>2, <2>3, ReferencesNat
<1> QED
  BY <1>1, Invariance, PTL

\* Without a fault the bytes of every blob a node names, and those put_stream
\* has just stored, can be read (put_stream, get_stream, gc).
THEOREM AlwaysReadable == ASSUME Serial PROVE Spec => []BytesReadable
<1>1. IInv => BytesReadable
  <2> SUFFICES ASSUME IInv PROVE BytesReadable
    OBVIOUS
  <2>1. TypeOK
    BY DEF IInv
  <2>2. ASSUME faults = 0, NEW n \in Nodes, nodes[n] \in Blobs
        PROVE  meta[nodes[n]] # Untracked /\ nodes[n] \in bytes
    <3> DEFINE b == nodes[n]
    <3>1. Tracked(b)
      BY <2>2 DEF IInv, Backed, NodesTracked
    <3>2. ASSUME NEW t \in Threads, At(t, "gc_meta"), thr[t].hash = b
          PROVE  FALSE
      <4>1. Position(t) /\ Fresh(t) /\ ~Passive(t)
        BY <3>2 DEF IInv, Passive
      <4>2. \A u \in Threads : u # t => Passive(u)
        BY <4>1 DEF IInv, Solo
      <4>3. Extra(b) = Own(t, b) /\ Own(t, b) = 0
        BY <3>2, <4>2, ExtraIsOwn DEF Own, Ahead, Behind, Decs
      <4>4. meta[b] = 0
        BY <3>2, <4>1 DEF Fresh
      <4>5. Refs(b) - References(b) - Extra(b) \in -faults .. faults
        BY <2>2 DEF IInv, Account
      <4>6. Refs(b) = 0
        BY <4>4 DEF Refs
      <4>7. References(b) > 0 /\ References(b) \in Nat
        BY ReferencesNat
      <4> QED
        BY <2>2, <4>3, <4>5, <4>6, <4>7
    <3>3. b \in bytes
      BY <2>2, <3>1, <3>2 DEF IInv, Backed, EntriesBacked
    <3> QED
      BY <3>1, <3>3 DEF Tracked
  <2>3. ASSUME faults = 0, NEW t \in Threads, thr[t].kind = "insert_blob", At(t, "lock")
        PROVE  thr[t].new \in bytes
    <3>1. Position(t) /\ ~Passive(t)
      BY <2>3 DEF IInv, Passive
    <3>2. \A u \in Threads : u # t => Passive(u)
      BY <3>1 DEF IInv, Solo
    <3>3. Tracked(thr[t].new) /\ thr[t].new \in Blobs
      BY <2>3, <3>1 DEF IInv, Backed, Entered, Position
    <3> QED
      BY <2>3, <3>2, <3>3, EntriesHaveBytes
  <2> QED
    BY <2>1, <2>2, <2>3 DEF BytesReadable, ReferencedReadable, PutIsReadable
<1> QED
  BY <1>1, Invariance, PTL

\* gc removes no bytes while the metadata counts a reference to them (gc).
THEOREM GcRemovesNothingCounted == ASSUME Serial PROVE Spec => GcRemovesOnlyGarbage
<1>1. IInv => \A t \in Threads, b \in Blobs : GcBytes(t, b) => meta[b] = 0
  BY DEF IInv, Fresh, GcBytes
<1>2. IInv /\ [Next]_vars
      => [\A t \in Threads, b \in Blobs : GcBytes(t, b) => meta[b] = 0]_vars
  BY <1>1
<1> QED
  BY <1>2, Invariance, PTL DEF Spec, GcRemovesOnlyGarbage

=============================================================================
