----------------------------- MODULE StoreReset -----------------------------
(***************************************************************************)
(* The recoverable reset transaction of one store root                     *)
(* (crates/mmdb/src/store_format.rs) and the lease under which stores are  *)
(* opened (MemoryDatabase::open, StateStore::open_path).                   *)
(*                                                                         *)
(* The parent directory of the root is the record fs: the root itself, one *)
(* quarantine path per old era, one staging path per new era, and one      *)
(* journal and one receipt path per plan digest.  A kill of the process    *)
(* leaves fs as it is.  A power loss takes the parent directory back to    *)
(* one of the states it had since it was last synced: crashable is the set *)
(* of those states (directory operations reach the disk in the order they  *)
(* were made, and any number of the latest may be missing).                *)
(*                                                                         *)
(* Everything but plan building happens under the exclusive lease, so the  *)
(* lease holder is one actor and pc is where it is; pc = "free" means that *)
(* nobody holds the lease.                                                 *)
(***************************************************************************)
EXTENDS Naturals, FiniteSets

CONSTANTS
  Eras,        \* StoreEraId values
  Plans,       \* reset plan digests
  Tokens,      \* writes the application makes in an open store
  None,        \* no era: an absent journal, receipt or plan
  Torn,        \* a journal file that was created but not completely written
  MaxCrashes,  \* bound on kills and power losses
  TornWrites   \* may a crash fall between creating a file and writing it?

ASSUME SentinelAssumption == None \notin Eras /\ Torn \notin Eras /\ None # Torn
ASSUME BoundAssumption == MaxCrashes \in Nat /\ TornWrites \in BOOLEAN

VARIABLES
  fs,          \* the parent directory, as the running system sees it
  crashable,   \* the states a power loss may leave on the disk
  pc,          \* position of the lease holder
  job,         \* what the lease holder is doing
  plans,       \* the plans built so far: what each of them expects to find
  expired,     \* the plans whose deadline has passed
  acked,       \* writes acknowledged to the application
  confirmed,   \* plans whose commit_reset returned a receipt
  used,        \* eras that have identified a store at the root
  crashes

vars == <<fs, crashable, pc, job, plans, expired, acked, confirmed, used, crashes>>

-----------------------------------------------------------------------------
(* The parent directory *)

\* A directory: its marker file and, once it is managed, its era and contents.
Dir == [marker: {"absent", "none", "torn", "ok"}, era: Eras \cup {None}, data: SUBSET Tokens]

NoDir == [marker |-> "absent", era |-> None, data |-> {}]

Unmarked(m) == [marker |-> m, era |-> None, data |-> {}]

\* A directory holding only the manifest of era e.
Fresh(e) == [marker |-> "ok", era |-> e, data |-> {}]

FS == [root: Dir,
       quarantine: [Eras -> Dir],
       staging: [Eras -> {"absent", "empty", "torn", "ready"}],
       journal: [Plans -> Eras \cup {None, Torn}],
       receipt: [Plans -> Eras \cup {None}]]

Plan == [era: Eras \cup {None}, data: SUBSET Tokens]

NoPlan == [era |-> None, data |-> {}]

Job == [kind: {"none", "open", "commit"}, plan: Plans \cup {None}, new: Eras \cup {None},
        then: {"quarantine", "install"}]

NoJob == [kind |-> "none", plan |-> None, new |-> None, then |-> "quarantine"]

PCs == {"free", "journal", "write_journal", "sync_journal", "drive", "staging",
        "sync_staging", "write_marker", "quarantine", "sync_quarantine", "install",
        "sync_install", "publish", "sync_receipt", "opening", "write_root_marker",
        "engine", "open"}

TypeOK ==
  /\ fs \in FS
  /\ crashable \subseteq FS
  /\ pc \in PCs
  /\ job \in Job
  /\ plans \in [Plans -> Plan]
  /\ expired \subseteq Plans
  /\ acked \subseteq Tokens
  /\ confirmed \subseteq Plans
  /\ used \subseteq Eras
  /\ crashes \in 0 .. MaxCrashes

\* sync_directory(parent): what the running system sees is on the disk.
SyncParent == crashable' = {fs} /\ UNCHANGED fs

\* A change of the parent directory that has not been synced.
ChangeParent(new) == fs' = new /\ crashable' = crashable \cup {new}

\* A change inside a subdirectory that is synced there: it survives in every
\* parent state that has the subdirectory.
ChangeInside(Has(_), Change(_)) ==
  /\ fs' = Change(fs)
  /\ crashable' = {IF Has(s) THEN Change(s) ELSE s : s \in crashable}

\* managed_era_if_present: absent, or managed with this era.
ManagedAs(dir, e) == dir.marker = "ok" /\ dir.era = e

\* find_active_reset: the journal files beside the root.
ActiveJournals(s) == {p \in Plans : s.journal[p] # None}

-----------------------------------------------------------------------------
Init ==
  /\ fs \in {[root |-> r,
              quarantine |-> [e \in Eras |-> NoDir],
              staging |-> [e \in Eras |-> "absent"],
              journal |-> [p \in Plans |-> None],
              receipt |-> [p \in Plans |-> None]] :
                r \in {NoDir} \cup {Fresh(e) : e \in Eras}}
  /\ crashable = {fs}
  /\ pc = "free"
  /\ job = NoJob
  /\ plans = [p \in Plans |-> NoPlan]
  /\ expired = {}
  /\ acked = {}
  /\ confirmed = {}
  /\ used = {fs.root.era} \ {None}
  /\ crashes = 0

-----------------------------------------------------------------------------
(* Planning, without the lease *)

\* ResetPlan::build: a managed root is snapshotted; the store may be open.
BuildPlan(p) ==
  /\ plans[p] = NoPlan
  /\ fs.root.marker = "ok"
  /\ plans' = [plans EXCEPT ![p] = [era |-> fs.root.era, data |-> fs.root.data]]
  /\ UNCHANGED <<fs, crashable, pc, job, expired, acked, confirmed, used, crashes>>

\* The deadline of a plan passes.
ExpirePlan(p) ==
  /\ plans[p] # NoPlan
  /\ p \notin expired
  /\ expired' = expired \cup {p}
  /\ UNCHANGED <<fs, crashable, pc, job, plans, acked, confirmed, used, crashes>>

-----------------------------------------------------------------------------
(* commit_reset, up to the published intent *)

CommitJob(p, e) == [kind |-> "commit", plan |-> p, new |-> e, then |-> "quarantine"]

\* commit_reset_with_inputs when the receipt of this very reset exists: only
\* the final sync of the parent is left.
ReplayReceipt(p, e) ==
  /\ fs.receipt[p] = e
  /\ fs.quarantine[plans[p].era].marker = "ok"
  /\ pc' = "sync_receipt"

\* Wrong: finishes whatever reset is under way as the one presented.
ResumeAnyCommit(p, e) ==
  /\ fs.receipt[p] = None
  /\ ActiveJournals(fs) # {}
  /\ pc' = "drive"

\* ... when the same reset is under way: finish it, without authorizing again.
ResumeCommit(p, e) ==
  /\ fs.receipt[p] = None
  /\ ActiveJournals(fs) = {p}
  /\ fs.journal[p] = e
  /\ pc' = "drive"

\* ... and the first time: validate the plan, require every destination absent.
AuthorizeCommit(p, e) ==
  /\ fs.receipt[p] = None
  /\ ActiveJournals(fs) = {}
  /\ p \notin expired
  /\ ManagedAs(fs.root, plans[p].era)
  /\ fs.root.data = plans[p].data
  /\ fs.quarantine[plans[p].era] = NoDir
  /\ fs.staging[e] = "absent"
  /\ pc' = "journal"

\* Every other case returns an error and gives the lease back.
BeginCommit(p, e) ==
  /\ pc = "free"
  /\ plans[p] # NoPlan
  /\ e # plans[p].era
  /\ ReplayReceipt(p, e) \/ ResumeCommit(p, e) \/ AuthorizeCommit(p, e)
  /\ job' = CommitJob(p, e)
  /\ UNCHANGED <<fs, crashable, plans, expired, acked, confirmed, used, crashes>>

\* write_reset_journal: create the file, write and sync it, sync the parent.
CreateJournal ==
  /\ pc = "journal"
  /\ ChangeParent([fs EXCEPT !.journal[job.plan] = Torn])
  /\ pc' = "write_journal"
  /\ UNCHANGED <<job, plans, expired, acked, confirmed, used, crashes>>

WriteJournal ==
  /\ pc = "write_journal"
  /\ LET written(s) == [s EXCEPT !.journal[job.plan] = job.new]
     IN  ChangeInside(LAMBDA s : s.journal[job.plan] = Torn, written)
  /\ pc' = "sync_journal"
  /\ UNCHANGED <<job, plans, expired, acked, confirmed, used, crashes>>

SyncJournal ==
  /\ pc = "sync_journal"
  /\ SyncParent
  /\ pc' = "drive"
  /\ UNCHANGED <<job, plans, expired, acked, confirmed, used, crashes>>

-----------------------------------------------------------------------------
(* drive_reset_transaction: shared by the commit, its retry and every open *)

OldEra == plans[job.plan].era

\* Wrong: does not know the layout between the two renames.
DriveArmNoInstall ==
  LET q == fs.quarantine[OldEra] IN
  CASE ManagedAs(fs.root, OldEra) /\ q = NoDir -> [pc |-> "staging", then |-> "quarantine"]
    [] ManagedAs(fs.root, job.new) /\ ManagedAs(q, OldEra) -> [pc |-> "publish", then |-> "install"]
    [] OTHER -> [pc |-> "free", then |-> "quarantine"]

\* The decision on what the root and the quarantine hold, and the error of the
\* last arm, which gives the lease back.
DriveArm ==
  LET q == fs.quarantine[OldEra] IN
  CASE ManagedAs(fs.root, OldEra) /\ q = NoDir /\ fs.root.data = plans[job.plan].data
         -> [pc |-> "staging", then |-> "quarantine"]
    [] fs.root = NoDir /\ ManagedAs(q, OldEra)
         -> [pc |-> "staging", then |-> "install"]
    [] ManagedAs(fs.root, job.new) /\ ManagedAs(q, OldEra)
         -> [pc |-> "publish", then |-> "install"]
    [] OTHER -> [pc |-> "free", then |-> "quarantine"]

Drive ==
  /\ pc = "drive"
  /\ pc' = DriveArm.pc
  /\ job' = IF pc' = "free" THEN NoJob ELSE [job EXCEPT !.then = DriveArm.then]
  /\ UNCHANGED <<fs, crashable, plans, expired, acked, confirmed, used, crashes>>

\* ensure_fresh_staging: create the directory and its manifest, or take over
\* what an interrupted reset left; a malformed manifest is an error.
MakeStaging ==
  /\ pc = "staging"
  /\ fs.staging[job.new] = "absent"
  /\ ChangeParent([fs EXCEPT !.staging[job.new] = "empty"])
  /\ pc' = "sync_staging"
  /\ UNCHANGED <<job, plans, expired, acked, confirmed, used, crashes>>

SyncStaging ==
  /\ pc = "sync_staging"
  /\ SyncParent
  /\ pc' = "staging"
  /\ UNCHANGED <<job, plans, expired, acked, confirmed, used, crashes>>

CreateStagingMarker ==
  /\ pc = "staging"
  /\ fs.staging[job.new] = "empty"
  /\ ChangeParent([fs EXCEPT !.staging[job.new] = "torn"])
  /\ pc' = "write_marker"
  /\ UNCHANGED <<job, plans, expired, acked, confirmed, used, crashes>>

\* StoreManifest::write_new syncs the file and the directory that holds it.
WriteStagingMarker ==
  /\ pc = "write_marker"
  /\ LET marked(s) == [s EXCEPT !.staging[job.new] = "ready"]
     IN  ChangeInside(LAMBDA s : s.staging[job.new] # "absent", marked)
  /\ pc' = job.then
  /\ UNCHANGED <<job, plans, expired, acked, confirmed, used, crashes>>

CheckStaging ==
  /\ pc = "staging"
  /\ \/ fs.staging[job.new] = "ready" /\ pc' = job.then /\ UNCHANGED job
     \/ fs.staging[job.new] = "torn" /\ pc' = "free" /\ job' = NoJob
  /\ UNCHANGED <<fs, crashable, plans, expired, acked, confirmed, used, crashes>>

\* rename(root, quarantine) and the sync of the parent.
QuarantineOldStore ==
  /\ pc = "quarantine"
  /\ ChangeParent([fs EXCEPT !.quarantine[OldEra] = fs.root, !.root = NoDir])
  /\ pc' = "sync_quarantine"
  /\ UNCHANGED <<job, plans, expired, acked, confirmed, used, crashes>>

SyncQuarantine ==
  /\ pc = "sync_quarantine"
  /\ SyncParent
  /\ pc' = "staging"
  /\ job' = [job EXCEPT !.then = "install"]
  /\ UNCHANGED <<plans, expired, acked, confirmed, used, crashes>>

\* rename(staging, root) and the sync of the parent.
InstallReplacement ==
  /\ pc = "install"
  /\ ChangeParent([fs EXCEPT !.root = Fresh(job.new), !.staging[job.new] = "absent"])
  /\ used' = used \cup {job.new}
  /\ pc' = "sync_install"
  /\ UNCHANGED <<job, plans, expired, acked, confirmed, crashes>>

SyncInstall ==
  /\ pc = "sync_install"
  /\ SyncParent
  /\ pc' = "publish"
  /\ UNCHANGED <<job, plans, expired, acked, confirmed, used, crashes>>

\* publish_reset_receipt, with validate_committed_layout before the rename.
CommittedLayout ==
  /\ ManagedAs(fs.root, job.new)
  /\ ManagedAs(fs.quarantine[OldEra], OldEra)
  /\ fs.staging[job.new] # "torn"
  /\ fs.receipt[job.plan] = None

PublishReceipt ==
  /\ pc = "publish"
  /\ \/ /\ CommittedLayout
        /\ ChangeParent([fs EXCEPT !.journal[job.plan] = None, !.receipt[job.plan] = job.new])
        /\ pc' = "sync_receipt"
        /\ UNCHANGED job
     \/ /\ ~CommittedLayout
        /\ pc' = "free"
        /\ job' = NoJob
        /\ UNCHANGED <<fs, crashable>>
  /\ UNCHANGED <<plans, expired, acked, confirmed, used, crashes>>

\* Wrong: returns without the final sync of the parent.
ReturnUnsynced ==
  /\ pc = "sync_receipt"
  /\ \/ /\ job.kind = "commit"
        /\ confirmed' = confirmed \cup {job.plan}
        /\ pc' = "free"
     \/ /\ job.kind = "open"
        /\ pc' = "opening"
        /\ UNCHANGED confirmed
  /\ job' = NoJob
  /\ UNCHANGED <<fs, crashable, plans, expired, acked, used, crashes>>

\* sync_final_parent; the commit returns its receipt, the open goes on.
SyncReceipt ==
  /\ pc = "sync_receipt"
  /\ SyncParent
  /\ \/ /\ job.kind = "commit"
        /\ confirmed' = confirmed \cup {job.plan}
        /\ pc' = "free"
     \/ /\ job.kind = "open"
        /\ pc' = "opening"
        /\ UNCHANGED confirmed
  /\ job' = NoJob
  /\ UNCHANGED <<plans, expired, acked, used, crashes>>

-----------------------------------------------------------------------------
(* Opening a store: StoreLease::acquire, then the root *)

\* Wrong: opens the root without looking for an unfinished reset.
OpenWithoutRecovery ==
  /\ pc = "free"
  /\ pc' = "opening"
  /\ UNCHANGED <<fs, crashable, job, plans, expired, acked, confirmed, used, crashes>>

\* acquire recovers an active reset first; a torn journal or several of them
\* are errors, which give the lease back.
BeginOpen ==
  /\ pc = "free"
  /\ \/ /\ ActiveJournals(fs) = {}
        /\ pc' = "opening"
        /\ UNCHANGED job
     \/ \E p \in Plans :
          /\ ActiveJournals(fs) = {p}
          /\ fs.journal[p] # Torn
          /\ pc' = "drive"
          /\ job' = [kind |-> "open", plan |-> p, new |-> fs.journal[p], then |-> "quarantine"]
  /\ UNCHANGED <<fs, crashable, plans, expired, acked, confirmed, used, crashes>>

\* An absent root is created; an empty one is initialized (StateStore only).
CreateRoot ==
  /\ pc = "opening"
  /\ fs.root.marker = "absent"
  /\ ChangeParent([fs EXCEPT !.root = Unmarked("none")])
  /\ UNCHANGED <<pc, job, plans, expired, acked, confirmed, used, crashes>>

CreateRootMarker ==
  /\ pc = "opening"
  /\ fs.root.marker = "none"
  /\ ChangeParent([fs EXCEPT !.root = Unmarked("torn")])
  /\ pc' = "write_root_marker"
  /\ UNCHANGED <<job, plans, expired, acked, confirmed, used, crashes>>

\* StoreManifest::write_new with StoreEraId::new(), an era nobody has used.
WriteRootMarker ==
  /\ pc = "write_root_marker"
  /\ \E e \in Eras \ used :
       /\ ChangeInside(LAMBDA s : s.root.marker # "absent",
                       LAMBDA s : [s EXCEPT !.root = Fresh(e)])
       /\ used' = used \cup {e}
  /\ pc' = "engine"
  /\ UNCHANGED <<job, plans, expired, acked, confirmed, crashes>>

\* require_managed_store; a malformed manifest gives the lease back.
RequireManaged ==
  /\ pc = "opening"
  /\ \/ fs.root.marker = "ok" /\ pc' = "engine"
     \/ fs.root.marker = "torn" /\ pc' = "free"
  /\ UNCHANGED <<fs, crashable, job, plans, expired, acked, confirmed, used, crashes>>

\* External: the storage engine opens its keyspace in the root and has the
\* root's own directory entry on the disk before it acknowledges a write; the
\* journal and the receipt beside the root are not the engine's to sync.
EngineOpen ==
  /\ pc = "engine"
  /\ crashable' = {s \in crashable : s.root = fs.root} \cup {fs}
  /\ pc' = "open"
  /\ UNCHANGED <<fs, job, plans, expired, acked, confirmed, used, crashes>>

\* A durable write in the open store.
Write(t) ==
  /\ pc = "open"
  /\ t \notin acked
  /\ ChangeInside(LAMBDA s : ManagedAs(s.root, fs.root.era),
                  LAMBDA s : [s EXCEPT !.root.data = @ \cup {t}])
  /\ acked' = acked \cup {t}
  /\ UNCHANGED <<pc, job, plans, expired, confirmed, used, crashes>>

\* Dropping the handle drops the lease.
Close ==
  /\ pc = "open"
  /\ pc' = "free"
  /\ UNCHANGED <<fs, crashable, job, plans, expired, acked, confirmed, used, crashes>>

-----------------------------------------------------------------------------
(* Crashes *)

MidFile == {"write_journal", "write_marker", "write_root_marker"}

CanCrash == crashes < MaxCrashes /\ (TornWrites \/ pc \notin MidFile)

\* The lease holder is killed, or one of its calls fails: the operating system
\* releases the lock, the files stay.
Kill ==
  /\ pc # "free"
  /\ CanCrash
  /\ pc' = "free"
  /\ job' = NoJob
  /\ crashes' = crashes + 1
  /\ UNCHANGED <<fs, crashable, plans, expired, acked, confirmed, used>>

\* The machine stops: unsynced operations on the parent directory may be gone.
HasTornFile(s) ==
  \/ \E p \in Plans : s.journal[p] = Torn
  \/ \E e \in Eras : s.staging[e] = "torn"
  \/ s.root.marker = "torn"

PowerLoss ==
  /\ CanCrash
  /\ \E s \in crashable :
       /\ TornWrites \/ ~HasTornFile(s)
       /\ fs' = s
       /\ crashable' = {s}
  /\ pc' = "free"
  /\ job' = NoJob
  /\ crashes' = crashes + 1
  /\ UNCHANGED <<plans, expired, acked, confirmed, used>>

-----------------------------------------------------------------------------
HolderStep ==
  \/ CreateJournal \/ WriteJournal \/ SyncJournal
  \/ Drive
  \/ MakeStaging \/ SyncStaging \/ CreateStagingMarker \/ WriteStagingMarker \/ CheckStaging
  \/ QuarantineOldStore \/ SyncQuarantine
  \/ InstallReplacement \/ SyncInstall
  \/ PublishReceipt \/ SyncReceipt
  \/ CreateRoot \/ CreateRootMarker \/ WriteRootMarker \/ RequireManaged \/ EngineOpen

Next ==
  \/ \E p \in Plans : BuildPlan(p) \/ ExpirePlan(p)
  \/ \E p \in Plans, e \in Eras : BeginCommit(p, e)
  \/ BeginOpen
  \/ HolderStep
  \/ \E t \in Tokens : Write(t)
  \/ Close
  \/ Kill
  \/ PowerLoss

Spec == Init /\ [][Next]_vars

\* A process that holds the lease runs on and drops its handle some day.  The
\* lease is a try_lock without a queue, so that some process finds it free when
\* it opens the store is strong fairness.
FairSpec == Spec /\ WF_vars(HolderStep) /\ WF_vars(Close) /\ SF_vars(BeginOpen)

-----------------------------------------------------------------------------
(* Properties *)

OnDisk == crashable \cup {fs}

Holds(s, t) == t \in s.root.data \/ \E e \in Eras : t \in s.quarantine[e].data

\* Reset never deletes the old store: every acknowledged write is in the root
\* or in a quarantine, now and in every state a power loss may leave.
AckedDataKept == \A s \in OnDisk : \A t \in acked : Holds(s, t)

\* StoreLease::acquire finishes an authorized reset before it hands the root to
\* opening code: an open store never coexists with an unfinished reset.
HandleExcludesReset == pc = "open" => ActiveJournals(fs) = {}

\* Once commit_reset returned its receipt, no power loss undoes the reset or
\* forgets the receipt.
ConfirmedResetIsDurable ==
  \A p \in confirmed : \A s \in OnDisk :
    /\ s.receipt[p] # None
    /\ ManagedAs(s.quarantine[plans[p].era], plans[p].era)

\* commit_reset and recovery lose nothing: acknowledged writes stay in the root or
\* a quarantine, and a confirmed reset stays done, after any power loss.
ResetKeepsData == AckedDataKept /\ ConfirmedResetIsDurable

\* What a receipt's quarantine holds is exactly the store the user saw in the
\* plan and confirmed by its digest: no later write was carried off with it.
QuarantineAsPlanned ==
  \A p \in Plans : fs.receipt[p] # None =>
    /\ ManagedAs(fs.quarantine[plans[p].era], plans[p].era)
    /\ fs.quarantine[plans[p].era].data = plans[p].data

\* find_active_reset never meets two journals (MultipleActiveResetJournals).
SingleIntent == Cardinality(ActiveJournals(fs)) <= 1

\* The lease and the journal keep resets apart: one intent at a time, and none
\* beside an open store.
ResetExclusive == TypeOK /\ HandleExcludesReset /\ SingleIntent

\* A published intent is finished by a retry or by a later open, unless a
\* crash fell into the writing of a file.
ResetCompletes ==
  (\E p \in Plans : fs.journal[p] \in Eras) ~> (ActiveJournals(fs) = {} \/ HasTornFile(fs))

\* "keeps a durable receipt so an interrupted caller or later store open can
\* finish the same transaction": whenever the lease is free, a journal beside
\* the root is readable and its staging manifest is not malformed, so that a
\* retry or an open can drive it on.
InterruptedResetIsResumable ==
  pc = "free" => \A p \in ActiveJournals(fs) :
                   fs.journal[p] # Torn /\ fs.staging[fs.journal[p]] # "torn"
=============================================================================
