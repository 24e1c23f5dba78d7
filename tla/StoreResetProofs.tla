-------------------------- MODULE StoreResetProofs --------------------------
(***************************************************************************)
(* Proofs about StoreReset, for every set of eras, plans and writes and    *)
(* for any number of crashes.                                              *)
(*                                                                         *)
(* What the properties say of the parent directory they must say of every  *)
(* state a power loss may leave, so the inductive invariant is about all   *)
(* of crashable: Sound is what each of those states satisfies by itself,   *)
(* JobSound what the lease holder knows of the one it works on.            *)
(***************************************************************************)
EXTENDS StoreReset, FiniteSetTheorems, TLAPS

\* The quarantine of a plan's old era holds what the plan saw.
AsPlanned(s, p) ==
  /\ ManagedAs(s.quarantine[plans[p].era], plans[p].era)
  /\ s.quarantine[plans[p].era].data = plans[p].data

OneJournal(s) == \A p, q \in Plans : s.journal[p] # None /\ s.journal[q] # None => p = q

\* A journal or a receipt belongs to a plan that was built.  While the reset is
\* under way its quarantine is free or holds the planned store; once there is a
\* receipt it holds it.
PlansKept(s) ==
  /\ \A p \in Plans : s.journal[p] # None =>
       plans[p] # NoPlan /\ (s.quarantine[plans[p].era] = NoDir \/ AsPlanned(s, p))
  /\ \A p \in Plans : s.receipt[p] # None => plans[p] # NoPlan /\ AsPlanned(s, p)

\* Only a managed root has contents.
RootSound(s) ==
  /\ s.root.marker = "ok" => s.root.era \in Eras
  /\ s.root.marker # "ok" => s.root.data = {}

PromisesKept(s) ==
  /\ \A t \in acked : Holds(s, t)
  /\ \A p \in confirmed : s.receipt[p] # None

Sound(s) == OneJournal(s) /\ PlansKept(s) /\ RootSound(s) /\ PromisesKept(s)

-----------------------------------------------------------------------------
\* The positions of an open, and those at which a reset has its journal.
Opening == {"opening", "write_root_marker", "engine", "open"}

Driving == {"sync_journal", "drive", "staging", "sync_staging", "write_marker", "quarantine",
            "sync_quarantine", "install", "sync_install", "publish"}

\* On the way to one of the two renames.
Headed(to) ==
  pc = to \/ (pc \in {"staging", "sync_staging", "write_marker"} /\ job.then = to)

NoReset == ActiveJournals(fs) = {}

\* What a reset knows of its plan, its journal and its receipt.
ResetJob ==
  /\ pc \notin Opening \cup {"free"} =>
       /\ job.kind \in {"open", "commit"}
       /\ job.plan \in Plans /\ plans[job.plan] # NoPlan /\ job.new \in Eras
  /\ pc = "journal" => NoReset /\ fs.quarantine[OldEra] = NoDir
  /\ pc = "write_journal" => fs.journal[job.plan] = Torn
  /\ pc \in Driving => fs.journal[job.plan] = job.new
  /\ pc = "write_marker" => fs.staging[job.new] = "torn"
  /\ pc = "sync_receipt" => fs.receipt[job.plan] # None /\ (job.kind = "open" => NoReset)

\* What it knows of the root before a rename.
RenameJob ==
  /\ Headed("quarantine") =>
       /\ ManagedAs(fs.root, OldEra) /\ fs.root.data = plans[job.plan].data
       /\ fs.quarantine[OldEra] = NoDir
  /\ Headed("install") \/ pc = "sync_quarantine" => fs.root = NoDir

\* What an open knows.
OpenJob ==
  /\ pc \in Opening => NoReset
  /\ pc = "write_root_marker" => fs.root.marker = "torn"
  /\ pc \in {"engine", "open"} => fs.root.marker = "ok"
  /\ pc = "open" => \A s \in crashable : ManagedAs(s.root, fs.root.era)

JobSound == ResetJob /\ RenameJob /\ OpenJob

\* Without a reset under way, a root that is gone was never there: no power loss
\* brings a managed root back under an open that creates one.
GoneForGood ==
  fs.root.marker # "ok" /\ NoReset => \A s \in crashable : s.root.marker # "ok"

IInv ==
  /\ TypeOK
  /\ fs \in crashable
  /\ \A p \in Plans : plans[p] # NoPlan => plans[p].era \in Eras
  /\ \A s \in crashable : Sound(s)
  /\ JobSound
  /\ GoneForGood

USE SentinelAssumption, BoundAssumption

-----------------------------------------------------------------------------
(* Directories *)

LEMMA FSFields ==
  ASSUME NEW s \in FS
  PROVE  /\ s.root \in Dir
         /\ s.quarantine \in [Eras -> Dir]
         /\ s.staging \in [Eras -> {"absent", "empty", "torn", "ready"}]
         /\ s.journal \in [Plans -> Eras \cup {None, Torn}]
         /\ s.receipt \in [Plans -> Eras \cup {None}]
  BY DEF FS

LEMMA Dirs == NoDir \in Dir /\ (\A e \in Eras : Fresh(e) \in Dir)
              /\ (\A m \in {"none", "torn"} : Unmarked(m) \in Dir)
  BY DEF NoDir, Fresh, Unmarked, Dir

-----------------------------------------------------------------------------
LEMMA InitIInv == Init => IInv
<1> SUFFICES ASSUME Init PROVE IInv
  OBVIOUS
<1>1. PICK r \in {NoDir} \cup {Fresh(e) : e \in Eras} :
        fs = [root |-> r,
              quarantine |-> [e \in Eras |-> NoDir],
              staging |-> [e \in Eras |-> "absent"],
              journal |-> [p \in Plans |-> None],
              receipt |-> [p \in Plans |-> None]]
  BY DEF Init
<1>2. r \in Dir /\ (r.marker = "ok" => r.era \in Eras) /\ (r.marker # "ok" => r.data = {})
      /\ r.era \in Eras \cup {None}
  <2>1. CASE r = NoDir
    BY <2>1, Dirs DEF NoDir
  <2>2. ASSUME NEW e \in Eras, r = Fresh(e)
        PROVE  r \in Dir /\ r.marker = "ok" /\ r.era \in Eras
    BY <2>2, Dirs DEF Fresh
  <2>. QED
    BY <1>1, <2>1, <2>2
<1>3. fs \in FS
  BY <1>1, <1>2, Dirs DEF FS
<1>4. TypeOK
  <2>1. NoJob \in Job /\ NoPlan \in Plan
    BY DEF NoJob, Job, NoPlan, Plan
  <2>2. used \subseteq Eras
    BY <1>1, <1>2 DEF Init
  <2>. QED
    BY <1>3, <2>1, <2>2 DEF Init, TypeOK, PCs
<1>5. Sound(fs)
  BY <1>1, <1>2 DEF Init, Sound, OneJournal, PlansKept, RootSound, PromisesKept
<1>6. JobSound
  BY DEF Init, JobSound, ResetJob, RenameJob, OpenJob, Headed, Opening, Driving
<1>7. GoneForGood
  BY DEF Init, GoneForGood
<1>. QED
  BY <1>4, <1>5, <1>6, <1>7 DEF Init, IInv

-----------------------------------------------------------------------------
(* Steps that leave the parent directory alone *)

LEMMA SoundFrame ==
  ASSUME UNCHANGED <<plans, acked, confirmed>>
  PROVE  \A s : Sound(s)' <=> Sound(s)
  BY DEF Sound, OneJournal, PlansKept, RootSound, PromisesKept, AsPlanned, Holds

\* If only the position and the job change, JobSound is all there is to show.
LEMMA MoveIInv ==
  ASSUME IInv, UNCHANGED <<fs, crashable, plans, acked, confirmed, used>>,
         pc' \in PCs, job' \in Job, expired' \subseteq Plans, crashes' \in 0 .. MaxCrashes,
         JobSound'
  PROVE  IInv'
<1>1. TypeOK'
  BY DEF IInv, TypeOK
<1>2. GoneForGood'
  BY DEF IInv, GoneForGood, NoReset, ActiveJournals
<1>. QED
  BY <1>1, <1>2, SoundFrame DEF IInv

LEMMA BuildPlanIInv ==
  ASSUME IInv, NEW p \in Plans, BuildPlan(p)
  PROVE  IInv'
<1> DEFINE new == [era |-> fs.root.era, data |-> fs.root.data]
<1>1. UNCHANGED <<fs, crashable, pc, job, expired, acked, confirmed, used, crashes>>
      /\ plans' = [plans EXCEPT ![p] = new] /\ plans[p] = NoPlan
  BY DEF BuildPlan
<1>2. fs \in FS /\ Sound(fs) /\ fs.root.marker = "ok" /\ plans \in [Plans -> Plan]
  BY DEF IInv, TypeOK, BuildPlan
<1>3. new \in Plan /\ new.era \in Eras
  BY <1>2, FSFields DEF Plan, Dir, Sound, RootSound
<1>4. TypeOK'
  BY <1>1, <1>2, <1>3 DEF IInv, TypeOK
<1>5. \A q \in Plans : plans[q] # NoPlan => plans'[q] = plans[q]
  BY <1>1, <1>2
<1>6. ASSUME NEW s \in crashable PROVE Sound(s)'
  <2>1. Sound(s)
    BY DEF IInv
  <2>2. \A q \in Plans : s.journal[q] # None \/ s.receipt[q] # None => plans'[q] = plans[q]
    BY <2>1, <1>5 DEF Sound, PlansKept
  <2>3. PlansKept(s)'
    BY <2>1, <2>2 DEF Sound, PlansKept, AsPlanned
  <2>. QED
    BY <1>1, <2>1, <2>3 DEF Sound, OneJournal, RootSound, PromisesKept, Holds
<1>7. JobSound'
  <2>1. pc \notin Opening \cup {"free"} => plans'[job.plan] = plans[job.plan]
    BY <1>5 DEF IInv, JobSound, ResetJob
  <2>2. ResetJob'
    BY <1>1, <2>1 DEF IInv, JobSound, ResetJob, NoReset, ActiveJournals, OldEra, Opening, Driving
  <2>3. RenameJob'
    BY <1>1, <2>1 DEF IInv, JobSound, RenameJob, Headed, OldEra, Opening
  <2>4. OpenJob'
    BY <1>1 DEF IInv, JobSound, OpenJob, NoReset, ActiveJournals
  <2>. QED
    BY <2>2, <2>3, <2>4 DEF JobSound
<1>8. GoneForGood'
  BY <1>1 DEF IInv, GoneForGood, NoReset, ActiveJournals
<1>9. \A q \in Plans : plans'[q] # NoPlan => plans'[q].era \in Eras
  BY <1>1, <1>2, <1>3 DEF IInv
<1>. QED
  BY <1>1, <1>4, <1>6, <1>7, <1>8, <1>9 DEF IInv

LEMMA ExpirePlanIInv ==
  ASSUME IInv, NEW p \in Plans, ExpirePlan(p)
  PROVE  IInv'
<1>1. UNCHANGED <<fs, crashable, pc, job, plans, acked, confirmed, used, crashes>>
      /\ expired' = expired \cup {p}
  BY DEF ExpirePlan
<1>2. JobSound'
  BY <1>1 DEF IInv, JobSound, ResetJob, RenameJob, OpenJob, Headed, NoReset, ActiveJournals, OldEra
<1>. QED
  BY <1>1, <1>2, MoveIInv DEF IInv, TypeOK

\* Giving the lease back, whatever the reason.
LEMMA FreeIInv ==
  ASSUME IInv, UNCHANGED <<fs, crashable, plans, expired, acked, confirmed, used>>,
         pc' = "free", job' \in Job, crashes' \in 0 .. MaxCrashes
  PROVE  IInv'
<1>1. JobSound'
  BY DEF JobSound, ResetJob, RenameJob, OpenJob, Headed, Opening, Driving
<1>. QED
  BY <1>1, MoveIInv DEF IInv, TypeOK, PCs

LEMMA BeginCommitIInv ==
  ASSUME IInv, NEW p \in Plans, NEW e \in Eras, BeginCommit(p, e)
  PROVE  IInv'
<1>1. /\ UNCHANGED <<fs, crashable, plans, expired, acked, confirmed, used, crashes>>
      /\ job' = CommitJob(p, e) /\ plans[p] # NoPlan
  BY DEF BeginCommit
<1>2. job' \in Job /\ job'.kind = "commit" /\ job'.plan = p /\ job'.new = e
  BY <1>1 DEF CommitJob, Job
<1>3. JobSound' /\ pc' \in PCs
  <2>1. CASE ReplayReceipt(p, e)
    BY <1>1, <1>2, <2>1 DEF ReplayReceipt, JobSound, ResetJob, RenameJob, OpenJob, Headed,
                            Opening, Driving, PCs
  <2>2. CASE ResumeCommit(p, e)
    BY <1>1, <1>2, <2>2 DEF ResumeCommit, JobSound, ResetJob, RenameJob, OpenJob, Headed,
                            Opening, Driving, PCs
  <2>3. CASE AuthorizeCommit(p, e)
    BY <1>1, <1>2, <2>3 DEF AuthorizeCommit, JobSound, ResetJob, RenameJob, OpenJob, Headed,
                            Opening, Driving, PCs, NoReset, ActiveJournals, OldEra
  <2>. QED
    BY <2>1, <2>2, <2>3 DEF BeginCommit
<1>. QED
  BY <1>1, <1>2, <1>3, MoveIInv DEF IInv, TypeOK

LEMMA BeginOpenIInv ==
  ASSUME IInv, BeginOpen
  PROVE  IInv'
<1>1. UNCHANGED <<fs, crashable, plans, expired, acked, confirmed, used, crashes>>
  BY DEF BeginOpen
<1>2. CASE ActiveJournals(fs) = {} /\ pc' = "opening" /\ UNCHANGED job
  <2>1. JobSound' /\ pc' \in PCs
    BY <1>1, <1>2 DEF JobSound, ResetJob, RenameJob, OpenJob, Headed, Opening, Driving, PCs,
                      NoReset, ActiveJournals
  <2>. QED
    BY <1>1, <1>2, <2>1, MoveIInv DEF IInv, TypeOK
<1>3. CASE ~(ActiveJournals(fs) = {} /\ pc' = "opening" /\ UNCHANGED job)
  <2>1. PICK p \in Plans :
          /\ ActiveJournals(fs) = {p} /\ fs.journal[p] # Torn /\ pc' = "drive"
          /\ job' = [kind |-> "open", plan |-> p, new |-> fs.journal[p], then |-> "quarantine"]
    BY <1>3 DEF BeginOpen
  <2>2. fs.journal[p] \in Eras
    BY <2>1, FSFields DEF ActiveJournals, IInv, TypeOK
  <2>3. plans[p] # NoPlan
    BY <2>1, <2>2 DEF IInv, Sound, PlansKept
  <2>4. job' \in Job /\ job'.kind = "open" /\ job'.plan = p /\ job'.new = fs.journal[p]
    BY <2>1, <2>2 DEF Job
  <2>5. JobSound' /\ pc' \in PCs
    BY <1>1, <2>1, <2>2, <2>3, <2>4
       DEF JobSound, ResetJob, RenameJob, OpenJob, Headed, Opening, Driving, PCs
  <2>. QED
    BY <1>1, <2>4, <2>5, MoveIInv DEF IInv, TypeOK
<1>. QED
  BY <1>2, <1>3

\* The arms of the decision lead to the state of the root that they looked at.
LEMMA DriveIInv ==
  ASSUME IInv, Drive
  PROVE  IInv'
<1>1. UNCHANGED <<fs, crashable, plans, expired, acked, confirmed, used, crashes>>
      /\ pc = "drive" /\ pc' = DriveArm.pc
      /\ job' = IF pc' = "free" THEN NoJob ELSE [job EXCEPT !.then = DriveArm.then]
  BY DEF Drive
<1>2. job \in Job /\ NoJob \in Job
  BY DEF IInv, TypeOK, NoJob, Job
<1>3. CASE pc' = "free"
  BY <1>1, <1>2, <1>3, FreeIInv DEF IInv, TypeOK
<1>4. CASE pc' # "free"
  <2>1. \/ /\ pc' = "staging" /\ DriveArm.then = "quarantine"
           /\ ManagedAs(fs.root, OldEra) /\ fs.quarantine[OldEra] = NoDir
           /\ fs.root.data = plans[job.plan].data
        \/ pc' = "staging" /\ DriveArm.then = "install" /\ fs.root = NoDir
        \/ pc' = "publish" /\ DriveArm.then = "install"
    BY <1>1, <1>4 DEF DriveArm
  <2>2. DriveArm.then \in {"quarantine", "install"} /\ pc' \in {"staging", "publish"}
    BY <2>1
  <2>3. /\ job' \in Job /\ job'.kind = job.kind /\ job'.plan = job.plan /\ job'.new = job.new
        /\ job'.then = DriveArm.then
    BY <1>1, <1>2, <1>4, <2>2 DEF Job
  <2>4. /\ job.kind \in {"open", "commit"} /\ job.plan \in Plans /\ plans[job.plan] # NoPlan
        /\ job.new \in Eras /\ fs.journal[job.plan] = job.new
    BY <1>1 DEF IInv, JobSound, ResetJob, Opening, Driving
  <2>5. ResetJob' /\ OpenJob' /\ pc' \in PCs
    BY <1>1, <2>2, <2>3, <2>4 DEF ResetJob, OpenJob, Opening, Driving, PCs
  <2>6. RenameJob'
    BY <1>1, <2>1, <2>3 DEF RenameJob, Headed, OldEra
  <2>. QED
    BY <1>1, <2>3, <2>5, <2>6, MoveIInv DEF JobSound, IInv, TypeOK
<1>. QED
  BY <1>3, <1>4

LEMMA CheckStagingIInv ==
  ASSUME IInv, CheckStaging
  PROVE  IInv'
<1>1. UNCHANGED <<fs, crashable, plans, expired, acked, confirmed, used, crashes>>
      /\ pc = "staging"
  BY DEF CheckStaging
<1>2. CASE pc' = "free" /\ job' = NoJob
  <2>1. NoJob \in Job
    BY DEF NoJob, Job
  <2>. QED
    BY <1>1, <1>2, <2>1, FreeIInv DEF IInv, TypeOK
<1>3. CASE pc' = job.then /\ UNCHANGED job
  <2>1. job.then \in {"quarantine", "install"}
    BY DEF IInv, TypeOK, Job
  <2>2. ResetJob' /\ OpenJob' /\ pc' \in PCs
    BY <1>1, <1>3, <2>1 DEF IInv, JobSound, ResetJob, OpenJob, Opening, Driving, PCs
  <2>3. RenameJob'
    BY <1>1, <1>3, <2>1 DEF IInv, JobSound, RenameJob, Headed, OldEra
  <2>. QED
    BY <1>1, <1>3, <2>2, <2>3, MoveIInv DEF JobSound, IInv, TypeOK
<1>. QED
  BY <1>2, <1>3 DEF CheckStaging

LEMMA RequireManagedIInv ==
  ASSUME IInv, RequireManaged
  PROVE  IInv'
<1>1. UNCHANGED <<fs, crashable, job, plans, expired, acked, confirmed, used, crashes>>
      /\ pc = "opening"
  BY DEF RequireManaged
<1>2. CASE pc' = "free"
  BY <1>1, <1>2, FreeIInv DEF IInv, TypeOK
<1>3. CASE pc' # "free"
  <2>1. fs.root.marker = "ok" /\ pc' = "engine"
    BY <1>3 DEF RequireManaged
  <2>2. JobSound' /\ pc' \in PCs
    BY <1>1, <2>1 DEF IInv, JobSound, ResetJob, RenameJob, OpenJob, Headed, Opening, Driving,
                      NoReset, ActiveJournals, PCs
  <2>. QED
    BY <1>1, <2>2, MoveIInv DEF IInv, TypeOK
<1>. QED
  BY <1>2, <1>3

LEMMA CloseKillIInv ==
  ASSUME IInv, Close \/ Kill
  PROVE  IInv'
<1>1. UNCHANGED <<fs, crashable, plans, expired, acked, confirmed, used>> /\ pc' = "free"
  BY DEF Close, Kill
<1>2. job' \in Job /\ crashes' \in 0 .. MaxCrashes
  BY DEF Close, Kill, CanCrash, IInv, TypeOK, NoJob, Job
<1>. QED
  BY <1>1, <1>2, FreeIInv

-----------------------------------------------------------------------------
(* Syncs of the parent directory *)

\* After a sync only what the running system sees can be found.
LEMMA SyncIInv ==
  ASSUME IInv, SyncParent, UNCHANGED <<plans, expired, acked, used, crashes>>,
         pc' \in PCs, job' \in Job, JobSound',
         confirmed' \subseteq Plans, \A p \in confirmed' : fs.receipt[p] # None
  PROVE  IInv'
<1>1. fs' = fs /\ crashable' = {fs}
  BY DEF SyncParent
<1>2. TypeOK' /\ GoneForGood'
  BY <1>1 DEF IInv, TypeOK, GoneForGood
<1>3. Sound(fs)
  BY DEF IInv
<1>4. OneJournal(fs)' /\ PlansKept(fs)' /\ RootSound(fs)' /\ PromisesKept(fs)'
  BY <1>1, <1>3 DEF Sound, OneJournal, PlansKept, RootSound, PromisesKept, AsPlanned, Holds
<1>5. \A s \in crashable' : Sound(s)'
  <2>1. Sound(fs)'
    BY <1>4 DEF Sound
  <2>. QED
    BY <1>1, <2>1
<1>. QED
  BY <1>1, <1>2, <1>5 DEF IInv

\* The syncs inside the transaction, which change nothing else.
LEMMA DriveSyncIInv ==
  ASSUME IInv, SyncJournal \/ SyncStaging \/ SyncQuarantine \/ SyncInstall
  PROVE  IInv'
<1>1. /\ SyncParent /\ UNCHANGED <<plans, expired, acked, confirmed, used, crashes>>
      /\ fs' = fs
  BY DEF SyncJournal, SyncStaging, SyncQuarantine, SyncInstall, SyncParent
<1>2. \A p \in confirmed' : fs.receipt[p] # None
  BY <1>1 DEF IInv, Sound, PromisesKept
<1>3. pc \in Driving /\ pc' \in Driving \ {"write_marker"} /\ job' \in Job /\ job'.kind = job.kind
      /\ job'.plan = job.plan /\ job'.new = job.new
  BY DEF SyncJournal, SyncStaging, SyncQuarantine, SyncInstall, Driving, IInv, TypeOK, Job
<1>4. ResetJob' /\ OpenJob' /\ pc' \in PCs
  BY <1>1, <1>3 DEF IInv, JobSound, ResetJob, OpenJob, Opening, Driving, PCs
<1>5. RenameJob'
  <2>1. CASE SyncJournal \/ SyncInstall
    BY <2>1 DEF SyncJournal, SyncInstall, RenameJob, Headed
  <2>2. CASE SyncStaging
    BY <1>1, <2>2 DEF SyncStaging, IInv, JobSound, RenameJob, Headed, OldEra
  <2>3. CASE SyncQuarantine
    <3>1. job'.then = "install" /\ pc' = "staging" /\ fs.root = NoDir
      BY <2>3 DEF SyncQuarantine, IInv, TypeOK, Job, JobSound, RenameJob
    <3>. QED
      BY <1>1, <3>1 DEF RenameJob, Headed
  <2>. QED
    BY <2>1, <2>2, <2>3
<1>6. confirmed' \subseteq Plans
  BY <1>1 DEF IInv, TypeOK
<1>. QED
  BY <1>1, <1>2, <1>3, <1>4, <1>5, <1>6, SyncIInv DEF JobSound

LEMMA SyncReceiptIInv ==
  ASSUME IInv, SyncReceipt
  PROVE  IInv'
<1>1. /\ SyncParent /\ UNCHANGED <<plans, expired, acked, used, crashes>> /\ fs' = fs
      /\ pc = "sync_receipt" /\ job' = NoJob
  BY DEF SyncReceipt, SyncParent
<1>2. /\ job.plan \in Plans /\ fs.receipt[job.plan] # None
      /\ job.kind = "open" => NoReset
  BY <1>1 DEF IInv, JobSound, ResetJob, Opening
<1>3. confirmed' \subseteq confirmed \cup {job.plan}
  BY DEF SyncReceipt
<1>4. confirmed' \subseteq Plans /\ \A p \in confirmed' : fs.receipt[p] # None
  BY <1>2, <1>3 DEF IInv, TypeOK, Sound, PromisesKept
<1>5. pc' = "free" \/ (pc' = "opening" /\ NoReset)
  BY <1>2 DEF SyncReceipt
<1>6. JobSound' /\ pc' \in PCs
  BY <1>1, <1>5 DEF JobSound, ResetJob, RenameJob, OpenJob, Headed, Opening, Driving, PCs,
                    NoReset, ActiveJournals
<1>7. job' \in Job
  BY <1>1 DEF NoJob, Job
<1>. QED
  BY <1>1, <1>4, <1>6, <1>7, SyncIInv

-----------------------------------------------------------------------------
(* Changes of the parent directory that are not synced *)

\* The states that were possible stay so, and the new one joins them.
LEMMA ParentIInv ==
  ASSUME IInv, NEW t \in FS, ChangeParent(t), Sound(t), JobSound', GoneForGood',
         UNCHANGED <<plans, expired, acked, confirmed, crashes>>,
         pc' \in PCs, job' \in Job, used' \subseteq Eras
  PROVE  IInv'
<1>1. fs' = t /\ crashable' = crashable \cup {t}
  BY DEF ChangeParent
<1>2. TypeOK'
  BY <1>1 DEF IInv, TypeOK
<1>3. \A s \in crashable' : Sound(s)'
  BY <1>1, SoundFrame DEF IInv
<1>. QED
  BY <1>1, <1>2, <1>3 DEF IInv

\* A change that keeps the root, or leaves a managed one, brings no root back.
LEMMA GoneFrame ==
  ASSUME IInv, NEW t, ChangeParent(t),
         t.root.marker = "ok" \/ (t.root = fs.root /\ t.journal = fs.journal)
           \/ \E p \in Plans : t.journal[p] # None
  PROVE  GoneForGood'
  BY DEF ChangeParent, IInv, GoneForGood, NoReset, ActiveJournals

\* A directory state without the root, the quarantine, the journals and the
\* receipts changed is as sound as before.
LEMMA SoundSame ==
  ASSUME NEW s, NEW t, Sound(s), t.root = s.root, t.quarantine = s.quarantine,
         t.journal = s.journal, t.receipt = s.receipt
  PROVE  Sound(t)
  BY DEF Sound, OneJournal, PlansKept, RootSound, PromisesKept, AsPlanned, Holds

LEMMA CreateJournalIInv ==
  ASSUME IInv, CreateJournal
  PROVE  IInv'
<1> DEFINE t == [fs EXCEPT !.journal[job.plan] = Torn]
<1>1. /\ ChangeParent(t) /\ pc = "journal" /\ pc' = "write_journal"
      /\ UNCHANGED <<job, plans, expired, acked, confirmed, used, crashes>>
  BY DEF CreateJournal
<1>2. /\ fs \in FS /\ job \in Job /\ Sound(fs)
      /\ job.kind \in {"open", "commit"} /\ job.plan \in Plans /\ plans[job.plan] # NoPlan
      /\ job.new \in Eras
      /\ NoReset /\ fs.quarantine[OldEra] = NoDir
  BY <1>1 DEF IInv, TypeOK, JobSound, ResetJob, Opening
<1>3. /\ t \in FS
      /\ t.root = fs.root /\ t.quarantine = fs.quarantine /\ t.receipt = fs.receipt
      /\ t.journal = [fs.journal EXCEPT ![job.plan] = Torn]
  BY <1>2 DEF FS
<1>4. t.journal[job.plan] = Torn /\ \A p \in Plans : t.journal[p] # None => p = job.plan
  BY <1>2, <1>3, FSFields DEF NoReset, ActiveJournals
<1> HIDE DEF t
<1>5. Sound(t)
  BY <1>2, <1>3, <1>4 DEF Sound, OneJournal, PlansKept, RootSound, PromisesKept, AsPlanned,
                          Holds, OldEra
<1>6. JobSound' /\ pc' \in PCs
  BY <1>1, <1>2, <1>4 DEF ChangeParent, JobSound, ResetJob, RenameJob, OpenJob, Headed, Opening,
                          Driving, PCs
<1>7. GoneForGood'
  BY <1>1, <1>2, <1>4, GoneFrame
<1>. QED
  BY <1>1, <1>2, <1>3, <1>5, <1>6, <1>7, ParentIInv DEF IInv, TypeOK

LEMMA StagingIInv ==
  ASSUME IInv, MakeStaging \/ CreateStagingMarker
  PROVE  IInv'
<1>1. PICK v \in {"absent", "empty", "torn", "ready"} :
        /\ ChangeParent([fs EXCEPT !.staging[job.new] = v])
        /\ pc' = "sync_staging" \/ (pc' = "write_marker" /\ v = "torn")
  BY DEF MakeStaging, CreateStagingMarker
<1> DEFINE t == [fs EXCEPT !.staging[job.new] = v]
<1>2. /\ pc = "staging"
      /\ UNCHANGED <<job, plans, expired, acked, confirmed, used, crashes>>
  BY DEF MakeStaging, CreateStagingMarker
<1>3. /\ t \in FS
      /\ t.root = fs.root /\ t.quarantine = fs.quarantine /\ t.receipt = fs.receipt
      /\ t.journal = fs.journal /\ t.staging = [fs.staging EXCEPT ![job.new] = v]
      /\ fs.staging \in [Eras -> {"absent", "empty", "torn", "ready"}]
  BY DEF IInv, TypeOK, FS
<1>4. fs' = t
  BY <1>1 DEF ChangeParent
<1> HIDE DEF t
<1>5. Sound(t)
  BY <1>3, SoundSame DEF IInv
<1>6. ResetJob' /\ OpenJob' /\ pc' \in PCs
  BY <1>1, <1>2, <1>3, <1>4 DEF IInv, JobSound, ResetJob, OpenJob, Opening, Driving, PCs
<1>7. RenameJob'
  BY <1>1, <1>2, <1>3, <1>4 DEF IInv, JobSound, RenameJob, Headed, OldEra
<1>8. GoneForGood'
  BY <1>1, <1>3, GoneFrame DEF t
<1>. QED
  BY <1>1, <1>2, <1>3, <1>5, <1>6, <1>7, <1>8, ParentIInv DEF IInv, TypeOK, JobSound, t

\* rename(root, quarantine): the destination is free, so that nothing that was
\* quarantined before is lost, and what is moved there is what the plan saw.
LEMMA QuarantineIInv ==
  ASSUME IInv, QuarantineOldStore
  PROVE  IInv'
<1> DEFINE t == [fs EXCEPT !.quarantine[OldEra] = fs.root, !.root = NoDir]
<1>1. /\ ChangeParent(t) /\ pc = "quarantine" /\ pc' = "sync_quarantine"
      /\ UNCHANGED <<job, plans, expired, acked, confirmed, used, crashes>>
  BY DEF QuarantineOldStore
<1>2. /\ fs \in FS /\ Sound(fs)
      /\ job.kind \in {"open", "commit"} /\ job.plan \in Plans /\ plans[job.plan] # NoPlan
      /\ job.new \in Eras
      /\ fs.journal[job.plan] = job.new /\ fs.quarantine[OldEra] = NoDir
      /\ ManagedAs(fs.root, OldEra) /\ fs.root.data = plans[job.plan].data
      /\ OldEra \in Eras
  BY <1>1 DEF IInv, TypeOK, JobSound, ResetJob, RenameJob, Headed, Opening, Driving, OldEra
<1>3. /\ t \in FS
      /\ t.root = NoDir /\ t.receipt = fs.receipt /\ t.journal = fs.journal
      /\ t.quarantine = [fs.quarantine EXCEPT ![OldEra] = fs.root]
  BY <1>2, Dirs DEF FS
<1>4. t.quarantine[OldEra] = fs.root
      /\ \A e \in Eras : e # OldEra => t.quarantine[e] = fs.quarantine[e]
  BY <1>2, <1>3, FSFields
<1>5. fs' = t
  BY <1>1 DEF ChangeParent
<1> HIDE DEF t
<1>6. PlansKept(t)
  <2>1. \A p \in Plans : plans[p] # NoPlan => plans[p].era \in Eras
    BY DEF IInv
  <2>2. \A p \in Plans : fs.receipt[p] # None => plans[p].era # OldEra
    BY <1>2 DEF Sound, PlansKept, AsPlanned, ManagedAs, NoDir
  <2>3. \A p \in Plans : fs.journal[p] # None => p = job.plan
    BY <1>2 DEF Sound, OneJournal
  <2>. QED
    BY <1>2, <1>3, <1>4, <2>1, <2>2, <2>3 DEF Sound, PlansKept, AsPlanned, OldEra
<1>7. PromisesKept(t)
  <2>1. \A w \in acked : Holds(t, w)
    <3> SUFFICES ASSUME NEW w \in acked PROVE Holds(t, w)
      OBVIOUS
    <3>1. w \in fs.root.data \/ \E e \in Eras : w \in fs.quarantine[e].data
      BY <1>2 DEF Sound, PromisesKept, Holds
    <3>2. w \notin fs.quarantine[OldEra].data
      BY <1>2 DEF NoDir
    <3>. QED
      BY <1>2, <1>4, <3>1, <3>2 DEF Holds
  <2>. QED
    BY <1>2, <1>3, <2>1 DEF Sound, PromisesKept
<1>8. Sound(t)
  BY <1>2, <1>3, <1>6, <1>7 DEF Sound, OneJournal, RootSound, NoDir
<1>9. JobSound' /\ pc' \in PCs
  BY <1>1, <1>2, <1>3, <1>5 DEF JobSound, ResetJob, RenameJob, OpenJob, Headed, Opening,
                                Driving, PCs
<1>10. GoneForGood'
  BY <1>1, <1>2, <1>3, GoneFrame
<1>. QED
  BY <1>1, <1>3, <1>8, <1>9, <1>10, ParentIInv DEF IInv, TypeOK

\* rename(staging, root): there is no root to overwrite.
LEMMA InstallIInv ==
  ASSUME IInv, InstallReplacement
  PROVE  IInv'
<1> DEFINE t == [fs EXCEPT !.root = Fresh(job.new), !.staging[job.new] = "absent"]
<1>1. /\ ChangeParent(t) /\ pc = "install" /\ pc' = "sync_install"
      /\ UNCHANGED <<job, plans, expired, acked, confirmed, crashes>>
      /\ used' = used \cup {job.new}
  BY DEF InstallReplacement
<1>2. /\ fs \in FS /\ Sound(fs)
      /\ job.kind \in {"open", "commit"} /\ job.plan \in Plans /\ plans[job.plan] # NoPlan
      /\ job.new \in Eras
      /\ fs.journal[job.plan] = job.new /\ fs.root = NoDir
  BY <1>1 DEF IInv, TypeOK, JobSound, ResetJob, RenameJob, Headed, Opening, Driving
<1>3. /\ t \in FS
      /\ t.root = Fresh(job.new) /\ t.quarantine = fs.quarantine /\ t.receipt = fs.receipt
      /\ t.journal = fs.journal
  BY <1>2, Dirs DEF FS
<1>4. fs' = t
  BY <1>1 DEF ChangeParent
<1> HIDE DEF t
<1>5. Sound(t)
  <2>1. RootSound(t)
    BY <1>2, <1>3 DEF RootSound, Fresh
  <2>2. PromisesKept(t)
    BY <1>2, <1>3 DEF Sound, PromisesKept, Holds, NoDir
  <2>. QED
    BY <1>2, <1>3, <2>1, <2>2 DEF Sound, OneJournal, PlansKept, AsPlanned
<1>6. JobSound' /\ pc' \in PCs
  BY <1>1, <1>2, <1>3, <1>4 DEF JobSound, ResetJob, RenameJob, OpenJob, Headed, Opening,
                                Driving, PCs
<1>7. GoneForGood'
  <2>1. t.root.marker = "ok"
    BY <1>3 DEF Fresh
  <2>. QED
    BY <1>1, <2>1, GoneFrame
<1>. QED
  BY <1>1, <1>2, <1>3, <1>5, <1>6, <1>7, ParentIInv DEF IInv, TypeOK

LEMMA PublishIInv ==
  ASSUME IInv, PublishReceipt
  PROVE  IInv'
<1>1. UNCHANGED <<plans, expired, acked, confirmed, used, crashes>> /\ pc = "publish"
  BY DEF PublishReceipt
<1>2. CASE pc' = "free" /\ job' = NoJob /\ UNCHANGED <<fs, crashable>>
  <2>1. NoJob \in Job
    BY DEF NoJob, Job
  <2>. QED
    BY <1>1, <1>2, <2>1, FreeIInv DEF IInv, TypeOK
<1> DEFINE t == [fs EXCEPT !.journal[job.plan] = None, !.receipt[job.plan] = job.new]
<1>3. CASE CommittedLayout /\ ChangeParent(t) /\ pc' = "sync_receipt" /\ UNCHANGED job
  <2>1. /\ fs \in FS /\ Sound(fs)
        /\ job.kind \in {"open", "commit"} /\ job.plan \in Plans /\ plans[job.plan] # NoPlan
        /\ job.new \in Eras
        /\ fs.journal[job.plan] = job.new
    BY <1>1 DEF IInv, TypeOK, JobSound, ResetJob, Opening, Driving
  <2>2. /\ t \in FS
        /\ t.root = fs.root /\ t.quarantine = fs.quarantine
        /\ t.journal = [fs.journal EXCEPT ![job.plan] = None]
        /\ t.receipt = [fs.receipt EXCEPT ![job.plan] = job.new]
    BY <2>1 DEF FS
  <2>3. /\ \A p \in Plans : t.journal[p] = None
        /\ t.receipt[job.plan] = job.new
        /\ \A p \in Plans : p # job.plan => t.receipt[p] = fs.receipt[p]
    BY <2>1, <2>2, FSFields DEF Sound, OneJournal
  <2>4. fs' = t
    BY <1>3 DEF ChangeParent
  <2> HIDE DEF t
  <2>5. AsPlanned(fs, job.plan) /\ fs.root.marker = "ok"
    BY <1>3, <2>1 DEF CommittedLayout, OldEra, Sound, PlansKept, ManagedAs, NoDir
  <2>6. Sound(t)
    <3>1. PromisesKept(t)
      <4>1. confirmed \subseteq Plans
        BY DEF IInv, TypeOK
      <4>. QED
        BY <2>1, <2>2, <2>3, <4>1 DEF Sound, PromisesKept, Holds
    <3>. QED
      BY <2>1, <2>2, <2>3, <2>5, <3>1 DEF Sound, OneJournal, PlansKept, RootSound, AsPlanned
  <2>7. JobSound' /\ pc' \in PCs
    BY <1>1, <1>3, <2>1, <2>3, <2>4 DEF JobSound, ResetJob, RenameJob, OpenJob, Headed, Opening,
                                        Driving, PCs, NoReset, ActiveJournals
  <2>8. GoneForGood'
    BY <1>3, <2>2, <2>5, GoneFrame
  <2>. QED
    BY <1>1, <1>3, <2>2, <2>6, <2>7, <2>8, ParentIInv DEF IInv, TypeOK
<1>. QED
  BY <1>2, <1>3 DEF PublishReceipt

\* An open creates a root only where there was none, so that none is lost.
LEMMA CreateRootIInv ==
  ASSUME IInv, CreateRoot \/ CreateRootMarker
  PROVE  IInv'
<1>1. PICK m \in {"none", "torn"} :
        /\ ChangeParent([fs EXCEPT !.root = Unmarked(m)])
        /\ pc' = "opening" \/ (pc' = "write_root_marker" /\ m = "torn")
  BY DEF CreateRoot, CreateRootMarker
<1> DEFINE t == [fs EXCEPT !.root = Unmarked(m)]
<1>2. /\ pc = "opening" /\ fs.root.marker # "ok"
      /\ UNCHANGED <<job, plans, expired, acked, confirmed, used, crashes>>
  BY DEF CreateRoot, CreateRootMarker
<1>3. fs \in FS /\ Sound(fs) /\ NoReset /\ fs.root.data = {}
  BY <1>2 DEF IInv, TypeOK, Sound, RootSound, JobSound, OpenJob, Opening
<1>4. /\ t \in FS
      /\ t.root = Unmarked(m) /\ t.quarantine = fs.quarantine /\ t.receipt = fs.receipt
      /\ t.journal = fs.journal
  BY <1>3, Dirs DEF FS
<1>5. fs' = t /\ crashable' = crashable \cup {t}
  BY <1>1 DEF ChangeParent
<1> HIDE DEF t
<1>6. t.root.marker = m /\ t.root.data = {} /\ m # "ok"
  BY <1>4 DEF Unmarked
<1>7. Sound(t)
  <2>1. PromisesKept(t) /\ RootSound(t)
    BY <1>3, <1>4, <1>6 DEF Sound, PromisesKept, RootSound, Holds
  <2>. QED
    BY <1>3, <1>4, <2>1 DEF Sound, OneJournal, PlansKept, AsPlanned
<1>8. JobSound' /\ pc' \in PCs
  BY <1>1, <1>3, <1>4, <1>5, <1>6 DEF JobSound, ResetJob, RenameJob, OpenJob, Headed, Opening,
                                      Driving, PCs, NoReset, ActiveJournals
<1>9. GoneForGood'
  <2>1. \A s \in crashable : s.root.marker # "ok"
    BY <1>2, <1>3 DEF IInv, GoneForGood
  <2>. QED
    BY <1>5, <1>6, <2>1 DEF GoneForGood
<1>. QED
  BY <1>1, <1>2, <1>4, <1>7, <1>8, <1>9, ParentIInv DEF IInv, TypeOK, t

-----------------------------------------------------------------------------
(* Changes inside a subdirectory, and what the engine syncs *)

LEMMA InsideIInv ==
  ASSUME IInv, fs' \in crashable', crashable' \subseteq FS, \A s \in crashable' : Sound(s)',
         JobSound', GoneForGood',
         UNCHANGED <<plans, expired, confirmed>>,
         pc' \in PCs, job' \in Job, used' \subseteq Eras, acked' \subseteq Tokens,
         crashes' \in 0 .. MaxCrashes
  PROVE  IInv'
<1>1. TypeOK'
  BY DEF IInv, TypeOK
<1>. QED
  BY <1>1 DEF IInv

LEMMA WriteJournalIInv ==
  ASSUME IInv, WriteJournal
  PROVE  IInv'
<1> DEFINE written(s) == [s EXCEPT !.journal[job.plan] = job.new]
           edit(s) == IF s.journal[job.plan] = Torn THEN written(s) ELSE s
<1>1. /\ fs' = written(fs) /\ crashable' = {edit(s) : s \in crashable}
      /\ pc = "write_journal" /\ pc' = "sync_journal"
      /\ UNCHANGED <<job, plans, expired, acked, confirmed, used, crashes>>
  BY DEF WriteJournal, ChangeInside
<1>2. /\ crashable \subseteq FS /\ fs \in crashable /\ fs.journal[job.plan] = Torn
      /\ job.kind \in {"open", "commit"} /\ job.plan \in Plans /\ plans[job.plan] # NoPlan
      /\ job.new \in Eras
  BY <1>1 DEF IInv, TypeOK, JobSound, ResetJob, Opening
<1>3. ASSUME NEW s \in crashable
      PROVE  /\ edit(s) \in FS
             /\ edit(s).root = s.root /\ edit(s).quarantine = s.quarantine
             /\ edit(s).receipt = s.receipt
             /\ \A p \in Plans : edit(s).journal[p] # None <=> s.journal[p] # None
  BY <1>2 DEF FS
<1>4. edit(fs) = written(fs) /\ written(fs).journal[job.plan] = job.new
  BY <1>2 DEF FS
<1> HIDE DEF edit, written
<1>5. \A t \in crashable' : Sound(t)'
  <2> SUFFICES ASSUME NEW s \in crashable PROVE Sound(edit(s))
    BY <1>1, SoundFrame
  <2>1. Sound(s)
    BY DEF IInv
  <2>. QED
    BY <1>3, <2>1 DEF Sound, OneJournal, PlansKept, RootSound, PromisesKept, AsPlanned, Holds
<1>6. JobSound' /\ pc' \in PCs
  BY <1>1, <1>2, <1>4 DEF JobSound, ResetJob, RenameJob, OpenJob, Headed, Opening, Driving, PCs
<1>7. GoneForGood'
  BY <1>1, <1>2, <1>4 DEF GoneForGood, NoReset, ActiveJournals
<1>. QED
  BY <1>1, <1>2, <1>3, <1>4, <1>5, <1>6, <1>7, InsideIInv DEF IInv, TypeOK

LEMMA WriteStagingMarkerIInv ==
  ASSUME IInv, WriteStagingMarker
  PROVE  IInv'
<1> DEFINE marked(s) == [s EXCEPT !.staging[job.new] = "ready"]
           edit(s) == IF s.staging[job.new] # "absent" THEN marked(s) ELSE s
<1>1. /\ fs' = marked(fs) /\ crashable' = {edit(s) : s \in crashable}
      /\ pc = "write_marker" /\ pc' = job.then
      /\ UNCHANGED <<job, plans, expired, acked, confirmed, used, crashes>>
  BY DEF WriteStagingMarker, ChangeInside
<1>2. /\ crashable \subseteq FS /\ fs \in crashable /\ fs.staging[job.new] = "torn"
      /\ job.then \in {"quarantine", "install"}
  BY <1>1 DEF IInv, TypeOK, Job, JobSound, ResetJob
<1>3. ASSUME NEW s \in crashable
      PROVE  /\ edit(s) \in FS
             /\ edit(s).root = s.root /\ edit(s).quarantine = s.quarantine
             /\ edit(s).receipt = s.receipt /\ edit(s).journal = s.journal
  BY <1>2 DEF FS
<1>4. fs' = edit(fs)
  BY <1>1, <1>2
<1> HIDE DEF edit, marked
<1>5. \A t \in crashable' : Sound(t)'
  <2> SUFFICES ASSUME NEW s \in crashable PROVE Sound(edit(s))
    BY <1>1, SoundFrame
  <2>. QED
    BY <1>3, SoundSame DEF IInv
<1>6. ResetJob' /\ OpenJob' /\ pc' \in PCs
  BY <1>1, <1>2, <1>3, <1>4 DEF IInv, JobSound, ResetJob, OpenJob, Opening, Driving, PCs
<1>7. RenameJob'
  BY <1>1, <1>2, <1>3, <1>4 DEF IInv, JobSound, RenameJob, Headed, OldEra
<1>8. GoneForGood'
  BY <1>1, <1>2, <1>3, <1>4 DEF IInv, GoneForGood, NoReset, ActiveJournals
<1>. QED
  BY <1>1, <1>2, <1>3, <1>4, <1>5, <1>6, <1>7, <1>8, InsideIInv DEF IInv, TypeOK, JobSound

\* The era of a new root goes to every possible state that has one; none of them
\* was managed, so that no contents are lost.
LEMMA WriteRootMarkerIInv ==
  ASSUME IInv, WriteRootMarker
  PROVE  IInv'
<1>1. PICK e \in Eras \ used :
        /\ fs' = [fs EXCEPT !.root = Fresh(e)]
        /\ crashable' = {IF s.root.marker # "absent" THEN [s EXCEPT !.root = Fresh(e)] ELSE s :
                           s \in crashable}
        /\ used' = used \cup {e}
  BY DEF WriteRootMarker, ChangeInside
<1> DEFINE edit(s) == IF s.root.marker # "absent" THEN [s EXCEPT !.root = Fresh(e)] ELSE s
<1>2. /\ pc = "write_root_marker" /\ pc' = "engine"
      /\ UNCHANGED <<job, plans, expired, acked, confirmed, crashes>>
  BY DEF WriteRootMarker
<1>3. crashable \subseteq FS /\ fs \in crashable /\ NoReset /\ fs.root.marker = "torn"
  BY <1>2 DEF IInv, TypeOK, JobSound, OpenJob, Opening
<1>4. \A s \in crashable : s.root.marker # "ok" /\ s.root.data = {}
  BY <1>3 DEF IInv, GoneForGood, Sound, RootSound
<1>5. ASSUME NEW s \in crashable
      PROVE  /\ edit(s) \in FS
             /\ edit(s).quarantine = s.quarantine
             /\ edit(s).receipt = s.receipt /\ edit(s).journal = s.journal
             /\ edit(s).root \in {s.root, Fresh(e)}
  BY <1>3, Dirs DEF FS
<1>6. fs' = edit(fs) /\ edit(fs).root = Fresh(e) /\ crashable' = {edit(s) : s \in crashable}
  BY <1>1, <1>3 DEF FS
<1> HIDE DEF edit
<1>7. ASSUME NEW s \in crashable PROVE Sound(edit(s))'
  <2>1. Sound(s) /\ s.root.data = {} /\ s.root.marker # "ok"
    BY <1>4 DEF IInv
  <2>2. Fresh(e).data = {} /\ Fresh(e).era \in Eras /\ Fresh(e).marker = "ok"
    BY DEF Fresh
  <2>3. RootSound(edit(s)) /\ PromisesKept(edit(s))
    BY <1>5, <2>1, <2>2 DEF Sound, RootSound, PromisesKept, Holds
  <2>4. Sound(edit(s))
    BY <1>5, <2>1, <2>3 DEF Sound, OneJournal, PlansKept, AsPlanned
  <2>. QED
    BY <1>2, <2>4, SoundFrame
<1>8. JobSound' /\ pc' \in PCs
  BY <1>2, <1>3, <1>5, <1>6 DEF JobSound, ResetJob, RenameJob, OpenJob, Headed, Opening, Driving,
                                PCs, NoReset, ActiveJournals, Fresh
<1>9. GoneForGood'
  BY <1>6 DEF GoneForGood, Fresh
<1>. QED
  BY <1>1, <1>2, <1>3, <1>5, <1>6, <1>7, <1>8, <1>9, InsideIInv DEF IInv, TypeOK

LEMMA EngineOpenIInv ==
  ASSUME IInv, EngineOpen
  PROVE  IInv'
<1>1. /\ crashable' = {s \in crashable : s.root = fs.root} \cup {fs}
      /\ pc = "engine" /\ pc' = "open"
      /\ UNCHANGED <<fs, job, plans, expired, acked, confirmed, used, crashes>>
  BY DEF EngineOpen
<1>2. fs \in crashable /\ crashable' \subseteq crashable
  BY <1>1 DEF IInv
<1>3. NoReset /\ fs.root.marker = "ok"
  BY <1>1 DEF IInv, JobSound, OpenJob, Opening
<1>4. JobSound' /\ pc' \in PCs
  BY <1>1, <1>3 DEF JobSound, ResetJob, RenameJob, OpenJob, Headed, Opening, Driving, PCs,
                    NoReset, ActiveJournals, ManagedAs
<1>5. GoneForGood'
  BY <1>1, <1>3 DEF GoneForGood
<1>6. \A s \in crashable' : Sound(s)'
  BY <1>1, <1>2, SoundFrame DEF IInv
<1>. QED
  BY <1>1, <1>2, <1>4, <1>5, <1>6, InsideIInv DEF IInv, TypeOK

\* A write is acknowledged once every possible state has it: the engine synced
\* the root's entry before, so that all of them have this root.
LEMMA WriteIInv ==
  ASSUME IInv, NEW w \in Tokens, Write(w)
  PROVE  IInv'
<1> DEFINE put(s) == [s EXCEPT !.root.data = @ \cup {w}]
<1>1. /\ fs' = put(fs)
      /\ crashable' = {IF ManagedAs(s.root, fs.root.era) THEN put(s) ELSE s : s \in crashable}
      /\ pc = "open" /\ acked' = acked \cup {w}
      /\ UNCHANGED <<pc, job, plans, expired, confirmed, used, crashes>>
  BY DEF Write, ChangeInside
<1>2. /\ crashable \subseteq FS /\ fs \in crashable
      /\ \A s \in crashable : ManagedAs(s.root, fs.root.era)
      /\ NoReset
  BY <1>1 DEF IInv, TypeOK, JobSound, OpenJob, Opening
<1>3. crashable' = {put(s) : s \in crashable}
  BY <1>1, <1>2
<1>4. ASSUME NEW s \in crashable
      PROVE  /\ put(s) \in FS
             /\ put(s).quarantine = s.quarantine
             /\ put(s).receipt = s.receipt /\ put(s).journal = s.journal
             /\ put(s).root.marker = s.root.marker /\ put(s).root.era = s.root.era
             /\ put(s).root.data = s.root.data \cup {w}
  BY <1>2 DEF FS, Dir
<1> HIDE DEF put
<1>5. ASSUME NEW s \in crashable PROVE Sound(put(s))'
  <2>1. Sound(s) /\ s.root.marker = "ok"
    BY <1>2 DEF IInv, ManagedAs
  <2>2. PromisesKept(put(s))'
    BY <1>1, <1>4, <2>1 DEF Sound, PromisesKept, Holds
  <2>3. PlansKept(put(s))'
    BY <1>1, <1>4, <2>1 DEF Sound, PlansKept, AsPlanned
  <2>. QED
    BY <1>1, <1>4, <2>1, <2>2, <2>3 DEF Sound, OneJournal, RootSound
<1>6. JobSound'
  BY <1>1, <1>2, <1>3, <1>4 DEF JobSound, ResetJob, RenameJob, OpenJob, Headed, Opening, Driving,
                                NoReset, ActiveJournals, ManagedAs
<1>7. GoneForGood'
  BY <1>1, <1>2, <1>4 DEF GoneForGood, ManagedAs
<1>. QED
  BY <1>1, <1>2, <1>3, <1>4, <1>5, <1>6, <1>7, InsideIInv DEF IInv, TypeOK

\* A power loss leaves one of the states that were possible; each is sound.
LEMMA PowerLossIInv ==
  ASSUME IInv, PowerLoss
  PROVE  IInv'
<1>1. PICK s \in crashable : fs' = s /\ crashable' = {s}
  BY DEF PowerLoss
<1>2. /\ pc' = "free" /\ job' = NoJob /\ crashes' \in 0 .. MaxCrashes
      /\ UNCHANGED <<plans, expired, acked, confirmed, used>>
  BY DEF PowerLoss, CanCrash, IInv, TypeOK
<1>3. JobSound' /\ pc' \in PCs /\ job' \in Job
  BY <1>2 DEF JobSound, ResetJob, RenameJob, OpenJob, Headed, Opening, Driving, PCs, NoJob, Job
<1>4. GoneForGood'
  BY <1>1 DEF GoneForGood
<1>5. \A t \in crashable' : Sound(t)'
  BY <1>1, <1>2, SoundFrame DEF IInv
<1>. QED
  BY <1>1, <1>2, <1>3, <1>4, <1>5, InsideIInv DEF IInv, TypeOK

-----------------------------------------------------------------------------
LEMMA NextIInv == IInv /\ [Next]_vars => IInv'
<1> SUFFICES ASSUME IInv, [Next]_vars PROVE IInv'
  OBVIOUS
<1>1. CASE \E p \in Plans : BuildPlan(p) \/ ExpirePlan(p)
  BY <1>1, BuildPlanIInv, ExpirePlanIInv
<1>2. CASE \E p \in Plans, e \in Eras : BeginCommit(p, e)
  BY <1>2, BeginCommitIInv
<1>3. CASE BeginOpen
  BY <1>3, BeginOpenIInv
<1>4. CASE HolderStep
  BY <1>4, CreateJournalIInv, WriteJournalIInv, DriveSyncIInv, DriveIInv, StagingIInv,
     WriteStagingMarkerIInv, CheckStagingIInv, QuarantineIInv, InstallIInv, PublishIInv,
     SyncReceiptIInv, CreateRootIInv, WriteRootMarkerIInv, RequireManagedIInv, EngineOpenIInv
     DEF HolderStep
<1>5. CASE \E w \in Tokens : Write(w)
  BY <1>5, WriteIInv
<1>6. CASE Close \/ Kill
  BY <1>6, CloseKillIInv
<1>7. CASE PowerLoss
  BY <1>7, PowerLossIInv
<1>8. CASE UNCHANGED vars
  <2>1. UNCHANGED <<fs, crashable, pc, job, plans, expired, acked, confirmed, used, crashes>>
    BY <1>8 DEF vars
  <2>2. JobSound'
    BY <2>1 DEF IInv, JobSound, ResetJob, RenameJob, OpenJob, Headed, NoReset, ActiveJournals,
                OldEra
  <2>. QED
    BY <2>1, <2>2, MoveIInv DEF IInv, TypeOK
<1>. QED
  BY <1>1, <1>2, <1>3, <1>4, <1>5, <1>6, <1>7, <1>8 DEF Next

\* Every behaviour of the store root keeps the inductive invariant.
THEOREM Invariance == Spec => []IInv
  BY InitIInv, NextIInv, PTL DEF Spec

\* Acknowledged writes and confirmed resets survive every kill and power loss,
\* at whatever point of the transaction or of an open it comes.
THEOREM ResetsKeepData == Spec => []ResetKeepsData
<1>1. IInv => ResetKeepsData
  <2> SUFFICES ASSUME IInv PROVE ResetKeepsData
    OBVIOUS
  <2>1. \A s \in OnDisk : Sound(s)
    BY DEF IInv, OnDisk
  <2>2. confirmed \subseteq Plans
    BY DEF IInv, TypeOK
  <2>. QED
    BY <2>1, <2>2 DEF ResetKeepsData, AckedDataKept, ConfirmedResetIsDurable, Sound, PlansKept,
                      PromisesKept, AsPlanned
<1>. QED
  BY <1>1, Invariance, PTL

\* The lease and the journal keep resets apart from each other and from an open
\* store.
THEOREM ResetsExclusive == Spec => []ResetExclusive
<1>1. IInv => ResetExclusive
  <2> SUFFICES ASSUME IInv PROVE ResetExclusive
    OBVIOUS
  <2>1. HandleExcludesReset
    BY DEF IInv, JobSound, OpenJob, NoReset, Opening, HandleExcludesReset
  <2>2. SingleIntent
    <3>1. \A p, q \in ActiveJournals(fs) : p = q
      BY DEF IInv, Sound, OneJournal, ActiveJournals
    <3>2. CASE ActiveJournals(fs) = {}
      BY <3>2, FS_EmptySet DEF SingleIntent
    <3>3. ASSUME NEW p \in ActiveJournals(fs) PROVE SingleIntent
      <4>1. ActiveJournals(fs) = {p}
        BY <3>1
      <4>2. Cardinality({p}) = 1
        BY FS_Singleton
      <4>. QED
        BY <4>1, <4>2 DEF SingleIntent
    <3>. QED
      BY <3>2, <3>3
  <2>. QED
    BY <2>1, <2>2 DEF ResetExclusive, IInv
<1>. QED
  BY <1>1, Invariance, PTL

\* The quarantine of a reset with a receipt is the store the plan saw.
THEOREM QuarantinesAsPlanned == Spec => []QuarantineAsPlanned
<1>1. IInv => QuarantineAsPlanned
  BY DEF IInv, Sound, PlansKept, AsPlanned, QuarantineAsPlanned
<1>. QED
  BY <1>1, Invariance, PTL

=============================================================================
