------------------------ MODULE StorageMigrationProofs ------------------------
(***************************************************************************)
(* Theorems about StorageMigration, for any number of logins, migrations,  *)
(* crashes and refused file operations.                                    *)
(***************************************************************************)
EXTENDS StorageMigration, TLAPS

(* TypeOK is not inductive: a rollback or a reconciliation moves files     *)
(* back from the quarantine that its job or the marker names, so a job     *)
(* that will do so, and a marker of such a migration, must name one.       *)
ProtectSteps == {"protect_mark", "protect_verify", "protect_move", "protect_commit",
                 "protect_restore", "protect_meta", "protect_mode", "protect_cleanup",
                 "protect_discard"}
AsideSteps == {"restore", "discard", "finish_discard"}

KnownDisks == {d \in Disks : d.marker.op = "protect" => d.marker.id \in Ids}

JobKnown(p, j) ==
    /\ p \in ProtectSteps => j.cmd = "protect"
    /\ j.cmd = "protect" \/ p \in AsideSteps => j.id \in Ids

TypeInv == TypeOK /\ disk \in KnownDisks /\ JobKnown(pc, job)

-------------------------------------------------------------------------------
(* Lemmas about the records the specification is built from. *)

(* The absent values are values of their types. *)
LEMMA AbsentTypes ==
    /\ 0 \in Version /\ None \in Secret /\ NoEnc \in Envelope
    /\ NoMarker \in Markers /\ NoJob \in Jobs /\ NoFiles \in [Files -> Secret]
  <1>1. 0 \in Version /\ 0 \in 0 .. MaxMigrations
    BY BoundsAssumption DEF Version
  <1>2. None \in Secret /\ NoEnc \in Envelope
    BY <1>1 DEF Secret, None, Envelope, NoEnc
  <1>3. NoMarker \in Markers /\ NoJob \in Jobs
    BY <1>1, <1>2 DEF Markers, NoMarker, Jobs, NoJob
  <1>4. NoFiles \in [Files -> Secret]
    BY <1>2 DEF NoFiles
  <1> QED BY <1>1, <1>2, <1>3, <1>4

(* Replacing one field of the disk by a value of its type gives a disk, of *)
(* which a field other than the marker leaves the marker alone.            *)
LEMMA DiskUpdates ==
    ASSUME NEW d \in KnownDisks
    PROVE  /\ \A m \in Markers :
                  (m.op = "protect" => m.id \in Ids) => [d EXCEPT !.marker = m] \in KnownDisks
           /\ \A m \in {"file", "protected"} : [d EXCEPT !.mode = m] \in KnownDisks
           /\ \A e \in Envelope : [d EXCEPT !.enc = e] \in KnownDisks
           /\ \A v \in Version : [d EXCEPT !.meta = v] \in KnownDisks
           /\ \A p \in [Files -> Secret] : [d EXCEPT !.plain = p] \in KnownDisks
           /\ \A k \in BOOLEAN : [d EXCEPT !.key = k] \in KnownDisks
           /\ \A q \in [Ids -> [Files -> Secret]] : [d EXCEPT !.quar = q] \in KnownDisks
  BY DEF Disks, KnownDisks

(* Reading the plaintext of a profile gives a secret, None at least. *)
LEMMA ReadPlainType ==
    ASSUME NEW files \in [Files -> Secret], NEW meta \in Version
    PROVE  ReadPlain(files, meta) \in Secret
  <1>1. First(Present(files)) \in Files
    BY DEF First, Files
  <1>2. files[First(Present(files))] \in Secret
    BY <1>1
  <1>3. \A s \in Secret : [s EXCEPT !.t = IF meta # 0 THEN meta ELSE s.t] \in Secret
    BY DEF Secret
  <1>4. None \in Secret
    BY AbsentTypes
  <1> QED BY <1>2, <1>3, <1>4 DEF ReadPlain

(* What the steps write to the disk is again a disk: the marker, the mode, *)
(* a plaintext file, the key, the envelope.                                *)
LEMMA Edits ==
    ASSUME TypeInv
    PROVE  /\ \A op \in {"write", "delete"}, phase \in {"preparing", "committed", "cleanup"} :
                  SetMark(StoreMarked(op, phase)) \in KnownDisks
           /\ \A phase \in {"preparing", "committed", "cleanup"} :
                  /\ SetMark(Marked("unprotect", phase)) \in KnownDisks
                  /\ job.id \in Ids => SetMark(Marked("protect", phase)) \in KnownDisks
           /\ SetMark(NoMarker) \in KnownDisks
           /\ SetMode("file") \in KnownDisks /\ SetMode("protected") \in KnownDisks
           /\ \A f \in Files, s \in Secret : Put(f, s) \in KnownDisks
           /\ \A S \in SUBSET Files : Remove(S) \in KnownDisks
           /\ \A v \in Version : [disk EXCEPT !.meta = v] \in KnownDisks
           /\ DropEnc \in KnownDisks
           /\ WithKey(disk) \in KnownDisks /\ WithoutKey(disk) \in KnownDisks
  <1> USE DEF TypeInv
  <1>1. \A op \in {"write", "delete"}, phase \in {"preparing", "committed", "cleanup"} :
            SetMark(StoreMarked(op, phase)) \in KnownDisks
    <2>1. \A op \in {"write", "delete"}, phase \in {"preparing", "committed", "cleanup"} :
              StoreMarked(op, phase) \in Markers /\ StoreMarked(op, phase).op = op
      BY AbsentTypes DEF StoreMarked, Markers
    <2> QED BY <2>1, DiskUpdates DEF SetMark
  <1>2. \A phase \in {"preparing", "committed", "cleanup"} :
            /\ SetMark(Marked("unprotect", phase)) \in KnownDisks
            /\ job.id \in Ids => SetMark(Marked("protect", phase)) \in KnownDisks
    <2>1. \A op \in {"protect", "unprotect"}, phase \in {"preparing", "committed", "cleanup"} :
              Marked(op, phase) \in Markers /\ Marked(op, phase).op = op
                                            /\ Marked(op, phase).id = job.id
      BY DEF Marked, Markers, TypeOK, Jobs
    <2> QED BY <2>1, DiskUpdates DEF SetMark
  <1>3. SetMark(NoMarker) \in KnownDisks
    <2>1. NoMarker \in Markers /\ NoMarker.op = "none"
      BY AbsentTypes DEF NoMarker
    <2> QED BY <2>1, DiskUpdates DEF SetMark
  <1>4. SetMode("file") \in KnownDisks /\ SetMode("protected") \in KnownDisks
    BY DiskUpdates DEF SetMode
  <1>5. disk.plain \in [Files -> Secret]
    BY DEF KnownDisks, Disks
  <1>6. \A f \in Files, s \in Secret : Put(f, s) \in KnownDisks
    <2> SUFFICES ASSUME NEW f \in Files, NEW s \in Secret PROVE Put(f, s) \in KnownDisks
      OBVIOUS
    <2>1. [disk.plain EXCEPT ![f] = s] \in [Files -> Secret]
      BY <1>5
    <2> QED BY <2>1, DiskUpdates DEF Put
  <1>7. \A S \in SUBSET Files : Remove(S) \in KnownDisks
    <2> SUFFICES ASSUME NEW S \in SUBSET Files PROVE Remove(S) \in KnownDisks
      OBVIOUS
    <2>1. [f \in Files |-> IF f \in S THEN None ELSE disk.plain[f]] \in [Files -> Secret]
      BY <1>5, AbsentTypes
    <2> QED BY <2>1, DiskUpdates DEF Remove
  <1>8. \A v \in Version : [disk EXCEPT !.meta = v] \in KnownDisks
    BY DiskUpdates
  <1>9. DropEnc \in KnownDisks
    BY DiskUpdates, AbsentTypes DEF DropEnc
  <1>10. WithKey(disk) \in KnownDisks
    BY DiskUpdates DEF WithKey
  <1>11. WithoutKey(disk) \in KnownDisks
    BY DEF WithoutKey, KnownDisks, Disks, Envelope
  <1> QED BY <1>1, <1>2, <1>3, <1>4, <1>6, <1>7, <1>8, <1>9, <1>10, <1>11

(* Moving one file between its place and the quarantine gives a disk. *)
LEMMA Moves ==
    ASSUME TypeInv, job.id \in Ids
    PROVE  /\ Aside \in [Files -> Secret]
           /\ \A f \in Files : MoveAside(f) \in KnownDisks /\ MoveBack(f) \in KnownDisks
           /\ \A f \in Files : [disk EXCEPT !.quar[job.id][f] = None] \in KnownDisks
  <1>1. disk.quar \in [Ids -> [Files -> Secret]] /\ disk.plain \in [Files -> Secret]
    BY DEF TypeInv, KnownDisks, Disks
  <1>2. Aside \in [Files -> Secret]
    BY <1>1 DEF Aside
  <1>3. ASSUME NEW f \in Files, NEW s \in Secret, NEW q \in Secret
        PROVE  [disk EXCEPT !.plain[f] = s, !.quar[job.id][f] = q] \in KnownDisks
    <2>1. [disk.plain EXCEPT ![f] = s] \in [Files -> Secret]
      BY <1>1
    <2>2. [disk.quar EXCEPT ![job.id][f] = q] \in [Ids -> [Files -> Secret]]
      BY <1>1
    <2> QED BY <2>1, <2>2 DEF TypeInv, KnownDisks, Disks
  <1>4. ASSUME NEW f \in Files
        PROVE  [disk EXCEPT !.quar[job.id][f] = None] \in KnownDisks
    <2>1. [disk.quar EXCEPT ![job.id][f] = None] \in [Ids -> [Files -> Secret]]
      BY <1>1, AbsentTypes
    <2> QED BY <2>1, DiskUpdates DEF TypeInv
  <1>5. \A f \in Files : MoveAside(f) \in KnownDisks /\ MoveBack(f) \in KnownDisks
    BY <1>1, <1>2, <1>3, AbsentTypes DEF MoveAside, MoveBack
  <1> QED BY <1>2, <1>4, <1>5

-------------------------------------------------------------------------------
(* Type correctness *)

(* A step of the lock holder keeps TypeInv when it goes to a step that the *)
(* job may reach and leaves a disk.                                        *)
LEMMA MoveKeepsTypeInv ==
    ASSUME TypeInv,
           NEW to \in Steps \cup {"idle"}, NEW d \in KnownDisks,
           Move(to, d),
           spent' \in [login : Version, migration : 0 .. MaxMigrations,
                       crash : 0 .. MaxCrashes, fault : 0 .. MaxFaults],
           to # "idle" => JobKnown(to, job)
    PROVE  TypeInv'
  <1>1. job' \in Jobs /\ JobKnown(pc', job')
    BY AbsentTypes DEF Move, TypeInv, TypeOK, JobKnown, NoJob, ProtectSteps, AsideSteps
  <1>2. disk' \in KnownDisks /\ disk' \in Disks
    BY DEF Move, KnownDisks
  <1>3. /\ pc' \in Steps \cup {"idle"} /\ pending' \in Pendings /\ acked' \in Version
        /\ outdated' \in BOOLEAN
    BY DEF Move, TypeInv, TypeOK
  <1> QED BY <1>1, <1>2, <1>3 DEF TypeInv, TypeOK

(* The same for a step that spends nothing. *)
LEMMA GotoKeepsTypeInv ==
    ASSUME TypeInv,
           NEW to \in Steps \cup {"idle"}, NEW d \in KnownDisks,
           Goto(to, d),
           to # "idle" => JobKnown(to, job)
    PROVE  TypeInv'
  BY MoveKeepsTypeInv DEF Goto, TypeInv, TypeOK

(* Where a finished, a suppressed and a failed step go on. *)
LEMMA Successors ==
    ASSUME TypeInv
    PROVE  /\ AfterWrite \in Steps /\ JobKnown(AfterWrite, job)
           /\ AfterDelete \in Steps \cup {"idle"} /\ JobKnown(AfterDelete, job)
           /\ Then \in Steps \cup {"idle"} /\ JobKnown(Then, job)
           /\ Raised \in Steps \cup {"idle"} /\ JobKnown(Raised, job)
  <1>1. AfterWrite \in Steps /\ JobKnown(AfterWrite, job)
    BY DEF AfterWrite, Steps, TypeInv, JobKnown, ProtectSteps, AsideSteps
  <1>2. AfterDelete \in Steps \cup {"idle"} /\ JobKnown(AfterDelete, job)
    BY DEF AfterDelete, Steps, TypeInv, JobKnown, ProtectSteps, AsideSteps
  <1>3. Then \in Steps \cup {"idle"} /\ JobKnown(Then, job)
    BY <1>1, <1>2 DEF Then, Steps, TypeInv, JobKnown, ProtectSteps, AsideSteps
  <1>4. Raised \in Steps \cup {"idle"} /\ JobKnown(Raised, job)
    BY <1>2 DEF Raised, Steps, TypeInv, JobKnown, ProtectSteps, AsideSteps
  <1> QED BY <1>1, <1>2, <1>3, <1>4

(* The steps of CredentialStore.write_credentials keep the types. *)
LEMMA WriteCredentialsTyped == TypeInv /\ WriteCredentials => TypeInv'
  <1> SUFFICES ASSUME TypeInv, WriteCredentials PROVE TypeInv'
    OBVIOUS
  <1> USE DEF Step, JobKnown, ProtectSteps, AsideSteps
  <1>1. CASE WriteMark
    BY <1>1, Edits, GotoKeepsTypeInv DEF WriteMark, Steps, TypeInv
  <1>2. CASE WriteKey
    BY <1>2, Edits, GotoKeepsTypeInv DEF WriteKey, Steps, TypeInv
  <1>3. CASE WriteCommit
    BY <1>3, Edits, GotoKeepsTypeInv DEF WriteCommit, Steps, TypeInv
  <1>4. CASE WriteEnc
    <2>1. [c |-> job.sec.c, t |-> job.sec.t, sealed |-> TRUE] \in Envelope
      BY DEF TypeInv, TypeOK, Jobs, Secret, Envelope
    <2>2. [disk EXCEPT !.enc = [c |-> job.sec.c, t |-> job.sec.t, sealed |-> TRUE]]
              \in KnownDisks
      BY <2>1, DiskUpdates DEF TypeInv
    <2> QED BY <1>4, <2>2, GotoKeepsTypeInv DEF WriteEnc, Steps, TypeInv
  <1>5. CASE WriteClear
    BY <1>5, Edits, Successors, GotoKeepsTypeInv DEF WriteClear
  <1> QED BY <1>1, <1>2, <1>3, <1>4, <1>5 DEF WriteCredentials

(* The steps of CredentialStore.delete_credentials keep the types. *)
LEMMA DeleteCredentialsTyped == TypeInv /\ DeleteCredentials => TypeInv'
  <1> SUFFICES ASSUME TypeInv, DeleteCredentials PROVE TypeInv'
    OBVIOUS
  <1> USE DEF Step, JobKnown, ProtectSteps, AsideSteps
  <1>1. CASE DeleteMark
    BY <1>1, Edits, GotoKeepsTypeInv DEF DeleteMark, Steps, TypeInv
  <1>2. CASE DeleteKey
    BY <1>2, Edits, GotoKeepsTypeInv DEF DeleteKey, Steps, TypeInv
  <1>3. CASE DeleteEnc
    BY <1>3, Edits, GotoKeepsTypeInv DEF DeleteEnc, Steps, TypeInv
  <1>4. CASE DeleteCleanup
    BY <1>4, Edits, GotoKeepsTypeInv DEF DeleteCleanup, Steps, TypeInv
  <1>5. CASE DeleteClear
    BY <1>5, Edits, Successors, GotoKeepsTypeInv DEF DeleteClear
  <1> QED BY <1>1, <1>2, <1>3, <1>4, <1>5 DEF DeleteCredentials

(* The steps of migrate_profile_to_protected, and of the rollbacks that    *)
(* share them, keep the types.                                             *)
LEMMA MigrateToProtectedTyped == TypeInv /\ MigrateToProtected => TypeInv'
  <1> SUFFICES ASSUME TypeInv, MigrateToProtected PROVE TypeInv'
    OBVIOUS
  <1> USE DEF Step, JobKnown, ProtectSteps, AsideSteps
  <1>0. /\ disk \in KnownDisks /\ disk.plain \in [Files -> Secret]
        /\ \A S \in SUBSET Files : First(S) \in Files
    BY DEF TypeInv, KnownDisks, Disks, First, Files
  <1>1. CASE ProtectMark
    BY <1>1, Edits, GotoKeepsTypeInv DEF ProtectMark, Steps, TypeInv
  <1>2. CASE ProtectVerify
    BY <1>2, <1>0, GotoKeepsTypeInv DEF ProtectVerify, Steps, TypeInv
  <1>3. CASE ProtectMove
    <2>1. MoveAside(First(Present(disk.plain))) \in KnownDisks
      BY <1>3, <1>0, Moves DEF ProtectMove, TypeInv, Present
    <2> QED BY <1>3, <2>1, GotoKeepsTypeInv DEF ProtectMove, Steps, TypeInv
  <1>4. CASE ProtectRecheck
    BY <1>4, <1>0, GotoKeepsTypeInv DEF ProtectRecheck, Steps, TypeInv
  <1>5. CASE ProtectRestore
    <2>1. MoveBack(First(Present(Aside))) \in KnownDisks
      BY <1>5, <1>0, Moves DEF ProtectRestore, TypeInv, Present
    <2> QED BY <1>5, <1>0, <2>1, GotoKeepsTypeInv DEF ProtectRestore, Steps, TypeInv
  <1>6. CASE ProtectCommit
    BY <1>6, Edits, GotoKeepsTypeInv DEF ProtectCommit, Steps, TypeInv
  <1>7. CASE ProtectMeta
    BY <1>7, Edits, AbsentTypes, GotoKeepsTypeInv DEF ProtectMeta, Steps, TypeInv
  <1>8. CASE ProtectMode
    BY <1>8, Edits, GotoKeepsTypeInv DEF ProtectMode, Steps, TypeInv
  <1>9. CASE ProtectCleanup
    BY <1>9, Edits, GotoKeepsTypeInv DEF ProtectCleanup, Steps, TypeInv
  <1>10. CASE DiscardAside
    <2>1. pc \in Steps /\ JobKnown(pc, job) /\ job.id \in Ids
      BY <1>10 DEF DiscardAside, Steps, TypeInv
    <2>2. \A f \in Present(Aside) : [disk EXCEPT !.quar[job.id][f] = None] \in KnownDisks
      BY <2>1, Moves DEF Present
    <2> QED BY <1>10, <1>0, <2>1, <2>2, Successors, GotoKeepsTypeInv DEF DiscardAside
  <1>11. CASE Clear
    BY <1>11, Edits, GotoKeepsTypeInv DEF Clear
  <1>12. CASE DropCreatedEnc
    BY <1>12, <1>0, Edits, Successors, GotoKeepsTypeInv DEF DropCreatedEnc
  <1>13. CASE Restore
    <2>1. \A f \in CanGoBack : MoveBack(f) \in KnownDisks
      BY <1>13, Moves DEF Restore, CanGoBack, Present, TypeInv
    <2> QED BY <1>13, <1>0, <2>1, GotoKeepsTypeInv DEF Restore, Steps, TypeInv
  <1> QED BY <1>1, <1>2, <1>3, <1>4, <1>5, <1>6, <1>7, <1>8, <1>9, <1>10, <1>11, <1>12, <1>13
          DEF MigrateToProtected

(* The steps of migrate_profile_to_file keep the types. *)
LEMMA MigrateToFileTyped == TypeInv /\ MigrateToFile => TypeInv'
  <1> SUFFICES ASSUME TypeInv, MigrateToFile PROVE TypeInv'
    OBVIOUS
  <1> USE DEF Step, JobKnown, ProtectSteps, AsideSteps
  <1>0. /\ job.sec \in Secret /\ job.sec.t \in Version
        /\ [c |-> job.sec.c, t |-> 0] \in Secret
    BY AbsentTypes DEF TypeInv, TypeOK, Jobs, Secret
  <1>1. CASE UnprotectMark
    BY <1>1, Edits, GotoKeepsTypeInv DEF UnprotectMark, Steps, TypeInv
  <1>2. CASE UnprotectCookies
    BY <1>2, <1>0, Edits, GotoKeepsTypeInv DEF UnprotectCookies, Steps, Files, TypeInv
  <1>3. CASE UnprotectMeta
    BY <1>3, <1>0, Edits, GotoKeepsTypeInv DEF UnprotectMeta, Steps, TypeInv
  <1>4. CASE UnprotectMode
    BY <1>4, Edits, GotoKeepsTypeInv DEF UnprotectMode, Steps, TypeInv
  <1>5. CASE UnprotectCommit
    BY <1>5, Edits, GotoKeepsTypeInv DEF UnprotectCommit, Steps, TypeInv
  <1>6. CASE UnprotectEnc
    BY <1>6, Edits, Successors, GotoKeepsTypeInv DEF UnprotectEnc
  <1>7. CASE UnprotectRoot
    BY <1>7, <1>0, Edits, GotoKeepsTypeInv DEF UnprotectRoot, Steps, Files, TypeInv
  <1> QED BY <1>1, <1>2, <1>3, <1>4, <1>5, <1>6, <1>7 DEF MigrateToFile

(* The steps of reconcile_pending_operations keep the types. *)
LEMMA ReconcileTyped == TypeInv /\ Reconcile => TypeInv'
  <1> SUFFICES ASSUME TypeInv, Reconcile PROVE TypeInv'
    OBVIOUS
  <1> USE DEF Step, JobKnown, ProtectSteps, AsideSteps
  <1>1. CASE FinishMode
    BY <1>1, Edits, GotoKeepsTypeInv DEF FinishMode, Steps, TypeInv
  <1>2. CASE FinishMeta
    BY <1>2, Edits, AbsentTypes, Successors, GotoKeepsTypeInv DEF FinishMeta
  <1>3. CASE FinishCookies
    <2>1. Remove({f \in {"cookies"} : Migrated(f)}) \in KnownDisks
      BY Edits DEF Files
    <2> QED BY <1>3, <2>1, Successors, GotoKeepsTypeInv DEF FinishCookies
  <1>4. CASE FinishRoot
    <2>1. Remove({f \in {"root"} : Migrated(f)}) \in KnownDisks
      BY Edits DEF Files
    <2> QED BY <1>4, <2>1, Successors, GotoKeepsTypeInv DEF FinishRoot
  <1>5. CASE AdoptMode
    BY <1>5, Edits, GotoKeepsTypeInv DEF AdoptMode, Steps, TypeInv
  <1>6. CASE AdoptEnc
    BY <1>6, Edits, Successors, GotoKeepsTypeInv DEF AdoptEnc
  <1>7. CASE RevertMode
    BY <1>7, Edits, GotoKeepsTypeInv DEF RevertMode, Steps, TypeInv
  <1> QED BY <1>1, <1>2, <1>3, <1>4, <1>5, <1>6, <1>7 DEF Reconcile

(* The steps of save_profile and save_tokens_to_cache keep the types. *)
LEMMA SaveProfileTyped == TypeInv /\ SaveProfile => TypeInv'
  <1> SUFFICES ASSUME TypeInv, SaveProfile PROVE TypeInv'
    OBVIOUS
  <1> USE DEF Step, JobKnown, ProtectSteps, AsideSteps
  <1>0. /\ job.sec \in Secret /\ job.sec.t \in Version /\ 0 \in Version
        /\ [c |-> job.sec.c, t |-> 0] \in Secret
    BY AbsentTypes DEF TypeInv, TypeOK, Jobs, Secret
  <1>1. CASE SaveRead
    <2>1. [DropEnc EXCEPT !.marker = NoMarker] \in KnownDisks
      BY Edits, AbsentTypes, DiskUpdates DEF NoMarker
    <2> QED BY <1>1, <2>1, GotoKeepsTypeInv DEF SaveRead, Steps, TypeInv
  <1>2. CASE SaveCookies
    BY <1>2, <1>0, Edits, GotoKeepsTypeInv DEF SaveCookies, Steps, Files, TypeInv
  <1>3. CASE SaveMeta
    BY <1>3, <1>0, Edits, GotoKeepsTypeInv DEF SaveMeta, Steps, TypeInv
  <1>4. CASE SaveRoot
    BY <1>4, <1>0, Edits, GotoKeepsTypeInv DEF SaveRoot, Steps, Files, TypeInv
  <1>5. CASE SaveUnlink
    <2>1. Remove({"cookies", "auth"}) \in KnownDisks
      BY Edits DEF Files
    <2> QED BY <1>5, <2>1, Successors, GotoKeepsTypeInv DEF SaveUnlink
  <1>6. CASE Saved
    BY <1>6, <1>0, AbsentTypes DEF Saved, TypeInv, TypeOK, Secret, NoJob
  <1> QED BY <1>1, <1>2, <1>3, <1>4, <1>5, <1>6 DEF SaveProfile

(* The steps of resolve_storage_conflict keep the types. *)
LEMMA ResolveConflictTyped == TypeInv /\ ResolveConflict => TypeInv'
  <1> SUFFICES ASSUME TypeInv, ResolveConflict PROVE TypeInv'
    OBVIOUS
  <1> USE DEF Step, JobKnown, ProtectSteps, AsideSteps
  <1>1. CASE ResolveUnlink
    BY <1>1, Edits, Successors, GotoKeepsTypeInv DEF ResolveUnlink
  <1>2. CASE ResolveEnc
    BY <1>2, Edits, Successors, GotoKeepsTypeInv DEF ResolveEnc
  <1>3. CASE ResolveMode
    BY <1>3, Edits, GotoKeepsTypeInv DEF ResolveMode
  <1> QED BY <1>1, <1>2, <1>3 DEF ResolveConflict

(* The commands that take the lock. *)
LEMMA BeginTyped == TypeInv /\ Begin => TypeInv'
  <1> SUFFICES ASSUME TypeInv, Begin PROVE TypeInv'
    OBVIOUS
  <1> USE DEF JobKnown, ProtectSteps, AsideSteps
  <1>0. /\ disk \in KnownDisks /\ disk.enc.c \in Version /\ EncSecret(disk) \in Secret
        /\ disk.marker \in Markers /\ disk.key \in BOOLEAN
        /\ disk.plain \in [Files -> Secret] /\ disk.meta \in Version
        /\ disk.plain["cookies"].c \in Version
    BY DEF TypeInv, KnownDisks, Disks, Envelope, Secret, EncSecret, Files
  <1>1. ASSUME NEW cmd \in {"protect", "unprotect"}, DecideSwitch(cmd) PROVE TypeInv'
    BY <1>1 DEF DecideSwitch, TypeInv, TypeOK, Pendings
  <1>2. CASE StartProtect
    <2>1. pending' \in Pendings
      BY <1>2 DEF StartProtect, Decided, TypeInv, TypeOK, Pendings
    <2>2. /\ spent.migration + 1 \in Ids /\ spent.migration + 1 \in 0 .. MaxMigrations
          /\ spent' \in [login : Version, migration : 0 .. MaxMigrations,
                         crash : 0 .. MaxCrashes, fault : 0 .. MaxFaults]
      BY <1>2, BoundsAssumption DEF StartProtect, TypeInv, TypeOK, Ids
    <2>3. ReadPlain(disk.plain, disk.meta) \in Secret
      BY <1>0, ReadPlainType
    <2>4. PICK keyPre \in {disk.key, FALSE} :
              Take("protect_mark",
                   [cmd |-> "protect", id |-> spent.migration + 1,
                    sec |-> ReadPlain(disk.plain, disk.meta),
                    encPre |-> disk.enc # NoEnc, keyPre |-> keyPre])
      BY <1>2 DEF StartProtect
    <2>5. /\ job' \in Jobs /\ pc' = "protect_mark"
          /\ job'.cmd = "protect" /\ job'.id \in Ids
      BY <1>0, <2>2, <2>3, <2>4 DEF Take, Jobs
    <2> QED BY <1>2, <2>1, <2>2, <2>5 DEF StartProtect, TypeInv, TypeOK, Steps
  <1>3. CASE ProtectNothing
    BY <1>3, Edits DEF ProtectNothing, Decided, TypeInv, TypeOK, Pendings, KnownDisks
  <1>4. ASSUME Unprotect PROVE disk' \in KnownDisks /\ pc' \in Steps \cup {"idle"}
                               /\ job' \in Jobs /\ JobKnown(pc', job') /\ spent' = spent
    <2>1. CASE Readable(disk) /\ Take("unprotect_mark",
                   [NoJob EXCEPT !.cmd = "unprotect", !.sec = EncSecret(disk)])
               /\ UNCHANGED <<disk, spent>>
      BY <2>1, <1>0, AbsentTypes DEF Take, Jobs, NoJob, Steps
    <2>2. CASE disk' = SetMode("file") /\ UNCHANGED <<pc, job, spent>>
      BY <2>2, Edits DEF TypeInv, TypeOK
    <2> QED BY <1>4, <2>1, <2>2 DEF Unprotect
  <1>5. CASE StartUnprotect
    BY <1>4, <1>5 DEF StartUnprotect, Acts, Decided, TypeInv, TypeOK, Pendings, KnownDisks
  <1>6. CASE StartRecover
    <2>1. [cmd |-> "recover", id |-> disk.marker.id, sec |-> disk.marker.sec,
           encPre |-> disk.marker.encPre, keyPre |-> disk.marker.keyPre] \in Jobs
      BY <1>0 DEF Markers, Jobs
    <2>2. /\ pc' \in {"restore", "finish_discard", "adopt_mode", "revert_mode", "clear"}
          /\ pc' \in AsideSteps => disk.marker.op = "protect"
          /\ job' = [cmd |-> "recover", id |-> disk.marker.id, sec |-> disk.marker.sec,
                     encPre |-> disk.marker.encPre, keyPre |-> disk.marker.keyPre]
          /\ UNCHANGED <<disk, pending, acked, spent, outdated>>
      BY <1>6 DEF StartRecover, Take
    <2> QED BY <1>0, <2>1, <2>2 DEF TypeInv, TypeOK, Steps, KnownDisks
  <1>7. ASSUME NEW cmd \in {"save", "login"}, NEW withTokens \in BOOLEAN,
               StartSave(cmd, withTokens)
        PROVE  TypeInv'
    <2> DEFINE v == spent.login + 1
               j == [NoJob EXCEPT !.cmd = cmd,
                                  !.sec = [c |-> v, t |-> IF withTokens THEN v ELSE 0]]
    <2>1. v \in Version
      BY <1>7, BoundsAssumption DEF StartSave, TypeInv, TypeOK, Version
    <2>2. j \in Jobs /\ j.cmd = cmd
      BY <2>1, AbsentTypes DEF Jobs, NoJob, Secret
    <2>3. /\ pc' \in {"save_cookies", "save_read", "write_mark"} /\ job' = j
          /\ spent' = [spent EXCEPT !.login = v] /\ UNCHANGED <<disk, pending, acked, outdated>>
      BY <1>7 DEF StartSave, Take
    <2>4. spent' \in [login : Version, migration : 0 .. MaxMigrations,
                      crash : 0 .. MaxCrashes, fault : 0 .. MaxFaults]
      BY <2>1, <2>3 DEF TypeInv, TypeOK
    <2> QED BY <2>2, <2>3, <2>4 DEF TypeInv, TypeOK, Steps
  <1>8. \A cmd \in {"resolve_protected", "resolve_file"} : [NoJob EXCEPT !.cmd = cmd] \in Jobs
                                    /\ [NoJob EXCEPT !.cmd = cmd].cmd = cmd
    BY AbsentTypes DEF Jobs, NoJob
  <1>9. CASE ResolveProtected
    BY <1>0, <1>8, <1>9 DEF ResolveProtected, CanResolve, Take, TypeInv, TypeOK, Steps
  <1>10. CASE ResolveFile
    <2>1. CASE disk.plain["cookies"] # None
      BY <1>0, <1>8, <1>10, <2>1 DEF ResolveFile, CanResolve, Take, TypeInv, TypeOK, Steps
    <2>2. CASE disk.plain["cookies"] = None
      BY <1>0, <1>4, <1>10, <2>2 DEF ResolveFile, CanResolve, TypeInv, TypeOK, KnownDisks
    <2> QED BY <2>1, <2>2
  <1>11. CASE DiscardInaccessible
    BY <1>8, <1>11 DEF DiscardInaccessible, CanResolve, Take, TypeInv, TypeOK, Steps
  <1>12. CASE ClearMarker
    BY <1>12, Edits DEF ClearMarker, TypeInv, TypeOK, KnownDisks
  <1> QED BY <1>1, <1>2, <1>3, <1>5, <1>6, <1>7, <1>9, <1>10, <1>11, <1>12 DEF Begin

(* What set_storage_mode does without the lock keeps the types. *)
LEMMA UnlockedTyped == TypeInv /\ Unlocked => TypeInv'
  <1> SUFFICES ASSUME TypeInv, Unlocked PROVE TypeInv'
    OBVIOUS
  <1> USE DEF JobKnown, ProtectSteps, AsideSteps
  <1>1. CASE DecideTidy
    BY <1>1 DEF DecideTidy, TypeInv, TypeOK, Pendings
  <1>2. CASE TidyUnlink
    <2>1. PICK d \in KnownDisks, to \in {"key", "auth", "none"},
               from \in {"enc", "cookies", "auth"} :
              \E sound : TidyStep(from, to, d, sound)
      BY <1>2, Edits DEF TidyUnlink, Files
    <2> QED BY <2>1 DEF TidyStep, Acts, TypeInv, TypeOK, Pendings, KnownDisks
  <1>3. CASE TidyKey
    BY <1>3, AbsentTypes DEF TidyKey, Acts, Take, TypeInv, TypeOK, Pendings, Jobs, NoJob, Steps
  <1>4. CASE GiveUp
    BY <1>4 DEF GiveUp, TypeInv, TypeOK, Pendings
  <1> QED BY <1>1, <1>2, <1>3, <1>4 DEF Unlocked

(* Refused keystore calls and file operations and crashes keep the types. *)
LEMMA FailureTyped == TypeInv /\ Failure => TypeInv'
  <1> SUFFICES ASSUME TypeInv, Failure PROVE TypeInv'
    OBVIOUS
  <1>0. disk \in KnownDisks
    BY DEF TypeInv
  <1>1. CASE KeystoreRefuses
    BY <1>0, <1>1, Successors, GotoKeepsTypeInv DEF KeystoreRefuses
  <1>2. CASE KeystoreTimesOut
    BY <1>2, Edits, Successors, GotoKeepsTypeInv DEF KeystoreTimesOut, Step
  <1>3. CASE DiskFault
    <2>1. spent' \in [login : Version, migration : 0 .. MaxMigrations,
                      crash : 0 .. MaxCrashes, fault : 0 .. MaxFaults]
      BY <1>3, BudgetAssumption DEF DiskFault, TypeInv, TypeOK
    <2> DEFINE to == IF pc \in Suppressed THEN Then ELSE Raised
    <2>2. to \in Steps \cup {"idle"} /\ JobKnown(to, job) /\ Move(to, disk)
      BY <1>3, Successors DEF DiskFault
    <2> QED BY <1>0, <2>1, <2>2, MoveKeepsTypeInv
  <1>4. CASE Crash
    <2>1. spent' \in [login : Version, migration : 0 .. MaxMigrations,
                      crash : 0 .. MaxCrashes, fault : 0 .. MaxFaults]
      BY <1>4, BudgetAssumption DEF Crash, TypeInv, TypeOK
    <2> QED BY <1>0, <1>4, <2>1, MoveKeepsTypeInv DEF Crash
  <1> QED BY <1>1, <1>2, <1>3, <1>4 DEF Failure

(* Every initial disk is a disk. *)
LEMMA InitTyped == Init => TypeInv
  <1> SUFFICES ASSUME Init PROVE TypeInv
    OBVIOUS
  <1>1. 1 \in Version /\ 0 \in 0 .. MaxMigrations
    BY BoundsAssumption DEF Version
  <1>2. NewDisk \in KnownDisks /\ NewDisk.plain = NoFiles
    BY <1>1, AbsentTypes DEF NewDisk, KnownDisks, Disks, NoMarker
  <1>3. ASSUME NEW older \in BOOLEAN PROVE LoggedInDisk(older) \in KnownDisks
    <2> DEFINE login == [c |-> 1, t |-> 1]
               files == [f \in Files |->
                            CASE f = "cookies" -> [login EXCEPT !.t = 0]
                              [] f = "auth" -> IF older THEN login ELSE None
                              [] f = "root" -> IF IsDefault THEN login ELSE None]
    <2>1. login \in Secret /\ [login EXCEPT !.t = 0] \in Secret
      BY <1>1, AbsentTypes DEF Secret
    <2>2. \A f \in Files : f = "cookies" \/ f = "auth" \/ f = "root"
      BY DEF Files
    <2>3. files \in [Files -> Secret]
      BY <2>1, <2>2, AbsentTypes
    <2> QED BY <1>1, <1>2, <2>3, DiskUpdates DEF LoggedInDisk, KnownDisks, Disks
  <1>4. disk \in KnownDisks
    BY <1>2, <1>3 DEF Init
  <1>5. acked \in Version
    BY <1>4 DEF Init, KnownDisks, Disks, Secret, Files
  <1>6. spent \in [login : Version, migration : 0 .. MaxMigrations,
                   crash : 0 .. MaxCrashes, fault : 0 .. MaxFaults]
    BY <1>1, <1>5, BudgetAssumption DEF Init
  <1>7. /\ pending \in Pendings /\ job \in Jobs /\ pc = "idle" /\ job.cmd = "none"
        /\ outdated \in BOOLEAN
    BY AbsentTypes DEF Init, NoPending, Pendings, NoJob
  <1> QED BY <1>4, <1>5, <1>6, <1>7
          DEF TypeInv, TypeOK, KnownDisks, JobKnown, ProtectSteps, AsideSteps

(* Every step keeps the types. *)
LEMMA NextTyped == TypeInv /\ [Next]_vars => TypeInv'
  <1> SUFFICES ASSUME TypeInv, [Next]_vars PROVE TypeInv'
    OBVIOUS
  <1>1. CASE Begin
    BY <1>1, BeginTyped
  <1>2. CASE Unlocked
    BY <1>2, UnlockedTyped
  <1>3. CASE Continue
    BY <1>3, WriteCredentialsTyped, DeleteCredentialsTyped, MigrateToProtectedTyped,
       MigrateToFileTyped, ReconcileTyped, SaveProfileTyped, ResolveConflictTyped DEF Continue
  <1>4. CASE Failure
    BY <1>4, FailureTyped
  <1>5. CASE UNCHANGED vars
    BY <1>5 DEF vars, TypeInv, TypeOK, KnownDisks, JobKnown
  <1> QED BY <1>1, <1>2, <1>3, <1>4, <1>5 DEF Next

(* TypeInv is an invariant of the specification. *)
LEMMA AlwaysTyped == Spec => []TypeInv
  BY InitTyped, NextTyped, PTL DEF Spec

(* Every reachable state is one of the states the types describe; a        *)
(* rollback or reconciliation never names a quarantine that does not exist.*)
THEOREM TypeCorrect == Spec => []TypeOK
  <1>1. TypeInv => TypeOK
    BY DEF TypeInv
  <1> QED BY <1>1, AlwaysTyped, PTL

(* A step of the lock holder spends nothing, leaves what was decided       *)
(* before the lock alone and rests on no earlier check.                    *)
LEMMA HolderSpendsNothing ==
    Continue => pending' = pending /\ spent' = spent /\ outdated' = outdated
  <1> SUFFICES ASSUME Continue
               PROVE  pending' = pending /\ spent' = spent /\ outdated' = outdated
    OBVIOUS
  <1> USE DEF Step, Goto, Move
  <1>1. CASE WriteCredentials
    BY <1>1 DEF WriteCredentials, WriteMark, WriteKey, WriteCommit, WriteEnc, WriteClear
  <1>2. CASE DeleteCredentials
    BY <1>2 DEF DeleteCredentials, DeleteMark, DeleteKey, DeleteEnc, DeleteCleanup, DeleteClear
  <1>3. CASE MigrateToProtected
    BY <1>3 DEF MigrateToProtected, ProtectMark, ProtectVerify, ProtectMove, ProtectRecheck,
                ProtectRestore, ProtectCommit, ProtectMeta, ProtectMode, ProtectCleanup,
                DiscardAside, Clear, DropCreatedEnc, Restore
  <1>4. CASE MigrateToFile
    BY <1>4 DEF MigrateToFile, UnprotectMark, UnprotectCookies, UnprotectMeta, UnprotectMode,
                UnprotectCommit, UnprotectEnc, UnprotectRoot
  <1>5. CASE Reconcile
    BY <1>5 DEF Reconcile, FinishMode, FinishMeta, FinishCookies, FinishRoot, AdoptMode,
                AdoptEnc, RevertMode
  <1>6. CASE SaveProfile
    BY <1>6 DEF SaveProfile, SaveRead, SaveCookies, SaveMeta, SaveRoot, SaveUnlink, Saved
  <1>7. CASE ResolveConflict
    BY <1>7 DEF ResolveConflict, ResolveUnlink, ResolveEnc, ResolveMode
  <1> QED BY <1>1, <1>2, <1>3, <1>4, <1>5, <1>6, <1>7 DEF Continue

(* No step gives back what was spent. *)
LEMMA SpentOnlyGrows ==
    ASSUME TypeInv, [Next]_vars
    PROVE  spent'.crash >= spent.crash /\ spent'.fault >= spent.fault
  <1>0. spent \in [login : Version, migration : 0 .. MaxMigrations,
                  crash : 0 .. MaxCrashes, fault : 0 .. MaxFaults]
    BY DEF TypeInv, TypeOK
  <1>1. CASE Begin
    <2>1. \/ spent' = spent \/ spent' = [spent EXCEPT !.migration = @ + 1]
          \/ \E v : spent' = [spent EXCEPT !.login = v]
      BY <1>1 DEF Begin, DecideSwitch, StartProtect, ProtectNothing, StartUnprotect, Unprotect,
                  StartRecover, StartSave, ResolveProtected, ResolveFile,
                  DiscardInaccessible, ClearMarker
    <2> QED BY <1>0, <2>1
  <1>2. CASE Unlocked
    <2>1. spent' = spent
      BY <1>2 DEF Unlocked, DecideTidy, TidyUnlink, TidyStep, TidyKey, GiveUp
    <2> QED BY <1>0, <2>1
  <1>3. CASE Continue
    BY <1>0, <1>3, HolderSpendsNothing
  <1>4. CASE Failure
    BY <1>0, <1>4 DEF Failure, KeystoreRefuses, KeystoreTimesOut, DiskFault, Crash, Step, Goto
  <1>5. CASE UNCHANGED vars
    BY <1>0, <1>5 DEF vars
  <1> QED BY <1>1, <1>2, <1>3, <1>4, <1>5 DEF Next

(* What is outdated stays so. *)
LEMMA OutdatedStays ==
    ASSUME [Next]_vars, outdated
    PROVE  outdated'
  <1>1. CASE Begin
    BY <1>1 DEF Begin, DecideSwitch, StartProtect, ProtectNothing, StartUnprotect, Acts,
                StartRecover, StartSave, ResolveProtected, ResolveFile, DiscardInaccessible,
                CanResolve, ClearMarker
  <1>2. CASE Unlocked
    BY <1>2 DEF Unlocked, DecideTidy, TidyUnlink, TidyStep, TidyKey, Acts, GiveUp
  <1>3. CASE Continue
    BY <1>3, HolderSpendsNothing
  <1>4. CASE Failure
    BY <1>4 DEF Failure, KeystoreRefuses, KeystoreTimesOut, DiskFault, Crash, Step, Goto, Move
  <1>5. CASE UNCHANGED vars
    BY <1>5 DEF vars
  <1> QED BY <1>1, <1>2, <1>3, <1>4, <1>5 DEF Next

(* A change without the lock that rests on a check that still holds finds  *)
(* the lock free and nothing unfinished.                                   *)
LEMMA UnlockedChanges ==
    ASSUME Unlocked, ~outdated'
    PROVE  \/ UNCHANGED <<disk, pc, job, acked, spent>>
           \/ /\ Idle /\ disk.marker = NoMarker /\ UNCHANGED <<acked, spent>>
              /\ \/ disk' = DropEnc /\ disk.mode = "file" /\ CopiesAgree(disk)
                    /\ UNCHANGED <<pc, job>>
                 \/ disk' = Remove({"cookies"}) /\ disk.mode = "protected" /\ CopiesAgree(disk)
                    /\ UNCHANGED <<pc, job>>
                 \/ disk' = Remove({"auth"}) /\ UNCHANGED <<pc, job>>
                 \/ disk' = disk /\ disk.enc = NoEnc
                    /\ pc' = "delete_mark" /\ job' = [NoJob EXCEPT !.cmd = "tidy"]
  BY DEF Unlocked, DecideTidy, TidyUnlink, TidyStep, TidyKey, Take, Acts, GiveUp, Unfinished

-------------------------------------------------------------------------------
(* The key and the ciphertext *)

(* What a step may do to them: only write_credentials makes a key, and     *)
(* only where no ciphertext could depend on another; only it writes an     *)
(* envelope, under the key that is there.                                  *)
KeyOrEnvelopeStep ==
    \/ disk'.enc = disk.enc /\ disk'.key = disk.key
    \/ disk'.enc = disk.enc /\ HasOrMakesKey(disk)
    \/ disk'.enc.sealed
    \/ disk'.enc = NoEnc
    \/ disk'.key = FALSE

(* Every step is such a step. *)
LEMMA OnlyTheseChangeKeyOrEnvelope == TypeInv /\ [Next]_vars => KeyOrEnvelopeStep
  <1> SUFFICES ASSUME TypeInv, [Next]_vars PROVE KeyOrEnvelopeStep
    OBVIOUS
  <1>0. disk \in Disks
    BY DEF TypeInv, TypeOK
  <1> USE <1>0 DEF KeyOrEnvelopeStep, Disks
  <1>1. CASE Begin
    <2>1. ASSUME NEW cmd \in {"protect", "unprotect"}, DecideSwitch(cmd) PROVE disk' = disk
      BY <2>1 DEF DecideSwitch
    <2>2. StartProtect \/ StartRecover \/ ResolveProtected \/ DiscardInaccessible => disk' = disk
      BY DEF StartProtect, StartRecover, ResolveProtected, DiscardInaccessible
    <2>3. ProtectNothing => disk' = SetMode("protected")
      BY DEF ProtectNothing
    <2>4. ASSUME NEW cmd \in {"save", "login"}, NEW withTokens \in BOOLEAN,
                 StartSave(cmd, withTokens)
          PROVE  disk' = disk
      BY <2>4 DEF StartSave
    <2>5. StartUnprotect \/ ResolveFile => disk' = disk \/ disk' = SetMode("file")
      BY DEF StartUnprotect, ResolveFile, Unprotect
    <2>6. ClearMarker => disk' = SetMark(NoMarker)
      BY DEF ClearMarker
    <2> QED BY <1>1, <2>1, <2>2, <2>3, <2>4, <2>5, <2>6 DEF Begin, SetMode, SetMark
  <1>2. CASE Unlocked
    BY <1>2 DEF Unlocked, DecideTidy, TidyUnlink, TidyStep, TidyKey, GiveUp, DropEnc, Remove
  <1>3. CASE Continue
    <2> USE DEF Step, Goto, Move, SetMark, SetMode, Put, Remove, DropEnc
    <2>1. CASE WriteCredentials
      BY <2>1 DEF WriteCredentials, WriteMark, WriteKey, WriteCommit, WriteEnc, WriteClear,
                  WithKey
    <2>2. CASE DeleteCredentials
      BY <2>2 DEF DeleteCredentials, DeleteMark, DeleteKey, DeleteEnc, DeleteCleanup,
                  DeleteClear, WithoutKey
    <2>3. CASE MigrateToProtected
      BY <2>3 DEF MigrateToProtected, ProtectMark, ProtectVerify, ProtectMove, ProtectRecheck,
                  ProtectRestore, ProtectCommit, ProtectMeta, ProtectMode, ProtectCleanup,
                  DiscardAside, Clear, DropCreatedEnc, Restore, MoveAside, MoveBack
    <2>4. CASE MigrateToFile
      BY <2>4 DEF MigrateToFile, UnprotectMark, UnprotectCookies, UnprotectMeta, UnprotectMode,
                  UnprotectCommit, UnprotectEnc, UnprotectRoot
    <2>5. CASE Reconcile
      BY <2>5 DEF Reconcile, FinishMode, FinishMeta, FinishCookies, FinishRoot, AdoptMode,
                  AdoptEnc, RevertMode
    <2>6. CASE SaveProfile
      BY <2>6 DEF SaveProfile, SaveRead, SaveCookies, SaveMeta, SaveRoot, SaveUnlink, Saved
    <2>7. CASE ResolveConflict
      BY <2>7 DEF ResolveConflict, ResolveUnlink, ResolveEnc, ResolveMode
    <2> QED BY <1>3, <2>1, <2>2, <2>3, <2>4, <2>5, <2>6, <2>7 DEF Continue
  <1>4. CASE Failure
    BY <1>4 DEF Failure, KeystoreRefuses, KeystoreTimesOut, DiskFault, Crash, Step, Goto, Move,
                WithKey, WithoutKey
  <1>5. CASE UNCHANGED vars
    BY <1>5 DEF vars
  <1> QED BY <1>1, <1>2, <1>3, <1>4, <1>5 DEF Next

(* No interleaving of writes, deletions, timeouts and crashes leaves an    *)
(* envelope beside a key that cannot open it.                              *)
THEOREM KeyAlwaysOpensCiphertext == Spec => []KeyOpensCiphertext
  <1>1. Init => KeyOpensCiphertext
    <2>1. NewDisk.key = FALSE
      BY DEF NewDisk
    <2>2. \A older \in BOOLEAN : LoggedInDisk(older).key = FALSE
      BY <2>1 DEF LoggedInDisk, NewDisk
    <2> QED BY <2>1, <2>2 DEF Init, KeyOpensCiphertext
  <1>2. TypeInv /\ KeyOpensCiphertext /\ [Next]_vars => KeyOpensCiphertext'
    <2> SUFFICES ASSUME TypeInv, KeyOpensCiphertext, [Next]_vars PROVE KeyOpensCiphertext'
      OBVIOUS
    <2>1. KeyOrEnvelopeStep
      BY OnlyTheseChangeKeyOrEnvelope
    <2> QED BY <2>1 DEF KeyOrEnvelopeStep, HasOrMakesKey, KeyOpensCiphertext
  <1> QED BY <1>1, <1>2, AlwaysTyped, PTL DEF Spec

-------------------------------------------------------------------------------
(* A committed migration *)

Committed(d) == d.marker.op = "protect" /\ d.marker.phase # "preparing"
Holds(d, s) == Readable(d) /\ EncSecret(d) = s

(* After the verification and until the marker's last write, the envelope  *)
(* holds the secret of the job.                                            *)
VerifiedSteps == {"protect_move", "protect_commit", "protect_meta", "protect_mode",
                  "protect_cleanup"}

(* The only steps at which a holder may find a committed marker: none of   *)
(* them touches the envelope or the key.  Every command that does has      *)
(* replaced the marker by its own before, or began without one.            *)
HeldSteps == {"idle", "protect_meta", "protect_mode", "protect_cleanup", "protect_discard",
              "clear", "finish_discard", "finish_mode", "finish_meta", "finish_cookies",
              "finish_root", "save_read", "save_cookies", "save_meta", "save_root",
              "save_unlink", "saved", "write_mark"}

(* CommittedMeansSealed is not inductive: it needs to know what a holder   *)
(* that overtakes the committed migration may be doing.                    *)
SealInv ==
    NoFault /\ ~outdated =>
        /\ Committed(disk) =>
              /\ Holds(disk, disk.marker.sec)
              /\ pc \in HeldSteps
              /\ pc \in {"save_read", "write_mark"} => job.cmd # "protect"
        /\ pc \in VerifiedSteps => Holds(disk, job.sec)

(* No initial disk has a marker. *)
LEMMA InitSealed == Init => SealInv
  <1>1. NewDisk.marker = NoMarker
    BY DEF NewDisk
  <1>2. \A older \in BOOLEAN : LoggedInDisk(older).marker = NoMarker
    BY <1>1 DEF LoggedInDisk, NewDisk
  <1>3. Init => ~Committed(disk)
    <2>1. Init => disk.marker = NoMarker
      BY <1>1, <1>2 DEF Init
    <2> QED BY <2>1 DEF Committed, NoMarker
  <1>4. Init => pc \notin VerifiedSteps
    BY DEF Init, VerifiedSteps
  <1> QED BY <1>3, <1>4 DEF SealInv

(* A step of the lock holder keeps SealInv: those that touch the envelope  *)
(* or the key are not among HeldSteps, so they find no committed marker.   *)
LEMMA ContinueSealed == TypeInv /\ SealInv /\ Continue => SealInv'
  <1> SUFFICES ASSUME TypeInv, SealInv, Continue PROVE SealInv'
    OBVIOUS
  <1>00. disk \in Disks /\ JobKnown(pc, job)
    BY DEF TypeInv, TypeOK
  <1>0. spent' = spent /\ outdated' = outdated
    BY HolderSpendsNothing
  <1> USE <1>00, <1>0 DEF Disks, Step, Goto, Move, SealInv, Committed, Holds, NoFault, HeldSteps,
                   VerifiedSteps, Readable, EncSecret
  <1>m. \A op \in {"write", "delete"}, phase \in {"preparing", "committed", "cleanup"} :
            ~Committed(SetMark(StoreMarked(op, phase)))
    BY DEF StoreMarked, SetMark, NoMarker
  <1>1. CASE WriteCredentials
    <2>1. CASE WriteMark
      BY <1>m, <2>1 DEF WriteMark
    <2>2. CASE WriteKey
      BY <2>2 DEF WriteKey, WithKey
    <2>3. CASE WriteCommit
      BY <1>m, <2>3 DEF WriteCommit
    <2>4. CASE WriteEnc
      BY <2>4 DEF WriteEnc
    <2>5. CASE WriteClear
      BY <2>5 DEF WriteClear, SetMark, NoMarker, Then, AfterWrite
    <2> QED BY <1>1, <2>1, <2>2, <2>3, <2>4, <2>5 DEF WriteCredentials
  <1>2. CASE DeleteCredentials
    <2>1. CASE DeleteMark
      BY <1>m, <2>1 DEF DeleteMark
    <2>2. CASE DeleteKey
      BY <2>2 DEF DeleteKey, WithoutKey
    <2>3. CASE DeleteEnc
      BY <2>3 DEF DeleteEnc, DropEnc
    <2>4. CASE DeleteCleanup
      BY <1>m, <2>4 DEF DeleteCleanup
    <2>5. CASE DeleteClear
      BY <2>5 DEF DeleteClear, SetMark, NoMarker, Then, AfterDelete
    <2> QED BY <1>2, <2>1, <2>2, <2>3, <2>4, <2>5 DEF DeleteCredentials
  <1>3. CASE MigrateToProtected
    <2> USE DEF JobKnown, ProtectSteps, SetMark, SetMode, Marked, NoMarker
    <2>1. CASE ProtectMark
      BY <2>1 DEF ProtectMark
    <2>2. CASE ProtectVerify
      BY <2>2 DEF ProtectVerify, Verified
    <2>3. CASE ProtectMove
      BY <2>3 DEF ProtectMove, MoveAside
    <2>4. CASE ProtectRecheck
      BY <2>4 DEF ProtectRecheck
    <2>5. CASE ProtectRestore
      BY <2>5 DEF ProtectRestore, MoveBack
    <2>6. CASE ProtectCommit
      BY <2>6 DEF ProtectCommit
    <2>7. CASE ProtectMeta
      BY <2>7 DEF ProtectMeta
    <2>8. CASE ProtectMode
      BY <2>8 DEF ProtectMode
    <2>9. CASE ProtectCleanup
      BY <2>9 DEF ProtectCleanup
    <2>10. CASE DiscardAside
      BY <2>10 DEF DiscardAside, Then
    <2>11. CASE Clear
      BY <2>11 DEF Clear
    <2>12. CASE DropCreatedEnc
      BY <2>12 DEF DropCreatedEnc, DropEnc, Then, AfterDelete
    <2>13. CASE Restore
      BY <2>13 DEF Restore, MoveBack
    <2> QED BY <1>3, <2>1, <2>2, <2>3, <2>4, <2>5, <2>6, <2>7, <2>8, <2>9, <2>10, <2>11,
               <2>12, <2>13 DEF MigrateToProtected
  <1>4. CASE MigrateToFile
    <2>1. CASE UnprotectMark
      BY <2>1 DEF UnprotectMark, Marked, SetMark
    <2>2. CASE UnprotectCookies
      BY <2>2 DEF UnprotectCookies, Put
    <2>3. CASE UnprotectMeta
      BY <2>3 DEF UnprotectMeta
    <2>4. CASE UnprotectMode
      BY <2>4 DEF UnprotectMode, SetMode
    <2>5. CASE UnprotectCommit
      BY <2>5 DEF UnprotectCommit, Marked, SetMark
    <2>6. CASE UnprotectEnc
      BY <2>6 DEF UnprotectEnc, DropEnc, Then
    <2>7. CASE UnprotectRoot
      BY <2>7 DEF UnprotectRoot, Put
    <2> QED BY <1>4, <2>1, <2>2, <2>3, <2>4, <2>5, <2>6, <2>7 DEF MigrateToFile
  <1>5. CASE Reconcile
    BY <1>5 DEF Reconcile, FinishMode, FinishMeta, FinishCookies, FinishRoot, AdoptMode,
                AdoptEnc, RevertMode, SetMode, Remove, DropEnc, Then
  <1>6. CASE SaveProfile
    <2>1. CASE SaveRead
      <3>1. CASE DeletionIntended(disk)
        <4>1. [DropEnc EXCEPT !.marker = NoMarker].marker.op = "none"
          BY DEF DropEnc, NoMarker
        <4>2. pc' = "write_mark" /\ disk'.marker.op = "none"
          BY <2>1, <3>1, <4>1 DEF SaveRead
        <4> QED BY <4>2
      <3>2. CASE ~DeletionIntended(disk)
        BY <2>1, <3>2 DEF SaveRead, DeletionIntended
      <3> QED BY <3>1, <3>2
    <2>2. CASE SaveCookies
      BY <2>2 DEF SaveCookies, Put
    <2>3. CASE SaveMeta
      BY <2>3 DEF SaveMeta
    <2>4. CASE SaveRoot
      BY <2>4 DEF SaveRoot, Put
    <2>5. CASE SaveUnlink
      BY <2>5 DEF SaveUnlink, Remove, Then
    <2>6. CASE Saved
      BY <2>6 DEF Saved
    <2> QED BY <1>6, <2>1, <2>2, <2>3, <2>4, <2>5, <2>6 DEF SaveProfile
  <1>7. CASE ResolveConflict
    BY <1>7 DEF ResolveConflict, ResolveUnlink, ResolveEnc, ResolveMode, SetMode, Remove,
                DropEnc, Then
  <1> QED BY <1>1, <1>2, <1>3, <1>4, <1>5, <1>6, <1>7 DEF Continue

(* A command that begins leaves the envelope and the key alone; one that   *)
(* will touch them finds no committed marker, or is a save.                *)
LEMMA BeginSealed == TypeInv /\ SealInv /\ Begin => SealInv'
  <1> SUFFICES ASSUME TypeInv, SealInv, Begin PROVE SealInv'
    OBVIOUS
  <1>0. disk \in Disks
    BY DEF TypeInv, TypeOK
  <1>m. ~Unfinished => ~Committed(disk)
    BY DEF Unfinished, Committed, NoMarker
  <1> USE <1>0 DEF Disks, SealInv, Committed, Holds, NoFault, HeldSteps, VerifiedSteps,
                   Readable, EncSecret, Idle, Take
  <1>1. ASSUME NEW cmd \in {"protect", "unprotect"}, DecideSwitch(cmd) PROVE SealInv'
    BY <1>1 DEF DecideSwitch
  <1>2. CASE StartProtect
    <2>1. /\ pc' = "protect_mark" /\ disk' = disk
          /\ spent'.fault = spent.fault /\ outdated' = outdated
      BY <1>2 DEF StartProtect, TypeInv, TypeOK
    <2> QED BY <1>m, <1>2, <2>1 DEF StartProtect
  <1>3. CASE ProtectNothing
    <2>1. disk'.marker = disk.marker /\ pc' = "idle"
      BY <1>3 DEF ProtectNothing, SetMode
    <2> QED BY <1>m, <1>3, <2>1 DEF ProtectNothing
  <1>4. ASSUME Unprotect, outdated => outdated' PROVE SealInv'
    <2>1. /\ disk'.marker = disk.marker /\ pc' \in {"idle", "unprotect_mark"}
          /\ spent' = spent
      BY <1>4 DEF Unprotect, SetMode
    <2> QED BY <1>m, <1>4, <2>1 DEF Unprotect
  <1>5. CASE StartUnprotect
    BY <1>4, <1>5 DEF StartUnprotect, Acts
  <1>6. CASE StartRecover
    <2>1. /\ pc' \in {"restore", "finish_discard", "adopt_mode", "revert_mode", "clear"}
          /\ Committed(disk) => pc' = "finish_discard"
          /\ UNCHANGED <<disk, acked, spent, outdated>>
      BY <1>6 DEF StartRecover
    <2> QED BY <2>1
  <1>7. ASSUME NEW cmd \in {"save", "login"}, NEW withTokens \in BOOLEAN,
               StartSave(cmd, withTokens)
        PROVE  SealInv'
    <2>1. /\ pc' \in {"save_cookies", "save_read", "write_mark"}
          /\ job'.cmd = cmd /\ spent'.fault = spent.fault
          /\ UNCHANGED <<disk, acked, outdated>>
      BY <1>7 DEF StartSave, NoJob, TypeInv, TypeOK
    <2> QED BY <1>7, <2>1 DEF StartSave
  <1>8. CASE ResolveProtected
    BY <1>m, <1>8 DEF ResolveProtected, CanResolve
  <1>9. CASE ResolveFile
    <2>1. CASE disk.plain["cookies"] # None
      BY <1>m, <1>9, <2>1 DEF ResolveFile, CanResolve
    <2>2. CASE disk.plain["cookies"] = None
      BY <1>4, <1>9, <2>2 DEF ResolveFile, CanResolve
    <2> QED BY <2>1, <2>2
  <1>10. CASE DiscardInaccessible
    BY <1>m, <1>10 DEF DiscardInaccessible, CanResolve
  <1>11. CASE ClearMarker
    <2>1. disk'.marker.op = "none"
      BY <1>11 DEF ClearMarker, SetMark, NoMarker
    <2> QED BY <1>11, <2>1 DEF ClearMarker
  <1> QED BY <1>1, <1>2, <1>3, <1>5, <1>6, <1>7, <1>8, <1>9, <1>10, <1>11 DEF Begin

(* What changes without the lock changes while it is free and nothing is   *)
(* unfinished, unless it is outdated.                                      *)
LEMMA UnlockedSealed == TypeInv /\ SealInv /\ Unlocked => SealInv'
  <1> SUFFICES ASSUME TypeInv, SealInv, Unlocked, NoFault', ~outdated' PROVE SealInv'
    BY DEF SealInv
  <1>1. ~outdated
    BY OutdatedStays DEF Next
  <1>2. CASE UNCHANGED <<disk, pc, job, acked, spent>>
    BY <1>1, <1>2 DEF SealInv, NoFault
  <1>3. CASE ~UNCHANGED <<disk, pc, job, acked, spent>>
    <2>1. disk'.marker = NoMarker /\ pc' \in {"idle", "delete_mark"}
      BY <1>3, UnlockedChanges DEF DropEnc, Remove, Idle, TypeInv, TypeOK, Disks
    <2> QED BY <2>1 DEF SealInv, Committed, NoMarker, VerifiedSteps
  <1> QED BY <1>2, <1>3

(* A crash leaves the disk as it is; a refused keystore call leaves        *)
(* HeldSteps only to let go of the lock; a refused file operation ends     *)
(* what SealInv claims.                                                    *)
LEMMA FailureSealed == TypeInv /\ SealInv /\ Failure => SealInv'
  <1> SUFFICES ASSUME TypeInv, SealInv, Failure PROVE SealInv'
    OBVIOUS
  <1>0. disk \in Disks /\ JobKnown(pc, job) /\ spent.fault \in Nat
    BY DEF TypeInv, TypeOK
  <1> USE <1>0 DEF Disks, Goto, Move, SealInv, Committed, Holds, NoFault, HeldSteps,
                   VerifiedSteps, Readable, EncSecret, JobKnown, ProtectSteps
  <1>1. CASE KeystoreRefuses
    BY <1>1 DEF KeystoreRefuses, KeystoreCalls, Raised, Caught, Deleting, AfterDelete
  <1>2. CASE KeystoreTimesOut
    BY <1>2 DEF KeystoreTimesOut, Step, WithKey, WithoutKey, Raised, Caught, Deleting,
                AfterDelete
  <1>3. CASE DiskFault
    <2>1. spent'.fault = spent.fault + 1
      BY <1>3 DEF DiskFault, TypeInv, TypeOK
    <2> QED BY <2>1
  <1>4. CASE Crash
    <2>1. spent'.fault = spent.fault /\ pc' = "idle" /\ UNCHANGED <<disk, outdated>>
      BY <1>4 DEF Crash, TypeInv, TypeOK
    <2> QED BY <2>1
  <1> QED BY <1>1, <1>2, <1>3, <1>4 DEF Failure

(* A migration that no file operation failed is committed only on disks    *)
(* whose readable ciphertext holds the migrated secret, whatever crashed   *)
(* and whoever took the lock since, until set_storage_mode acts on a check *)
(* that does not hold any more: the quarantine that reconciliation then    *)
(* destroys is a copy of it.                                               *)
THEOREM CommittedIsSealed == Spec => []CommittedMeansSealed
  <1>1. TypeInv /\ SealInv /\ [Next]_vars => SealInv'
    <2> SUFFICES ASSUME TypeInv, SealInv, [Next]_vars PROVE SealInv'
      OBVIOUS
    <2>1. CASE Begin
      BY <2>1, BeginSealed
    <2>2. CASE Unlocked
      BY <2>2, UnlockedSealed
    <2>3. CASE Continue
      BY <2>3, ContinueSealed
    <2>4. CASE Failure
      BY <2>4, FailureSealed
    <2>5. CASE UNCHANGED vars
      BY <2>5 DEF vars, SealInv, Committed, Holds, NoFault
    <2> QED BY <2>1, <2>2, <2>3, <2>4, <2>5 DEF Next
  <1>2. SealInv => CommittedMeansSealed
    BY DEF SealInv, CommittedMeansSealed, Committed, Holds
  <1> QED BY <1>1, <1>2, InitSealed, AlwaysTyped, PTL DEF Spec
-------------------------------------------------------------------------------
(* A profile that nothing disturbed *)

(* Where login v is while nobody holds the lock: in the plaintext files of *)
(* a profile in file mode, or in the ciphertext of one in protected mode.  *)
(* v = 0 stands for no login to rely on.                                   *)
InFiles(v) ==
    /\ disk.mode = "file" /\ disk.enc = NoEnc /\ NothingAside(disk)
    /\ v # 0 => disk.plain["cookies"].c = v
InCiphertext(v) ==
    /\ disk.mode = "protected" /\ disk.plain = NoFiles /\ NothingAside(disk)
    /\ v # 0 => Readable(disk) /\ disk.enc.c = v
Settled(v) == InFiles(v) \/ InCiphertext(v)

(* While files are moved aside and back, each is in one place only, and    *)
(* the cookies that are relied on are in one of them.                      *)
Split ==
    /\ \A i \in Ids : i # job.id => disk.quar[i] = NoFiles
    /\ \A f \in Files : disk.plain[f] = None \/ Aside[f] = None
Kept == acked # 0 => disk.plain["cookies"].c = acked \/ Aside["cookies"].c = acked

WriteSteps == {"write_mark", "write_key", "write_commit", "write_enc"}
KeyedSteps == {"write_commit", "write_enc"}   \* the key was read or made
DeleteSteps == Deleting \cup {"delete_clear"}

(* What the holder of the lock may find at each of its steps. *)
SaveClean ==
    \/ pc \in {"save_read"} \cup WriteSteps /\ InCiphertext(acked)
       /\ (pc \in KeyedSteps => disk.key)
    \/ pc = "save_cookies" /\ InFiles(acked)
    \/ pc \in {"write_clear", "save_meta", "save_unlink", "saved"} /\ InCiphertext(job.sec.c)
    \/ pc \in {"save_meta", "save_root", "saved"} /\ InFiles(job.sec.c)
ProtectClean ==
    /\ ~job.encPre /\ Split
    /\ acked # 0 => job.sec.c = acked
    /\ \/ pc \in {"protect_mark", "restore"} \cup WriteSteps \cup DeleteSteps
          /\ disk.mode = "file" /\ disk.enc = NoEnc /\ Kept
          /\ (pc \in KeyedSteps => disk.key)
       \/ pc \in {"write_clear", "protect_verify", "protect_restore", "drop_enc"}
          /\ disk.mode = "file" /\ Kept
       \/ pc = "protect_move" /\ disk.mode = "file" /\ Kept /\ Holds(disk, job.sec)
       \/ pc \in {"protect_commit", "protect_meta", "protect_mode"}
          /\ disk.plain = NoFiles /\ Holds(disk, job.sec)
       \/ pc \in {"protect_cleanup", "protect_discard"} /\ disk.mode = "protected"
          /\ disk.plain = NoFiles /\ Holds(disk, job.sec)
       \/ pc = "discard" /\ InFiles(acked)
       \/ pc = "clear" /\ Settled(acked)
UnprotectClean ==
    /\ NothingAside(disk) /\ (acked # 0 => job.sec.c = acked)
    /\ \/ pc \in {"unprotect_mark", "unprotect_cookies"}
       \/ pc \in {"unprotect_meta", "unprotect_mode"} /\ disk.plain["cookies"].c = job.sec.c
       \/ pc \in {"unprotect_commit", "unprotect_enc"} \cup DeleteSteps
          /\ disk.mode = "file" /\ disk.plain["cookies"].c = job.sec.c
       \/ pc \in {"unprotect_root", "clear"} /\ InFiles(acked)
ResolveFileClean ==
    /\ NothingAside(disk) /\ (acked # 0 => disk.plain["cookies"].c = acked)
    /\ \/ pc = "resolve_enc"
       \/ pc \in DeleteSteps \cup {"resolve_mode"} /\ disk.enc = NoEnc
CleanInv ==
    NoCrash /\ NoFault =>
        /\ pending.tidy = "none" /\ job.cmd # "tidy"
        /\ Idle => Settled(acked)
        /\ job.cmd \notin {"protect", "unprotect"} =>
               disk.marker.op \in {"none", "write", "delete"}
        /\ job.cmd = "none" => Idle
        /\ job.cmd = "recover" => pc = "clear" /\ Settled(acked)
        /\ job.cmd \in {"save", "login"} => SaveClean
        /\ job.cmd = "protect" => ProtectClean
        /\ job.cmd = "unprotect" => UnprotectClean
        /\ job.cmd = "resolve_protected" =>
               pc \in {"resolve_unlink", "resolve_mode"} /\ InCiphertext(acked)
        /\ job.cmd = "resolve_file" => ResolveFileClean

(* The operations that a marker of CredentialStore and no marker name. *)
LEMMA StoreMarks ==
    /\ NoMarker.op = "none"
    /\ \A op, phase : StoreMarked(op, phase).op = op
  BY DEF StoreMarked, NoMarker

(* Without its key an envelope is as it was but can no longer be opened. *)
LEMMA KeyDeleted ==
    ASSUME NEW d \in Disks
    PROVE  /\ WithoutKey(d).enc = [d.enc EXCEPT !.sealed = FALSE]
           /\ d.enc = NoEnc => WithoutKey(d).enc = NoEnc
           /\ WithoutKey(d).key = FALSE
           /\ WithoutKey(d).mode = d.mode /\ WithoutKey(d).plain = d.plain
           /\ WithoutKey(d).quar = d.quar /\ WithoutKey(d).marker = d.marker
           /\ WithoutKey(d).meta = d.meta
  <1>1. /\ WithoutKey(d).enc = [d.enc EXCEPT !.sealed = FALSE]
        /\ WithoutKey(d).key = FALSE
        /\ WithoutKey(d).mode = d.mode /\ WithoutKey(d).plain = d.plain
        /\ WithoutKey(d).quar = d.quar /\ WithoutKey(d).marker = d.marker
        /\ WithoutKey(d).meta = d.meta
    BY DEF WithoutKey, Disks
  <1>2. d.enc = NoEnc => [d.enc EXCEPT !.sealed = FALSE] = NoEnc
    <2> DEFINE e == [d.enc EXCEPT !.sealed = FALSE]
    <2>1. d.enc \in Envelope /\ e \in Envelope
      BY DEF Disks, Envelope
    <2>2. e.c = d.enc.c /\ e.t = d.enc.t /\ e.sealed = FALSE
      BY <2>1 DEF Envelope
    <2> HIDE DEF e
    <2>3. d.enc = NoEnc => e = NoEnc
      BY <2>1, <2>2 DEF Envelope, NoEnc
    <2> QED BY <2>3 DEF e
  <1> QED BY <1>1, <1>2

(* e differs from d at most in file f and its place in the quarantine of   *)
(* the holder's migration.                                                 *)
OnlyFile(f, d, e) ==
    /\ e.mode = d.mode /\ e.meta = d.meta /\ e.enc = d.enc
    /\ e.key = d.key /\ e.marker = d.marker
    /\ \A i \in Ids : i # job.id => e.quar[i] = d.quar[i]
    /\ \A g \in Files : g # f => e.plain[g] = d.plain[g] /\ e.quar[job.id][g] = d.quar[job.id][g]

(* What moving a file aside, moving one back and destroying one do. *)
LEMMA MoveEffects ==
    ASSUME disk \in Disks, job.id \in Ids, NEW f \in Files
    PROVE  /\ OnlyFile(f, disk, MoveAside(f))
           /\ MoveAside(f).plain[f] = None
           /\ MoveAside(f).quar[job.id][f] = disk.plain[f]
           /\ OnlyFile(f, disk, MoveBack(f))
           /\ MoveBack(f).plain[f] = disk.quar[job.id][f]
           /\ MoveBack(f).quar[job.id][f] = None
           /\ OnlyFile(f, disk, [disk EXCEPT !.quar[job.id][f] = None])
           /\ [disk EXCEPT !.quar[job.id][f] = None].plain = disk.plain
           /\ [disk EXCEPT !.quar[job.id][f] = None].quar[job.id][f] = None
  <1>1. disk.plain \in [Files -> Secret] /\ disk.quar \in [Ids -> [Files -> Secret]]
    BY DEF Disks
  <1>2. /\ MoveAside(f).plain = [disk.plain EXCEPT ![f] = None]
        /\ MoveAside(f).quar = [disk.quar EXCEPT ![job.id][f] = disk.plain[f]]
        /\ MoveAside(f).mode = disk.mode /\ MoveAside(f).meta = disk.meta
        /\ MoveAside(f).enc = disk.enc /\ MoveAside(f).key = disk.key
        /\ MoveAside(f).marker = disk.marker
    BY DEF MoveAside, Disks
  <1>3. /\ MoveBack(f).plain = [disk.plain EXCEPT ![f] = Aside[f]]
        /\ MoveBack(f).quar = [disk.quar EXCEPT ![job.id][f] = None]
        /\ MoveBack(f).mode = disk.mode /\ MoveBack(f).meta = disk.meta
        /\ MoveBack(f).enc = disk.enc /\ MoveBack(f).key = disk.key
        /\ MoveBack(f).marker = disk.marker
    BY DEF MoveBack, Disks
  <1>4. /\ [disk EXCEPT !.quar[job.id][f] = None].plain = disk.plain
        /\ [disk EXCEPT !.quar[job.id][f] = None].quar = [disk.quar EXCEPT ![job.id][f] = None]
        /\ LET e == [disk EXCEPT !.quar[job.id][f] = None]
           IN  /\ e.mode = disk.mode /\ e.meta = disk.meta /\ e.enc = disk.enc
               /\ e.key = disk.key /\ e.marker = disk.marker
    BY DEF Disks
  <1> QED BY <1>1, <1>2, <1>3, <1>4 DEF Aside, OnlyFile

(* With nothing disturbed so far: CleanInv without its hypothesis.         *)
LEMMA InitClean == Init => CleanInv
  <1> SUFFICES ASSUME Init PROVE CleanInv
    OBVIOUS
  <1>1. /\ NewDisk.mode = "file" /\ NewDisk.enc = NoEnc
        /\ NothingAside(NewDisk) /\ NewDisk.marker = NoMarker
    BY DEF NewDisk, NothingAside
  <1>2. \A older \in BOOLEAN :
            LET d == LoggedInDisk(older)
            IN  d.mode = "file" /\ d.enc = NoEnc /\ NothingAside(d) /\ d.marker = NoMarker
    BY <1>1 DEF LoggedInDisk, NewDisk, NothingAside
  <1>3. disk.mode = "file" /\ disk.enc = NoEnc /\ NothingAside(disk) /\ disk.marker = NoMarker
    BY <1>1, <1>2 DEF Init
  <1> QED BY <1>3 DEF Init, CleanInv, Settled, InFiles, Idle, NoPending, NoJob, NoMarker

(* Only save_profile and save_tokens_to_cache, a migration and a           *)
(* resolution reach the steps of write_credentials and delete_credentials. *)
LEMMA WriteClean ==
    ASSUME TypeInv, CleanInv, NoCrash, NoFault, WriteCredentials
    PROVE  CleanInv'
  <1>0. pending' = pending /\ spent' = spent /\ disk \in Disks
    BY HolderSpendsNothing DEF Continue, TypeInv, TypeOK
  <1> USE <1>0 DEF Disks, Step, Goto, Move, CleanInv, Idle, Settled, InFiles, InCiphertext,
                   NothingAside, Readable, EncSecret
  <1>1. job.cmd \in {"save", "login", "protect"} /\ pc \in WriteSteps \cup {"write_clear"}
    BY DEF WriteCredentials, WriteMark, WriteKey, WriteCommit, WriteEnc, WriteClear,
           SaveClean, ProtectClean, UnprotectClean, ResolveFileClean, WriteSteps, DeleteSteps,
           Deleting, TypeInv, TypeOK, Jobs
  <1>2. CASE job.cmd \in {"save", "login"}
    <2>1. SaveClean
      BY <1>2
    <2> USE DEF SaveClean, WriteSteps, KeyedSteps
    <2>2. CASE WriteMark
      BY <1>2, <2>1, <2>2, StoreMarks DEF WriteMark, SetMark
    <2>3. CASE WriteKey
      BY <1>2, <2>1, <2>3 DEF WriteKey, WithKey
    <2>4. CASE WriteCommit
      BY <1>2, <2>1, <2>4, StoreMarks DEF WriteCommit, SetMark
    <2>5. CASE WriteEnc
      BY <1>2, <2>1, <2>5 DEF WriteEnc, NoEnc
    <2>6. CASE WriteClear
      BY <1>2, <2>1, <2>6 DEF WriteClear, SetMark, NoMarker, Then, AfterWrite
    <2> QED BY <2>2, <2>3, <2>4, <2>5, <2>6 DEF WriteCredentials
  <1>3. CASE job.cmd = "protect"
    <2>1. ProtectClean
      BY <1>3
    <2> USE DEF ProtectClean, WriteSteps, KeyedSteps, Split, Kept, Aside, DeleteSteps, Deleting
    <2>2. CASE WriteMark
      BY <1>3, <2>1, <2>2, StoreMarks DEF WriteMark, SetMark
    <2>3. CASE WriteKey
      BY <1>3, <2>1, <2>3 DEF WriteKey, WithKey
    <2>4. CASE WriteCommit
      BY <1>3, <2>1, <2>4, StoreMarks DEF WriteCommit, SetMark
    <2>5. CASE WriteEnc
      BY <1>3, <2>1, <2>5 DEF WriteEnc
    <2>6. CASE WriteClear
      BY <1>3, <2>1, <2>6 DEF WriteClear, SetMark, NoMarker, Then, AfterWrite
    <2> QED BY <2>2, <2>3, <2>4, <2>5, <2>6 DEF WriteCredentials
  <1> QED BY <1>1, <1>2, <1>3

(* The steps of delete_credentials. *)
LEMMA DeleteClean ==
    ASSUME TypeInv, CleanInv, NoCrash, NoFault, DeleteCredentials
    PROVE  CleanInv'
  <1>0. pending' = pending /\ spent' = spent /\ disk \in Disks
    BY HolderSpendsNothing DEF Continue, TypeInv, TypeOK
  <1> USE <1>0 DEF Disks, Step, Goto, Move, CleanInv, Idle, Settled, InFiles, InCiphertext,
                   NothingAside, Readable, EncSecret
  <1>1. job.cmd \in {"protect", "unprotect", "resolve_file"} /\ pc \in DeleteSteps
    BY DEF DeleteCredentials, DeleteMark, DeleteKey, DeleteEnc, DeleteCleanup, DeleteClear,
           SaveClean, ProtectClean, UnprotectClean, ResolveFileClean, WriteSteps, DeleteSteps,
           Deleting, TypeInv, TypeOK, Jobs
  <1>2. disk' \in {DropEnc, WithoutKey(disk), SetMark(NoMarker)}
                  \cup {SetMark(StoreMarked("delete", p)) : p \in {"preparing", "cleanup"}}
    BY DEF DeleteCredentials, DeleteMark, DeleteKey, DeleteEnc, DeleteCleanup, DeleteClear
  <1>3. /\ disk.enc = NoEnc => disk'.enc = NoEnc
        /\ disk'.mode = disk.mode /\ disk'.plain = disk.plain /\ disk'.quar = disk.quar
        /\ disk'.marker = disk.marker \/ disk'.marker.op \in {"none", "delete"}
    <2>1. CASE disk' = WithoutKey(disk)
      BY <2>1, KeyDeleted
    <2>2. CASE disk' # WithoutKey(disk)
      BY <1>2, <2>2, StoreMarks DEF DropEnc, SetMark
    <2> QED BY <2>1, <2>2
  <1>4. pc' \in DeleteSteps \cup {AfterDelete} /\ job' = job /\ acked' = acked
    BY DEF DeleteCredentials, DeleteMark, DeleteKey, DeleteEnc, DeleteCleanup, DeleteClear,
           DeleteSteps, Deleting, Then, AfterDelete
  <1> QED BY <1>1, <1>3, <1>4
          DEF AfterDelete, ProtectClean, UnprotectClean, ResolveFileClean, WriteSteps,
              KeyedSteps, DeleteSteps, Deleting, Split, Kept, Aside

(* The migration to protected mode, and the rollback that follows a        *)
(* keystore which refused or did not answer.                               *)
LEMMA ProtectGoesOn ==
    ASSUME TypeInv, CleanInv, NoCrash, NoFault, MigrateToProtected
    PROVE  CleanInv'
  <1>0. pending' = pending /\ spent' = spent /\ disk \in Disks /\ JobKnown(pc, job)
    BY HolderSpendsNothing DEF Continue, TypeInv, TypeOK
  <1>1. /\ disk.plain \in [Files -> Secret]
        /\ disk.quar \in [Ids -> [Files -> Secret]]
        /\ \A S \in SUBSET Files : S # {} => First(S) \in S
    BY <1>0 DEF Disks, First, Files
  <1>2. /\ Present(disk.plain) = {} => disk.plain = NoFiles
        /\ job.id \in Ids => (Present(Aside) = {} => Aside = NoFiles)
    BY <1>1 DEF Present, NoFiles, Aside
  <1>3. CASE Clear /\ job.cmd # "protect"
    BY <1>0, <1>3, StoreMarks
       DEF Clear, Step, Goto, Move, CleanInv, Idle, SetMark, Disks, Settled, InFiles, InCiphertext,
           UnprotectClean, SaveClean, ResolveFileClean, WriteSteps, DeleteSteps, Deleting,
           TypeInv, TypeOK, Jobs, NoJob, NothingAside, Readable
  <1>4. job.cmd = "protect" \/ Clear
    BY DEF MigrateToProtected, ProtectMark, ProtectVerify, ProtectMove, ProtectRecheck,
           ProtectRestore, ProtectCommit,
           ProtectMeta, ProtectMode, ProtectCleanup, DiscardAside, DropCreatedEnc, Restore, Step,
           CleanInv, SaveClean, UnprotectClean, ResolveFileClean, WriteSteps, DeleteSteps,
           Deleting, TypeInv, TypeOK, Jobs, Idle
  <1> SUFFICES ASSUME job.cmd = "protect" PROVE CleanInv'
    BY <1>3, <1>4
  <1>5. ProtectClean /\ job.id \in Ids /\ Aside \in [Files -> Secret]
    BY <1>0, <1>1 DEF CleanInv, JobKnown, Aside
  <1> USE <1>0, <1>5 DEF Disks, Step, Goto, Move, CleanInv, Idle, Settled, InFiles, InCiphertext,
                   NothingAside, Readable, EncSecret, ProtectClean, WriteSteps, DeleteSteps,
                   Deleting, KeyedSteps,
                   Kept, Split, Aside, Holds
  <1>6. CASE ProtectMark
    BY <1>6 DEF ProtectMark, SetMark
  <1>7. CASE ProtectVerify
    BY <1>7 DEF ProtectVerify, Verified
  <1>8. CASE ProtectMove
    <2> DEFINE f == First(Present(disk.plain))
    <2>1. f \in Files /\ disk.plain[f] # None
      BY <1>1, <1>8 DEF ProtectMove, Present
    <2> HIDE DEF f
    <2>2. disk' = MoveAside(f) /\ pc' = "protect_move" /\ job' = job /\ acked' = acked
      BY <1>8 DEF ProtectMove, f
    <2>3. /\ OnlyFile(f, disk, disk') /\ disk'.plain[f] = None
          /\ disk'.quar[job.id][f] = disk.plain[f]
      BY <2>1, <2>2, MoveEffects
    <2>4. Split' /\ Kept'
      BY <1>8, <2>1, <2>2, <2>3 DEF ProtectMove, OnlyFile, Files
    <2> QED BY <1>8, <2>2, <2>3, <2>4 DEF ProtectMove, OnlyFile
  <1>9. CASE ProtectRecheck
    BY <1>2, <1>9 DEF ProtectRecheck
  <1>10. CASE ProtectRestore
    <2>1. CASE Present(Aside) = {}
      BY <1>10, <2>1 DEF ProtectRestore
    <2>2. CASE Present(Aside) # {}
      <3> DEFINE f == First(Present(Aside))
      <3>1. f \in Files /\ disk.quar[job.id][f] # None
        <4>1. f \in Present(Aside)
          BY <1>1, <2>2 DEF Present
        <4> QED BY <4>1 DEF Present
      <3> HIDE DEF f
      <3>2. disk' = MoveBack(f) /\ pc' = "protect_restore" /\ job' = job /\ acked' = acked
        BY <1>10, <2>2 DEF ProtectRestore, f
      <3>3. /\ OnlyFile(f, disk, disk') /\ disk'.plain[f] = disk.quar[job.id][f]
            /\ disk'.quar[job.id][f] = None
        BY <3>1, <3>2, MoveEffects
      <3>4. Split' /\ Kept'
        BY <1>10, <3>1, <3>2, <3>3 DEF ProtectRestore, OnlyFile, Files
      <3> QED BY <1>10, <3>2, <3>3, <3>4 DEF ProtectRestore, OnlyFile
    <2> QED BY <2>1, <2>2
  <1>11. CASE ProtectCommit
    BY <1>11 DEF ProtectCommit, SetMark
  <1>12. CASE ProtectMeta
    BY <1>12 DEF ProtectMeta
  <1>13. CASE ProtectMode
    BY <1>13 DEF ProtectMode, SetMode
  <1>14. CASE ProtectCleanup
    BY <1>14 DEF ProtectCleanup, SetMark
  <1>15. CASE DiscardAside
    <2>1. CASE Present(Aside) = {}
      BY <1>2, <1>15, <2>1 DEF DiscardAside, Then
    <2>2. CASE Present(Aside) # {}
      <3>1. PICK f \in Present(Aside) : Goto(pc, [disk EXCEPT !.quar[job.id][f] = None])
        BY <1>15, <2>2 DEF DiscardAside
      <3>2. f \in Files /\ Aside # NoFiles
        BY <3>1 DEF Present, NoFiles
      <3>3. pc = "protect_discard"
        BY <1>15, <3>2 DEF DiscardAside
      <3>4. /\ disk' = [disk EXCEPT !.quar[job.id][f] = None]
            /\ pc' = pc /\ job' = job /\ acked' = acked
        BY <3>1, <3>3
      <3>5. /\ OnlyFile(f, disk, disk') /\ disk'.plain = disk.plain
            /\ disk'.quar[job.id][f] = None
        BY <3>2, <3>4, MoveEffects
      <3>6. Split'
        BY <3>2, <3>4, <3>5 DEF OnlyFile
      <3> QED BY <3>3, <3>4, <3>5, <3>6 DEF OnlyFile
    <2> QED BY <2>1, <2>2
  <1>16. CASE Clear
    BY <1>16, StoreMarks DEF Clear, SetMark, NoJob
  <1>17. CASE DropCreatedEnc
    BY <1>17 DEF DropCreatedEnc, DropEnc, Then, AfterDelete
  <1>18. CASE Restore
    <2>1. CASE CanGoBack = {}
      <3>1. Aside = NoFiles
        BY <1>2, <2>1 DEF CanGoBack, Present
      <3>2. disk.plain["cookies"].c = acked \/ acked = 0
        BY <1>18, <3>1 DEF Restore, NoFiles, None, Files
      <3> QED BY <1>18, <2>1, <3>1, <3>2 DEF Restore
    <2>2. CASE CanGoBack # {}
      <3>1. PICK f \in CanGoBack : Goto("restore", MoveBack(f))
        BY <1>18, <2>2 DEF Restore
      <3>2. f \in Files /\ disk.quar[job.id][f] # None /\ pc = "restore"
        BY <1>18, <3>1 DEF Restore, CanGoBack, Present
      <3>3. disk' = MoveBack(f) /\ pc' = "restore" /\ job' = job /\ acked' = acked
        BY <3>1
      <3>4. /\ OnlyFile(f, disk, disk') /\ disk'.plain[f] = disk.quar[job.id][f]
            /\ disk'.quar[job.id][f] = None
        BY <3>2, <3>3, MoveEffects
      <3>5. Split' /\ Kept'
        BY <3>2, <3>3, <3>4 DEF OnlyFile, Files
      <3> QED BY <3>2, <3>3, <3>4, <3>5 DEF OnlyFile
    <2> QED BY <2>1, <2>2
  <1> QED BY <1>6, <1>7, <1>8, <1>9, <1>10, <1>11, <1>12, <1>13, <1>14, <1>15, <1>16, <1>17, <1>18
          DEF MigrateToProtected

(* The migration to file mode: nothing but a crash or a refused file       *)
(* operation can interrupt it, so it ends with the login in the files.     *)
LEMMA UnprotectGoesOn ==
    ASSUME TypeInv, CleanInv, NoCrash, NoFault, MigrateToFile
    PROVE  CleanInv'
  <1>0. pending' = pending /\ spent' = spent /\ disk \in Disks
    BY HolderSpendsNothing DEF Continue, TypeInv, TypeOK
  <1>1. job.cmd = "unprotect"
    BY DEF MigrateToFile, UnprotectMark, UnprotectCookies, UnprotectMeta, UnprotectMode,
           UnprotectCommit, UnprotectEnc, UnprotectRoot, Step, CleanInv, Idle, SaveClean,
           ProtectClean, ResolveFileClean, WriteSteps, DeleteSteps, Deleting, TypeInv, TypeOK, Jobs
  <1> USE <1>0, <1>1 DEF Disks, Step, Goto, Move, CleanInv, Idle, Settled, InFiles, UnprotectClean,
                   NothingAside, DeleteSteps, Deleting, Files
  <1>2. CASE UnprotectMark
    BY <1>2 DEF UnprotectMark, SetMark
  <1>3. CASE UnprotectCookies
    BY <1>3 DEF UnprotectCookies, Put
  <1>4. CASE UnprotectMeta
    BY <1>4 DEF UnprotectMeta
  <1>5. CASE UnprotectMode
    BY <1>5 DEF UnprotectMode, SetMode
  <1>6. CASE UnprotectCommit
    BY <1>6 DEF UnprotectCommit, SetMark
  <1>7. CASE UnprotectEnc
    BY <1>7 DEF UnprotectEnc, DropEnc, Then
  <1>8. CASE UnprotectRoot
    BY <1>8 DEF UnprotectRoot, Put
  <1> QED BY <1>2, <1>3, <1>4, <1>5, <1>6, <1>7, <1>8 DEF MigrateToFile

(* Nothing is left for reconcile_pending_operations but a marker that      *)
(* CredentialStore did not clear.                                          *)
LEMMA NothingToReconcile ==
    ASSUME TypeInv, CleanInv, NoCrash, NoFault
    PROVE  ~Reconcile
  BY DEF Reconcile, FinishMode, FinishMeta, FinishCookies, FinishRoot, AdoptMode, AdoptEnc,
         RevertMode, Step, CleanInv, Idle, SaveClean, ProtectClean, UnprotectClean,
         ResolveFileClean, WriteSteps, DeleteSteps, Deleting, TypeInv, TypeOK, Jobs

(* The steps of save_profile and save_tokens_to_cache. *)
LEMMA SaveGoesOn ==
    ASSUME TypeInv, CleanInv, NoCrash, NoFault, SaveProfile
    PROVE  CleanInv'
  <1>0. pending' = pending /\ spent' = spent /\ disk \in Disks
    BY HolderSpendsNothing DEF Continue, TypeInv, TypeOK
  <1>1. job.cmd \in {"save", "login"}
    BY DEF SaveProfile, SaveRead, SaveCookies, SaveMeta, SaveRoot, SaveUnlink, Saved, Step,
           CleanInv, Idle, UnprotectClean, ProtectClean, ResolveFileClean, WriteSteps,
           DeleteSteps, Deleting, TypeInv, TypeOK, Jobs
  <1> USE <1>0, <1>1 DEF Disks, Step, Goto, Move, CleanInv, Idle, Settled, InFiles, InCiphertext,
                   SaveClean, NothingAside, WriteSteps, KeyedSteps, Readable, Files
  <1>2. CASE SaveRead
    <2>1. CASE DeletionIntended(disk)
      <3>1. /\ disk'.mode = disk.mode /\ disk'.plain = disk.plain /\ disk'.quar = disk.quar
            /\ disk'.marker.op = "none" /\ pc' = "write_mark" /\ job' = job /\ acked' = acked
        BY <1>2, <2>1, StoreMarks DEF SaveRead, DropEnc
      <3> QED BY <1>2, <2>1, <3>1 DEF SaveRead, DeletionIntended
    <2>2. CASE ~DeletionIntended(disk)
      BY <1>2, <2>2 DEF SaveRead
    <2> QED BY <2>1, <2>2
  <1>3. CASE SaveCookies
    BY <1>3 DEF SaveCookies, Put
  <1>4. CASE SaveMeta
    BY <1>4 DEF SaveMeta
  <1>5. CASE SaveRoot
    BY <1>5 DEF SaveRoot, Put
  <1>6. CASE SaveUnlink
    <2>1. disk.plain = NoFiles =>
              [f \in Files |-> IF f \in {"cookies", "auth"} THEN None ELSE disk.plain[f]] = NoFiles
      BY DEF NoFiles
    <2> QED BY <1>6, <2>1 DEF SaveUnlink, Remove, Then
  <1>7. CASE Saved
    BY <1>7 DEF Saved, NoJob
  <1> QED BY <1>2, <1>3, <1>4, <1>5, <1>6, <1>7 DEF SaveProfile

(* The steps of resolve_storage_conflict. *)
LEMMA ResolveGoesOn ==
    ASSUME TypeInv, CleanInv, NoCrash, NoFault, ResolveConflict
    PROVE  CleanInv'
  <1>0. pending' = pending /\ spent' = spent /\ disk \in Disks
    BY HolderSpendsNothing DEF Continue, TypeInv, TypeOK
  <1>1. job.cmd \in {"resolve_protected", "resolve_file"}
    BY DEF ResolveConflict, ResolveUnlink, ResolveEnc, ResolveMode, Step, CleanInv, Idle, SaveClean,
           UnprotectClean, ProtectClean, WriteSteps, DeleteSteps, Deleting, TypeInv, TypeOK, Jobs
  <1> USE <1>0, <1>1 DEF Disks, Step, Goto, Move, CleanInv, Idle, Settled, InFiles, InCiphertext,
                   ResolveFileClean, NothingAside, DeleteSteps, Deleting, Readable
  <1>2. CASE ResolveUnlink
    <2>1. disk.plain = NoFiles =>
              [f \in Files |-> IF f \in Files THEN None ELSE disk.plain[f]] = NoFiles
      BY DEF NoFiles
    <2> QED BY <1>2, <2>1 DEF ResolveUnlink, Remove, Then
  <1>3. CASE ResolveEnc
    BY <1>3 DEF ResolveEnc, DropEnc, Then
  <1>4. CASE ResolveMode
    BY <1>4 DEF ResolveMode, SetMode, NoJob
  <1> QED BY <1>2, <1>3, <1>4 DEF ResolveConflict

(* A command that takes the lock finds the login where the mode says.      *)
LEMMA BeginClean ==
    ASSUME TypeInv, CleanInv, NoCrash, NoFault, Begin
    PROVE  CleanInv'
  <1>0. disk \in Disks
    BY DEF TypeInv, TypeOK
  <1> USE <1>0 DEF Disks, CleanInv, Idle, Settled, InFiles, InCiphertext, NothingAside, Readable
  <1>1. ASSUME NEW cmd \in {"protect", "unprotect"}, DecideSwitch(cmd) PROVE CleanInv'
    BY <1>1 DEF DecideSwitch, TypeInv, TypeOK, Pendings, SaveClean, UnprotectClean, ProtectClean,
                ResolveFileClean, Split, Kept, Aside, Holds
  <1>11. Idle => job.cmd = "none" /\ disk.marker.op \in {"none", "write", "delete"}
    BY DEF SaveClean, ProtectClean, UnprotectClean, ResolveFileClean, WriteSteps, DeleteSteps,
           Deleting, TypeInv, TypeOK, Jobs
  <1>2. Decided("protect") \/ Decided("unprotect") => pending'.tidy = "none"
    BY DEF Decided, TypeInv, TypeOK, Pendings
  <1>3. Present(disk.plain) = {} => disk.plain = NoFiles
    BY DEF Present, NoFiles
  <1>4. disk.plain["cookies"] # None => ReadPlain(disk.plain, disk.meta).c = disk.plain["cookies"].c
    <2>1. disk.plain["cookies"] # None => First(Present(disk.plain)) = "cookies"
      BY DEF Present, First, Files
    <2>2. disk.plain["cookies"] \in Secret
      BY DEF Files
    <2> QED BY <2>1, <2>2 DEF ReadPlain, Secret
  <1>5. ReadPlain(disk.plain, disk.meta) = None => Present(disk.plain) = {}
    <2> SUFFICES ASSUME Present(disk.plain) # {} PROVE ReadPlain(disk.plain, disk.meta) # None
      OBVIOUS
    <2> DEFINE src == disk.plain[First(Present(disk.plain))]
    <2>1. src # None /\ src \in Secret
      BY DEF Present, First, Files
    <2> HIDE DEF src
    <2>2. [src EXCEPT !.t = IF disk.meta # 0 THEN disk.meta ELSE src.t] # None
      BY <2>1 DEF Secret, None
    <2> QED BY <2>1, <2>2 DEF ReadPlain, src
  <1>6. CASE StartProtect
    <2>1. PICK keyPre \in {disk.key, FALSE} :
              Take("protect_mark",
                   [cmd |-> "protect", id |-> spent.migration + 1,
                    sec |-> ReadPlain(disk.plain, disk.meta),
                    encPre |-> disk.enc # NoEnc, keyPre |-> keyPre])
      BY <1>6 DEF StartProtect
    <2>2. /\ pc' = "protect_mark" /\ job'.cmd = "protect"
          /\ job'.sec = ReadPlain(disk.plain, disk.meta)
          /\ job'.encPre = (disk.enc # NoEnc) /\ pc = "idle" /\ job'.id \in Nat
          /\ UNCHANGED <<disk, acked>> /\ disk.mode = "file"
          /\ spent'.crash = spent.crash /\ spent'.fault = spent.fault
      BY <1>6, <2>1 DEF Take, StartProtect, TypeInv, TypeOK
    <2>3. job'.id \in Ids
      BY <1>6, <2>1, BoundsAssumption DEF Take, StartProtect, TypeInv, TypeOK, Ids
    <2>4. acked # 0 => job'.sec.c = acked
      BY <1>4, <1>6, <2>2 DEF None
    <2>5. InFiles(acked) /\ \A f \in Files : NoFiles[f] = None
      BY <2>2 DEF NoFiles
    <2>6. disk'.quar = disk.quar /\ Aside' = NoFiles
      BY <2>2, <2>3, <2>5 DEF Aside
    <2>7. Split' /\ Kept'
      BY <2>2, <2>5, <2>6 DEF Split, Kept
    <2> QED BY <1>2, <1>6, <2>2, <2>4, <2>5, <2>7 DEF StartProtect, ProtectClean, KeyedSteps
  <1>7. CASE ProtectNothing
    <2>1. disk.plain = NoFiles /\ acked = 0
      <3>1. disk.plain = NoFiles /\ NoFiles["cookies"] = None
        BY <1>3, <1>5, <1>7 DEF ProtectNothing, NoFiles, Files
      <3> QED BY <1>7, <3>1 DEF ProtectNothing, None
    <2> QED BY <1>2, <1>7, <1>11, <2>1 DEF ProtectNothing, SetMode
  <1>8. ASSUME Unprotect, pending'.tidy = "none",
               acked' = acked \/ acked' = IF disk.enc # NoEnc THEN disk.enc.c ELSE acked
        PROVE  CleanInv'
    <2>1. CASE disk.enc = NoEnc /\ disk' = SetMode("file") /\ UNCHANGED <<pc, job>>
      BY <1>8, <1>11, <2>1 DEF Unprotect, SetMode
    <2>2. CASE /\ Readable(disk)
               /\ Take("unprotect_mark", [NoJob EXCEPT !.cmd = "unprotect", !.sec = EncSecret(disk)])
                   /\ UNCHANGED disk
      <3>1. /\ pc' = "unprotect_mark" /\ job'.cmd = "unprotect" /\ job'.sec.c = disk.enc.c
        BY <2>2 DEF Take, NoJob, EncSecret
      <3> QED BY <1>8, <2>2, <3>1 DEF Unprotect, UnprotectClean
    <2> QED BY <1>8, <2>1, <2>2 DEF Unprotect
  <1>9. CASE StartUnprotect
    BY <1>2, <1>8, <1>9 DEF StartUnprotect
  <1>10. CASE StartRecover
    <2>1. disk.marker.op \in {"none", "write", "delete"}
      BY <1>10 DEF StartRecover, Take, TypeInv, TypeOK, Jobs, JobKnown, ProtectClean,
                   UnprotectClean, WriteSteps, DeleteSteps, Deleting
    <2>2. pc' = "clear" /\ job'.cmd = "recover"
      BY <1>10, <2>1 DEF StartRecover, Take
    <2> QED BY <1>10, <2>1, <2>2 DEF StartRecover, Take
  <1>12. ASSUME NEW cmd \in {"save", "login"}, NEW withTokens \in BOOLEAN,
               StartSave(cmd, withTokens)
        PROVE  CleanInv'
    <2>1. /\ pc' \in {"save_cookies", "save_read", "write_mark"}
          /\ pc' = "save_cookies" <=> disk.mode = "file"
          /\ job'.cmd = cmd /\ spent'.fault = spent.fault /\ spent'.crash = spent.crash
          /\ UNCHANGED <<disk, pending, acked>> /\ pc = "idle"
      BY <1>12 DEF StartSave, Take, NoJob, TypeInv, TypeOK
    <2> QED BY <1>11, <1>12, <2>1 DEF SaveClean, WriteSteps, KeyedSteps
  <1>13. CASE ResolveProtected
    BY <1>11, <1>13 DEF ResolveProtected, CanResolve, Take, NoJob
  <1>14. CASE ResolveFile
    <2>1. CASE disk.plain["cookies"] # None
      BY <1>11, <1>14, <2>1 DEF ResolveFile, CanResolve, Take, NoJob, ResolveFileClean,
                                DeleteSteps, Deleting
    <2>2. CASE disk.plain["cookies"] = None
      BY <1>8, <1>14, <2>2 DEF ResolveFile, CanResolve
    <2> QED BY <2>1, <2>2
  <1>15. CASE DiscardInaccessible
    BY <1>11, <1>15 DEF DiscardInaccessible, CanResolve, Take, NoJob, ResolveFileClean,
                        DeleteSteps, Deleting
  <1>16. CASE ClearMarker
    BY <1>16, StoreMarks DEF ClearMarker, SetMark, ProtectClean, UnprotectClean, SaveClean,
                             ResolveFileClean, DeleteSteps, Deleting, WriteSteps
  <1> QED BY <1>1, <1>6, <1>7, <1>9, <1>10, <1>12, <1>13, <1>14, <1>15, <1>16 DEF Begin

(* Nothing is residue: set_storage_mode's unlocked clean-up has nothing to *)
(* clean up.                                                               *)
LEMMA UnlockedClean ==
    ASSUME TypeInv, CleanInv, NoCrash, NoFault, Unlocked
    PROVE  CleanInv'
  <1>1. ~DecideTidy
    <2> SUFFICES ASSUME DecideTidy PROVE FALSE
      OBVIOUS
    <2>1. Settled(acked) /\ disk.enc # NoEnc
      BY DEF CleanInv, DecideTidy, CopiesAgree, Readable
    <2>2. InCiphertext(acked) /\ HasLegacy(disk)
      BY <2>1 DEF Settled, InFiles, InCiphertext, DecideTidy
    <2> QED BY <2>2 DEF InCiphertext, HasLegacy, Present, NoFiles
  <1>2. pending.tidy = "none"
    BY DEF CleanInv
  <1>3. GiveUp
    BY <1>1, <1>2 DEF Unlocked, TidyUnlink, TidyStep, TidyKey
  <1>4. pending'.tidy = "none" /\ UNCHANGED <<disk, pc, job, acked, spent>>
    BY <1>2, <1>3 DEF GiveUp, TypeInv, TypeOK, Pendings
  <1> QED BY <1>4 DEF CleanInv, Idle, Settled, InFiles, InCiphertext, NothingAside, Readable,
                      EncSecret,
                      SaveClean, ProtectClean, UnprotectClean, ResolveFileClean, Split, Kept,
                      Aside, Holds, KeyedSteps

(* A keystore that refuses, or answers too late, makes a save fail, a      *)
(* migration to protected mode roll back, and a deletion go on without it. *)
LEMMA FailureClean ==
    ASSUME TypeInv, CleanInv, NoCrash, NoFault, Failure
    PROVE  CleanInv'
  <1>0. /\ disk \in Disks
        /\ job.cmd \in {"none", "protect", "unprotect", "recover", "save", "login",
                        "resolve_protected", "resolve_file", "tidy"}
    BY DEF TypeInv, TypeOK, Jobs
  <1>1. DiskFault \/ Crash => ~(NoCrash' /\ NoFault')
    BY DEF DiskFault, Crash, NoCrash, NoFault, TypeInv, TypeOK
  <1> USE <1>0 DEF CleanInv, Idle, Settled, InFiles, InCiphertext, NothingAside, Readable, Raised,
                   WriteSteps, KeyedSteps, DeleteSteps, Deleting, Caught, Goto, Move, Disks
  <1>2. CASE KeystoreRefuses
    <2>1. /\ pc \in KeystoreCalls /\ disk' = disk /\ pc' = Raised /\ acked' = acked
          /\ pending' = pending /\ spent' = spent
          /\ job' = IF Raised = "idle" THEN NoJob ELSE job
      BY <1>2 DEF KeystoreRefuses
    <2>2. CASE job.cmd \in {"save", "login"}
      BY <2>1, <2>2 DEF SaveClean, KeystoreCalls, NoJob
    <2>3. CASE job.cmd = "protect"
      BY <2>1, <2>3 DEF ProtectClean, KeystoreCalls, Split, Kept, Aside, AfterDelete
    <2>4. CASE job.cmd = "unprotect"
      BY <2>1, <2>4 DEF UnprotectClean, KeystoreCalls, AfterDelete
    <2>5. CASE job.cmd = "resolve_file"
      BY <2>1, <2>5 DEF ResolveFileClean, KeystoreCalls, AfterDelete
    <2> QED BY <2>1, <2>2, <2>3, <2>4, <2>5 DEF KeystoreCalls
  <1>3. CASE HasOrMakesKey(disk) /\ Step("write_key", Raised, WithKey(disk))
    <2>1. /\ pc = "write_key" /\ pc' = Raised /\ acked' = acked
          /\ pending' = pending /\ spent' = spent
          /\ job' = IF Raised = "idle" THEN NoJob ELSE job
          /\ disk' = [disk EXCEPT !.key = TRUE]
      BY <1>3 DEF Step, WithKey
    <2>2. CASE job.cmd \in {"save", "login"}
      BY <2>1, <2>2 DEF SaveClean, NoJob
    <2>3. CASE job.cmd = "protect"
      BY <2>1, <2>3 DEF ProtectClean, Split, Kept, Aside
    <2> QED BY <2>1, <2>2, <2>3 DEF UnprotectClean, ResolveFileClean
  <1>4. CASE disk.key /\ Step("delete_key", Raised, WithoutKey(disk))
    <2>1. /\ pc = "delete_key" /\ pc' = AfterDelete /\ acked' = acked
          /\ pending' = pending /\ spent' = spent
          /\ job' = IF AfterDelete = "idle" THEN NoJob ELSE job
          /\ disk' = WithoutKey(disk)
      BY <1>4 DEF Step
    <2>2. CASE job.cmd = "protect"
      BY <2>1, <2>2, KeyDeleted DEF ProtectClean, Split, Kept, Aside, AfterDelete
    <2>3. CASE job.cmd = "unprotect"
      BY <2>1, <2>3, KeyDeleted DEF UnprotectClean, AfterDelete
    <2>4. CASE job.cmd = "resolve_file"
      BY <2>1, <2>4, KeyDeleted DEF ResolveFileClean, AfterDelete
    <2> QED BY <2>1, <2>2, <2>3, <2>4 DEF SaveClean
  <1> QED BY <1>1, <1>2, <1>3, <1>4 DEF Failure, KeystoreTimesOut

(* The two places where a login can be, by the mode of the profile, are    *)
(* kept by every step while nothing crashes and no file operation is       *)
(* refused.                                                                *)
LEMMA NextClean == TypeInv /\ CleanInv /\ [Next]_vars => CleanInv'
  <1> SUFFICES ASSUME TypeInv, CleanInv, [Next]_vars PROVE CleanInv'
    OBVIOUS
  <1>1. CASE ~(NoCrash /\ NoFault)
    <2>1. spent'.crash >= spent.crash /\ spent'.fault >= spent.fault
      BY SpentOnlyGrows
    <2> QED BY <1>1, <2>1 DEF CleanInv, NoCrash, NoFault, TypeInv, TypeOK
  <1>2. CASE NoCrash /\ NoFault
    <2>1. CASE Begin
      BY <1>2, <2>1, BeginClean
    <2>2. CASE Unlocked
      BY <1>2, <2>2, UnlockedClean
    <2>3. CASE Continue
      BY <1>2, <2>3, WriteClean, DeleteClean, ProtectGoesOn, UnprotectGoesOn,
         NothingToReconcile, SaveGoesOn, ResolveGoesOn DEF Continue
    <2>4. CASE Failure
      BY <1>2, <2>4, FailureClean
    <2>5. CASE UNCHANGED vars
      BY <2>5 DEF vars, CleanInv, NoCrash, NoFault, Idle, Settled, InFiles, InCiphertext,
                  NothingAside, Readable, EncSecret, SaveClean, ProtectClean, UnprotectClean,
                  ResolveFileClean, Split, Kept, Aside, Holds
    <2> QED BY <2>1, <2>2, <2>3, <2>4, <2>5 DEF Next
  <1> QED BY <1>1, <1>2

(* CleanInv is an invariant of the specification. *)
LEMMA AlwaysClean == Spec => []CleanInv
  BY InitClean, NextClean, AlwaysTyped, PTL DEF Spec

(* Unless a process crashed or a file operation was refused, a profile in  *)
(* protected mode keeps no plaintext, neither in its files nor set aside,  *)
(* once the lock is free and nothing is unfinished, whatever commands ran, *)
(* overtook each other between set_storage_mode's checks and its turn at   *)
(* the lock, or were failed by the keystore.                               *)
THEOREM NoPlaintextLeft == Spec => []NoPlaintextWhenProtected
  <1>1. CleanInv => NoPlaintextWhenProtected
    BY DEF CleanInv, NoPlaintextWhenProtected, Settled, InFiles, InCiphertext, Present, NoFiles
  <1> QED BY <1>1, AlwaysClean, PTL

(* Under the same conditions a load returns exactly the login that the     *)
(* user relies on: the one saved last, or chosen to be kept.               *)
THEOREM NewestIsServed == Spec => []ServesNewestLogin
  <1>1. CleanInv => ServesNewestLogin
    <2> SUFFICES ASSUME CleanInv, NoCrash, NoFault, Idle, acked # 0 PROVE Loaded(disk) = acked
      BY DEF ServesNewestLogin
    <2>1. CASE InFiles(acked)
      BY <2>1 DEF InFiles, Loaded, None
    <2>2. CASE InCiphertext(acked)
      <3>1. disk.plain["cookies"] = None /\ ~HasLegacy(disk) /\ disk.enc # NoEnc
        BY <2>2 DEF InCiphertext, NoFiles, Files, HasLegacy, Present, Readable
      <3> QED BY <2>2, <3>1 DEF InCiphertext, Loaded
    <2> QED BY <2>1, <2>2 DEF CleanInv, Settled
  <1> QED BY <1>1, AlwaysClean, PTL

-------------------------------------------------------------------------------
(* Versions and quarantines *)

(* No version is newer than the last login, and no quarantine newer than   *)
(* the last migration; only a migration to protected mode names one.       *)
FreshInv ==
    /\ acked <= spent.login /\ disk.enc.c <= spent.login
    /\ job.sec.c <= spent.login /\ disk.marker.sec.c <= spent.login
    /\ \A f \in Files : disk.plain[f].c <= spent.login
    /\ \A i \in Ids, f \in Files : disk.quar[i][f].c <= spent.login
    /\ \A i \in Ids : i > spent.migration => disk.quar[i] = NoFiles
    /\ job.id <= spent.migration /\ disk.marker.id <= spent.migration
    /\ disk.marker.op \notin {"protect", "unprotect"} => disk.marker.id = 0
    /\ job.cmd \in {"save", "login"} => job.sec.c = spent.login

(* What the holder of the lock may write, in its own steps and in those of *)
(* a keystore that does not answer in time: the secret of its job, files   *)
(* moved to the quarantine of its job and back, a marker of its job.       *)
FileWritten(f) ==
    \/ disk'.plain[f] \in {disk.plain[f], None}
    \/ disk'.plain[f].c = job.sec.c
    \/ job.id \in Ids /\ disk'.plain[f] = Aside[f]
QuarantineWritten ==
    \A i \in Ids, f \in Files :
        disk'.quar[i][f] \in {disk.quar[i][f]} \cup IF i = job.id THEN {None, disk.plain[f]} ELSE {}
MarkerWritten ==
    \/ disk'.marker \in {disk.marker, NoMarker}
    \/ disk'.marker.op \in {"write", "delete"} /\ disk'.marker.id = 0 /\ disk'.marker.sec = None
    \/ disk'.marker.op \in {"protect", "unprotect"}
       /\ disk'.marker.id = job.id /\ disk'.marker.sec = job.sec
HolderWrites ==
    /\ \A f \in Files : FileWritten(f)
    /\ disk'.enc.c \in {0, disk.enc.c, job.sec.c}
    /\ QuarantineWritten /\ MarkerWritten
    /\ job' \in {job, NoJob} /\ acked' \in {acked, job.sec.c}

(* Each step of the holder writes no more than that. *)
LEMMA HolderWritesOnly ==
    ASSUME TypeInv, Continue \/ Failure
    PROVE  HolderWrites
  <1>0. /\ disk \in Disks /\ JobKnown(pc, job) /\ job.sec \in Secret
        /\ disk.plain \in [Files -> Secret] /\ disk.quar \in [Ids -> [Files -> Secret]]
        /\ disk.enc \in Envelope
    BY DEF TypeInv, TypeOK, Disks, Jobs
  <1> USE DEF HolderWrites
  <1>1. ASSUME NEW d, NEW to, Move(to, d), d.plain = disk.plain, d.quar = disk.quar,
               d.enc.c \in {0, disk.enc.c, job.sec.c},
               d.marker = disk.marker \/ d.marker = NoMarker \/
               (d.marker.op \in {"write", "delete"} /\ d.marker.id = 0 /\ d.marker.sec = None) \/
               (d.marker.op \in {"protect", "unprotect"}
                /\ d.marker.id = job.id /\ d.marker.sec = job.sec)
        PROVE  HolderWrites
    BY <1>1 DEF Move, FileWritten, QuarantineWritten, MarkerWritten
  <1>2. ASSUME NEW d, NEW to, Move(to, d),
               d.quar = disk.quar, d.enc = disk.enc, d.marker = disk.marker,
               \A f \in Files : d.plain[f] \in {disk.plain[f], None} \/ d.plain[f].c = job.sec.c
        PROVE  HolderWrites
    BY <1>2 DEF Move, FileWritten, QuarantineWritten, MarkerWritten
  <1>3. ASSUME NEW f \in Files, job.id \in Ids, NEW to,
               Move(to, MoveAside(f)) \/ Move(to, MoveBack(f))
               \/ Move(to, [disk EXCEPT !.quar[job.id][f] = None])
        PROVE  HolderWrites
    <2>1. /\ OnlyFile(f, disk, disk')
          /\ disk'.plain[f] \in {disk.plain[f], None, Aside[f]}
          /\ disk'.quar[job.id][f] \in {disk.plain[f], None}
          /\ job' \in {job, NoJob} /\ acked' = acked
      BY <1>0, <1>3, MoveEffects DEF Move, Aside
    <2>2. \A g \in Files : FileWritten(g)
      BY <1>3, <2>1 DEF OnlyFile, FileWritten
    <2>3. QuarantineWritten
      BY <1>3, <2>1 DEF OnlyFile, QuarantineWritten
    <2> QED BY <2>1, <2>2, <2>3 DEF OnlyFile, MarkerWritten
  <1>4. \A to, d : Step(pc, to, d) => Move(to, d)
    BY DEF Step, Goto
  <1>5. \A op, phase : StoreMarked(op, phase).op = op /\ StoreMarked(op, phase).id = 0
                       /\ StoreMarked(op, phase).sec = None
    BY DEF StoreMarked, NoMarker
  <1>6. \A op, phase : Marked(op, phase).op = op /\ Marked(op, phase).id = job.id
                       /\ Marked(op, phase).sec = job.sec
    BY DEF Marked
  <1>7. ASSUME NEW m PROVE /\ SetMark(m).marker = m /\ SetMark(m).plain = disk.plain
                           /\ SetMark(m).quar = disk.quar /\ SetMark(m).enc = disk.enc
    BY <1>0 DEF SetMark, Disks
  <1>8. CASE WriteCredentials
    BY <1>0, <1>1, <1>4, <1>5, <1>7, <1>8
       DEF WriteCredentials, WriteMark, WriteKey, WriteCommit, WriteEnc, WriteClear, Step, Goto,
           WithKey, Disks
  <1>9. CASE DeleteCredentials
    <2>1. WithoutKey(disk).enc.c = disk.enc.c
      BY <1>0, KeyDeleted DEF Envelope
    <2>2. CASE DeleteKey
      BY <1>0, <1>1, <1>4, <2>1, <2>2, KeyDeleted DEF DeleteKey, Step, Goto
    <2>3. CASE DeleteMark \/ DeleteEnc \/ DeleteCleanup \/ DeleteClear
      BY <1>0, <1>1, <1>4, <1>5, <1>7, <2>3
         DEF DeleteMark, DeleteEnc, DeleteCleanup, DeleteClear, Step, Goto, DropEnc, NoEnc, Disks
    <2> QED BY <1>9, <2>2, <2>3 DEF DeleteCredentials
  <1>10. CASE MigrateToProtected
    <2>1. CASE ProtectMove \/ ProtectRestore \/ DiscardAside \/ Restore
      <3>1. job.id \in Ids
        BY <1>0, <2>1 DEF ProtectMove, ProtectRestore, DiscardAside, Restore, Step, JobKnown,
                          ProtectSteps, AsideSteps
      <3>2. Aside \in [Files -> Secret] /\ \A S \in SUBSET Files : First(S) \in Files
        BY <1>0, <3>1 DEF Aside, First, Files
      <3>3. \A to, d : Goto(to, d) => pc' = to /\ Move(to, d)
        BY DEF Goto, Move
      <3>4. \/ Move(pc', disk)
            \/ \E f \in Files : \/ Move(pc', MoveAside(f)) \/ Move(pc', MoveBack(f))
                                \/ Move(pc', [disk EXCEPT !.quar[job.id][f] = None])
        <4>1. CASE ProtectMove
          BY <3>2, <3>3, <4>1 DEF ProtectMove, Step, Present
        <4>2. CASE ProtectRestore
          BY <3>2, <3>3, <4>2 DEF ProtectRestore, Present
        <4>3. CASE DiscardAside
          BY <3>3, <4>3 DEF DiscardAside, Present
        <4>4. CASE Restore
          BY <3>3, <4>4 DEF Restore, CanGoBack, Present
        <4> QED BY <2>1, <4>1, <4>2, <4>3, <4>4
      <3> QED BY <1>1, <1>3, <3>1, <3>4
    <2>2. CASE ~(ProtectMove \/ ProtectRestore \/ DiscardAside \/ Restore)
      <3> USE DEF Step, Goto
      <3>1. CASE ProtectMark \/ ProtectCommit \/ ProtectCleanup \/ Clear
        BY <1>1, <1>6, <1>7, <3>1 DEF ProtectMark, ProtectCommit, ProtectCleanup, Clear
      <3>2. CASE ProtectVerify \/ ProtectRecheck
        BY <1>1, <3>2 DEF ProtectVerify, ProtectRecheck
      <3>3. CASE ProtectMeta
        BY <1>0, <1>1, <3>3 DEF ProtectMeta, Disks
      <3>4. CASE ProtectMode
        BY <1>0, <1>1, <3>4 DEF ProtectMode, SetMode, Disks
      <3>5. CASE DropCreatedEnc
        BY <1>0, <1>1, <3>5 DEF DropCreatedEnc, DropEnc, NoEnc, Disks
      <3> QED BY <1>10, <2>2, <3>1, <3>2, <3>3, <3>4, <3>5 DEF MigrateToProtected
    <2> QED BY <2>1, <2>2
  <1>11. CASE MigrateToFile
    <2> USE DEF Step, Goto
    <2>1. CASE UnprotectMark \/ UnprotectCommit
      BY <1>1, <1>6, <1>7, <2>1 DEF UnprotectMark, UnprotectCommit
    <2>2. CASE UnprotectCookies \/ UnprotectRoot
      BY <1>0, <1>2, <2>2 DEF UnprotectCookies, UnprotectRoot, Put, Disks, Files
    <2>3. CASE UnprotectMeta \/ UnprotectMode
      BY <1>0, <1>1, <2>3 DEF UnprotectMeta, UnprotectMode, SetMode, Disks
    <2>4. CASE UnprotectEnc
      BY <1>0, <1>1, <2>4 DEF UnprotectEnc, DropEnc, NoEnc, Disks
    <2> QED BY <1>11, <2>1, <2>2, <2>3, <2>4 DEF MigrateToFile
  <1>12. CASE Reconcile
    <2> USE DEF Step, Goto
    <2>1. CASE FinishMode \/ FinishMeta \/ AdoptMode \/ RevertMode
      BY <1>0, <1>1, <2>1 DEF FinishMode, FinishMeta, AdoptMode, RevertMode, SetMode, Disks
    <2>2. CASE FinishCookies \/ FinishRoot
      BY <1>0, <1>2, <2>2 DEF FinishCookies, FinishRoot, Remove, Disks
    <2>3. CASE AdoptEnc
      BY <1>0, <1>1, <2>3 DEF AdoptEnc, DropEnc, NoEnc, Disks
    <2> QED BY <1>12, <2>1, <2>2, <2>3 DEF Reconcile
  <1>13. CASE SaveProfile
    <2> USE DEF Step, Goto
    <2>1. CASE SaveRead
      BY <1>0, <1>1, <2>1 DEF SaveRead, DropEnc, NoEnc, Disks
    <2>2. CASE SaveCookies \/ SaveRoot
      BY <1>0, <1>2, <2>2 DEF SaveCookies, SaveRoot, Put, Disks, Files
    <2>3. CASE SaveMeta
      BY <1>0, <1>1, <2>3 DEF SaveMeta, Disks
    <2>4. CASE SaveUnlink
      BY <1>0, <1>2, <2>4 DEF SaveUnlink, Remove, Disks
    <2>5. CASE Saved
      BY <2>5 DEF Saved, FileWritten, QuarantineWritten, MarkerWritten
    <2> QED BY <1>13, <2>1, <2>2, <2>3, <2>4, <2>5 DEF SaveProfile
  <1>14. CASE ResolveConflict
    <2> USE DEF Step, Goto
    <2>1. CASE ResolveUnlink
      BY <1>0, <1>2, <2>1 DEF ResolveUnlink, Remove, Disks
    <2>2. CASE ResolveEnc
      BY <1>0, <1>1, <2>2 DEF ResolveEnc, DropEnc, NoEnc, Disks
    <2>3. CASE ResolveMode
      BY <1>0, <1>1, <2>3 DEF ResolveMode, SetMode, Disks
    <2> QED BY <1>14, <2>1, <2>2, <2>3 DEF ResolveConflict
  <1>15. CASE Failure
    <2> USE DEF Step, Goto
    <2>1. CASE KeystoreRefuses
      BY <1>1, <2>1 DEF KeystoreRefuses
    <2>2. CASE DiskFault
      BY <1>1, <2>2 DEF DiskFault
    <2>3. CASE Crash
      BY <1>1, <2>3 DEF Crash
    <2>4. CASE disk.key /\ Step("delete_key", Raised, WithoutKey(disk))
      <3>1. WithoutKey(disk).enc.c = disk.enc.c
        BY <1>0, KeyDeleted DEF Envelope
      <3> QED BY <1>0, <1>1, <2>4, <3>1, KeyDeleted
    <2>5. CASE HasOrMakesKey(disk) /\ Step("write_key", Raised, WithKey(disk))
      BY <1>0, <1>1, <2>5 DEF WithKey, Disks
    <2> QED BY <1>15, <2>1, <2>2, <2>3, <2>4, <2>5 DEF Failure, KeystoreTimesOut
  <1> QED BY <1>8, <1>9, <1>10, <1>11, <1>12, <1>13, <1>14, <1>15 DEF Continue

(* The cookies that reading the plaintext gives are those of one file, of  *)
(* cookies.json if it is there; it gives none only if no file is there.    *)
LEMMA ReadPlainSource ==
    ASSUME NEW files \in [Files -> Secret], NEW meta \in Version
    PROVE  /\ \E f \in Files : ReadPlain(files, meta).c = files[f].c
           /\ files["cookies"] # None => ReadPlain(files, meta).c = files["cookies"].c
           /\ ReadPlain(files, meta) = None => files = NoFiles
           /\ files = NoFiles => ReadPlain(files, meta) = None
  <1> DEFINE f == First(Present(files))
  <1>1. f \in Files /\ files[f] \in Secret
    BY DEF First, Files
  <1>2. ReadPlain(files, meta).c = files[f].c
    BY <1>1 DEF ReadPlain, Secret, None
  <1>3. files["cookies"] # None => f = "cookies"
    BY DEF First, Present, Files
  <1>4. files # NoFiles => files[f] # None
    BY DEF First, Present, Files, NoFiles
  <1>5. files[f] # None => ReadPlain(files, meta) # None
    <2> SUFFICES ASSUME files[f] # None PROVE ReadPlain(files, meta) # None
      OBVIOUS
    <2> HIDE DEF f
    <2>1. [files[f] EXCEPT !.t = IF meta # 0 THEN meta ELSE files[f].t] # None
      BY <1>1 DEF Secret, None
    <2> QED BY <2>1 DEF ReadPlain, f
  <1>6. files = NoFiles => ReadPlain(files, meta) = None
    BY <1>1 DEF ReadPlain, NoFiles
  <1> QED BY <1>1, <1>2, <1>3, <1>4, <1>5, <1>6

(* The first login is the newest one; nothing is in quarantine. *)
LEMMA InitFresh == Init => FreshInv
  <1> SUFFICES ASSUME Init PROVE FreshInv
    OBVIOUS
  <1>1. \A f \in Files : NoFiles[f] = None
    BY DEF NoFiles
  <1>2. /\ NewDisk.enc = NoEnc /\ NewDisk.marker = NoMarker /\ NewDisk.plain = NoFiles
        /\ \A i \in Ids : NewDisk.quar[i] = NoFiles
    BY DEF NewDisk
  <1>3. ASSUME NEW older \in BOOLEAN
        PROVE  /\ LoggedInDisk(older).enc = NoEnc /\ LoggedInDisk(older).marker = NoMarker
               /\ \A i \in Ids : LoggedInDisk(older).quar[i] = NoFiles
               /\ \A f \in Files : LoggedInDisk(older).plain[f].c <= 1
               /\ LoggedInDisk(older).plain["cookies"].c = 1
    <2>1. /\ LoggedInDisk(older).enc = NewDisk.enc /\ LoggedInDisk(older).marker = NewDisk.marker
          /\ LoggedInDisk(older).quar = NewDisk.quar
          /\ LoggedInDisk(older).plain =
                 LET login == [c |-> 1, t |-> 1]
                 IN  [f \in Files |->
                            CASE f = "cookies" -> [login EXCEPT !.t = 0]
                              [] f = "auth" -> IF older THEN login ELSE None
                              [] f = "root" -> IF IsDefault THEN login ELSE None]
      BY DEF LoggedInDisk, NewDisk
    <2> QED BY <1>2, <2>1 DEF Files, None
  <1>4. /\ disk.enc = NoEnc /\ disk.marker = NoMarker
        /\ \A i \in Ids : disk.quar[i] = NoFiles
        /\ \A f \in Files : disk.plain[f].c <= disk.plain["cookies"].c
    <2>1. CASE disk = NewDisk
      BY <1>1, <1>2, <2>1 DEF None, Files
    <2>2. ASSUME NEW older \in BOOLEAN, disk = LoggedInDisk(older)
          PROVE  /\ disk.enc = NoEnc /\ disk.marker = NoMarker
                 /\ \A i \in Ids : disk.quar[i] = NoFiles
                 /\ \A f \in Files : disk.plain[f].c <= disk.plain["cookies"].c
      BY <1>3, <2>2
    <2> QED BY <2>1, <2>2 DEF Init
  <1>5. 0 <= acked /\ acked \in Nat
    BY InitTyped DEF TypeInv, TypeOK, Version
  <1> QED BY <1>1, <1>4, <1>5 DEF Init, FreshInv, NoEnc, NoMarker, NoJob, None

(* A step of the holder writes no version that was not there. *)
LEMMA HolderFresh ==
    ASSUME TypeInv, FreshInv, Continue \/ Failure
    PROVE  FreshInv'
  <1>1. HolderWrites
    BY HolderWritesOnly
  <1>2. /\ spent'.login = spent.login /\ spent'.migration = spent.migration
        /\ spent.login \in Nat /\ spent.migration \in Nat
    <2>1. /\ spent \in [login : Version, migration : 0 .. MaxMigrations,
                        crash : 0 .. MaxCrashes, fault : 0 .. MaxFaults]
      BY DEF TypeInv, TypeOK
    <2>2. Continue => spent' = spent
      BY HolderSpendsNothing
    <2>3. Failure => \/ spent' = spent \/ spent' = [spent EXCEPT !.fault = @ + 1]
                     \/ spent' = [spent EXCEPT !.crash = @ + 1]
      BY DEF Failure, KeystoreRefuses, KeystoreTimesOut, DiskFault, Crash, Step, Goto
    <2> QED BY <2>1, <2>2, <2>3 DEF Version
  <1>3. disk \in Disks /\ disk' \in Disks /\ job \in Jobs
    BY NextTyped DEF Next, TypeInv, TypeOK
  <1>4. NoJob.sec.c = 0 /\ NoJob.id = 0 /\ NoJob.cmd = "none" /\ None.c = 0
    BY DEF NoJob, None
  <1>5. disk'.enc.c <= spent.login /\ acked' <= spent.login /\ job'.sec.c <= spent.login
        /\ job'.id <= spent.migration
    BY <1>1, <1>2, <1>4 DEF HolderWrites, FreshInv
  <1>6. \A f \in Files : disk'.plain[f].c <= spent.login
    BY <1>1, <1>2, <1>4 DEF HolderWrites, FileWritten, FreshInv, Aside
  <1>7. \A i \in Ids, f \in Files : disk'.quar[i][f].c <= spent.login
    BY <1>1, <1>2, <1>4 DEF HolderWrites, QuarantineWritten, FreshInv
  <1>8. \A i \in Ids : i > spent.migration => disk'.quar[i] = NoFiles
    <2> SUFFICES ASSUME NEW i \in Ids, i > spent.migration PROVE disk'.quar[i] = NoFiles
      OBVIOUS
    <2>1. i # job.id /\ disk.quar[i] = NoFiles
      BY <1>2, <1>3 DEF FreshInv, Jobs, Ids
    <2>2. \A f \in Files : disk'.quar[i][f] = NoFiles[f]
      BY <1>1, <2>1 DEF HolderWrites, QuarantineWritten
    <2> QED BY <1>3, <2>2 DEF Disks, NoFiles
  <1>9. /\ disk'.marker.id <= spent.migration /\ disk'.marker.sec.c <= spent.login
        /\ disk'.marker.op \notin {"protect", "unprotect"} => disk'.marker.id = 0
    BY <1>1, <1>2, <1>4 DEF HolderWrites, MarkerWritten, FreshInv, NoMarker
  <1> QED BY <1>1, <1>2, <1>4, <1>5, <1>6, <1>7, <1>8, <1>9 DEF HolderWrites, FreshInv

(* A command begins with a version that was there, or with a new one. *)
LEMMA BeginFresh ==
    ASSUME TypeInv, FreshInv, Begin
    PROVE  FreshInv'
  <1>0. /\ disk \in Disks /\ disk.plain \in [Files -> Secret] /\ disk.meta \in Version
        /\ spent \in [login : Version, migration : 0 .. MaxMigrations,
                      crash : 0 .. MaxCrashes, fault : 0 .. MaxFaults]
    BY DEF TypeInv, TypeOK, Disks
  <1>1. \A c : [NoJob EXCEPT !.cmd = c].sec.c = 0 /\ [NoJob EXCEPT !.cmd = c].id = 0
               /\ [NoJob EXCEPT !.cmd = c].cmd = c
    BY DEF NoJob, None
  <1> USE <1>0 DEF Disks, FreshInv, Version
  <1>2. ASSUME NEW cmd \in {"protect", "unprotect"}, DecideSwitch(cmd) PROVE FreshInv'
    BY <1>2 DEF DecideSwitch
  <1>3. CASE StartProtect
    <2>1. PICK keyPre \in {disk.key, FALSE} :
              Take("protect_mark",
                   [cmd |-> "protect", id |-> spent.migration + 1,
                    sec |-> ReadPlain(disk.plain, disk.meta),
                    encPre |-> disk.enc # NoEnc, keyPre |-> keyPre])
      BY <1>3 DEF StartProtect
    <2>2. job'.cmd = "protect" /\ job'.id = spent.migration + 1
          /\ job'.sec.c = ReadPlain(disk.plain, disk.meta).c
      BY <2>1 DEF Take
    <2>3. job'.sec.c <= spent.login
      BY <2>2, ReadPlainSource
    <2>4. spent'.login = spent.login /\ spent'.migration = spent.migration + 1
      BY <1>3 DEF StartProtect
    <2>5. disk' = disk /\ acked' = acked
      BY <1>3 DEF StartProtect
    <2>6. job.id \in Nat /\ disk.marker.id \in Nat /\ spent.migration \in Nat
      BY DEF TypeInv, TypeOK, Jobs, Markers
    <2> QED BY <2>2, <2>3, <2>4, <2>5, <2>6 DEF Ids
  <1>4. CASE ProtectNothing
    BY <1>4 DEF ProtectNothing, SetMode
  <1>5. ASSUME Unprotect, acked' = acked \/ acked' = disk.enc.c PROVE FreshInv'
    <2>1. CASE Readable(disk) /\ disk' = disk
               /\ job' = [NoJob EXCEPT !.cmd = "unprotect", !.sec = EncSecret(disk)]
      <3>1. job'.cmd = "unprotect" /\ job'.sec.c = disk.enc.c /\ job'.id = 0
        BY <2>1 DEF NoJob, EncSecret
      <3> QED BY <1>5, <2>1, <3>1 DEF Unprotect
    <2>2. CASE disk' = SetMode("file") /\ UNCHANGED <<pc, job>>
      BY <1>5, <2>2 DEF SetMode, Unprotect
    <2> QED BY <1>5, <2>1, <2>2 DEF Unprotect, Take
  <1>6. CASE StartUnprotect
    BY <1>5, <1>6 DEF StartUnprotect
  <1>7. CASE StartRecover
    <2>1. job'.cmd = "recover" /\ job'.sec = disk.marker.sec /\ job'.id = disk.marker.id
      BY <1>7 DEF StartRecover, Take
    <2> QED BY <1>7, <2>1 DEF StartRecover
  <1>8. ASSUME NEW cmd \in {"save", "login"}, NEW withTokens \in BOOLEAN,
               StartSave(cmd, withTokens)
        PROVE  FreshInv'
    <2>1. /\ job'.cmd = cmd /\ job'.sec.c = spent.login + 1 /\ job'.id = 0
          /\ spent'.login = spent.login + 1 /\ spent'.migration = spent.migration
          /\ UNCHANGED <<disk, acked>>
      BY <1>8 DEF StartSave, Take, NoJob
    <2>2. /\ \A f \in Files : disk.plain[f].c \in Nat
          /\ \A i \in Ids, f \in Files : disk.quar[i][f].c \in Nat
          /\ disk.enc.c \in Nat /\ disk.marker.sec.c \in Nat /\ acked \in Nat
          /\ spent.login \in Nat
      BY DEF Secret, Envelope, Markers, TypeInv, TypeOK
    <2> QED BY <2>1, <2>2
  <1>9. CASE ResolveProtected
    BY <1>1, <1>9 DEF ResolveProtected, CanResolve, Take
  <1>10. CASE ResolveFile
    <2>1. CASE disk.plain["cookies"] # None
      <3>1. /\ job' = [NoJob EXCEPT !.cmd = "resolve_file"]
            /\ acked' = disk.plain["cookies"].c /\ UNCHANGED <<disk, spent>>
        BY <1>10, <2>1 DEF ResolveFile, Take
      <3>2. job'.sec.c = 0 /\ job'.id = 0 /\ job'.cmd = "resolve_file"
        BY <1>1, <3>1
      <3>3. spent.login \in Nat /\ spent.migration \in Nat /\ "cookies" \in Files
        BY DEF Files
      <3> QED BY <3>1, <3>2, <3>3
    <2>2. CASE disk.plain["cookies"] = None
      BY <1>5, <1>10, <2>2 DEF ResolveFile, CanResolve
    <2> QED BY <2>1, <2>2
  <1>11. CASE DiscardInaccessible
    BY <1>1, <1>11 DEF DiscardInaccessible, CanResolve, Take
  <1>12. CASE ClearMarker
    BY <1>12 DEF ClearMarker, SetMark, NoMarker, None
  <1> QED BY <1>2, <1>3, <1>4, <1>6, <1>7, <1>8, <1>9, <1>10, <1>11, <1>12 DEF Begin

(* What runs without the lock removes files and envelopes. *)
LEMMA UnlockedFresh ==
    ASSUME TypeInv, FreshInv, Unlocked
    PROVE  FreshInv'
  <1>0. disk \in Disks /\ spent.login \in Nat
    BY DEF TypeInv, TypeOK, Version
  <1> USE <1>0 DEF Disks, FreshInv
  <1>1. CASE TidyUnlink
    <2>1. disk' = DropEnc \/ \E S \in SUBSET Files : disk' = Remove(S)
      BY <1>1 DEF TidyUnlink, TidyStep, Files
    <2>2. UNCHANGED <<job, acked, spent>>
      BY <1>1 DEF TidyUnlink, TidyStep
    <2>3. CASE disk' = DropEnc
      BY <2>2, <2>3 DEF DropEnc, NoEnc
    <2>4. ASSUME NEW S \in SUBSET Files, disk' = Remove(S) PROVE FreshInv'
      BY <2>2, <2>4 DEF Remove, None
    <2> QED BY <2>1, <2>3, <2>4
  <1>2. CASE TidyKey
    <2>1. job'.sec.c = 0 /\ job'.id = 0 /\ job'.cmd = "tidy" /\ UNCHANGED <<disk, acked, spent>>
      BY <1>2 DEF TidyKey, Take, NoJob, None
    <2>2. spent.migration \in Nat
      BY DEF TypeInv, TypeOK
    <2> QED BY <2>1, <2>2
  <1>3. CASE DecideTidy \/ GiveUp
    BY <1>3 DEF DecideTidy, GiveUp
  <1> QED BY <1>1, <1>2, <1>3 DEF Unlocked

(* FreshInv is an invariant of the specification. *)
LEMMA AlwaysFresh == Spec => []FreshInv
  <1>1. TypeInv /\ FreshInv /\ [Next]_vars => FreshInv'
    <2> SUFFICES ASSUME TypeInv, FreshInv, [Next]_vars PROVE FreshInv'
      OBVIOUS
    <2>1. CASE UNCHANGED vars
      BY <2>1 DEF vars, FreshInv
    <2> QED BY <2>1, BeginFresh, UnlockedFresh, HolderFresh DEF Next
  <1> QED BY <1>1, InitFresh, AlwaysTyped, PTL DEF Spec

-------------------------------------------------------------------------------
(* A login is kept through one kind of failure *)

(* Version v or a newer one is in a quarantine that nothing names any more,*)
(* where a crash left it and nobody will ever discard it.                  *)
Untracked(i) == i \notin {job.id, disk.marker.id}
Shelved(v) ==
    /\ ~NoCrash
    /\ \E i \in Ids : Untracked(i) /\ \E f \in Files : LET c == disk.quar[i][f].c
                                                     IN  c > 0 /\ c >= v

(* Where the login relied on is while the lock is free *)
InCookies == disk.plain["cookies"].c >= acked \/ Shelved(acked)
InEnvelope == Readable(disk) /\ disk.enc.c >= acked
Anchored == InCookies \/ (InEnvelope /\ (disk.mode = "file" => disk.plain = NoFiles))

(* A version that would not be missed with the file that holds it. *)
Backed(v) == v <= disk.plain["cookies"].c \/ Shelved(v)
FilesBacked ==
    \A f \in Files :
        \/ Backed(disk.plain[f].c)
        \/ /\ disk.plain["cookies"] = None /\ disk.mode = "protected"
           /\ Readable(disk) /\ disk.plain[f].c <= disk.enc.c
EnvelopeBacked ==
    NoFault /\ disk.mode = "file" /\ Readable(disk) => Backed(disk.enc.c) \/ disk.plain = NoFiles

(* What an unfinished migration to protected mode has left. *)
MarkerKept ==
    disk.marker.op = "protect" =>
        IF disk.marker.phase = "preparing"
        THEN disk.quar[disk.marker.id] = NoFiles /\ InCookies /\ disk.mode = "file"
             /\ pc \in {"idle", "save_cookies", "save_meta", "save_root", "saved",
                        "restore", "discard", "drop_enc", "delete_mark", "clear"}
        ELSE /\ Holds(disk, disk.marker.sec)
             /\ pc \in HeldSteps
             /\ \A f \in Files : LET c == disk.quar[disk.marker.id][f].c
                                 IN  c <= disk.marker.sec.c \/ Shelved(c)

WrittenSteps == {"write_clear", "save_meta", "save_unlink", "saved"}
SaveKept ==
    /\ MarkerKept /\ FilesBacked /\ EnvelopeBacked
    /\ \/ pc = "save_cookies" /\ disk.mode = "file" /\ Anchored
       \/ pc \in {"save_read"} \cup WriteSteps /\ disk.mode = "protected" /\ Anchored
          /\ (pc \in KeyedSteps => disk.key)
       \/ pc \in WrittenSteps /\ disk.mode = "protected" /\ Readable(disk)
          /\ disk.enc.c = job.sec.c
       \/ pc \in {"save_meta", "save_root", "saved"} /\ disk.mode = "file"
          /\ disk.plain["cookies"].c = job.sec.c

(* A login or a file's version that the holder's migration has in one of   *)
(* its two places for cookies.                                             *)
Tops(v) == v <= disk.plain["cookies"].c \/ v <= Aside["cookies"].c \/ Shelved(v)
RollbackSteps == {"drop_enc", "restore"} \cup DeleteSteps
AllTops == \A f \in Files : Tops(disk.plain[f].c) /\ Tops(Aside[f].c)
ProtectFiles ==
    /\ job.id \in Ids /\ disk.marker.op # "unprotect"
    /\ disk.marker.op = "protect" => disk.marker.id = job.id
    /\ \A f \in Files : disk.plain[f] = None \/ Aside[f] = None
    /\ disk.plain["cookies"].c <= job.sec.c /\ Aside["cookies"].c <= job.sec.c
    /\ \A f \in Files : Aside[f].c <= job.sec.c \/ Shelved(Aside[f].c)
ProtectKept ==
    /\ ProtectFiles
    /\ \/ pc \in {"protect_mark", "write_clear", "protect_verify"} \cup WriteSteps
          /\ disk.mode = "file" /\ Aside = NoFiles /\ ~Committed(disk)
          /\ InCookies /\ FilesBacked /\ EnvelopeBacked /\ Backed(job.sec.c)
          /\ (disk.marker.op = "protect" => pc = "write_mark")
       \/ pc \in {"protect_move", "protect_restore"}
          /\ disk.mode = "file" /\ disk.marker.op # "protect"
          /\ Tops(acked) /\ Tops(job.sec.c) /\ Holds(disk, job.sec)
          /\ AllTops
       \/ pc \in RollbackSteps
          /\ Tops(acked) /\ AllTops
          /\ (NoFault => Aside = NoFiles /\ ~Committed(disk)
                         /\ disk.mode = "file" /\ EnvelopeBacked)
       \/ pc \in {"protect_commit", "protect_meta", "protect_mode", "protect_cleanup"}
          /\ disk.plain = NoFiles /\ Holds(disk, job.sec)
          /\ Tops(acked) /\ AllTops
          /\ (pc = "protect_commit" => disk.mode = "file" /\ disk.marker.op # "protect")
          /\ (pc # "protect_commit" => Committed(disk) /\ disk.marker.sec = job.sec)
          /\ (pc = "protect_cleanup" => disk.mode = "protected")
       \/ pc = "protect_discard" /\ disk.mode = "protected" /\ disk.plain = NoFiles
          /\ Holds(disk, job.sec) /\ (acked <= job.sec.c \/ Shelved(acked))
          /\ Committed(disk) /\ disk.marker.sec = job.sec
       \/ pc = "discard" /\ Aside = NoFiles /\ InCookies /\ FilesBacked /\ EnvelopeBacked
          /\ (NoFault => ~Committed(disk) /\ disk.mode = "file")
       \/ pc = "clear" /\ Anchored /\ FilesBacked /\ EnvelopeBacked
          /\ (disk.marker.op = "protect" /\ NoFault =>
                 IF disk.marker.phase = "preparing"
                 THEN Aside = NoFiles /\ InCookies /\ disk.mode = "file"
                 ELSE Holds(disk, job.sec) /\ disk.marker.sec = job.sec)

UnprotectKept ==
    /\ disk.marker.op # "protect" /\ FilesBacked /\ EnvelopeBacked
    /\ acked <= job.sec.c \/ Shelved(acked)
    /\ \/ pc \in {"unprotect_mark", "unprotect_cookies"} /\ disk.mode = "protected"
          /\ Readable(disk) /\ disk.enc.c = job.sec.c
          /\ disk.plain["cookies"].c <= job.sec.c
       \/ pc \in {"unprotect_meta", "unprotect_mode"} /\ disk.mode = "protected"
          /\ Readable(disk) /\ disk.enc.c = job.sec.c
          /\ disk.plain["cookies"].c = job.sec.c /\ \A f \in Files : Backed(disk.plain[f].c)
       \/ pc \in {"unprotect_commit", "unprotect_enc", "unprotect_root", "clear"} \cup DeleteSteps
          /\ disk.mode = "file" /\ disk.plain["cookies"].c = job.sec.c
          /\ (pc \in {"unprotect_root", "clear"} /\ NoFault => disk.enc = NoEnc)
RecoverKept ==
    /\ MarkerKept /\ FilesBacked /\ EnvelopeBacked
    /\ \/ pc \in {"restore", "discard", "drop_enc"} /\ disk.marker.op = "protect"
          /\ disk.marker.phase = "preparing" /\ job.id = disk.marker.id
       \/ pc \in {"finish_discard", "finish_mode", "finish_meta", "finish_cookies", "finish_root"}
          /\ Committed(disk) /\ job.id = disk.marker.id /\ job.sec = disk.marker.sec /\ Anchored
          /\ (pc \notin {"finish_discard", "finish_mode"} => disk.mode = "protected")
       \/ pc = "adopt_mode" /\ InCookies /\ disk.enc.c <= disk.plain["cookies"].c
       \/ pc \in {"adopt_enc"} \cup DeleteSteps /\ InCookies /\ disk.mode = "file"
       \/ pc \in {"revert_mode", "clear"} /\ Anchored

ResolveProtectedKept ==
    /\ pc \in {"resolve_unlink", "resolve_mode"} /\ disk.marker.op # "protect"
    /\ InEnvelope /\ FilesBacked /\ EnvelopeBacked /\ (NoFault => Anchored)
ResolveFileKept ==
    /\ pc \in {"resolve_enc", "resolve_mode"} \cup DeleteSteps
    /\ disk.marker.op # "protect"
    /\ InCookies /\ (\A f \in Files : Backed(disk.plain[f].c)) /\ EnvelopeBacked
    /\ NoFault /\ pc # "resolve_enc" => disk.enc = NoEnc

(* The clean-up of residue deletes the key of a profile without ciphertext.*)
TidyKept ==
    /\ pc \in DeleteSteps /\ disk.marker.op # "protect" /\ disk.enc = NoEnc
    /\ InCookies /\ FilesBacked

Safe ==
    /\ job.cmd = "none" <=> Idle
    /\ Idle => Anchored /\ FilesBacked /\ EnvelopeBacked /\ MarkerKept
    /\ job.cmd \in {"save", "login"} => SaveKept
    /\ job.cmd = "protect" => ProtectKept
    /\ job.cmd = "unprotect" => UnprotectKept
    /\ job.cmd = "recover" => RecoverKept
    /\ job.cmd = "resolve_protected" => ResolveProtectedKept
    /\ job.cmd = "resolve_file" => ResolveFileKept
    /\ job.cmd = "tidy" => TidyKept
KeepInv == OneKindOfFailure /\ ~outdated => Safe

(* A quarantine that nothing names is never named again, nor changed. *)
LEMMA ShelvedStays ==
    ASSUME TypeInv, FreshInv, [Next]_vars, NEW v, Shelved(v)
    PROVE  Shelved(v)'
  <1>0. /\ TypeInv' /\ spent'.crash >= spent.crash
        /\ spent.crash \in Nat /\ spent'.crash \in Nat
    BY NextTyped, SpentOnlyGrows DEF TypeInv, TypeOK
  <1>1. PICK i \in Ids, f \in Files :
            Untracked(i) /\ disk.quar[i][f].c > 0 /\ disk.quar[i][f].c >= v
    BY DEF Shelved
  <1>2. ~NoCrash'
    BY <1>0 DEF Shelved, NoCrash
  <1>3. i \in Nat /\ i # 0 /\ job.id \in Nat /\ disk.marker.id \in Nat /\ spent.migration \in Nat
    BY DEF Ids, TypeInv, TypeOK, Jobs, Disks, Markers
  <1>4. Continue \/ Failure => disk'.quar[i][f] = disk.quar[i][f] /\ Untracked(i)'
    <2> SUFFICES ASSUME Continue \/ Failure
                 PROVE  disk'.quar[i][f] = disk.quar[i][f] /\ Untracked(i)'
      OBVIOUS
    <2>1. HolderWrites
      BY HolderWritesOnly
    <2>2. disk'.quar[i][f] = disk.quar[i][f]
      BY <1>1, <2>1 DEF HolderWrites, QuarantineWritten, Untracked
    <2>3. job'.id \in {job.id, 0}
      BY <2>1 DEF HolderWrites, NoJob
    <2>4. disk'.marker.id \in {disk.marker.id, 0, job.id}
      BY <2>1 DEF HolderWrites, MarkerWritten, NoMarker
    <2> QED BY <1>1, <1>3, <2>2, <2>3, <2>4 DEF Untracked
  <1>5. Unlocked => disk'.quar[i][f] = disk.quar[i][f] /\ Untracked(i)'
    <2> SUFFICES ASSUME Unlocked PROVE disk'.quar[i][f] = disk.quar[i][f] /\ Untracked(i)'
      OBVIOUS
    <2>1. disk' = disk \/ disk' = DropEnc \/ \E S \in SUBSET Files : disk' = Remove(S)
      BY DEF Unlocked, DecideTidy, TidyUnlink, TidyStep, TidyKey, GiveUp, Files
    <2>2. disk'.quar = disk.quar /\ disk'.marker = disk.marker
      BY <2>1 DEF DropEnc, Remove, TypeInv, TypeOK, Disks
    <2>3. job'.id \in {job.id, 0}
      BY DEF Unlocked, DecideTidy, TidyUnlink, TidyStep, TidyKey, GiveUp, Take, NoJob
    <2> QED BY <1>1, <1>3, <2>2, <2>3 DEF Untracked
  <1>6. Begin => disk'.quar[i][f] = disk.quar[i][f] /\ Untracked(i)'
    <2> SUFFICES ASSUME Begin PROVE disk'.quar[i][f] = disk.quar[i][f] /\ Untracked(i)'
      OBVIOUS
    <2>1. /\ disk' \in {disk, SetMode("file"), SetMode("protected"), SetMark(NoMarker)}
          /\ job'.id \in {job.id, 0, disk.marker.id, spent.migration + 1}
      <3>1. \A c, s : [NoJob EXCEPT !.cmd = c, !.sec = s].id = 0
                   /\ [NoJob EXCEPT !.cmd = c].id = 0
        BY DEF NoJob
      <3>2. ASSUME NEW cmd \in {"protect", "unprotect"}, DecideSwitch(cmd) PROVE <2>1!1 /\ <2>1!2
        BY <3>2 DEF DecideSwitch
      <3>3. CASE StartProtect
        BY <3>3 DEF StartProtect, Take
      <3>4. CASE ProtectNothing
        BY <3>4 DEF ProtectNothing
      <3>5. Unprotect => <2>1!1 /\ <2>1!2
        <4>1. Unprotect => \/ disk' = SetMode("file") /\ job' = job
                           \/ /\ disk' = disk
                              /\ job' = [NoJob EXCEPT !.cmd = "unprotect", !.sec = EncSecret(disk)]
          BY DEF Unprotect, Take
        <4>2. [NoJob EXCEPT !.cmd = "unprotect", !.sec = EncSecret(disk)].id = 0
          BY DEF NoJob
        <4> QED BY <4>1, <4>2
      <3>6. CASE StartUnprotect \/ ResolveFile
        BY <3>1, <3>5, <3>6 DEF StartUnprotect, ResolveFile, Take
      <3>7. CASE StartRecover
        BY <3>7 DEF StartRecover, Take
      <3>8. ASSUME NEW cmd \in {"save", "login"}, NEW withTokens \in BOOLEAN,
                   StartSave(cmd, withTokens)
            PROVE  <2>1!1 /\ <2>1!2
        BY <3>1, <3>8 DEF StartSave, Take
      <3>9. CASE ResolveProtected \/ DiscardInaccessible
        BY <3>1, <3>9 DEF ResolveProtected, DiscardInaccessible, Take
      <3>10. CASE ClearMarker
        BY <3>10 DEF ClearMarker
      <3> QED BY <3>2, <3>3, <3>4, <3>6, <3>7, <3>8, <3>9, <3>10 DEF Begin
    <2>2. disk'.quar = disk.quar /\ disk'.marker.id \in {disk.marker.id, 0}
      BY <2>1 DEF SetMode, SetMark, NoMarker, TypeInv, TypeOK, Disks
    <2>3. i # spent.migration + 1
      BY <1>1, <1>3 DEF FreshInv, NoFiles, None
    <2> QED BY <1>1, <1>3, <2>1, <2>2, <2>3 DEF Untracked
  <1>7. UNCHANGED vars => disk'.quar[i][f] = disk.quar[i][f] /\ Untracked(i)'
    BY <1>1 DEF vars, Untracked
  <1>8. disk'.quar[i][f] = disk.quar[i][f] /\ Untracked(i)'
    BY <1>4, <1>5, <1>6, <1>7 DEF Next
  <1> QED BY <1>1, <1>2, <1>8 DEF Shelved

(* The numbers that are compared are numbers. *)
LEMMA Numbers ==
    ASSUME TypeInv
    PROVE  /\ disk \in Disks /\ disk.plain \in [Files -> Secret]
           /\ disk.quar \in [Ids -> [Files -> Secret]]
           /\ acked \in Nat /\ job.sec.c \in Nat /\ disk.enc.c \in Nat
           /\ "cookies" \in Files /\ disk.plain["cookies"].c \in Nat
           /\ \A f \in Files : disk.plain[f].c \in Nat
           /\ \A i \in Ids, f \in Files : disk.quar[i][f].c \in Nat
           /\ job.id \in Ids => Aside \in [Files -> Secret] /\ \A f \in Files : Aside[f].c \in Nat
           /\ disk.marker.sec.c \in Nat
           /\ spent.login \in Nat /\ spent.crash \in Nat /\ spent.fault \in Nat
           /\ spent.migration \in Nat
  BY DEF TypeInv, TypeOK, Jobs, Disks, Secret, Envelope, Markers, Version, Aside, Files

(* A holder that goes on must keep what its command promises. *)
LEMMA GoesOn ==
    ASSUME Safe, pc # "idle", pc' # "idle", job' = job,
           job.cmd \in {"save", "login"} => SaveKept',
           job.cmd = "protect" => ProtectKept',
           job.cmd = "unprotect" => UnprotectKept',
           job.cmd = "recover" => RecoverKept',
           job.cmd = "resolve_protected" => ResolveProtectedKept',
           job.cmd = "resolve_file" => ResolveFileKept',
           job.cmd = "tidy" => TidyKept'
    PROVE  Safe'
  BY DEF Safe, Idle

(* One that lets go of the lock must leave the profile as the next expects.*)
LEMMA LetsGo ==
    ASSUME Safe, pc # "idle", pc' = "idle", job' = NoJob,
           Anchored', FilesBacked', EnvelopeBacked', MarkerKept'
    PROVE  Safe'
  BY DEF Safe, Idle, NoJob

(* The steps of write_credentials, in a save and in a migration. *)
LEMMA WriteKept ==
    ASSUME TypeInv, FreshInv, Safe, OneKindOfFailure, WriteCredentials
    PROVE  Safe'
  <1>0. pending' = pending /\ spent' = spent /\ TypeInv'
    BY HolderSpendsNothing, NextTyped DEF Continue, Next
  <1>1. ASSUME NEW v, Shelved(v) PROVE Shelved(v)'
    BY <1>1, ShelvedStays DEF Next, Continue
  <1>2. pc # "idle" /\ job.cmd \in {"save", "login", "protect"}
    BY DEF WriteCredentials, WriteMark, WriteKey, WriteCommit, WriteEnc, WriteClear, Step,
           Safe, Idle, ProtectKept, UnprotectKept, RecoverKept, ResolveProtectedKept,
           ResolveFileKept, TidyKept, DeleteSteps, Deleting, TypeInv, TypeOK, Jobs
  <1>3. CASE job.cmd \in {"save", "login"}
    <2>1. SaveKept /\ pc \in WriteSteps \cup {"write_clear"}
      BY <1>3 DEF Safe, WriteCredentials, WriteMark, WriteKey, WriteCommit, WriteEnc, WriteClear,
                  Step, WriteSteps
    <2> USE <2>1, Numbers DEF Disks, Step, Goto, Move, SaveKept, WriteSteps, WrittenSteps,
                              KeyedSteps, Anchored,
                     InCookies, InEnvelope, Readable, FilesBacked, EnvelopeBacked, Backed,
                     MarkerKept, HeldSteps
    <2>2. CASE WriteMark
      <3>1. SaveKept' /\ job' = job /\ pc' = "write_key"
        BY <1>1, <1>3, <2>2, StoreMarks DEF WriteMark, SetMark
      <3> QED BY <1>0, <1>2, <1>3, <3>1, GoesOn
    <2>3. CASE WriteKey
      <3>1. SaveKept' /\ job' = job /\ pc' = "write_commit"
        BY <1>1, <1>3, <2>3 DEF WriteKey, WithKey, HasOrMakesKey
      <3> QED BY <1>0, <1>2, <1>3, <3>1, GoesOn
    <2>4. CASE WriteCommit
      <3>1. SaveKept' /\ job' = job /\ pc' = "write_enc"
        BY <1>1, <1>3, <2>4, StoreMarks DEF WriteCommit, SetMark
      <3> QED BY <1>0, <1>2, <1>3, <3>1, GoesOn
    <2>5. CASE WriteEnc
      <3>1. SaveKept' /\ job' = job /\ pc' = "write_clear"
        BY <1>1, <1>3, <2>5 DEF WriteEnc, FreshInv, NoEnc
      <3> QED BY <1>0, <1>2, <1>3, <3>1, GoesOn
    <2>6. CASE WriteClear
      <3>1. SaveKept' /\ job' = job /\ pc' = "save_meta"
        BY <1>1, <1>3, <2>6, StoreMarks DEF WriteClear, SetMark, Then, AfterWrite
      <3> QED BY <1>0, <1>2, <1>3, <3>1, GoesOn
    <2> QED BY <2>2, <2>3, <2>4, <2>5, <2>6 DEF WriteCredentials
  <1>4. CASE job.cmd = "protect"
    <2>1. ProtectKept /\ pc \in WriteSteps \cup {"write_clear"} /\ job.id \in Ids
      BY <1>4 DEF Safe, WriteCredentials, WriteMark, WriteKey, WriteCommit, WriteEnc, WriteClear,
                  Step, WriteSteps, ProtectKept, ProtectFiles
    <2>2. /\ disk.mode = "file" /\ Aside = NoFiles /\ ~Committed(disk)
          /\ InCookies /\ FilesBacked /\ EnvelopeBacked /\ Backed(job.sec.c)
          /\ disk.marker.op = "protect" => pc = "write_mark"
      BY <2>1 DEF ProtectKept, WriteSteps, RollbackSteps, DeleteSteps, Deleting
    <2>3. /\ job' = job /\ acked' = acked
          /\ disk'.plain = disk.plain /\ disk'.quar = disk.quar /\ disk'.mode = disk.mode
          /\ disk'.marker \in {disk.marker, NoMarker} \/ disk'.marker.op = "write"
          /\ pc = "write_mark" => disk'.marker.op = "write"
          /\ Readable(disk') => \/ Readable(disk) /\ disk'.enc = disk.enc
                               \/ disk'.enc.c = job.sec.c
          /\ pc' \in WriteSteps \cup {"write_clear", "protect_verify"}
      <3> USE <2>1, Numbers DEF Disks, Step, Goto, Move, Readable, WriteSteps
      <3>1. CASE WriteMark
        BY <3>1, StoreMarks DEF WriteMark, SetMark
      <3>2. CASE WriteKey
        BY <3>2 DEF WriteKey, WithKey, HasOrMakesKey
      <3>3. CASE WriteCommit
        BY <3>3, StoreMarks DEF WriteCommit, SetMark
      <3>4. CASE WriteEnc
        BY <3>4 DEF WriteEnc
      <3>5. CASE WriteClear
        BY <1>4, <3>5 DEF WriteClear, SetMark, Then, AfterWrite
      <3> QED BY <3>1, <3>2, <3>3, <3>4, <3>5 DEF WriteCredentials
    <2>4. InCookies' /\ FilesBacked' /\ EnvelopeBacked' /\ Backed(job.sec.c)'
      BY <1>0, <1>1, <2>2, <2>3, Numbers
         DEF InCookies, FilesBacked, EnvelopeBacked, Backed, NoFault
    <2>5. ProtectKept'
      BY <1>1, <2>1, <2>2, <2>3, <2>4, StoreMarks, Numbers
         DEF ProtectKept, ProtectFiles, Aside, Committed, WriteSteps, NoFiles, None, NoMarker
    <2> QED BY <1>0, <1>2, <1>4, <2>3, <2>5, GoesOn DEF WriteSteps
  <1> QED BY <1>2, <1>3, <1>4

(* What a step of delete_credentials does, or fails to do. *)
DeleteEffects ==
    /\ disk'.plain = disk.plain /\ disk'.quar = disk.quar /\ disk'.mode = disk.mode
    /\ disk.enc = NoEnc => disk'.enc = NoEnc
    /\ Readable(disk') => Readable(disk) /\ disk'.enc = disk.enc
    /\ disk'.marker = disk.marker \/ disk'.marker.op \in {"none", "delete"}
    /\ disk'.marker # disk.marker => disk'.marker.id = 0
    /\ pc = "delete_mark" => disk'.marker.op = "delete" \/ pc' = AfterDelete
    /\ pc' \in DeleteSteps \cup {AfterDelete}
    /\ acked' = acked
    /\ job' = IF pc' = "idle" THEN NoJob ELSE job

(* A step of delete_credentials has no other effects. *)
LEMMA DeleteDoes ==
    ASSUME TypeInv, DeleteCredentials
    PROVE  DeleteEffects
  <1> USE Numbers DEF DeleteEffects, Step, Goto, Move, DeleteSteps, Deleting, Readable, Disks
  <1>1. CASE DeleteMark
    BY <1>1, StoreMarks DEF DeleteMark, SetMark, StoreMarked, NoMarker
  <1>2. CASE DeleteKey
    BY <1>2, KeyDeleted DEF DeleteKey
  <1>3. CASE DeleteEnc
    BY <1>3 DEF DeleteEnc, DropEnc
  <1>4. CASE DeleteCleanup
    BY <1>4, StoreMarks DEF DeleteCleanup, SetMark, StoreMarked, NoMarker
  <1>5. CASE DeleteClear
    BY <1>5, StoreMarks DEF DeleteClear, SetMark, Then, NoMarker
  <1> QED BY <1>1, <1>2, <1>3, <1>4, <1>5 DEF DeleteCredentials

(* The steps of delete_credentials, in the rollback of a migration to      *)
(* protected mode and in a migration to file mode, in reconciliation, in a *)
(* resolution that keeps the files and in the clean-up of residue.         *)
LEMMA DeleteKept ==
    ASSUME TypeInv, FreshInv, Safe, OneKindOfFailure, [Next]_vars,
           pc \in DeleteSteps, DeleteEffects, NoFault' => NoFault
    PROVE  Safe'
  <1>0. TypeInv'
    BY NextTyped
  <1>1. ASSUME NEW v, Shelved(v) PROVE Shelved(v)'
    BY <1>1, ShelvedStays
  <1>2. pc # "idle" /\ job.cmd \in {"protect", "unprotect", "recover", "resolve_file", "tidy"}
    BY DEF DeleteSteps, Deleting, Safe, Idle, SaveKept, WriteSteps, WrittenSteps,
           ResolveProtectedKept, TypeInv, TypeOK, Jobs
  <1>3. job.cmd # "tidy" => pc' # "idle" /\ job' = job
    BY <1>2 DEF DeleteEffects, AfterDelete, DeleteSteps, Deleting
  <1> USE Numbers, <1>2, <1>3 DEF DeleteEffects, DeleteSteps, Deleting, AfterDelete
  <1>4. CASE job.cmd = "protect"
    <2>1. /\ ProtectKept /\ pc \in RollbackSteps
      BY <1>4 DEF Safe, RollbackSteps
    <2>2. /\ Tops(acked) /\ AllTops
          /\ (NoFault => Aside = NoFiles /\ ~Committed(disk)
                         /\ disk.mode = "file" /\ EnvelopeBacked)
      BY <2>1 DEF ProtectKept, WriteSteps
    <2>3. pc' \in RollbackSteps /\ Aside' = Aside
      BY <1>4 DEF RollbackSteps, Aside
    <2>4. Tops(acked)' /\ AllTops'
      BY <1>1, <2>2, <2>3 DEF AllTops, Tops
    <2>5. NoFault' => /\ Aside' = NoFiles /\ ~Committed(disk')
                      /\ disk'.mode = "file" /\ EnvelopeBacked'
      BY <1>1, <2>2, <2>3 DEF Committed, EnvelopeBacked, Backed
    <2>6. ProtectKept'
      BY <1>1, <1>4, <2>1, <2>3, <2>4, <2>5 DEF ProtectKept, ProtectFiles, Backed, Committed
    <2> QED BY <1>4, <2>6, GoesOn
  <1>5. CASE job.cmd = "unprotect"
    <2>1. UnprotectKept
      BY <1>5 DEF Safe
    <2>2. UnprotectKept'
      BY <1>1, <1>5, <2>1 DEF UnprotectKept, FilesBacked, EnvelopeBacked, Backed
    <2> QED BY <1>5, <2>2, GoesOn
  <1>6. CASE job.cmd = "recover"
    <2>1. RecoverKept /\ InCookies /\ disk.mode = "file"
      BY <1>6 DEF Safe, RecoverKept
    <2>2. FilesBacked' /\ EnvelopeBacked' /\ InCookies'
      BY <1>1, <2>1 DEF RecoverKept, FilesBacked, EnvelopeBacked, Backed, InCookies
    <2>3. MarkerKept'
      BY <1>1, <1>6, <2>1, <2>2 DEF RecoverKept, MarkerKept, HeldSteps
    <2> QED BY <1>6, <2>1, <2>2, <2>3, GoesOn DEF RecoverKept, Anchored
  <1>7. CASE job.cmd = "resolve_file"
    <2>1. ResolveFileKept
      BY <1>7 DEF Safe
    <2>2. ResolveFileKept'
      BY <1>1, <1>7, <2>1 DEF ResolveFileKept, EnvelopeBacked, Backed, InCookies
    <2> QED BY <1>7, <2>2, GoesOn
  <1>8. CASE job.cmd = "tidy"
    <2>1. TidyKept
      BY <1>8 DEF Safe
    <2>2. /\ FilesBacked' /\ InCookies'
          /\ disk'.marker.op # "protect" /\ disk'.enc = NoEnc
      BY <1>1, <2>1 DEF TidyKept, FilesBacked, Backed, InCookies, Readable
    <2>3. CASE pc' = "idle"
      BY <2>2, <2>3, LetsGo DEF Anchored, EnvelopeBacked, MarkerKept, Readable
    <2>4. CASE pc' # "idle"
      BY <1>8, <2>2, <2>4, GoesOn DEF TidyKept
    <2> QED BY <2>3, <2>4
  <1> QED BY <1>2, <1>4, <1>5, <1>6, <1>7, <1>8

(* The steps of save_profile and save_tokens_to_cache. *)
LEMMA SaveProfileKept ==
    ASSUME TypeInv, FreshInv, Safe, OneKindOfFailure, SaveProfile
    PROVE  Safe'
  <1>0. pending' = pending /\ spent' = spent /\ TypeInv'
    BY HolderSpendsNothing, NextTyped DEF Continue, Next
  <1>1. ASSUME NEW v, Shelved(v) PROVE Shelved(v)'
    BY <1>1, ShelvedStays DEF Next, Continue
  <1>2. pc # "idle" /\ job.cmd \in {"save", "login"}
    BY DEF SaveProfile, SaveRead, SaveCookies, SaveMeta, SaveRoot, SaveUnlink, Saved, Step,
           Safe, Idle, ProtectKept, UnprotectKept, RecoverKept, ResolveProtectedKept,
           ResolveFileKept, TidyKept, DeleteSteps, Deleting, WriteSteps, RollbackSteps, TypeInv,
           TypeOK, Jobs
  <1>3. SaveKept /\ job.sec.c = spent.login
    BY <1>2 DEF Safe, FreshInv
  <1> USE <1>0, <1>3, Numbers
          DEF Disks, Step, Goto, Move, SaveKept, WriteSteps, WrittenSteps, KeyedSteps, Anchored,
              InCookies, InEnvelope, Readable, FilesBacked, EnvelopeBacked, Backed, MarkerKept,
              HeldSteps, FreshInv
  <1>4. CASE SaveRead
    <2>1. disk' = disk \/ (~Readable(disk) /\ disk' = [DropEnc EXCEPT !.marker = NoMarker])
      BY <1>4 DEF SaveRead, DeletionIntended
    <2>2. job' = job /\ pc' = "write_mark" /\ pc = "save_read" /\ acked' = acked
      BY <1>4 DEF SaveRead
    <2>3. SaveKept'
      BY <1>1, <2>1, <2>2, StoreMarks DEF DropEnc, NoEnc
    <2> QED BY <1>0, <1>2, <2>2, <2>3, GoesOn
  <1>5. CASE SaveCookies
    <2>1. /\ pc = "save_cookies" /\ pc' = "save_meta" /\ job' = job /\ acked' = acked
          /\ disk'.enc = disk.enc /\ disk'.key = disk.key /\ disk'.marker = disk.marker
          /\ disk'.quar = disk.quar /\ disk'.mode = disk.mode
          /\ disk'.plain["cookies"].c = job.sec.c
          /\ \A f \in Files : f # "cookies" => disk'.plain[f] = disk.plain[f]
      BY <1>5 DEF SaveCookies, Put, Files
    <2>2. FilesBacked' /\ EnvelopeBacked'
      BY <1>1, <2>1 DEF NoFault
    <2>3. MarkerKept'
      BY <1>1, <2>1 DEF Holds, EncSecret
    <2>4. SaveKept'
      BY <2>1, <2>2, <2>3
    <2> QED BY <1>0, <1>2, <2>1, <2>4, GoesOn
  <1>6. CASE SaveMeta
    <2>1. /\ pc = "save_meta" /\ job' = job /\ acked' = acked
          /\ pc' \in (IF disk.mode = "protected" THEN {"save_unlink"} ELSE {"save_root", "saved"})
          /\ disk'.enc = disk.enc /\ disk'.key = disk.key /\ disk'.marker = disk.marker
          /\ disk'.quar = disk.quar /\ disk'.mode = disk.mode /\ disk'.plain = disk.plain
      BY <1>6 DEF SaveMeta
    <2>2. FilesBacked' /\ EnvelopeBacked'
      BY <1>1, <2>1 DEF NoFault
    <2>3. MarkerKept'
      BY <1>1, <2>1 DEF Holds, EncSecret
    <2>4. SaveKept'
      BY <2>1, <2>2, <2>3
    <2> QED BY <1>0, <1>2, <2>1, <2>4, GoesOn
  <1>7. CASE SaveRoot
    <2>1. /\ pc = "save_root" /\ pc' = "saved" /\ job' = job /\ acked' = acked
          /\ disk'.enc = disk.enc /\ disk'.key = disk.key /\ disk'.marker = disk.marker
          /\ disk'.quar = disk.quar /\ disk'.mode = disk.mode
          /\ \A f \in Files : disk'.plain[f] = IF f = "root" THEN job.sec ELSE disk.plain[f]
      BY <1>7 DEF SaveRoot, Put, Files
    <2>2. FilesBacked' /\ EnvelopeBacked'
      BY <1>1, <2>1 DEF NoFault
    <2>3. MarkerKept'
      BY <1>1, <2>1 DEF Holds, EncSecret
    <2>4. SaveKept'
      BY <2>1, <2>2, <2>3
    <2> QED BY <1>0, <1>2, <2>1, <2>4, GoesOn
  <1>8. CASE SaveUnlink
    <2>1. /\ pc = "save_unlink" /\ pc' = "saved" /\ job' = job /\ acked' = acked
          /\ disk'.enc = disk.enc /\ disk'.key = disk.key /\ disk'.marker = disk.marker
          /\ disk'.quar = disk.quar /\ disk'.mode = disk.mode
          /\ disk'.plain["cookies"] = None /\ None.c = 0
          /\ \A f \in Files : disk'.plain[f] \in {None, disk.plain[f]}
      BY <1>8 DEF SaveUnlink, Remove, Files, Then, None
    <2>2. FilesBacked' /\ EnvelopeBacked'
      BY <1>1, <2>1 DEF NoFault
    <2>3. MarkerKept'
      BY <1>1, <2>1 DEF Holds, EncSecret
    <2>4. SaveKept'
      BY <2>1, <2>2, <2>3
    <2> QED BY <1>0, <1>2, <2>1, <2>4, GoesOn
  <1>9. CASE Saved
    <2>1. /\ Anchored' /\ FilesBacked' /\ EnvelopeBacked' /\ MarkerKept'
          /\ pc' = "idle" /\ job' = NoJob
      BY <1>1, <1>9 DEF Saved
    <2> QED BY <1>0, <1>2, <2>1, LetsGo
  <1> QED BY <1>4, <1>5, <1>6, <1>7, <1>8, <1>9 DEF SaveProfile

(* The steps of migrate_profile_to_file. *)
LEMMA UnprotectStepsKept ==
    ASSUME TypeInv, FreshInv, Safe, OneKindOfFailure, MigrateToFile
    PROVE  Safe'
  <1>0. pending' = pending /\ spent' = spent /\ TypeInv'
    BY HolderSpendsNothing, NextTyped DEF Continue, Next
  <1>1. ASSUME NEW v, Shelved(v) PROVE Shelved(v)'
    BY <1>1, ShelvedStays DEF Next, Continue
  <1>2. pc # "idle" /\ job.cmd = "unprotect"
    BY DEF MigrateToFile, UnprotectMark, UnprotectCookies, UnprotectMeta, UnprotectMode,
           UnprotectCommit, UnprotectEnc, UnprotectRoot, Step,
           Safe, Idle, ProtectKept, SaveKept, RecoverKept, ResolveProtectedKept,
           ResolveFileKept, TidyKept, DeleteSteps, Deleting, WriteSteps, WrittenSteps,
           RollbackSteps, TypeInv, TypeOK, Jobs
  <1>3. UnprotectKept
    BY <1>2 DEF Safe
  <1>4. job' = job /\ acked' = acked /\ pc' # "idle"
    BY DEF MigrateToFile, UnprotectMark, UnprotectCookies, UnprotectMeta, UnprotectMode,
           UnprotectCommit, UnprotectEnc, UnprotectRoot, Step, Goto, Move, Then
  <1> USE <1>0, <1>3, <1>4, Numbers
          DEF Disks, Step, Goto, Move, UnprotectKept, DeleteSteps, Deleting, Readable,
              FilesBacked, EnvelopeBacked, Backed
  <1>5. \A phase : Marked("unprotect", phase).op = "unprotect"
    BY DEF Marked
  <1>6. CASE UnprotectMark
    <2>1. UnprotectKept'
      BY <1>1, <1>5, <1>6 DEF UnprotectMark, SetMark
    <2> QED BY <1>2, <2>1, GoesOn
  <1>7. CASE UnprotectCookies
    <2>1. UnprotectKept'
      BY <1>1, <1>7 DEF UnprotectCookies, Put, Files
    <2> QED BY <1>2, <2>1, GoesOn
  <1>8. CASE UnprotectMeta \/ UnprotectMode \/ UnprotectCommit
    <2>1. /\ disk'.enc = disk.enc /\ disk'.key = disk.key /\ disk'.plain = disk.plain
          /\ disk'.marker.op # "protect"
          /\ pc \in {"unprotect_meta", "unprotect_mode", "unprotect_commit"}
          /\ pc = "unprotect_meta" => disk'.mode = disk.mode /\ pc' = "unprotect_mode"
          /\ pc = "unprotect_mode" => disk'.mode = "file" /\ pc' = "unprotect_commit"
          /\ pc = "unprotect_commit" => disk'.mode = disk.mode /\ pc' = "delete_mark"
      <3>1. CASE UnprotectMeta
        BY <3>1 DEF UnprotectMeta
      <3>2. CASE UnprotectMode
        BY <3>2 DEF UnprotectMode, SetMode
      <3>3. CASE UnprotectCommit
        BY <1>5, <3>3 DEF UnprotectCommit, SetMark
      <3> QED BY <1>8, <3>1, <3>2, <3>3
    <2>2. \A f \in Files : Backed(disk.plain[f].c)
      BY <2>1
    <2>3. \A f \in Files : Backed(disk.plain[f].c)'
      BY <1>1, <2>1, <2>2
    <2>4. FilesBacked'
      BY <2>3
    <2>5. EnvelopeBacked'
      BY <1>1, <2>1 DEF NoFault
    <2>6. UnprotectKept'
      BY <1>1, <2>1, <2>3, <2>4, <2>5
    <2> QED BY <1>2, <2>6, GoesOn
  <1>9. CASE UnprotectEnc
    <2>1. UnprotectKept'
      BY <1>1, <1>9 DEF UnprotectEnc, DropEnc, Then
    <2> QED BY <1>2, <2>1, GoesOn
  <1>10. CASE UnprotectRoot
    <2>1. /\ disk'.enc = disk.enc /\ disk'.key = disk.key /\ disk'.marker = disk.marker
          /\ disk'.mode = disk.mode /\ pc = "unprotect_root" /\ pc' = "clear"
          /\ \A f \in Files : disk'.plain[f] = IF f = "root" THEN job.sec ELSE disk.plain[f]
      BY <1>10 DEF UnprotectRoot, Put, Files
    <2>2. \A f \in Files : Backed(disk.plain[f].c)'
      BY <1>1, <2>1, Numbers
    <2>3. FilesBacked'
      BY <2>2
    <2>4. EnvelopeBacked'
      BY <2>1 DEF NoFault
    <2>5. UnprotectKept'
      BY <1>1, <2>1, <2>3, <2>4 DEF NoFault
    <2> QED BY <1>2, <2>5, GoesOn
  <1> QED BY <1>6, <1>7, <1>8, <1>9, <1>10 DEF MigrateToFile

(* The steps of reconcile_pending_operations that are its own. *)
LEMMA ReconcileKept ==
    ASSUME TypeInv, FreshInv, Safe, OneKindOfFailure, Reconcile
    PROVE  Safe'
  <1>0. pending' = pending /\ spent' = spent /\ TypeInv'
    BY HolderSpendsNothing, NextTyped DEF Continue, Next
  <1>1. ASSUME NEW v, Shelved(v) PROVE Shelved(v)'
    BY <1>1, ShelvedStays DEF Next, Continue
  <1>2. pc # "idle" /\ job.cmd = "recover"
    BY DEF Reconcile, FinishMode, FinishMeta, FinishCookies, FinishRoot, AdoptMode, AdoptEnc,
           RevertMode, Step, Safe, Idle, ProtectKept, SaveKept, UnprotectKept,
           ResolveProtectedKept, ResolveFileKept, TidyKept, DeleteSteps, Deleting, WriteSteps,
           WrittenSteps, RollbackSteps, TypeInv, TypeOK, Jobs
  <1>3. RecoverKept
    BY <1>2 DEF Safe
  <1>4. job' = job /\ acked' = acked /\ pc' # "idle"
    BY DEF Reconcile, FinishMode, FinishMeta, FinishCookies, FinishRoot, AdoptMode, AdoptEnc,
           RevertMode, Step, Goto, Move, Then
  <1> SUFFICES RecoverKept'
    BY <1>0, <1>2, <1>4, GoesOn
  <1> USE <1>0, <1>1, <1>3, <1>4, Numbers
          DEF Disks, Step, Goto, Move, RecoverKept, Anchored, InCookies, InEnvelope,
              FilesBacked, EnvelopeBacked, Backed, MarkerKept, DeleteSteps, Deleting, HeldSteps,
              Committed, Holds, Readable, EncSecret, NoFault
  <1>5. CASE FinishMode
    <2>1. /\ pc = "finish_mode" /\ pc' = "finish_meta" /\ disk'.mode = "protected"
          /\ disk'.plain = disk.plain /\ disk'.enc = disk.enc /\ disk'.key = disk.key
          /\ disk'.marker = disk.marker /\ disk'.quar = disk.quar
      BY <1>5 DEF FinishMode, SetMode
    <2>2. MarkerKept'
      BY <2>1
    <2>3. FilesBacked' /\ EnvelopeBacked' /\ Anchored'
      BY <2>1
    <2> QED BY <2>1, <2>2, <2>3
  <1>6. CASE FinishMeta
    <2>1. /\ pc = "finish_meta" /\ pc' = "finish_cookies" /\ disk'.mode = disk.mode
          /\ disk'.plain = disk.plain /\ disk'.enc = disk.enc /\ disk'.key = disk.key
          /\ disk'.marker = disk.marker /\ disk'.quar = disk.quar
      BY <1>6 DEF FinishMeta, Then
    <2>2. MarkerKept'
      BY <2>1
    <2>3. FilesBacked' /\ EnvelopeBacked' /\ Anchored'
      BY <2>1
    <2> QED BY <2>1, <2>2, <2>3
  <1>7. CASE FinishCookies
    <2>1. /\ pc = "finish_cookies" /\ pc' \in {"finish_root", "clear"} /\ disk'.mode = disk.mode
          /\ \A f \in Files : f # "cookies" => disk'.plain[f] = disk.plain[f]
          /\ \/ disk'.plain["cookies"] = disk.plain["cookies"]
             \/ disk'.plain["cookies"] = None /\ disk.plain["cookies"].c = job.sec.c
          /\ disk'.enc = disk.enc /\ disk'.key = disk.key
          /\ disk'.marker = disk.marker /\ disk'.quar = disk.quar
      <3> DEFINE S == {f \in {"cookies"} : Migrated(f)}
      <3>1. disk' = Remove(S) /\ pc = "finish_cookies" /\ pc' \in {"finish_root", "clear"}
        BY <1>7 DEF FinishCookies, Then
      <3>2. S = {} \/ (S = {"cookies"} /\ disk.plain["cookies"].c = job.sec.c)
        BY DEF Migrated
      <3> HIDE DEF S
      <3> QED BY <3>1, <3>2 DEF Remove, Files
    <2>2. None.c = 0
      BY DEF None
    <2>3. disk.mode = "protected" /\ Readable(disk) /\ disk.enc.c = job.sec.c
      BY <2>1
    <2>4. MarkerKept'
      BY <2>1
    <2>5. FilesBacked'
      BY <2>1, <2>2, <2>3
    <2>6. Anchored' /\ EnvelopeBacked'
      BY <2>1, <2>2, <2>3
    <2> QED BY <2>1, <2>3, <2>4, <2>5, <2>6
  <1>8. CASE FinishRoot
    <2>1. /\ pc = "finish_root" /\ pc' = "clear" /\ disk'.mode = disk.mode
          /\ \A f \in Files : disk'.plain[f] \in {disk.plain[f], None}
          /\ disk'.plain["cookies"] = disk.plain["cookies"]
          /\ disk'.enc = disk.enc /\ disk'.key = disk.key
          /\ disk'.marker = disk.marker /\ disk'.quar = disk.quar
      BY <1>8 DEF FinishRoot, Remove, Files, Then
    <2>2. None.c = 0
      BY DEF None
    <2>3. disk.mode = "protected"
      BY <2>1
    <2>4. MarkerKept'
      BY <2>1
    <2>5. FilesBacked'
      BY <2>1, <2>2, <2>3
    <2>6. Anchored' /\ EnvelopeBacked'
      BY <2>1, <2>3
    <2> QED BY <2>1, <2>3, <2>4, <2>5, <2>6
  <1>9. CASE AdoptMode
    <2>1. /\ pc = "adopt_mode" /\ pc' = "adopt_enc" /\ disk'.mode = "file"
          /\ disk'.plain = disk.plain /\ disk'.enc = disk.enc /\ disk'.key = disk.key
          /\ disk'.marker = disk.marker /\ disk'.quar = disk.quar
      BY <1>9 DEF AdoptMode, SetMode
    <2>2. disk.enc.c <= disk.plain["cookies"].c /\ InCookies
      BY <2>1
    <2>3. FilesBacked' /\ EnvelopeBacked' /\ InCookies'
      BY <2>1, <2>2
    <2>4. MarkerKept'
      BY <2>1
    <2> QED BY <2>1, <2>3, <2>4
  <1>10. CASE AdoptEnc
    <2>1. /\ pc = "adopt_enc" /\ pc' = "delete_mark" /\ disk'.mode = disk.mode
          /\ disk'.plain = disk.plain /\ disk'.enc = NoEnc
          /\ disk'.marker = disk.marker /\ disk'.quar = disk.quar
      BY <1>10 DEF AdoptEnc, DropEnc, Then
    <2>2. disk.mode = "file" /\ InCookies
      BY <2>1
    <2>3. FilesBacked' /\ EnvelopeBacked' /\ InCookies'
      BY <2>1, <2>2
    <2>4. MarkerKept'
      BY <2>1
    <2> QED BY <2>1, <2>2, <2>3, <2>4
  <1>11. CASE RevertMode
    <2>1. /\ pc = "revert_mode" /\ pc' = "clear" /\ disk'.mode = "protected"
          /\ disk'.plain = disk.plain /\ disk'.enc = disk.enc /\ disk'.key = disk.key
          /\ disk'.marker = disk.marker /\ disk'.quar = disk.quar
      BY <1>11 DEF RevertMode, SetMode
    <2>2. FilesBacked' /\ EnvelopeBacked' /\ Anchored'
      BY <2>1
    <2>3. MarkerKept'
      BY <2>1
    <2> QED BY <2>1, <2>2, <2>3
  <1> QED BY <1>5, <1>6, <1>7, <1>8, <1>9, <1>10, <1>11 DEF Reconcile

(* The steps that reconcile_pending_operations and migrate_profile_to_file *)
(* share with the migration to protected mode and its rollback.            *)
LEMMA SharedKept ==
    ASSUME TypeInv, FreshInv, Safe, OneKindOfFailure, MigrateToProtected, job.cmd # "protect"
    PROVE  Safe'
  <1>0. pending' = pending /\ spent' = spent /\ TypeInv' /\ JobKnown(pc, job)
    BY HolderSpendsNothing, NextTyped DEF Continue, Next, TypeInv
  <1>1. ASSUME NEW v, Shelved(v) PROVE Shelved(v)'
    BY <1>1, ShelvedStays DEF Next, Continue
  <1>2. DiscardAside \/ Clear \/ DropCreatedEnc \/ Restore
    BY <1>0 DEF MigrateToProtected, ProtectMark, ProtectVerify, ProtectMove, ProtectRecheck,
                ProtectRestore, ProtectCommit, ProtectMeta, ProtectMode, ProtectCleanup, Step,
                JobKnown, ProtectSteps
  <1>3. pc # "idle" /\ pc # "protect_discard" /\ job.cmd \in {"unprotect", "recover"}
    BY <1>0, <1>2
       DEF DiscardAside, Clear, DropCreatedEnc, Restore, Step, Safe, Idle, SaveKept, JobKnown,
           ResolveProtectedKept, ResolveFileKept, TidyKept, DeleteSteps, Deleting, WriteSteps,
           WrittenSteps, ProtectSteps, TypeInv, TypeOK, Jobs
  <1> USE <1>0, <1>1, Numbers
          DEF Disks, Step, Goto, Move, RecoverKept, UnprotectKept, Anchored, InCookies, InEnvelope,
              FilesBacked, EnvelopeBacked, Backed, MarkerKept, DeleteSteps, Deleting, HeldSteps,
              Committed, Holds, Readable, EncSecret, NoFault
  <1>4. CASE Clear
    <2>1. /\ pc = "clear" /\ pc' = "idle" /\ job' = NoJob /\ acked' = acked
          /\ disk'.plain = disk.plain /\ disk'.enc = disk.enc /\ disk'.key = disk.key
          /\ disk'.quar = disk.quar /\ disk'.mode = disk.mode /\ disk'.marker.op = "none"
      BY <1>4, StoreMarks DEF Clear, SetMark
    <2>2. Anchored /\ FilesBacked /\ EnvelopeBacked
      <3>1. CASE job.cmd = "recover"
        BY <2>1, <3>1 DEF Safe
      <3>2. CASE job.cmd = "unprotect"
        BY <2>1, <3>2 DEF Safe
      <3> QED BY <1>3, <3>1, <3>2
    <2>3. FilesBacked' /\ EnvelopeBacked'
      BY <2>1, <2>2
    <2>4. Anchored' /\ MarkerKept'
      BY <2>1, <2>2
    <2> QED BY <1>3, <2>1, <2>3, <2>4, LetsGo
  <1>5. CASE ~Clear
    <2>1. job.cmd = "recover" /\ RecoverKept
      BY <1>2, <1>3, <1>5 DEF Safe, DiscardAside, DropCreatedEnc, Restore
    <2>2. CASE Restore
      <3>1. /\ disk.marker.op = "protect" /\ disk.marker.phase = "preparing"
            /\ job.id = disk.marker.id /\ Aside = NoFiles
        BY <2>1, <2>2 DEF Restore, Aside
      <3>2. CanGoBack = {}
        BY <3>1 DEF CanGoBack, Present, NoFiles
      <3>3. pc = "restore" /\ pc' = "discard" /\ disk' = disk /\ job' = job /\ acked' = acked
        BY <2>2, <3>2 DEF Restore
      <3>4. RecoverKept'
        BY <2>1, <3>1, <3>3
      <3> QED BY <1>3, <2>1, <3>3, <3>4, GoesOn
    <2>3. CASE DiscardAside /\ Present(Aside) = {}
      <3>1. pc \in {"discard", "finish_discard"} /\ disk' = disk /\ acked' = acked
            /\ pc' = (IF pc = "discard" THEN "drop_enc" ELSE "finish_mode") /\ job' = job
        BY <1>3, <2>1, <2>3 DEF DiscardAside, Then
      <3>2. RecoverKept'
        BY <2>1, <3>1
      <3> QED BY <1>3, <2>1, <3>1, <3>2, GoesOn
    <2>4. CASE DiscardAside /\ Present(Aside) # {}
      <3>1. PICK f \in Present(Aside) : Goto(pc, [disk EXCEPT !.quar[job.id][f] = None])
        BY <2>4 DEF DiscardAside
      <3>2. f \in Files /\ Aside # NoFiles /\ job.id \in Ids
        BY <1>3, <2>4, <3>1 DEF Present, NoFiles, DiscardAside, JobKnown, AsideSteps
      <3>3. pc = "finish_discard" /\ pc' = pc /\ job' = job /\ acked' = acked
            /\ disk' = [disk EXCEPT !.quar[job.id][f] = None]
        BY <1>3, <2>1, <2>4, <3>1, <3>2 DEF DiscardAside, Aside
      <3>4. OnlyFile(f, disk, disk') /\ disk'.plain = disk.plain /\ disk'.quar[job.id][f] = None
        BY <3>2, <3>3, MoveEffects
      <3>5. None.c = 0
        BY DEF None
      <3>6. FilesBacked' /\ EnvelopeBacked' /\ Anchored'
        BY <2>1, <3>3, <3>4 DEF OnlyFile
      <3>7. MarkerKept'
        <4>1. Committed(disk) /\ job.id = disk.marker.id /\ MarkerKept
          BY <2>1, <3>3
        <4>2. disk'.marker = disk.marker /\ disk'.enc = disk.enc /\ disk'.key = disk.key
          BY <3>3
        <4>3. ASSUME NEW g \in Files
              PROVE  LET c == disk.quar[disk.marker.id][g].c
                     IN  (c <= disk.marker.sec.c \/ Shelved(c))'
          <5>1. CASE g = f
            BY <3>2, <3>3, <3>4, <3>5, <4>1, <4>2, <5>1, Numbers DEF Disks, Markers, Secret
          <5>2. CASE g # f
            <6>1. disk'.quar[disk.marker.id][g] = disk.quar[disk.marker.id][g]
              BY <3>4, <4>1, <5>2 DEF OnlyFile
            <6>2. \/ disk.quar[disk.marker.id][g].c <= disk.marker.sec.c
                  \/ Shelved(disk.quar[disk.marker.id][g].c)
              BY <4>1, <3>3 DEF MarkerKept, Committed
            <6> QED BY <1>1, <4>2, <6>1, <6>2
          <5> QED BY <5>1, <5>2
        <4>4. Holds(disk', disk'.marker.sec) /\ pc' \in HeldSteps
          BY <3>3, <4>1, <4>2 DEF MarkerKept, Committed, Holds, Readable, EncSecret, HeldSteps
        <4> QED BY <3>3, <4>1, <4>2, <4>3, <4>4 DEF MarkerKept, Committed
      <3>8. RecoverKept'
        BY <2>1, <3>3, <3>4, <3>6, <3>7 DEF OnlyFile
      <3> QED BY <1>3, <2>1, <3>3, <3>8, GoesOn
    <2>5. CASE DropCreatedEnc
      <3>1. /\ pc = "drop_enc" /\ pc' \in {"clear", "delete_mark"} /\ job' = job /\ acked' = acked
            /\ disk'.plain = disk.plain /\ disk'.quar = disk.quar /\ disk'.key = disk.key
            /\ disk'.mode = disk.mode /\ disk'.marker = disk.marker
            /\ disk'.enc = disk.enc \/ disk'.enc = NoEnc
        BY <2>1, <2>5 DEF DropCreatedEnc, DropEnc, Then, AfterDelete
      <3>2. InCookies /\ disk.mode = "file"
        BY <2>1, <3>1
      <3>3. FilesBacked' /\ EnvelopeBacked' /\ InCookies'
        BY <2>1, <3>1, <3>2
      <3>4. MarkerKept'
        BY <2>1, <3>1, <3>3
      <3>5. RecoverKept'
        BY <2>1, <3>1, <3>2, <3>3, <3>4
      <3> QED BY <1>3, <2>1, <3>1, <3>5, GoesOn
    <2> QED BY <1>2, <1>5, <2>2, <2>3, <2>4, <2>5
  <1> QED BY <1>4, <1>5

(* The steps of resolve_storage_conflict that are its own. *)
LEMMA ResolveKept ==
    ASSUME TypeInv, FreshInv, Safe, OneKindOfFailure, ResolveConflict
    PROVE  Safe'
  <1>0. pending' = pending /\ spent' = spent /\ TypeInv'
    BY HolderSpendsNothing, NextTyped DEF Continue, Next
  <1>1. ASSUME NEW v, Shelved(v) PROVE Shelved(v)'
    BY <1>1, ShelvedStays DEF Next, Continue
  <1>2. pc # "idle" /\ job.cmd \in {"resolve_protected", "resolve_file"}
    BY DEF ResolveConflict, ResolveUnlink, ResolveEnc, ResolveMode, Step,
           Safe, Idle, ProtectKept, SaveKept, UnprotectKept, RecoverKept, TidyKept,
           DeleteSteps, Deleting, WriteSteps, WrittenSteps, RollbackSteps, TypeInv, TypeOK, Jobs
  <1>3. job.cmd = "resolve_protected" => ResolveProtectedKept
    BY DEF Safe
  <1>4. job.cmd = "resolve_file" => ResolveFileKept
    BY DEF Safe
  <1> USE <1>0, <1>1, <1>2, <1>3, <1>4, Numbers
          DEF Disks, Step, Goto, Move, ResolveProtectedKept, ResolveFileKept, Anchored, InCookies,
              InEnvelope, FilesBacked, EnvelopeBacked, Backed, MarkerKept, DeleteSteps, Deleting,
              Readable, NoFault
  <1>5. CASE ResolveUnlink
    <2>1. /\ pc = "resolve_unlink" /\ pc' = "resolve_mode" /\ job' = job /\ acked' = acked
          /\ disk'.plain = NoFiles /\ disk'.enc = disk.enc /\ disk'.key = disk.key
          /\ disk'.quar = disk.quar /\ disk'.mode = disk.mode /\ disk'.marker = disk.marker
      BY <1>5 DEF ResolveUnlink, Remove, NoFiles, Then
    <2>2. job.cmd = "resolve_protected"
      BY <2>1
    <2>3. \A f \in Files : NoFiles[f].c = 0
      BY DEF NoFiles, None
    <2>4. FilesBacked' /\ EnvelopeBacked'
      BY <2>1, <2>3
    <2>5. ResolveProtectedKept'
      BY <2>1, <2>2, <2>4
    <2> QED BY <2>1, <2>2, <2>5, GoesOn
  <1>6. CASE ResolveEnc
    <2>1. /\ pc = "resolve_enc" /\ pc' = "delete_mark" /\ job' = job /\ acked' = acked
          /\ disk'.plain = disk.plain /\ disk'.enc = NoEnc
          /\ disk'.quar = disk.quar /\ disk'.mode = disk.mode /\ disk'.marker = disk.marker
      BY <1>6 DEF ResolveEnc, DropEnc, Then
    <2>2. job.cmd = "resolve_file"
      BY <2>1
    <2>3. ResolveFileKept'
      BY <2>1, <2>2
    <2> QED BY <2>1, <2>2, <2>3, GoesOn
  <1>7. CASE ResolveMode
    <2>1. /\ pc = "resolve_mode" /\ pc' = "idle" /\ job' = NoJob /\ acked' = acked
          /\ disk'.mode = (IF job.cmd = "resolve_protected" THEN "protected" ELSE "file")
          /\ disk'.plain = disk.plain /\ disk'.enc = disk.enc /\ disk'.key = disk.key
          /\ disk'.quar = disk.quar /\ disk'.marker = disk.marker
      BY <1>7 DEF ResolveMode, SetMode
    <2>2. FilesBacked' /\ EnvelopeBacked'
      BY <2>1
    <2>3. Anchored' /\ MarkerKept'
      BY <2>1
    <2> QED BY <2>1, <2>2, <2>3, LetsGo
  <1> QED BY <1>5, <1>6, <1>7 DEF ResolveConflict

(* Moving one file from its place to the quarantine of the migration or    *)
(* back: what was on top of both places is on top of them still.           *)
LEMMA MovedKept ==
    ASSUME TypeInv, TypeInv', FreshInv, [Next]_vars, ProtectFiles, AllTops,
           NEW g \in Files, OnlyFile(g, disk, disk'), job' = job, acked' = acked,
           \/ /\ disk'.plain[g] = None /\ disk'.quar[job.id][g] = disk.plain[g]
              /\ Aside[g] = None
           \/ /\ disk'.plain[g] = Aside[g] /\ disk'.quar[job.id][g] = None
              /\ disk.plain[g] = None
    PROVE  /\ \A v \in Nat : Tops(v) => Tops(v)'
           /\ AllTops' /\ ProtectFiles'
  <1>1. ASSUME NEW v, Shelved(v) PROVE Shelved(v)'
    BY <1>1, ShelvedStays
  <1>2. job.id \in Ids /\ Aside' = disk'.quar[job.id] /\ Aside = disk.quar[job.id] /\ None.c = 0
    BY DEF ProtectFiles, Aside, None
  <1>3. \A f \in Files : disk'.plain[f] \in {disk.plain[f], None, Aside[f]}
                      /\ Aside'[f] \in {disk.plain[f], None, Aside[f]}
    BY <1>2 DEF OnlyFile
  <1>4. /\ \A f \in Files : disk.plain[f].c \in Nat /\ Aside[f].c \in Nat
        /\ "cookies" \in Files
    BY <1>2, Numbers
  <1>5. /\ \/ disk'.plain["cookies"] = disk.plain["cookies"] /\ Aside'["cookies"] = Aside["cookies"]
           \/ disk'.plain["cookies"].c = 0 /\ Aside'["cookies"] = disk.plain["cookies"]
              /\ Aside["cookies"].c = 0
           \/ disk'.plain["cookies"] = Aside["cookies"] /\ Aside'["cookies"].c = 0
              /\ disk.plain["cookies"].c = 0
    BY <1>2, <1>4 DEF OnlyFile
  <1>6. ASSUME NEW v \in Nat, Tops(v) PROVE Tops(v)'
    BY <1>1, <1>4, <1>5, <1>6 DEF Tops
  <1>7. Tops(0)'
    BY <1>4, <1>5 DEF Tops
  <1>8. \A f \in Files : Tops(disk.plain[f].c) /\ Tops(Aside[f].c)
    BY DEF AllTops
  <1>9. ASSUME NEW f \in Files PROVE Tops(disk.plain[f].c)' /\ Tops(Aside[f].c)'
    <2>1. Tops(disk.plain[f].c)' = Tops(disk.plain[f].c)'
      OBVIOUS
    <2> QED BY <1>2, <1>3, <1>4, <1>6, <1>7, <1>8
  <1>10. AllTops'
    BY <1>9 DEF AllTops
  <1>11. ProtectFiles'
    <2>1. \A f \in Files : disk'.plain[f] = None \/ Aside'[f] = None
      BY <1>2 DEF OnlyFile, ProtectFiles
    <2>2. disk'.plain["cookies"].c <= job.sec.c /\ Aside'["cookies"].c <= job.sec.c
      BY <1>2, <1>4, <1>5, Numbers DEF ProtectFiles
    <2>3. ASSUME NEW v \in Nat, v <= job.sec.c \/ Tops(v) PROVE v <= job.sec.c \/ Shelved(v)'
      BY <1>1, <1>4, <2>3, Numbers DEF ProtectFiles, Tops
    <2>4. ASSUME NEW f \in Files PROVE Aside'[f].c <= job.sec.c \/ Shelved(Aside[f].c)'
      <3>1. 0 <= job.sec.c
        BY Numbers
      <3>2. Aside'[f].c \in Nat /\ (Aside'[f].c <= job.sec.c \/ Tops(Aside'[f].c))
        BY <1>2, <1>3, <1>4, <1>8, <3>1
      <3> QED BY <2>3, <3>2
    <2> QED BY <2>1, <2>2, <2>4 DEF ProtectFiles, OnlyFile
  <1> QED BY <1>6, <1>10, <1>11

(* The steps of migrate_profile_to_protected and of its rollback. *)
LEMMA ProtectStepsKept ==
    ASSUME TypeInv, FreshInv, Safe, OneKindOfFailure, MigrateToProtected, job.cmd = "protect"
    PROVE  Safe'
  <1>0. pending' = pending /\ spent' = spent /\ TypeInv' /\ JobKnown(pc, job)
    BY HolderSpendsNothing, NextTyped DEF Continue, Next, TypeInv
  <1>1. ASSUME NEW v, Shelved(v) PROVE Shelved(v)'
    BY <1>1, ShelvedStays DEF Next, Continue
  <1>2. pc # "idle" /\ ProtectKept /\ job.id \in Ids
    BY DEF Safe, Idle, ProtectKept, ProtectFiles
  <1>3. /\ Aside \in [Files -> Secret] /\ \A f \in Files : Aside[f].c \in Nat
        /\ \A S \in SUBSET Files : S # {} => First(S) \in S
        /\ None.c = 0 /\ \A f \in Files : NoFiles[f] = None
        /\ Present(disk.plain) = {} => disk.plain = NoFiles
        /\ Present(Aside) = {} => Aside = NoFiles
    <2>1. Aside \in [Files -> Secret] /\ disk.plain \in [Files -> Secret]
      BY <1>2, Numbers
    <2> QED BY <1>2, <2>1, Numbers DEF First, Files, None, NoFiles, Present
  <1> SUFFICES (job' = job /\ pc' # "idle" /\ ProtectKept') \/ Clear
    <2>1. CASE Clear
      <3> USE <1>0, <1>1, <1>2, Numbers
              DEF Anchored, InCookies, InEnvelope, FilesBacked, EnvelopeBacked, Backed, MarkerKept,
                  Readable, NoFault
      <3>1. /\ pc = "clear" /\ pc' = "idle" /\ job' = NoJob /\ acked' = acked
            /\ disk'.plain = disk.plain /\ disk'.enc = disk.enc /\ disk'.key = disk.key
            /\ disk'.quar = disk.quar /\ disk'.mode = disk.mode /\ disk'.marker.op = "none"
        BY <2>1, StoreMarks DEF Clear, Step, Goto, Move, SetMark, Disks
      <3>2. Anchored /\ FilesBacked /\ EnvelopeBacked
        BY <3>1 DEF ProtectKept, WriteSteps, RollbackSteps, DeleteSteps, Deleting
      <3>3. FilesBacked' /\ EnvelopeBacked'
        BY <3>1, <3>2
      <3>4. Anchored' /\ MarkerKept'
        BY <3>1, <3>2
      <3> QED BY <1>2, <3>1, <3>3, <3>4, LetsGo
    <2> QED BY <1>0, <1>2, <2>1, GoesOn
  <1> USE <1>0, <1>1, <1>2, <1>3, Numbers
          DEF Disks, Step, Goto, Move, DeleteSteps, Deleting, RollbackSteps, WriteSteps, Committed,
              NoFault
  <1>4. \A op, phase : Marked(op, phase).op = op /\ Marked(op, phase).id = job.id
                       /\ Marked(op, phase).sec = job.sec /\ Marked(op, phase).phase = phase
    BY DEF Marked
  <1>5. CASE ProtectMark
    <2>1. /\ pc = "protect_mark" /\ pc' = "write_mark" /\ job' = job /\ acked' = acked
          /\ disk'.plain = disk.plain /\ disk'.enc = disk.enc /\ disk'.key = disk.key
          /\ disk'.quar = disk.quar /\ disk'.mode = disk.mode
          /\ disk'.marker.op = "protect" /\ disk'.marker.phase = "preparing"
          /\ disk'.marker.id = job.id
      BY <1>4, <1>5 DEF ProtectMark, SetMark
    <2>2. InCookies /\ FilesBacked /\ EnvelopeBacked /\ Backed(job.sec.c)
      BY <2>1 DEF ProtectKept
    <2>3. InCookies' /\ FilesBacked' /\ EnvelopeBacked' /\ Backed(job.sec.c)'
      BY <2>1, <2>2 DEF InCookies, FilesBacked, EnvelopeBacked, Backed, Readable
    <2>4. Aside' = Aside
      BY <2>1 DEF Aside
    <2> QED BY <2>1, <2>3, <2>4 DEF ProtectKept, ProtectFiles
  <1>6. CASE ProtectVerify
    <2>1. /\ pc = "protect_verify" /\ pc' = "protect_move" /\ job' = job /\ acked' = acked
          /\ disk' = disk /\ Holds(disk, job.sec)
      BY <1>6 DEF ProtectVerify, Verified, Holds
    <2>2. /\ InCookies /\ FilesBacked /\ Backed(job.sec.c) /\ disk.mode = "file" /\ Aside = NoFiles
      BY <2>1 DEF ProtectKept
    <2>3. Tops(acked)' /\ Tops(job.sec.c)' /\ \A f \in Files : Tops(disk.plain[f].c)'
      BY <2>1, <2>2 DEF InCookies, FilesBacked, Backed, Tops
    <2>4. Aside' = Aside /\ \A f \in Files : Tops(Aside[f].c)'
      BY <2>1, <2>2 DEF Aside, Tops
    <2>5. disk.marker.op # "protect"
      BY <2>1 DEF ProtectKept
    <2> QED BY <2>1, <2>2, <2>3, <2>4, <2>5 DEF ProtectKept, ProtectFiles, AllTops, NoFiles
  <1>7. CASE ProtectMove
    <2> DEFINE g == First(Present(disk.plain))
    <2>1. g \in Files /\ g \in Present(disk.plain)
      <3>1. Present(disk.plain) \in SUBSET Files /\ Present(disk.plain) # {}
        BY <1>7 DEF ProtectMove, Present
      <3> QED BY <3>1
    <2> HIDE DEF g
    <2>2. /\ pc = "protect_move" /\ pc' = "protect_move" /\ job' = job /\ acked' = acked
          /\ disk' = MoveAside(g)
      BY <1>7 DEF ProtectMove, g
    <2>3. /\ OnlyFile(g, disk, disk') /\ disk'.plain[g] = None
          /\ disk'.quar[job.id][g] = disk.plain[g]
      BY <2>1, <2>2, MoveEffects
    <2>4. /\ disk.plain[g] # None /\ Aside[g] = None
          /\ disk.mode = "file" /\ disk.marker.op # "protect"
          /\ Holds(disk, job.sec)
      BY <2>1, <2>2 DEF ProtectKept, ProtectFiles, Present
    <2>5. Tops(acked) /\ Tops(job.sec.c) /\ AllTops /\ ProtectFiles
      BY <2>2 DEF ProtectKept
    <2>6. Tops(acked)' /\ Tops(job.sec.c)' /\ AllTops' /\ ProtectFiles'
      BY <2>1, <2>2, <2>3, <2>4, <2>5, MovedKept DEF Next, Continue
    <2>7. Holds(disk, job.sec)'
      BY <2>2, <2>3, <2>4 DEF Holds, Readable, EncSecret, OnlyFile
    <2> QED BY <2>1, <2>2, <2>3, <2>4, <2>6, <2>7 DEF ProtectKept, OnlyFile
  <1>8. CASE ProtectRecheck
    <2>1. /\ pc = "protect_move" /\ pc' \in {"protect_commit", "protect_restore"} /\ job' = job
          /\ disk' = disk /\ acked' = acked /\ disk.plain = NoFiles
      BY <1>8 DEF ProtectRecheck
    <2>2. Tops(acked) /\ Tops(job.sec.c) /\ AllTops /\ ProtectFiles
      BY <2>1 DEF ProtectKept
    <2>3. Tops(acked)' /\ Tops(job.sec.c)' /\ AllTops' /\ ProtectFiles' /\ Aside' = Aside
      BY <2>1, <2>2 DEF AllTops, Tops, ProtectFiles, Aside
    <2>4. disk.mode = "file" /\ disk.marker.op # "protect" /\ Holds(disk, job.sec)
      BY <2>1 DEF ProtectKept
    <2> QED BY <2>1, <2>3, <2>4 DEF ProtectKept, Holds, Readable, EncSecret
  <1>9. CASE ProtectRestore
    <2>1. /\ pc = "protect_restore" /\ Tops(acked) /\ Tops(job.sec.c) /\ AllTops /\ ProtectFiles
          /\ disk.mode = "file" /\ disk.marker.op # "protect" /\ Holds(disk, job.sec)
      BY <1>9 DEF ProtectRestore, ProtectKept
    <2>2. CASE Present(Aside) = {}
      <3>1. /\ pc' = "drop_enc" /\ job' = job /\ disk' = disk /\ acked' = acked /\ Aside = NoFiles
        BY <1>9, <2>2 DEF ProtectRestore
      <3>2. Tops(acked)' /\ Tops(job.sec.c)' /\ AllTops' /\ ProtectFiles' /\ Aside' = Aside
        BY <2>1, <3>1 DEF AllTops, Tops, ProtectFiles, Aside
      <3>3. EnvelopeBacked'
        BY <2>1, <3>1 DEF EnvelopeBacked, Backed, Tops, Holds, EncSecret
      <3> QED BY <2>1, <3>1, <3>2, <3>3 DEF ProtectKept
    <2>3. CASE Present(Aside) # {}
      <3> DEFINE g == First(Present(Aside))
      <3>1. g \in Files /\ g \in Present(Aside)
        <4>1. Present(Aside) \in SUBSET Files
          BY DEF Present
        <4> QED BY <2>3, <4>1
      <3> HIDE DEF g
      <3>2. /\ pc' = "protect_restore" /\ job' = job /\ acked' = acked /\ disk' = MoveBack(g)
        BY <1>9, <2>3 DEF ProtectRestore, g
      <3>3. /\ OnlyFile(g, disk, disk') /\ disk'.plain[g] = Aside[g]
            /\ disk'.quar[job.id][g] = None
        BY <3>1, <3>2, MoveEffects DEF Aside
      <3>4. Aside[g] # None /\ disk.plain[g] = None
        BY <2>1, <3>1 DEF ProtectFiles, Present
      <3>5. Tops(acked)' /\ Tops(job.sec.c)' /\ AllTops' /\ ProtectFiles'
        BY <2>1, <3>1, <3>2, <3>3, <3>4, MovedKept DEF Next, Continue
      <3>6. Holds(disk, job.sec)'
        BY <2>1, <3>2, <3>3 DEF Holds, Readable, EncSecret, OnlyFile
      <3> QED BY <2>1, <3>2, <3>3, <3>5, <3>6 DEF ProtectKept, OnlyFile
    <2> QED BY <2>2, <2>3
  <1>10. CASE ProtectCommit \/ ProtectMeta \/ ProtectMode \/ ProtectCleanup
    <2>1. /\ pc \in {"protect_commit", "protect_meta", "protect_mode", "protect_cleanup"}
          /\ disk.plain = NoFiles /\ Holds(disk, job.sec) /\ Tops(acked) /\ AllTops /\ ProtectFiles
          /\ pc # "protect_commit" => Committed(disk) /\ disk.marker.sec = job.sec
          /\ pc = "protect_cleanup" => disk.mode = "protected"
      BY <1>10 DEF ProtectCommit, ProtectMeta, ProtectMode, ProtectCleanup, ProtectKept
    <2>2. /\ job' = job /\ acked' = acked /\ disk'.plain = disk.plain /\ disk'.quar = disk.quar
          /\ disk'.enc = disk.enc /\ disk'.key = disk.key
          /\ Committed(disk)' /\ disk'.marker.sec = job.sec /\ disk'.marker.id = job.id
          /\ pc' \in {"protect_meta", "protect_mode", "protect_cleanup", "protect_discard"}
          /\ pc' \in {"protect_cleanup", "protect_discard"} => disk'.mode = "protected"
      <3>1. CASE ProtectCommit
        BY <1>4, <2>1, <3>1 DEF ProtectCommit, SetMark
      <3>2. CASE ProtectMeta
        BY <2>1, <3>2 DEF ProtectMeta, ProtectFiles
      <3>3. CASE ProtectMode
        BY <2>1, <3>3 DEF ProtectMode, SetMode, ProtectFiles
      <3>4. CASE ProtectCleanup
        BY <1>4, <2>1, <3>4 DEF ProtectCleanup, SetMark
      <3> QED BY <1>10, <3>1, <3>2, <3>3, <3>4
    <2>3. Aside' = Aside /\ Tops(acked)' /\ AllTops'
      BY <2>1, <2>2 DEF Aside, Tops, AllTops
    <2>4. ProtectFiles'
      BY <2>1, <2>2, <2>3 DEF ProtectFiles
    <2>5. Holds(disk, job.sec)'
      BY <2>1, <2>2 DEF Holds, Readable, EncSecret
    <2>6. acked <= job.sec.c \/ Shelved(acked)'
      <3>1. acked <= job.sec.c \/ Shelved(acked)
        BY <2>1 DEF Tops, ProtectFiles
      <3>2. Shelved(acked) => Shelved(acked)'
        BY <1>1, <2>2
      <3> QED BY <3>1, <3>2
    <2> QED BY <2>1, <2>2, <2>3, <2>4, <2>5, <2>6 DEF ProtectKept
  <1>11. CASE DiscardAside
    <2>1. pc = "protect_discard" \/ pc = "discard"
      BY <1>11 DEF DiscardAside, ProtectKept
    <2>2. CASE pc = "discard"
      <3>1. /\ Aside = NoFiles /\ InCookies /\ FilesBacked /\ EnvelopeBacked /\ ProtectFiles
            /\ NoFault => ~Committed(disk) /\ disk.mode = "file"
        BY <2>2 DEF ProtectKept
      <3>2. pc' = "clear" /\ disk' = disk /\ job' = job /\ acked' = acked
        BY <1>11, <2>2, <3>1 DEF DiscardAside, Then, Present
      <3>3. /\ InCookies' /\ FilesBacked' /\ EnvelopeBacked' /\ ProtectFiles' /\ Aside' = Aside
        BY <3>1, <3>2 DEF InCookies, FilesBacked, EnvelopeBacked, ProtectFiles, Aside, Backed,
                          Readable
      <3> QED BY <3>1, <3>2, <3>3 DEF ProtectKept, Anchored
    <2>3. CASE pc = "protect_discard"
      <3>1. /\ disk.mode = "protected" /\ disk.plain = NoFiles /\ ProtectFiles
            /\ Holds(disk, job.sec) /\ (acked <= job.sec.c \/ Shelved(acked))
            /\ Committed(disk) /\ disk.marker.sec = job.sec
        BY <2>3 DEF ProtectKept
      <3>2. CASE Present(Aside) = {}
        <4>1. pc' = "clear" /\ disk' = disk /\ job' = job /\ acked' = acked
          BY <1>11, <2>3, <3>2 DEF DiscardAside, Then
        <4>2. ProtectFiles' /\ Holds(disk, job.sec)'
          BY <3>1, <4>1 DEF ProtectFiles, Aside, Holds, Readable, EncSecret
        <4>3. FilesBacked' /\ EnvelopeBacked'
          BY <3>1, <4>1 DEF FilesBacked, EnvelopeBacked, Backed
        <4>4. Anchored'
          BY <3>1, <4>1 DEF Anchored, InCookies, InEnvelope, Holds, Readable, EncSecret
        <4> QED BY <3>1, <4>1, <4>2, <4>3, <4>4 DEF ProtectKept
      <3>3. CASE Present(Aside) # {}
        <4>1. PICK g \in Present(Aside) : Goto(pc, [disk EXCEPT !.quar[job.id][g] = None])
          BY <1>11, <3>3 DEF DiscardAside
        <4>2. g \in Files /\ pc' = pc /\ job' = job /\ acked' = acked
              /\ disk' = [disk EXCEPT !.quar[job.id][g] = None]
          BY <2>3, <4>1 DEF Present
        <4>3. OnlyFile(g, disk, disk') /\ disk'.plain = disk.plain /\ disk'.quar[job.id][g] = None
          BY <4>2, MoveEffects
        <4>4. \A f \in Files : Aside'[f] \in {Aside[f], None}
          BY <4>2, <4>3 DEF Aside, OnlyFile
        <4>5. ProtectFiles'
          BY <3>1, <4>2, <4>3, <4>4 DEF ProtectFiles, OnlyFile
        <4>6. Holds(disk, job.sec)'
          BY <3>1, <4>2, <4>3 DEF Holds, Readable, EncSecret, OnlyFile
        <4> QED BY <2>3, <3>1, <4>2, <4>3, <4>5, <4>6 DEF ProtectKept, OnlyFile
      <3> QED BY <3>2, <3>3
    <2> QED BY <2>1, <2>2, <2>3
  <1>12. CASE DropCreatedEnc
    <2>1. /\ pc = "drop_enc" /\ pc' \in {"restore", "delete_mark"} /\ job' = job /\ acked' = acked
          /\ disk'.plain = disk.plain /\ disk'.quar = disk.quar /\ disk'.key = disk.key
          /\ disk'.mode = disk.mode /\ disk'.marker = disk.marker
          /\ disk'.enc = disk.enc \/ disk'.enc = NoEnc
      BY <1>12 DEF DropCreatedEnc, DropEnc, Then, AfterDelete
    <2>2. /\ Tops(acked) /\ AllTops /\ ProtectFiles
          /\ NoFault => Aside = NoFiles /\ ~Committed(disk) /\ disk.mode = "file" /\ EnvelopeBacked
      BY <2>1 DEF ProtectKept
    <2>3. Aside' = Aside /\ Tops(acked)' /\ AllTops' /\ ProtectFiles'
      BY <2>1, <2>2 DEF Aside, Tops, AllTops, ProtectFiles
    <2>4. NoFault => EnvelopeBacked'
      BY <2>1, <2>2 DEF EnvelopeBacked, Backed, Readable
    <2> QED BY <2>1, <2>2, <2>3, <2>4 DEF ProtectKept
  <1>13. CASE Restore
    <2>1. /\ pc = "restore" /\ Tops(acked) /\ AllTops /\ ProtectFiles
          /\ NoFault => Aside = NoFiles /\ ~Committed(disk) /\ disk.mode = "file" /\ EnvelopeBacked
      BY <1>13 DEF Restore, ProtectKept
    <2>2. CASE CanGoBack = {}
      <3>1. Aside = NoFiles
        BY <2>1, <2>2 DEF CanGoBack, Present, ProtectFiles, NoFiles
      <3>2. pc' = "discard" /\ disk' = disk /\ job' = job /\ acked' = acked
        BY <1>13, <2>2 DEF Restore
      <3>3. Aside' = Aside /\ ProtectFiles'
        BY <2>1, <3>2 DEF Aside, ProtectFiles
      <3>4. InCookies' /\ FilesBacked'
        BY <2>1, <3>1, <3>2 DEF Tops, AllTops, InCookies, FilesBacked, Backed
      <3>5. EnvelopeBacked'
        BY <2>1, <3>2 DEF EnvelopeBacked, Backed, Readable
      <3> QED BY <2>1, <3>1, <3>2, <3>3, <3>4, <3>5 DEF ProtectKept
    <2>3. CASE CanGoBack # {}
      <3>1. PICK g \in CanGoBack : Goto("restore", MoveBack(g))
        BY <1>13, <2>3 DEF Restore
      <3>2. g \in Files /\ Aside[g] # None /\ disk.plain[g] = None /\ ~NoFault
        BY <2>1, <3>1 DEF CanGoBack, Present
      <3>3. pc' = "restore" /\ job' = job /\ acked' = acked /\ disk' = MoveBack(g)
        BY <3>1
      <3>4. /\ OnlyFile(g, disk, disk') /\ disk'.plain[g] = Aside[g]
            /\ disk'.quar[job.id][g] = None
        BY <3>2, <3>3, MoveEffects DEF Aside
      <3>5. Tops(acked)' /\ AllTops' /\ ProtectFiles'
        BY <2>1, <3>2, <3>3, <3>4, MovedKept DEF Next, Continue
      <3> QED BY <3>2, <3>3, <3>5 DEF ProtectKept
    <2> QED BY <2>2, <2>3
  <1> QED BY <1>5, <1>6, <1>7, <1>8, <1>9, <1>10, <1>11, <1>12, <1>13 DEF MigrateToProtected

(* What is known of the holder and of the profile does not depend on what  *)
(* set_storage_mode has decided without the lock.                          *)
LEMMA KeptUnchanged ==
    ASSUME UNCHANGED <<disk, pc, job, acked, spent>>
    PROVE  /\ Anchored' = Anchored /\ FilesBacked' = FilesBacked
           /\ EnvelopeBacked' = EnvelopeBacked /\ MarkerKept' = MarkerKept
           /\ SaveKept' = SaveKept /\ ProtectKept' = ProtectKept
           /\ UnprotectKept' = UnprotectKept /\ RecoverKept' = RecoverKept
           /\ ResolveProtectedKept' = ResolveProtectedKept
           /\ ResolveFileKept' = ResolveFileKept /\ TidyKept' = TidyKept
  <1>0. \A v : Shelved(v)' = Shelved(v)
    BY DEF Shelved, Untracked, NoCrash
  <1>1. Aside' = Aside /\ InCookies' = InCookies /\ InEnvelope' = InEnvelope /\ NoFault' = NoFault
    BY <1>0 DEF Aside, InCookies, InEnvelope, NoFault
  <1>2. \A v : Backed(v)' = Backed(v) /\ Tops(v)' = Tops(v)
    BY <1>0, <1>1 DEF Backed, Tops
  <1>3. Anchored' = Anchored /\ FilesBacked' = FilesBacked /\ EnvelopeBacked' = EnvelopeBacked
    BY <1>1, <1>2 DEF Anchored, FilesBacked, EnvelopeBacked
  <1>4. MarkerKept' = MarkerKept
    BY <1>0, <1>1 DEF MarkerKept
  <1>5. SaveKept' = SaveKept
    BY <1>3, <1>4 DEF SaveKept
  <1>6. AllTops' = AllTops /\ ProtectFiles' = ProtectFiles
    BY <1>0, <1>1, <1>2 DEF AllTops, ProtectFiles
  <1>7. ProtectKept' = ProtectKept
    BY <1>0, <1>1, <1>2, <1>3, <1>6 DEF ProtectKept
  <1>8. UnprotectKept' = UnprotectKept
    BY <1>0, <1>1, <1>2, <1>3 DEF UnprotectKept
  <1>9. RecoverKept' = RecoverKept
    BY <1>1, <1>3, <1>4 DEF RecoverKept
  <1>10. ResolveProtectedKept' = ResolveProtectedKept /\ ResolveFileKept' = ResolveFileKept
    BY <1>1, <1>2, <1>3 DEF ResolveProtectedKept, ResolveFileKept
  <1>11. TidyKept' = TidyKept
    BY <1>1, <1>3 DEF TidyKept
  <1> QED BY <1>3, <1>4, <1>5, <1>7, <1>8, <1>9, <1>10, <1>11

(* A command takes the lock, or is done at once. *)
LEMMA Starts ==
    ASSUME Safe, Idle, pc' # "idle", job'.cmd # "none",
           job'.cmd \in {"save", "login"} => SaveKept',
           job'.cmd = "protect" => ProtectKept',
           job'.cmd = "unprotect" => UnprotectKept',
           job'.cmd = "recover" => RecoverKept',
           job'.cmd = "resolve_protected" => ResolveProtectedKept',
           job'.cmd = "resolve_file" => ResolveFileKept',
           job'.cmd = "tidy" => TidyKept'
    PROVE  Safe'
  BY DEF Safe, Idle

(* A command that is done without taking the lock leaves the profile as    *)
(* the next one expects it.                                                *)
LEMMA DoneAtOnce ==
    ASSUME Safe, Idle, pc' = pc, job' = job,
           Anchored', FilesBacked', EnvelopeBacked', MarkerKept'
    PROVE  Safe'
  BY DEF Safe, Idle

(* The clean-up of residue, as long as what it checked still holds: the    *)
(* other copy says the same.                                               *)
LEMMA UnlockedKept ==
    ASSUME TypeInv, FreshInv, Safe, Unlocked, ~outdated'
    PROVE  Safe'
  <1>1. ASSUME NEW v, Shelved(v) PROVE Shelved(v)'
    BY <1>1, ShelvedStays DEF Next
  <1>2. CASE UNCHANGED <<disk, pc, job, acked, spent>>
    <2>1. Idle' = Idle
      BY <1>2 DEF Idle
    <2> QED BY <1>2, <2>1, KeptUnchanged DEF Safe
  <1>3. CASE ~UNCHANGED <<disk, pc, job, acked, spent>>
    <2>1. /\ Idle /\ disk.marker.op = "none" /\ acked' = acked /\ NoFault' = NoFault
          /\ Anchored /\ FilesBacked /\ EnvelopeBacked /\ None.c = 0
      BY <1>3, UnlockedChanges, StoreMarks DEF Safe, NoFault, None
    <2>2. CASE disk' = disk /\ disk.enc = NoEnc
               /\ pc' = "delete_mark" /\ job' = [NoJob EXCEPT !.cmd = "tidy"]
      <3>1. InCookies /\ job'.cmd = "tidy"
        BY <2>1, <2>2 DEF Anchored, InEnvelope, Readable, NoJob
      <3>2. TidyKept'
        BY <1>1, <2>1, <2>2, <3>1 DEF TidyKept, DeleteSteps, Deleting, InCookies, FilesBacked, Backed
      <3> QED BY <2>1, <2>2, <3>1, <3>2, Starts
    <2>3. CASE /\ disk' = DropEnc /\ disk.mode = "file" /\ CopiesAgree(disk)
               /\ UNCHANGED <<pc, job>>
      <3>1. /\ disk'.plain = disk.plain /\ disk'.enc = NoEnc /\ disk'.mode = "file"
            /\ disk'.marker = disk.marker
        BY <2>3, Numbers DEF DropEnc, Disks
      <3>2. InCookies
        <4>1. CASE disk.plain = NoFiles
          <5>1. disk.enc.c = ReadPlain(disk.plain, disk.meta).c
            BY <2>3 DEF CopiesAgree, EncSecret
          <5>2. ReadPlain(disk.plain, disk.meta) = None
            BY <4>1 DEF ReadPlain, Present, NoFiles, First, Files
          <5> QED BY <2>1, <5>1, <5>2, Numbers DEF Anchored, InEnvelope, InCookies
        <4>2. CASE disk.plain # NoFiles
          BY <2>1, <2>3, <4>2 DEF Anchored
        <4> QED BY <4>1, <4>2
      <3>3. Anchored' /\ FilesBacked' /\ EnvelopeBacked' /\ MarkerKept'
        BY <1>1, <2>1, <2>3, <3>1, <3>2
           DEF Anchored, InCookies, FilesBacked, EnvelopeBacked, Backed, MarkerKept, Readable
      <3> QED BY <2>1, <2>3, <3>3, DoneAtOnce
    <2>4. CASE /\ disk' = Remove({"cookies"}) /\ disk.mode = "protected" /\ CopiesAgree(disk)
               /\ UNCHANGED <<pc, job>>
      <3>1. /\ disk'.plain["cookies"] = None
            /\ \A f \in Files : f # "cookies" => disk'.plain[f] = disk.plain[f]
            /\ disk'.enc = disk.enc /\ disk'.key = disk.key /\ disk'.mode = "protected"
            /\ disk'.marker = disk.marker
        BY <2>4, Numbers DEF Remove, Disks
      <3>2. Readable(disk) /\ disk.enc.c = ReadPlain(disk.plain, disk.meta).c
        BY <2>4 DEF CopiesAgree, EncSecret
      <3>3. disk.plain["cookies"].c <= disk.enc.c
        BY <2>1, <3>2, ReadPlainSource, Numbers DEF Disks
      <3>4. Anchored'
        BY <1>1, <2>1, <3>1, <3>2, <3>3, Numbers
           DEF Anchored, InCookies, InEnvelope, Readable
      <3>6. Readable(disk') /\ None.c <= disk.enc.c
        BY <2>1, <3>1, <3>2, Numbers DEF Readable
      <3>7. ASSUME NEW f \in Files
            PROVE  (Shelved(disk.plain[f].c) \/ disk.plain[f].c <= disk.enc.c)'
        <4>1. CASE f = "cookies"
          BY <3>1, <3>6, <4>1
        <4>2. CASE f # "cookies"
          <5>1. disk'.plain[f] = disk.plain[f]
            BY <3>1, <4>2
          <5>2. Shelved(disk.plain[f].c) \/ disk.plain[f].c <= disk.enc.c
            BY <2>1, <3>3, Numbers DEF FilesBacked, Backed, Disks
          <5> QED BY <1>1, <3>1, <5>1, <5>2
        <4> QED BY <4>1, <4>2
      <3>8. FilesBacked'
        BY <2>4, <3>1, <3>6, <3>7 DEF FilesBacked, Backed
      <3>5. EnvelopeBacked' /\ MarkerKept'
        BY <2>1, <3>1 DEF EnvelopeBacked, MarkerKept
      <3> QED BY <2>1, <2>4, <3>4, <3>5, <3>8, DoneAtOnce
    <2>5. CASE disk' = Remove({"auth"}) /\ UNCHANGED <<pc, job>>
      <3>1. /\ disk'.plain["cookies"] = disk.plain["cookies"]
            /\ \A f \in Files : disk'.plain[f] = disk.plain[f] \/ disk'.plain[f] = None
            /\ disk'.enc = disk.enc /\ disk'.key = disk.key /\ disk'.mode = disk.mode
            /\ disk'.marker = disk.marker
            /\ disk.plain = NoFiles => disk'.plain = NoFiles
        BY <2>5, Numbers DEF Remove, Disks, NoFiles
      <3>2. Anchored' /\ FilesBacked' /\ EnvelopeBacked' /\ MarkerKept'
        BY <1>1, <2>1, <3>1, Numbers
           DEF Anchored, InCookies, InEnvelope, FilesBacked, EnvelopeBacked, Backed, MarkerKept,
               Readable
      <3> QED BY <2>1, <2>5, <3>2, DoneAtOnce
    <2> QED BY <1>3, <2>2, <2>3, <2>4, <2>5, UnlockedChanges
  <1> QED BY <1>2, <1>3

(* migrate_profile_to_protected starts from the plaintext that is there    *)
(* when its turn at the lock has come.                                     *)
LEMMA StartProtectKept ==
    ASSUME TypeInv, FreshInv, Safe, StartProtect
    PROVE  Safe'
  <1>1. ASSUME NEW v, Shelved(v) PROVE Shelved(v)'
    BY <1>1, ShelvedStays DEF Next, Begin
  <1> DEFINE login == ReadPlain(disk.plain, disk.meta)
  <1>2. /\ Idle /\ disk.mode = "file" /\ disk.marker = NoMarker
        /\ login # None /\ spent.migration < MaxMigrations /\ pc' = "protect_mark"
        /\ disk' = disk /\ acked' = acked
        /\ spent' = [spent EXCEPT !.migration = @ + 1]
    BY DEF StartProtect, Take, Unfinished
  <1>3. job'.cmd = "protect" /\ job'.id = spent.migration + 1 /\ job'.sec = login
    BY DEF StartProtect, Take
  <1>4. /\ \E f \in Files : login.c = disk.plain[f].c
        /\ disk.plain["cookies"] # None => login.c = disk.plain["cookies"].c
        /\ disk.plain # NoFiles
    BY <1>2, ReadPlainSource, Numbers DEF Disks
  <1> HIDE DEF login
  <1>5. None.c = 0 /\ login.c \in Nat /\ disk.plain["cookies"].c <= login.c
    BY <1>4, Numbers DEF None
  <1>6. Anchored /\ FilesBacked /\ EnvelopeBacked
    BY <1>2 DEF Safe
  <1>7. InCookies /\ \A f \in Files : Backed(disk.plain[f].c)
    BY <1>2, <1>4, <1>6 DEF Anchored, FilesBacked
  <1>8. job'.id \in Ids /\ Aside' = NoFiles /\ \A f \in Files : NoFiles[f] = None
    <2>1. job'.id \in Ids /\ disk.quar[job'.id] = NoFiles
      BY <1>2, <1>3, BoundsAssumption, Numbers DEF Ids, FreshInv
    <2> QED BY <1>2, <2>1 DEF Aside, NoFiles
  <1>9. NoFault' = NoFault
    BY <1>2, Numbers DEF NoFault, TypeInv, TypeOK
  <1>10. InCookies' /\ FilesBacked' /\ EnvelopeBacked'
    BY <1>1, <1>2, <1>6, <1>7, <1>9 DEF InCookies, FilesBacked, EnvelopeBacked, Backed
  <1>11. Backed(job.sec.c)'
    BY <1>1, <1>2, <1>3, <1>4, <1>7 DEF Backed
  <1>12. ProtectFiles'
    <2>1. "cookies" \in Files /\ disk'.marker.op = "none"
      BY <1>2, StoreMarks, Numbers
    <2>2. \A f \in Files : Aside'[f] = None /\ Aside'[f].c <= job'.sec.c
      BY <1>3, <1>5, <1>8
    <2> QED BY <1>2, <1>3, <1>5, <1>8, <2>1, <2>2 DEF ProtectFiles
  <1>13. ProtectKept'
    BY <1>2, <1>8, <1>10, <1>11, <1>12 DEF ProtectKept, Committed, NoMarker
  <1> QED BY <1>2, <1>3, <1>13, Starts

(* Nothing to migrate: only storage-mode.json is written. *)
LEMMA ProtectNothingKept ==
    ASSUME TypeInv, FreshInv, Safe, ProtectNothing
    PROVE  Safe'
  <1>1. ASSUME NEW v, Shelved(v) PROVE Shelved(v)'
    BY <1>1, ShelvedStays DEF Next, Begin
  <1>2. /\ Idle /\ disk.marker = NoMarker
        /\ disk'.mode = "protected" /\ disk'.plain = disk.plain /\ disk'.enc = disk.enc
        /\ disk'.key = disk.key /\ disk'.marker = disk.marker
        /\ pc' = pc /\ job' = job /\ acked' = acked /\ spent' = spent
    BY Numbers DEF ProtectNothing, Unfinished, SetMode, Disks
  <1>3. disk.plain = NoFiles /\ \A f \in Files : NoFiles[f].c = 0
    BY ReadPlainSource, Numbers DEF ProtectNothing, Disks, NoFiles, None
  <1>4. Anchored /\ FilesBacked /\ EnvelopeBacked
    BY <1>2 DEF Safe
  <1>5. Anchored' /\ FilesBacked' /\ EnvelopeBacked' /\ MarkerKept'
    BY <1>1, <1>2, <1>3, <1>4, Numbers
       DEF Anchored, InCookies, InEnvelope, FilesBacked, EnvelopeBacked, Backed, MarkerKept,
           NoMarker, Readable
  <1> QED BY <1>2, <1>5, DoneAtOnce

(* migrate_profile_to_file starts, in a switch or in a resolution that     *)
(* keeps the files and finds no cookies among them.                        *)
LEMMA UnprotectBegins ==
    ASSUME TypeInv, FreshInv, Safe, StartUnprotect \/ ResolveFile, Unprotect,
           \/ acked' = acked /\ (BothCopies(disk) => CopiesAgree(disk))
           \/ disk.plain["cookies"] = None
              /\ acked' = IF disk.enc # NoEnc THEN disk.enc.c ELSE acked
    PROVE  Safe'
  <1>1. ASSUME NEW v, Shelved(v) PROVE Shelved(v)'
    BY <1>1, ShelvedStays DEF Next, Begin
  <1>2. /\ Idle /\ disk.marker = NoMarker /\ disk.mode = "protected" /\ spent' = spent
        /\ Anchored /\ FilesBacked /\ EnvelopeBacked /\ None.c = 0
    BY DEF Unprotect, Unfinished, Safe, None
  <1>3. CASE disk.enc = NoEnc /\ disk' = SetMode("file") /\ UNCHANGED <<pc, job>>
    <2>1. /\ disk'.mode = "file" /\ disk'.plain = disk.plain /\ disk'.enc = NoEnc
          /\ disk'.key = disk.key /\ disk'.marker = disk.marker /\ acked' = acked
      BY <1>3, Numbers DEF SetMode, Disks
    <2>2. InCookies /\ \A f \in Files : Backed(disk.plain[f].c)
      BY <1>2, <1>3 DEF Anchored, InEnvelope, FilesBacked, Readable
    <2>3. Anchored' /\ FilesBacked' /\ EnvelopeBacked' /\ MarkerKept'
      BY <1>1, <1>2, <2>1, <2>2, Numbers
         DEF Anchored, InCookies, FilesBacked, EnvelopeBacked, Backed, MarkerKept, NoMarker,
             Readable
    <2> QED BY <1>2, <1>3, <2>3, DoneAtOnce
  <1>4. CASE Readable(disk) /\ disk' = disk
             /\ Take("unprotect_mark", [NoJob EXCEPT !.cmd = "unprotect", !.sec = EncSecret(disk)])
    <2>1. /\ pc' = "unprotect_mark" /\ job'.cmd = "unprotect" /\ job'.sec = EncSecret(disk)
          /\ disk.enc # NoEnc
      BY <1>4 DEF Take, NoJob, Readable
    <2>2. job'.sec.c = disk.enc.c
      BY <2>1 DEF EncSecret
    <2>3. disk.plain["cookies"].c <= disk.enc.c
      <3>1. CASE disk.plain["cookies"] = None
        BY <1>2, <3>1, Numbers
      <3>2. CASE disk.plain["cookies"] # None
        <4>1. BothCopies(disk)
          BY <2>1, <3>2, Numbers DEF BothCopies, HasLegacy, Present
        <4>2. ReadPlain(disk.plain, disk.meta).c = disk.plain["cookies"].c
          BY <3>2, ReadPlainSource, Numbers DEF Disks
        <4> QED BY <3>2, <4>1, <4>2, Numbers DEF CopiesAgree, EncSecret
      <3> QED BY <3>1, <3>2
    <2>4. acked' <= disk.enc.c \/ Shelved(acked)'
      BY <1>1, <1>2, <2>1, <2>3, Numbers DEF Anchored, InCookies, InEnvelope
    <2>5. FilesBacked' /\ EnvelopeBacked'
      BY <1>1, <1>2, <1>4 DEF FilesBacked, EnvelopeBacked, Backed, NoFault
    <2>6. UnprotectKept'
      BY <1>2, <1>4, <2>1, <2>2, <2>3, <2>4, <2>5 DEF UnprotectKept, NoMarker
    <2> QED BY <1>2, <2>1, <2>6, Starts
  <1> QED BY <1>3, <1>4 DEF Unprotect

(* The commands that start or finish while the lock is free, unless a      *)
(* migration to file mode rests on a check that does not hold any more.    *)
LEMMA BeginKept ==
    ASSUME TypeInv, FreshInv, Safe, Begin, ~outdated'
    PROVE  Safe'
  <1>1. ASSUME NEW v, Shelved(v) PROVE Shelved(v)'
    BY <1>1, ShelvedStays DEF Next
  <1>3. ~Unfinished => disk.marker.op # "protect"
    BY DEF Unfinished, NoMarker
  <1>4. Idle => Anchored /\ FilesBacked /\ EnvelopeBacked /\ MarkerKept
    BY DEF Safe
  <1>5. ASSUME NEW cmd \in {"protect", "unprotect"}, DecideSwitch(cmd) PROVE Safe'
    <2>1. UNCHANGED <<disk, pc, job, acked, spent>>
      BY <1>5 DEF DecideSwitch
    <2>2. Idle' = Idle
      BY <2>1 DEF Idle
    <2> QED BY <2>1, <2>2, KeptUnchanged DEF Safe
  <1>6. CASE StartUnprotect
    <2>1. Unprotect /\ acked' = acked /\ (BothCopies(disk) => CopiesAgree(disk))
      BY <1>6 DEF StartUnprotect, Acts
    <2> QED BY <1>6, <2>1, UnprotectBegins
  <1>7. CASE StartRecover
    <2>1. /\ Idle /\ disk' = disk /\ acked' = acked /\ spent' = spent
          /\ job'.cmd = "recover" /\ job'.id = disk.marker.id /\ job'.sec = disk.marker.sec
          /\ pc' = CASE disk.marker.op = "protect" /\ disk.marker.phase = "preparing" -> "restore"
                     [] disk.marker.op = "protect" /\ disk.marker.phase # "preparing" ->
                            "finish_discard"
                     [] disk.marker.op = "unprotect" ->
                            IF Published(disk) THEN "adopt_mode" ELSE "revert_mode"
                     [] OTHER -> "clear"
      BY <1>7 DEF StartRecover, Take
    <2>2. FilesBacked' /\ EnvelopeBacked'
      BY <1>1, <1>4, <2>1 DEF FilesBacked, EnvelopeBacked, Backed, NoFault
    <2>3. Anchored'
      BY <1>1, <1>4, <2>1 DEF Anchored, InCookies, InEnvelope
    <2>4. CASE disk.marker.op = "protect" /\ disk.marker.phase = "preparing"
      <3>1. pc' = "restore"
        BY <2>1, <2>4
      <3>2. MarkerKept'
        BY <1>1, <1>4, <2>1, <2>4, <3>1 DEF MarkerKept, InCookies
      <3> QED BY <2>1, <2>2, <2>4, <3>1, <3>2, Starts DEF RecoverKept
    <2>5. CASE disk.marker.op = "protect" /\ disk.marker.phase # "preparing"
      <3>1. pc' = "finish_discard"
        BY <2>1, <2>5
      <3>2. MarkerKept'
        BY <1>1, <1>4, <2>1, <2>5, <3>1 DEF MarkerKept, HeldSteps, Holds, Readable, EncSecret
      <3> QED BY <2>1, <2>2, <2>3, <2>5, <3>1, <3>2, Starts DEF RecoverKept, Committed
    <2>6. CASE disk.marker.op # "protect"
      <3>1. pc' \in {"adopt_mode", "revert_mode", "clear"}
            /\ (pc' = "adopt_mode" => Published(disk))
        BY <2>1, <2>6
      <3>2. MarkerKept'
        BY <2>1, <2>6 DEF MarkerKept
      <3>3. Published(disk) => InCookies /\ disk.enc.c <= disk.plain["cookies"].c
        BY <1>4, <2>1, Numbers DEF Published, EncSecret, Anchored, InCookies, InEnvelope
      <3>4. pc' = "adopt_mode" => InCookies' /\ disk'.enc.c <= disk'.plain["cookies"].c
        BY <1>1, <2>1, <3>1, <3>3 DEF InCookies
      <3> QED BY <2>1, <2>2, <2>3, <3>1, <3>2, <3>4, Starts DEF RecoverKept
    <2> QED BY <2>4, <2>5, <2>6
  <1>8. ASSUME NEW cmd \in {"save", "login"}, NEW withTokens \in BOOLEAN, StartSave(cmd, withTokens)
        PROVE  Safe'
    <2>1. /\ Idle /\ disk' = disk /\ acked' = acked
          /\ spent' = [spent EXCEPT !.login = @ + 1]
          /\ pc' = CASE disk.mode = "file" -> "save_cookies"
                     [] disk.mode = "protected" /\ disk.enc # NoEnc -> "save_read"
                     [] OTHER -> "write_mark"
      BY <1>8 DEF StartSave, Take
    <2>2. job'.cmd = cmd
      BY <1>8 DEF StartSave, Take, NoJob
    <2>3. NoFault' = NoFault
      BY <2>1 DEF NoFault, TypeInv, TypeOK
    <2>4. FilesBacked' /\ EnvelopeBacked' /\ Anchored'
      BY <1>1, <1>4, <2>1, <2>3 DEF FilesBacked, EnvelopeBacked, Backed, Anchored, InCookies,
                                    InEnvelope
    <2>5. \/ pc' = "save_cookies" /\ disk.mode = "file"
          \/ pc' \in {"save_read", "write_mark"} /\ disk.mode = "protected"
      BY <2>1, Numbers DEF Disks
    <2>6. MarkerKept'
      BY <1>1, <1>4, <2>1, <2>5 DEF MarkerKept, HeldSteps, Holds, Readable, EncSecret, InCookies
    <2>7. SaveKept'
      BY <2>1, <2>4, <2>5, <2>6 DEF SaveKept, WriteSteps, KeyedSteps
    <2> QED BY <2>1, <2>2, <2>5, <2>7, Starts
  <1>9. CASE ResolveProtected
    <2>1. /\ Idle /\ disk' = disk /\ acked' = disk.enc.c /\ spent' = spent /\ Readable(disk)
          /\ ~Unfinished
          /\ pc' = "resolve_unlink" /\ job'.cmd = "resolve_protected"
      BY <1>9 DEF ResolveProtected, CanResolve, Take, NoJob
    <2>2. FilesBacked' /\ EnvelopeBacked' /\ InEnvelope'
      BY <1>1, <1>4, <2>1, Numbers DEF FilesBacked, EnvelopeBacked, Backed, InEnvelope, NoFault
    <2>3. NoFault => Anchored'
      BY <1>1, <1>4, <2>1, <2>2 DEF EnvelopeBacked, Backed, Anchored, InCookies, NoFault
    <2>4. ResolveProtectedKept'
      BY <1>3, <2>1, <2>2, <2>3 DEF ResolveProtectedKept, NoFault
    <2> QED BY <2>1, <2>4, Starts
  <1>10. CASE ResolveFile /\ disk.plain["cookies"] = None
    <2>1. /\ Unprotect /\ acked' = IF disk.enc # NoEnc THEN disk.enc.c ELSE acked
      BY <1>10 DEF ResolveFile, CanResolve
    <2> QED BY <1>10, <2>1, UnprotectBegins
  <1>11. CASE DiscardInaccessible \/ (ResolveFile /\ disk.plain["cookies"] # None)
    <2>1. /\ Idle /\ disk' = disk /\ spent' = spent
          /\ ~Unfinished
          /\ pc' \in {"resolve_enc", "delete_mark"} /\ job'.cmd = "resolve_file"
          /\ pc' = "delete_mark" => disk.enc = NoEnc
      BY <1>11 DEF DiscardInaccessible, ResolveFile, CanResolve, Take, NoJob
    <2>2. \/ acked' = disk.plain["cookies"].c /\ disk.plain["cookies"] # None
          \/ acked' = acked /\ ~Readable(disk)
      BY <1>11 DEF DiscardInaccessible, ResolveFile
    <2>3. InCookies' /\ \A f \in Files : Backed(disk.plain[f].c)
      BY <1>1, <1>4, <2>1, <2>2, Numbers DEF Anchored, InCookies, InEnvelope, FilesBacked
    <2>4. (\A f \in Files : Backed(disk.plain[f].c))' /\ EnvelopeBacked'
      BY <1>1, <1>4, <2>1, <2>3 DEF Backed, EnvelopeBacked, NoFault
    <2>5. ResolveFileKept'
      BY <1>3, <2>1, <2>3, <2>4 DEF ResolveFileKept, DeleteSteps, Deleting
    <2> QED BY <2>1, <2>5, Starts
  <1>12. CASE ClearMarker
    <2>1. /\ Idle /\ pc' = pc /\ job' = job /\ acked' = acked /\ spent' = spent
          /\ disk'.mode = disk.mode /\ disk'.plain = disk.plain /\ disk'.enc = disk.enc
          /\ disk'.key = disk.key /\ disk'.marker.op = "none"
      BY <1>12, StoreMarks, Numbers DEF ClearMarker, SetMark, Disks
    <2>2. FilesBacked' /\ EnvelopeBacked' /\ Anchored' /\ MarkerKept'
      BY <1>1, <1>4, <2>1
         DEF FilesBacked, EnvelopeBacked, Backed, Anchored, InCookies, InEnvelope, Readable,
             MarkerKept, NoFault
    <2> QED BY <2>1, <2>2, DoneAtOnce
  <1> QED BY <1>5, <1>6, <1>7, <1>8, <1>9, <1>10, <1>11, <1>12, StartProtectKept, ProtectNothingKept
          DEF Begin

(* Nothing changed that a reader can see. *)
SameDisk ==
    /\ disk'.plain = disk.plain /\ disk'.enc = disk.enc /\ disk'.mode = disk.mode
    /\ disk'.marker = disk.marker /\ disk'.quar = disk.quar
    /\ Readable(disk') = Readable(disk)

(* Where the holder crashes, or fails and lets go, every login is where it *)
(* was; what a migration had moved aside is left in a quarantine that only *)
(* a committed marker still names.                                         *)
LEMMA LetGoKept ==
    ASSUME TypeInv, FreshInv, Safe, OneKindOfFailure, [Next]_vars, SameDisk,
           pc # "idle", pc' = "idle", job' = NoJob, acked' = acked,
           NoFault \/ job.cmd \in {"save", "login"},
           pc \in {"protect_move", "protect_restore"} => ~NoCrash'
    PROVE  Safe'
  <1>1. ASSUME NEW v, Shelved(v) PROVE Shelved(v)'
    BY <1>1, ShelvedStays
  <1>2. /\ job.cmd \in {"save", "login", "protect", "unprotect", "recover",
                        "resolve_protected", "resolve_file", "tidy"}
        /\ NoFault' => NoFault
        /\ "cookies" \in Files /\ \A f \in Files : NoFiles[f].c = 0
    BY SpentOnlyGrows, NextTyped, Numbers
       DEF Safe, Idle, TypeInv, TypeOK, Jobs, NoFault, NoFiles, None
  <1> SUFFICES Anchored' /\ FilesBacked' /\ EnvelopeBacked' /\ MarkerKept'
    BY LetsGo
  <1> USE <1>2 DEF SameDisk
  <1>3. FilesBacked /\ EnvelopeBacked => FilesBacked' /\ EnvelopeBacked'
    BY <1>1 DEF FilesBacked, EnvelopeBacked, Backed
  <1>4. Anchored => Anchored'
    BY <1>1 DEF Anchored, InCookies, InEnvelope
  <1>5. MarkerKept => MarkerKept'
    BY <1>1 DEF MarkerKept, InCookies, HeldSteps, Holds, EncSecret
  <1>6. CASE job.cmd \in {"save", "login"}
    <2>1. SaveKept /\ job.sec.c = spent.login
      BY <1>6 DEF Safe, FreshInv
    <2>2. Anchored
      BY <2>1, Numbers DEF SaveKept, WrittenSteps, Anchored, InCookies, InEnvelope, FreshInv
    <2> QED BY <1>3, <1>4, <1>5, <2>1, <2>2 DEF SaveKept
  <1>7. CASE job.cmd = "protect"
    <2>1. ProtectKept /\ ProtectFiles /\ NoFault /\ job.id \in Ids
      BY <1>7 DEF Safe, ProtectKept, ProtectFiles
    <2>2. CASE pc \in {"protect_mark", "write_clear", "protect_verify", "discard"}
                      \cup WriteSteps \cup RollbackSteps
      <3>1. Aside = NoFiles /\ InCookies /\ FilesBacked /\ EnvelopeBacked /\ ~Committed(disk)
            /\ disk.mode = "file"
        <4>1. CASE pc \in RollbackSteps
          <5>1. Tops(acked) /\ AllTops /\ Aside = NoFiles /\ EnvelopeBacked /\ ~Committed(disk)
                /\ disk.mode = "file"
            BY <2>1, <4>1 DEF ProtectKept, RollbackSteps, DeleteSteps, Deleting, WriteSteps
          <5>2. InCookies /\ FilesBacked
            BY <5>1, Numbers DEF Tops, AllTops, InCookies, FilesBacked, Backed
          <5> QED BY <5>1, <5>2
        <4>2. CASE pc \notin RollbackSteps
          BY <2>1, <2>2, <4>2 DEF ProtectKept, WriteSteps
        <4> QED BY <4>1, <4>2
      <3>2. MarkerKept'
        BY <1>1, <2>1, <3>1 DEF MarkerKept, ProtectFiles, Committed, Aside, InCookies
      <3> QED BY <1>3, <1>4, <3>1, <3>2 DEF Anchored
    <2>3. CASE pc \in {"protect_move", "protect_restore"}
      <3>1. /\ ~NoCrash' /\ Tops(acked) /\ AllTops /\ Tops(job.sec.c) /\ Holds(disk, job.sec)
            /\ disk.marker.op # "protect"
        BY <2>1, <2>3 DEF ProtectKept, WriteSteps, RollbackSteps, DeleteSteps, Deleting
      <3>2. disk.marker.id = 0 /\ 0 \notin Ids
        BY <2>1, <3>1 DEF ProtectFiles, FreshInv, Ids
      <3>3. ASSUME NEW v \in Nat, Tops(v) PROVE Backed(v)'
        <4>1. CASE v <= Aside["cookies"].c /\ v > 0
          <5>1. job.id \notin {job'.id, disk'.marker.id}
            BY <2>1, <3>2 DEF NoJob
          <5>2. disk'.quar[job.id]["cookies"].c >= v /\ disk'.quar[job.id]["cookies"].c > 0
            BY <2>1, <4>1, Numbers DEF Aside
          <5> QED BY <2>1, <3>1, <5>1, <5>2 DEF Backed, Shelved, Untracked
        <4>2. CASE v = 0 \/ v <= disk.plain["cookies"].c
          BY <4>2, Numbers DEF Backed
        <4>3. CASE Shelved(v)
          BY <1>1, <4>3 DEF Backed
        <4> QED BY <3>3, <4>1, <4>2, <4>3, Numbers DEF Tops
      <3>4. FilesBacked'
        BY <3>1, <3>3, Numbers DEF FilesBacked, AllTops
      <3>5. EnvelopeBacked'
        BY <3>1, <3>3, Numbers DEF EnvelopeBacked, Holds, EncSecret
      <3>6. InCookies'
        BY <3>1, <3>3, Numbers DEF InCookies, Backed
      <3>7. MarkerKept'
        BY <3>1 DEF MarkerKept
      <3> QED BY <3>4, <3>5, <3>6, <3>7 DEF Anchored
    <2>4. CASE pc \in {"protect_commit", "protect_meta", "protect_mode", "protect_cleanup",
                       "protect_discard"}
      <3>1. /\ disk.plain = NoFiles /\ Holds(disk, job.sec)
            /\ pc = "protect_commit" => disk.marker.op # "protect"
            /\ pc # "protect_commit" => Committed(disk) /\ disk.marker.sec = job.sec
            /\ Tops(acked) \/ acked <= job.sec.c \/ Shelved(acked)
        BY <2>1, <2>4 DEF ProtectKept, WriteSteps, RollbackSteps, DeleteSteps, Deleting
      <3>2. acked <= job.sec.c \/ Shelved(acked)
        BY <2>1, <3>1, Numbers DEF Tops, ProtectFiles
      <3>3. Anchored'
        BY <1>1, <3>1, <3>2 DEF Anchored, InCookies, InEnvelope, Holds, EncSecret
      <3>4. FilesBacked' /\ EnvelopeBacked'
        BY <3>1, Numbers DEF FilesBacked, EnvelopeBacked, Backed
      <3>5. MarkerKept'
        BY <1>1, <2>1, <3>1
           DEF MarkerKept, ProtectFiles, Committed, Aside, HeldSteps, Holds, EncSecret
      <3> QED BY <3>3, <3>4, <3>5
    <2>5. CASE pc = "clear"
      <3>1. /\ Anchored /\ FilesBacked /\ EnvelopeBacked
            /\ disk.marker.op = "protect" =>
                 IF disk.marker.phase = "preparing"
                 THEN Aside = NoFiles /\ InCookies /\ disk.mode = "file"
                 ELSE Holds(disk, job.sec) /\ disk.marker.sec = job.sec
        BY <2>1, <2>5 DEF ProtectKept, WriteSteps, RollbackSteps, DeleteSteps, Deleting
      <3>2. MarkerKept'
        BY <1>1, <2>1, <3>1
           DEF MarkerKept, ProtectFiles, Aside, HeldSteps, Holds, EncSecret, InCookies
      <3> QED BY <1>3, <1>4, <3>1, <3>2
    <2> QED BY <2>1, <2>2, <2>3, <2>4, <2>5 DEF ProtectKept
  <1>8. CASE job.cmd = "unprotect"
    <2>1. UnprotectKept
      BY <1>8 DEF Safe
    <2>2. Anchored
      BY <2>1, Numbers DEF UnprotectKept, Anchored, InCookies, InEnvelope
    <2> QED BY <1>3, <1>4, <1>5, <2>1, <2>2 DEF UnprotectKept, MarkerKept
  <1>9. CASE job.cmd = "recover"
    <2>1. RecoverKept
      BY <1>9 DEF Safe
    <2>2. Anchored
      BY <2>1 DEF RecoverKept, Anchored, MarkerKept
    <2> QED BY <1>3, <1>4, <1>5, <2>1, <2>2 DEF RecoverKept
  <1>10. CASE job.cmd = "resolve_protected"
    <2>1. ResolveProtectedKept /\ NoFault
      BY <1>10 DEF Safe
    <2> QED BY <1>3, <1>4, <1>5, <2>1 DEF ResolveProtectedKept, MarkerKept
  <1>11. CASE job.cmd = "resolve_file"
    <2>1. ResolveFileKept
      BY <1>11 DEF Safe
    <2> QED BY <1>3, <1>4, <1>5, <2>1 DEF ResolveFileKept, MarkerKept, FilesBacked, Anchored
  <1>12. CASE job.cmd = "tidy"
    <2>1. TidyKept
      BY <1>12 DEF Safe
    <2>2. EnvelopeBacked
      BY <2>1 DEF TidyKept, EnvelopeBacked, Readable
    <2> QED BY <1>3, <1>4, <1>5, <2>1, <2>2 DEF TidyKept, MarkerKept, Anchored
  <1> QED BY <1>6, <1>7, <1>8, <1>9, <1>10, <1>11, <1>12

(* The rollback of a migration to protected mode begins. *)
LEMMA RaisedKept ==
    ASSUME TypeInv, FreshInv, Safe, OneKindOfFailure, [Next]_vars, SameDisk,
           job.cmd = "protect", pc \in Caught,
           pc' = "drop_enc", job' = job, acked' = acked,
           NoFault' => NoFault /\ pc \in {"write_mark", "write_key", "protect_verify"}
    PROVE  Safe'
  <1>1. ASSUME NEW v, Shelved(v) PROVE Shelved(v)'
    BY <1>1, ShelvedStays
  <1>2. /\ ProtectKept /\ ProtectFiles /\ "cookies" \in Files /\ \A f \in Files : NoFiles[f].c = 0
        /\ pc # "idle"
    BY Numbers DEF Safe, ProtectKept, NoFiles, None, Caught
  <1> USE <1>2 DEF SameDisk
  <1>3. Aside' = Aside
    BY DEF Aside
  <1>4. /\ Tops(acked) /\ AllTops
        /\ NoFault' => Aside = NoFiles /\ ~Committed(disk) /\ disk.mode = "file" /\ EnvelopeBacked
    <2>1. CASE pc \in {"write_clear", "protect_verify", "protect_mark"} \cup WriteSteps
      <3>1. /\ disk.mode = "file" /\ Aside = NoFiles /\ ~Committed(disk)
            /\ InCookies /\ FilesBacked /\ EnvelopeBacked
        BY <2>1 DEF ProtectKept, WriteSteps, RollbackSteps, DeleteSteps, Deleting
      <3> QED BY <3>1, Numbers DEF InCookies, FilesBacked, Backed, Tops, AllTops
    <2>2. CASE pc \notin {"write_clear", "protect_verify", "protect_mark"} \cup WriteSteps
      <3>1. ~NoFault'
        BY <2>2 DEF WriteSteps
      <3>2. Tops(acked) /\ AllTops
        BY <2>2 DEF ProtectKept, Caught, WriteSteps, RollbackSteps, DeleteSteps, Deleting
      <3> QED BY <3>1, <3>2
    <2> QED BY <2>1, <2>2
  <1>5. Tops(acked)' /\ AllTops' /\ ProtectFiles'
    BY <1>1, <1>3, <1>4 DEF Tops, AllTops, ProtectFiles
  <1>6. NoFault' => EnvelopeBacked'
    BY <1>1, <1>4 DEF EnvelopeBacked, Backed
  <1>7. ProtectKept'
    BY <1>3, <1>4, <1>5, <1>6 DEF ProtectKept, RollbackSteps, Committed
  <1> QED BY <1>7, GoesOn

(* A file operation is refused whose failure is suppressed: the holder     *)
(* goes on without it.                                                     *)
LEMMA SuppressedKept ==
    ASSUME TypeInv, FreshInv, Safe, OneKindOfFailure, [Next]_vars, SameDisk,
           pc \in Suppressed \ DeleteSteps, pc' = Then, pc' # "idle", job' = job,
           acked' = acked, ~NoFault'
    PROVE  Safe'
  <1>1. ASSUME NEW v, Shelved(v) PROVE Shelved(v)'
    BY <1>1, ShelvedStays
  <1>2. /\ job.cmd \in {"save", "login", "protect", "unprotect", "recover",
                        "resolve_protected", "resolve_file"}
        /\ pc # "idle" /\ "cookies" \in Files /\ \A f \in Files : NoFiles[f].c = 0
    BY Numbers DEF Safe, Idle, TidyKept, TypeInv, TypeOK, Jobs, NoFiles, None, Suppressed
  <1> USE <1>2 DEF SameDisk
  <1>3. FilesBacked => FilesBacked'
    BY <1>1 DEF FilesBacked, Backed
  <1>4. EnvelopeBacked'
    BY DEF EnvelopeBacked
  <1>5. (Anchored => Anchored') /\ (InCookies => InCookies') /\ (InEnvelope => InEnvelope')
    BY <1>1 DEF Anchored, InCookies, InEnvelope
  <1>6. Aside' = Aside
    BY DEF Aside
  <1>7. CASE job.cmd \in {"save", "login"}
    <2>1. SaveKept
      BY <1>7 DEF Safe
    <2>2. \/ pc = "write_clear" /\ pc' = "save_meta" /\ disk.mode = "protected"
          \/ pc = "save_unlink" /\ pc' = "saved" /\ disk.mode = "protected"
      BY <1>7, <2>1 DEF SaveKept, Suppressed, Then, AfterWrite, WriteSteps, WrittenSteps,
                        DeleteSteps
    <2>3. MarkerKept'
      BY <1>1, <2>1, <2>2 DEF SaveKept, MarkerKept, HeldSteps, Holds, EncSecret
    <2>4. SaveKept'
      BY <1>3, <1>4, <2>1, <2>2, <2>3 DEF SaveKept, WrittenSteps, WriteSteps
    <2> QED BY <1>7, <2>4, GoesOn
  <1>8. CASE job.cmd = "protect"
    <2>1. ProtectKept /\ ProtectFiles
      BY <1>8 DEF Safe, ProtectKept
    <2>2. ProtectFiles'
      BY <1>1, <1>6, <2>1 DEF ProtectFiles
    <2>3. CASE pc = "write_clear"
      <3>1. /\ disk.mode = "file" /\ Aside = NoFiles /\ ~Committed(disk)
            /\ InCookies /\ FilesBacked /\ Backed(job.sec.c) /\ disk.marker.op # "protect"
            /\ pc' = "protect_verify"
        BY <1>8, <2>1, <2>3 DEF ProtectKept, WriteSteps, RollbackSteps, DeleteSteps, Deleting,
                                Then, AfterWrite
      <3>2. Backed(job.sec.c)'
        BY <1>1, <3>1 DEF Backed
      <3>3. ProtectKept'
        BY <1>3, <1>4, <1>5, <1>6, <2>2, <3>1, <3>2 DEF ProtectKept, Committed
      <3> QED BY <1>8, <3>3, GoesOn
    <2>4. CASE pc = "drop_enc"
      <3>1. Tops(acked) /\ AllTops /\ pc' \in RollbackSteps
        BY <1>8, <2>1, <2>4 DEF ProtectKept, WriteSteps, RollbackSteps, DeleteSteps, Deleting,
                                Then, AfterDelete
      <3>2. Tops(acked)' /\ AllTops'
        BY <1>1, <1>6, <3>1 DEF Tops, AllTops
      <3>3. ProtectKept'
        BY <2>2, <3>1, <3>2 DEF ProtectKept
      <3> QED BY <1>8, <3>3, GoesOn
    <2>5. CASE pc = "protect_discard"
      <3>1. /\ disk.plain = NoFiles /\ Holds(disk, job.sec) /\ disk.mode = "protected"
            /\ acked <= job.sec.c \/ Shelved(acked)
            /\ pc' = "clear"
        BY <1>8, <2>1, <2>5 DEF ProtectKept, WriteSteps, RollbackSteps, DeleteSteps, Deleting, Then
      <3>2. Anchored /\ FilesBacked
        BY <3>1, Numbers DEF Anchored, InCookies, InEnvelope, FilesBacked, Backed, Holds, EncSecret
      <3>3. ProtectKept'
        BY <1>3, <1>4, <1>5, <2>2, <3>1, <3>2 DEF ProtectKept
      <3> QED BY <1>8, <3>3, GoesOn
    <2>6. CASE pc = "discard"
      <3>1. /\ Aside = NoFiles /\ InCookies /\ FilesBacked /\ pc' = "clear"
        BY <1>8, <2>1, <2>6 DEF ProtectKept, WriteSteps, RollbackSteps, DeleteSteps, Deleting, Then
      <3>2. ProtectKept'
        BY <1>3, <1>4, <1>5, <2>2, <3>1 DEF ProtectKept, Anchored
      <3> QED BY <1>8, <3>2, GoesOn
    <2> QED BY <1>8, <2>1, <2>3, <2>4, <2>5, <2>6
            DEF ProtectKept, Suppressed, WriteSteps, RollbackSteps, DeleteSteps, Deleting, Then
  <1>9. CASE job.cmd = "unprotect"
    <2>1. UnprotectKept /\ pc = "unprotect_enc" /\ pc' \in {"unprotect_root", "clear"}
      BY <1>9 DEF Safe, UnprotectKept, Suppressed, DeleteSteps, Then
    <2>2. UnprotectKept'
      BY <1>1, <1>3, <1>4, <2>1 DEF UnprotectKept
    <2> QED BY <1>9, <2>2, GoesOn
  <1>10. CASE job.cmd = "recover"
    <2>1. RecoverKept
      BY <1>10 DEF Safe
    <2>2. CASE pc \in {"discard", "drop_enc"}
      <3>1. /\ disk.marker.op = "protect" /\ disk.marker.phase = "preparing"
            /\ job.id = disk.marker.id /\ InCookies /\ disk.mode = "file" /\ FilesBacked
            /\ disk.quar[disk.marker.id] = NoFiles
            /\ pc' \in {"drop_enc", "delete_mark", "clear"}
        BY <1>10, <2>1, <2>2 DEF RecoverKept, MarkerKept, DeleteSteps, Deleting, Then, AfterDelete
      <3>2. MarkerKept'
        BY <1>5, <3>1 DEF MarkerKept
      <3>3. RecoverKept'
        BY <1>3, <1>4, <1>5, <3>1, <3>2 DEF RecoverKept, DeleteSteps, Deleting, Anchored
      <3> QED BY <1>10, <3>3, GoesOn
    <2>3. CASE pc \in {"finish_discard", "finish_meta", "finish_cookies", "finish_root"}
      <3>1. /\ Committed(disk) /\ job.id = disk.marker.id /\ job.sec = disk.marker.sec
            /\ Anchored /\ FilesBacked /\ MarkerKept
            /\ pc # "finish_discard" => disk.mode = "protected"
            /\ pc' \in {"finish_mode", "finish_cookies", "finish_root", "clear"}
            /\ pc = "finish_discard" => pc' = "finish_mode"
        BY <1>10, <2>1, <2>3 DEF RecoverKept, DeleteSteps, Deleting, Then
      <3>2. MarkerKept'
        BY <1>1, <1>5, <3>1 DEF MarkerKept, Committed, HeldSteps, Holds, EncSecret
      <3>3. RecoverKept'
        BY <1>3, <1>4, <1>5, <3>1, <3>2 DEF RecoverKept, Committed
      <3> QED BY <1>10, <3>3, GoesOn
    <2>4. CASE pc = "adopt_enc"
      <3>1. InCookies /\ disk.mode = "file" /\ FilesBacked /\ disk.marker.op # "protect"
            /\ pc' = "delete_mark"
        BY <1>10, <2>1, <2>4 DEF RecoverKept, MarkerKept, HeldSteps, DeleteSteps, Deleting, Then
      <3>2. RecoverKept'
        BY <1>3, <1>4, <1>5, <3>1 DEF RecoverKept, MarkerKept, DeleteSteps, Deleting
      <3> QED BY <1>10, <3>2, GoesOn
    <2> QED BY <1>10, <2>1, <2>2, <2>3, <2>4 DEF RecoverKept, Suppressed, Then
  <1>11. CASE job.cmd = "resolve_protected"
    <2>1. ResolveProtectedKept /\ pc' = "resolve_mode"
      BY <1>11 DEF Safe, ResolveProtectedKept, Suppressed, Then
    <2>2. ResolveProtectedKept'
      BY <1>3, <1>4, <1>5, <2>1 DEF ResolveProtectedKept
    <2> QED BY <1>11, <2>2, GoesOn
  <1>12. CASE job.cmd = "resolve_file"
    <2>1. ResolveFileKept /\ pc' = "delete_mark"
      BY <1>12 DEF Safe, ResolveFileKept, Suppressed, Then, DeleteSteps
    <2>2. ResolveFileKept'
      BY <1>1, <1>4, <1>5, <2>1 DEF ResolveFileKept, DeleteSteps, Deleting, Backed
    <2> QED BY <1>12, <2>2, GoesOn
  <1> QED BY <1>7, <1>8, <1>9, <1>10, <1>11, <1>12

(* The keystore fails the holder, the OS refuses it a file operation, or   *)
(* it is killed.                                                           *)
LEMMA FailureKept ==
    ASSUME TypeInv, FreshInv, Safe, OneKindOfFailure, OneKindOfFailure', Failure
    PROVE  Safe'
  <1>0. /\ acked' = acked /\ spent'.fault >= spent.fault
        /\ job' = IF pc' = "idle" THEN NoJob ELSE job
    BY SpentOnlyGrows
       DEF Next, Failure, KeystoreRefuses, KeystoreTimesOut, DiskFault, Crash, Step, Goto, Move
  <1>1. /\ NoFault' => NoFault /\ spent.fault \in Nat /\ spent'.fault \in Nat
        /\ spent.crash \in Nat
    BY <1>0, NextTyped DEF Next, TypeInv, TypeOK, NoFault
  <1>2. ASSUME pc \in DeleteSteps, pc # "idle", DeleteEffects PROVE Safe'
    BY <1>0, <1>1, <1>2, DeleteKept DEF Next
  <1>3. pc # "idle" => job.cmd \in {"save", "login", "protect", "unprotect", "recover",
                                    "resolve_protected", "resolve_file", "tidy"}
    BY DEF Safe, Idle, TypeInv, TypeOK, Jobs
  <1>4. CASE KeystoreRefuses
    <2>1. /\ pc \in KeystoreCalls /\ pc' = Raised /\ disk' = disk /\ SameDisk /\ spent' = spent
      BY <1>4 DEF KeystoreRefuses, Goto, Move, SameDisk
    <2>2. CASE pc \in {"delete_mark", "delete_key"}
      <3>1. pc' = AfterDelete
        BY <2>1, <2>2 DEF Raised, Caught, Deleting
      <3>2. DeleteEffects
        BY <1>0, <2>1, <3>1 DEF DeleteEffects
      <3> QED BY <1>2, <2>2, <3>2 DEF DeleteSteps, Deleting
    <2>3. CASE pc \in {"write_mark", "write_key", "protect_verify"} /\ job.cmd = "protect"
      <3>1. pc' = "drop_enc" /\ pc \in Caught
        BY <2>1, <2>3 DEF Raised, Caught
      <3> QED BY <1>0, <1>1, <2>1, <2>3, <3>1, RaisedKept DEF Next
    <2>4. CASE pc \in {"write_mark", "write_key", "protect_verify"} /\ job.cmd # "protect"
      <3>1. job.cmd \in {"save", "login"}
        BY <1>3, <2>4 DEF Safe, UnprotectKept, RecoverKept, ResolveProtectedKept,
                          ResolveFileKept, TidyKept, DeleteSteps, Deleting
      <3>2. pc' = "idle"
        BY <2>1, <2>4 DEF Raised, Deleting
      <3> QED BY <1>0, <2>1, <2>4, <3>1, <3>2, LetGoKept DEF Next
    <2> QED BY <2>1, <2>2, <2>3, <2>4 DEF KeystoreCalls
  <1>5. CASE disk.key /\ Step("delete_key", Raised, WithoutKey(disk))
    <2>1. pc = "delete_key" /\ pc' = AfterDelete /\ disk' = WithoutKey(disk)
      BY <1>5 DEF Step, Goto, Move, Raised, Caught, Deleting
    <2>2. DeleteEffects
      BY <1>0, <2>1, KeyDeleted, Numbers DEF DeleteEffects, Readable
    <2> QED BY <1>2, <2>1, <2>2 DEF DeleteSteps, Deleting
  <1>6. CASE HasOrMakesKey(disk) /\ Step("write_key", Raised, WithKey(disk))
    <2>1. pc = "write_key" /\ pc' = Raised /\ SameDisk
      BY <1>6, Numbers DEF Step, Goto, Move, WithKey, HasOrMakesKey, SameDisk, Readable, Disks
    <2>2. CASE job.cmd = "protect"
      <3>1. pc' = "drop_enc" /\ pc \in Caught
        BY <2>1, <2>2 DEF Raised, Caught
      <3> QED BY <1>0, <1>1, <2>1, <2>2, <3>1, RaisedKept DEF Next
    <2>3. CASE job.cmd # "protect"
      <3>1. job.cmd \in {"save", "login"}
        BY <1>3, <2>1, <2>3 DEF Safe, UnprotectKept, RecoverKept, ResolveProtectedKept,
                          ResolveFileKept, TidyKept, DeleteSteps, Deleting
      <3>2. pc' = "idle"
        BY <2>1, <2>3 DEF Raised, Deleting
      <3> QED BY <1>0, <2>1, <3>1, <3>2, LetGoKept DEF Next
    <2> QED BY <2>2, <2>3
  <1>7. CASE DiskFault
    <2>1. /\ SameDisk /\ disk' = disk /\ pc' = IF pc \in Suppressed THEN Then ELSE Raised
          /\ NoFault /\ ~NoFault' /\ pc # "idle" /\ pc # "saved"
      BY <1>1, <1>7 DEF DiskFault, Move, SameDisk, OneKindOfFailure, NoFault, TypeInv, TypeOK
    <2>2. CASE pc \in DeleteSteps
      <3>1. pc' = AfterDelete
        BY <2>1, <2>2 DEF DeleteSteps, Deleting, Suppressed, Then, Raised, Caught
      <3>2. DeleteEffects
        BY <1>0, <2>1, <3>1 DEF DeleteEffects
      <3> QED BY <1>2, <2>1, <2>2, <3>2
    <2>3. CASE pc \in Suppressed \ DeleteSteps /\ pc' # "idle"
      BY <1>0, <2>1, <2>3, SuppressedKept DEF Next
    <2>4. CASE pc \in Caught /\ job.cmd = "protect"
      <3>1. pc' = "drop_enc"
        BY <2>1, <2>4 DEF Raised, Suppressed, Caught
      <3> QED BY <1>0, <2>1, <2>4, <3>1, RaisedKept DEF Next
    <2>5. CASE pc' = "idle" /\ ~(pc \in Caught /\ job.cmd = "protect")
      <3>1. pc \notin {"protect_move", "protect_restore"}
        BY <2>5 DEF Caught, TypeInv, JobKnown, ProtectSteps
      <3> QED BY <1>0, <2>1, <2>5, <3>1, LetGoKept DEF Next
    <2> QED BY <2>1, <2>2, <2>3, <2>4, <2>5 DEF Raised, DeleteSteps
  <1>8. CASE Crash
    <2>1. /\ SameDisk /\ pc # "idle" /\ pc' = "idle" /\ ~NoCrash' /\ NoFault'
      BY <1>1, <1>8 DEF Crash, Move, Idle, SameDisk, OneKindOfFailure, NoCrash, TypeInv, TypeOK
    <2> QED BY <1>0, <1>1, <2>1, LetGoKept DEF Next
  <1> QED BY <1>4, <1>5, <1>6, <1>7, <1>8 DEF Failure, KeystoreTimesOut

(* The initial profile keeps its one login in its files. *)
LEMMA InitKept == Init => Safe
  <1> SUFFICES ASSUME Init PROVE Safe
    OBVIOUS
  <1>1. TypeInv /\ FreshInv
    BY InitTyped, InitFresh
  <1>2. /\ NewDisk.mode = "file" /\ NewDisk.enc = NoEnc /\ NewDisk.marker = NoMarker
        /\ \A older \in BOOLEAN : /\ LoggedInDisk(older).mode = "file"
                                  /\ LoggedInDisk(older).enc = NoEnc
                                  /\ LoggedInDisk(older).marker = NoMarker
    BY DEF NewDisk, LoggedInDisk
  <1>3. disk.mode = "file" /\ disk.enc = NoEnc /\ disk.marker.op = "none"
    <2>1. disk = NewDisk \/ \E older \in BOOLEAN : disk = LoggedInDisk(older)
      BY DEF Init
    <2> QED BY <1>2, <2>1, StoreMarks
  <1>4. /\ acked = disk.plain["cookies"].c
        /\ \A f \in Files : disk.plain[f].c <= disk.plain["cookies"].c
    BY <1>1 DEF Init, FreshInv
  <1>5. Anchored /\ FilesBacked /\ EnvelopeBacked /\ MarkerKept
    BY <1>1, <1>3, <1>4, Numbers
       DEF Anchored, InCookies, FilesBacked, EnvelopeBacked, Backed, MarkerKept, Readable
  <1> QED BY <1>5 DEF Init, Safe, Idle, NoPending, NoJob

(* Where each version of a login is, the two places a migration moves it   *)
(* between and a quarantine that a crash left included, is kept by every   *)
(* step while only one kind of failure happens.                            *)
LEMMA NextKept ==
    ASSUME TypeInv, FreshInv, KeepInv, [Next]_vars
    PROVE  KeepInv'
  <1> SUFFICES ASSUME OneKindOfFailure', ~outdated' PROVE Safe'
    BY DEF KeepInv
  <1>0. ~outdated
    BY OutdatedStays
  <1>1. OneKindOfFailure /\ Safe
    <2>1. TypeInv' /\ spent'.crash >= spent.crash /\ spent'.fault >= spent.fault
      BY NextTyped, SpentOnlyGrows
    <2> QED BY <1>0, <2>1 DEF KeepInv, OneKindOfFailure, NoCrash, NoFault, TypeInv, TypeOK
  <1>2. CASE Begin
    BY <1>1, <1>2, BeginKept
  <1>3. CASE Unlocked
    BY <1>1, <1>3, UnlockedKept
  <1>4. CASE Failure
    BY <1>1, <1>4, FailureKept
  <1>5. CASE UNCHANGED vars
    <2>1. UNCHANGED <<disk, pc, job, acked, spent>>
      BY <1>5 DEF vars
    <2>2. Idle' = Idle
      BY <2>1 DEF Idle
    <2> QED BY <1>1, <2>1, <2>2, KeptUnchanged DEF Safe
  <1>6. CASE Continue
    <2>1. CASE DeleteCredentials
      <3>1. pc \in DeleteSteps /\ DeleteEffects
        BY <2>1, DeleteDoes DEF DeleteCredentials, DeleteMark, DeleteKey, DeleteEnc,
                                DeleteCleanup, DeleteClear, Step, DeleteSteps, Deleting
      <3>2. spent' = spent
        BY <1>6, HolderSpendsNothing
      <3> QED BY <1>1, <3>1, <3>2, DeleteKept DEF NoFault
    <2>2. CASE MigrateToProtected
      BY <1>1, <2>2, ProtectStepsKept, SharedKept
    <2> QED BY <1>1, <1>6, <2>1, <2>2, WriteKept, UnprotectStepsKept, ReconcileKept,
               SaveProfileKept, ResolveKept DEF Continue
  <1> QED BY <1>2, <1>3, <1>4, <1>5, <1>6 DEF Next

(* KeepInv is an invariant of the specification. *)
LEMMA AlwaysKept == Spec => []KeepInv
  <1>1. Init => KeepInv
    BY InitKept DEF KeepInv
  <1>2. TypeInv /\ FreshInv /\ KeepInv /\ [Next]_vars => KeepInv'
    BY NextKept
  <1> QED BY <1>1, <1>2, AlwaysTyped, AlwaysFresh, PTL DEF Spec

(* Each of the places that KeepInv speaks of holds a copy. *)
LEMMA CopiesThere ==
    ASSUME TypeInv, NEW v \in Nat
    PROVE  /\ \A f \in Files : disk.plain[f].c >= v => \E w \in Copies(disk) : w >= v
           /\ \A i \in Ids, f \in Files : disk.quar[i][f].c >= v => \E w \in Copies(disk) : w >= v
           /\ Readable(disk) /\ disk.enc.c >= v => \E w \in Copies(disk) : w >= v
           /\ Shelved(v) => \E w \in Copies(disk) : w >= v
           /\ job.id \in Ids /\ Tops(v) => \E w \in Copies(disk) : w >= v
  <1>1. \A f \in Files : disk.plain[f].c \in Copies(disk)
    BY DEF Copies
  <1>2. \A i \in Ids, f \in Files : disk.quar[i][f].c \in Copies(disk)
    BY DEF Copies
  <1>3. Readable(disk) => disk.enc.c \in Copies(disk)
    BY DEF Copies
  <1>4. Shelved(v) => \E w \in Copies(disk) : w >= v
    BY <1>2 DEF Shelved
  <1>5. job.id \in Ids /\ Tops(v) => \E w \in Copies(disk) : w >= v
    BY <1>1, <1>2, <1>4, Numbers DEF Tops, Aside
  <1> QED BY <1>1, <1>2, <1>3, <1>4, <1>5

(* While only one kind of failure happens - any number of crashes, or one  *)
(* refused file operation - the login a user may rely on is still on disk, *)
(* in a file, in a quarantine or in a ciphertext that can be opened,       *)
(* whatever commands run (set_storage_mode with its clean-up of residue,   *)
(* its two migrations and their rollbacks, save_profile,                   *)
(* resolve_storage_conflict, reconciliation) and however they overtake     *)
(* each other, until set_storage_mode acts on a check that does not hold   *)
(* any more when it has the lock, or acts without it.                      *)
THEOREM OneKindOfFailureKeepsTheLogin == Spec => []SurvivesOneKind
  <1>1. TypeInv /\ FreshInv /\ KeepInv => SurvivesOneKind
    <2> SUFFICES ASSUME TypeInv, FreshInv, Safe, OneKindOfFailure
                 PROVE  \E w \in Copies(disk) : w >= acked
      BY DEF SurvivesOneKind, CredentialSurvives, KeepInv
    <2>1. acked \in Nat /\ job.cmd \in {"none", "save", "login", "protect", "unprotect", "recover",
                                        "resolve_protected", "resolve_file", "tidy"}
      BY Numbers DEF Safe, TypeInv, TypeOK, Jobs
    <2>2. InCookies => \E w \in Copies(disk) : w >= acked
      BY <2>1, CopiesThere, Numbers DEF InCookies
    <2>3. InEnvelope => \E w \in Copies(disk) : w >= acked
      BY <2>1, CopiesThere DEF InEnvelope
    <2>4. Anchored => \E w \in Copies(disk) : w >= acked
      BY <2>2, <2>3 DEF Anchored
    <2>5. CASE job.cmd = "none"
      BY <2>4, <2>5 DEF Safe
    <2>6. CASE job.cmd \in {"save", "login"}
      <3>1. SaveKept /\ job.sec.c >= acked
        BY <2>6, Numbers DEF Safe, FreshInv
      <3>2. \/ Anchored
            \/ Readable(disk) /\ disk.enc.c = job.sec.c
            \/ disk.plain["cookies"].c = job.sec.c
        BY <3>1 DEF SaveKept
      <3> QED BY <2>1, <2>4, <3>1, <3>2, CopiesThere, Numbers
    <2>7. CASE job.cmd = "protect"
      <3>1. ProtectKept /\ job.id \in Ids
        BY <2>7 DEF Safe, ProtectKept, ProtectFiles
      <3>2. InCookies \/ Tops(acked) \/ Anchored \/ InEnvelope \/ Shelved(acked)
        BY <3>1, Numbers DEF ProtectKept, Holds, EncSecret, InEnvelope
      <3> QED BY <2>1, <2>2, <2>3, <2>4, <3>1, <3>2, CopiesThere
    <2>8. CASE job.cmd = "unprotect"
      <3>1. /\ acked <= job.sec.c \/ Shelved(acked)
            /\ \/ Readable(disk) /\ disk.enc.c = job.sec.c
               \/ disk.plain["cookies"].c = job.sec.c
        BY <2>8 DEF Safe, UnprotectKept
      <3> QED BY <2>1, <3>1, CopiesThere, Numbers
    <2>9. CASE job.cmd = "recover"
      BY <2>2, <2>4, <2>9 DEF Safe, RecoverKept, MarkerKept
    <2>10. CASE job.cmd \in {"resolve_protected", "resolve_file"}
      BY <2>2, <2>3, <2>10 DEF Safe, ResolveProtectedKept, ResolveFileKept
    <2>11. CASE job.cmd = "tidy"
      BY <2>2, <2>11 DEF Safe, TidyKept
    <2> QED BY <2>1, <2>5, <2>6, <2>7, <2>8, <2>9, <2>10, <2>11
  <1> QED BY <1>1, AlwaysTyped, AlwaysFresh, AlwaysKept, PTL

(* A refused file operation may make a login unavailable; it never brings  *)
(* a superseded one back: load_cached_tokens returns the newest login or   *)
(* none, with the lock free and nothing unfinished, until set_storage_mode *)
(* acts on a check that does not hold any more.                            *)
THEOREM RefusalsServeNothingOld == Spec => []NeverServesStale
  <1>1. TypeInv /\ KeepInv => NeverServesStale
    <2> SUFFICES ASSUME TypeInv, KeepInv, ~outdated, NoCrash, spent.fault <= 1, Idle,
                        Loaded(disk) # 0
                 PROVE  Loaded(disk) >= acked
      BY DEF NeverServesStale
    <2>1. Anchored
      BY DEF KeepInv, OneKindOfFailure, Safe
    <2>2. /\ disk.plain["cookies"].c >= acked
             \/ (InEnvelope /\ (disk.mode = "file" => disk.plain = NoFiles))
          /\ None.c = 0 /\ NoFiles["cookies"] = None /\ NoFiles["root"] = None
      BY <2>1 DEF Anchored, InCookies, Shelved, None, NoFiles, Files
    <2>3. disk.plain["cookies"] # None =>
              ReadPlain(disk.plain, disk.meta).c = disk.plain["cookies"].c
      BY ReadPlainSource, Numbers DEF Disks
    <2>4. CASE disk.mode = "protected" /\ (HasLegacy(disk) \/ disk.enc # NoEnc)
      <3>1. /\ Loaded(disk) = disk.enc.c
            /\ disk.plain["cookies"] = None \/ ReadPlain(disk.plain, disk.meta) = EncSecret(disk)
        BY <2>4 DEF Loaded
      <3>2. disk.plain["cookies"] # None => disk.plain["cookies"].c = disk.enc.c
        BY <2>3, <3>1 DEF EncSecret
      <3> QED BY <2>2, <3>1, <3>2, Numbers DEF InEnvelope
    <2>5. CASE ~(disk.mode = "protected" /\ (HasLegacy(disk) \/ disk.enc # NoEnc))
      <3>1. Loaded(disk) = IF disk.plain["cookies"] # None THEN disk.plain["cookies"].c
                           ELSE disk.plain["root"].c
        BY <2>5 DEF Loaded
      <3>2. InEnvelope => disk.mode = "file"
        BY <2>5, Numbers DEF InEnvelope, Readable, Disks
      <3> QED BY <2>2, <3>1, <3>2, Numbers, Loaded(disk) # 0 DEF Files
    <2> QED BY <2>4, <2>5
  <1> QED BY <1>1, AlwaysTyped, AlwaysKept, PTL

(* Which steps write in a quarantine directory. *)
LEMMA QuarantineSteps ==
    ASSUME TypeInv, [Next]_vars, disk'.quar # disk.quar
    PROVE  job.id \in Ids /\ (ProtectMove \/ ProtectRestore \/ DiscardAside \/ Restore)
  <1>0. disk \in Disks /\ JobKnown(pc, job)
    BY DEF TypeInv, TypeOK
  <1> USE <1>0 DEF Disks, Step, Goto, Move
  <1>1. \A m : SetMark(m).quar = disk.quar /\ SetMode(m).quar = disk.quar
    BY DEF SetMark, SetMode
  <1>2. \A f, s : Put(f, s).quar = disk.quar
    BY DEF Put
  <1>3. \A S : Remove(S).quar = disk.quar
    BY DEF Remove
  <1>4. /\ DropEnc.quar = disk.quar /\ WithKey(disk).quar = disk.quar
        /\ WithoutKey(disk).quar = disk.quar
    BY KeyDeleted DEF DropEnc, WithKey
  <1>5. ~UNCHANGED vars
    BY DEF vars
  <1>6. ~Begin
    <2>1. \A cmd : ~DecideSwitch(cmd)
      BY DEF DecideSwitch
    <2>2. ~StartProtect /\ ~ProtectNothing
      BY <1>1 DEF StartProtect, ProtectNothing
    <2>3. ~Unprotect
      BY <1>1 DEF Unprotect
    <2>4. ~StartUnprotect /\ ~ResolveFile
      BY <2>3 DEF StartUnprotect, ResolveFile
    <2>5. ~StartRecover /\ \A cmd, t : ~StartSave(cmd, t)
      BY DEF StartRecover, StartSave
    <2>6. ~ResolveProtected /\ ~DiscardInaccessible /\ ~ClearMarker
      BY <1>1 DEF ResolveProtected, DiscardInaccessible, ClearMarker
    <2> QED BY <2>1, <2>2, <2>4, <2>5, <2>6 DEF Begin
  <1>7. ~Unlocked
    BY <1>3, <1>4 DEF Unlocked, DecideTidy, TidyUnlink, TidyStep, TidyKey, GiveUp
  <1>8. ~Failure
    BY <1>4 DEF Failure, KeystoreRefuses, KeystoreTimesOut, DiskFault, Crash
  <1>9. ~WriteCredentials /\ ~DeleteCredentials
    <2>1. ~WriteCredentials
      BY <1>1, <1>4 DEF WriteCredentials, WriteMark, WriteKey, WriteCommit, WriteEnc, WriteClear
    <2>2. ~DeleteCredentials
      BY <1>1, <1>4 DEF DeleteCredentials, DeleteMark, DeleteKey, DeleteEnc, DeleteCleanup,
                        DeleteClear
    <2> QED BY <2>1, <2>2
  <1>10. ~MigrateToFile
    BY <1>1, <1>2, <1>4
       DEF MigrateToFile, UnprotectMark, UnprotectCookies, UnprotectMeta, UnprotectMode,
           UnprotectCommit, UnprotectEnc, UnprotectRoot
  <1>11. ~Reconcile
    BY <1>1, <1>3, <1>4
       DEF Reconcile, FinishMode, FinishMeta, FinishCookies, FinishRoot, AdoptMode, AdoptEnc,
           RevertMode
  <1>12. ~SaveProfile
    <2>1. ~SaveRead
      BY DEF SaveRead, DropEnc
    <2> QED BY <1>2, <1>3, <2>1 DEF SaveProfile, SaveCookies, SaveMeta, SaveRoot, SaveUnlink, Saved
  <1>13. ~ResolveConflict
    BY <1>1, <1>3, <1>4 DEF ResolveConflict, ResolveUnlink, ResolveEnc, ResolveMode
  <1>14. MigrateToProtected
    BY <1>5, <1>6, <1>7, <1>8, <1>9, <1>10, <1>11, <1>12, <1>13 DEF Next, Continue
  <1>15. ~(ProtectMark \/ ProtectVerify \/ ProtectRecheck \/ ProtectCommit \/ ProtectMeta
           \/ ProtectMode \/ ProtectCleanup \/ Clear \/ DropCreatedEnc)
    BY <1>1, <1>4
       DEF ProtectMark, ProtectVerify, ProtectRecheck, ProtectCommit, ProtectMeta, ProtectMode,
           ProtectCleanup, Clear, DropCreatedEnc
  <1>16. ProtectMove \/ ProtectRestore \/ DiscardAside \/ Restore
    BY <1>14, <1>15 DEF MigrateToProtected
  <1>17. job.id \in Ids
    BY <1>16 DEF ProtectMove, ProtectRestore, DiscardAside, Restore, JobKnown, ProtectSteps,
                 AsideSteps
  <1> QED BY <1>16, <1>17

(* A file that is moved aside does not overwrite one that is there; one    *)
(* that leaves the quarantine is back in its place or is discarded.        *)
LEMMA LeavesQuarantine ==
    ASSUME TypeInv, FreshInv, Safe, OneKindOfFailure, [Next]_vars, NEW i \in Ids, NEW f \in Files,
           disk.quar[i][f].c > disk'.quar[i][f].c
    PROVE  /\ i = job.id
           /\ \/ disk'.plain[f] = disk.quar[i][f]
              \/ /\ DiscardAside /\ disk'.enc = disk.enc /\ disk'.key = disk.key
                 /\ Aside # NoFiles
  <1>1. /\ job.id \in Ids /\ (ProtectMove \/ ProtectRestore \/ DiscardAside \/ Restore)
        /\ disk \in Disks /\ Aside \in [Files -> Secret]
        /\ disk.quar[i][f].c \in Nat
    BY QuarantineSteps, Numbers
  <1>2. None.c = 0 /\ \A S \in SUBSET Files : S # {} => First(S) \in S
    BY DEF None, First, Files
  <1>3. ~ProtectMove
    <2> SUFFICES ASSUME ProtectMove PROVE FALSE
      OBVIOUS
    <2> DEFINE g == First(Present(disk.plain))
    <2>1. g \in Files /\ disk.plain[g] # None /\ disk' = MoveAside(g)
      BY <1>2 DEF ProtectMove, Step, Goto, Move, Present
    <2> HIDE DEF g
    <2>2. job.cmd = "protect"
      BY DEF ProtectMove, Step, TypeInv, JobKnown, ProtectSteps
    <2>3. Aside[g] = None
      BY <2>1, <2>2 DEF Safe, ProtectKept, ProtectFiles
    <2>4. OnlyFile(g, disk, disk') /\ disk.quar[job.id][g].c = 0
      BY <1>1, <1>2, <2>1, <2>3, MoveEffects DEF Aside
    <2>5. disk'.quar[i][f] = disk.quar[i][f] \/ disk.quar[i][f].c = 0
      BY <1>1, <2>1, <2>4 DEF OnlyFile
    <2>6. disk'.quar[i][f].c \in Nat
      BY NextTyped DEF TypeInv, TypeOK, Disks, Secret, Version
    <2> QED BY <1>1, <2>5, <2>6
  <1>4. CASE \E g \in Files : disk' = MoveBack(g)
    <2>1. PICK g \in Files : disk' = MoveBack(g)
      BY <1>4
    <2>2. OnlyFile(g, disk, disk') /\ disk'.plain[g] = disk.quar[job.id][g]
      BY <1>1, <2>1, MoveEffects
    <2> QED BY <1>1, <2>2 DEF OnlyFile
  <1>5. CASE DiscardAside /\ Present(Aside) # {}
    <2>1. PICK g \in Present(Aside) : Goto(pc, [disk EXCEPT !.quar[job.id][g] = None])
      BY <1>5 DEF DiscardAside
    <2>2. g \in Files /\ disk' = [disk EXCEPT !.quar[job.id][g] = None] /\ Aside # NoFiles
      BY <2>1 DEF Present, NoFiles, Goto, Move
    <2>3. OnlyFile(g, disk, disk')
      BY <1>1, <2>2, MoveEffects
    <2> QED BY <1>1, <1>5, <2>2, <2>3 DEF OnlyFile
  <1>6. disk' # disk
    BY <1>1
  <1> QED BY <1>1, <1>2, <1>3, <1>4, <1>5, <1>6
          DEF ProtectRestore, Restore, CanGoBack, DiscardAside, Goto, Move, Present

(* Quarantined plaintext is destroyed only while what it holds is kept:    *)
(* the rmtree of a committed migration, of a rollback and of               *)
(* reconcile_pending_operations leave a copy that is as new as each file   *)
(* they remove, while only one kind of failure happens and until           *)
(* set_storage_mode acts on a check that does not hold any more.           *)
THEOREM QuarantineDiscardsOnlyCopies == Spec => DiscardsOnlyCopies
  <1> DEFINE Covered(i, f) ==
                 LET c == disk.quar[i][f].c
                 IN  ~outdated' /\ OneKindOfFailure /\ c > disk'.quar[i][f].c
                         => \E v \in Copies(disk') : v >= c
  <1>1. ASSUME TypeInv, FreshInv, KeepInv, [Next]_vars, NEW i \in Ids, NEW f \in Files
        PROVE  Covered(i, f)
    <2>0. disk.quar[i][f].c \in Nat
      BY <1>1, Numbers
    <2> SUFFICES ASSUME ~outdated', OneKindOfFailure, NEW c \in Nat, c = disk.quar[i][f].c,
                        c > disk'.quar[i][f].c
                 PROVE  \E v \in Copies(disk') : v >= c
      BY <2>0
    <2>1. Safe /\ TypeInv'
      BY <1>1, NextTyped, OutdatedStays DEF KeepInv
    <2>2. \A g \in Files : disk'.plain[g].c \in Copies(disk')
      BY DEF Copies
    <2>3. Readable(disk') => disk'.enc.c \in Copies(disk')
      BY DEF Copies
    <2>4. \A j \in Ids, g \in Files : disk'.quar[j][g].c \in Copies(disk')
      BY DEF Copies
    <2>5. CASE disk'.plain[f] = disk.quar[i][f]
      BY <2>1, <2>2, <2>5
    <2>6. CASE /\ i = job.id /\ DiscardAside /\ Aside # NoFiles
               /\ disk'.enc = disk.enc /\ disk'.key = disk.key
      <3>1. /\ Readable(disk)
            /\ c <= disk.enc.c \/ Shelved(c)
        <4>1. pc \in {"protect_discard", "discard", "finish_discard"}
          BY <2>6 DEF DiscardAside
        <4>2. job.cmd \in {"protect", "recover"}
          <5>1. /\ job.cmd \in {"save", "login", "protect", "unprotect", "recover",
                                "resolve_protected", "resolve_file"}
            BY <1>1, <2>1, <4>1 DEF Safe, Idle, TidyKept, DeleteSteps, Deleting, TypeInv, TypeOK,
                                    Jobs
          <5>2. ~SaveKept /\ ~UnprotectKept /\ ~ResolveProtectedKept /\ ~ResolveFileKept
            BY <4>1 DEF SaveKept, UnprotectKept, ResolveProtectedKept, ResolveFileKept,
                        WriteSteps, WrittenSteps, DeleteSteps, Deleting
          <5> QED BY <2>1, <5>1, <5>2 DEF Safe
        <4>3. CASE job.cmd = "protect"
          <5>1. ProtectKept /\ pc = "protect_discard"
            BY <2>1, <2>6, <4>1, <4>3
               DEF Safe, ProtectKept, WriteSteps, RollbackSteps, DeleteSteps, Deleting
          <5>2. Holds(disk, job.sec) /\ ProtectFiles
            BY <5>1 DEF ProtectKept, WriteSteps, RollbackSteps, DeleteSteps, Deleting
          <5> QED BY <2>6, <5>2 DEF ProtectFiles, Holds, EncSecret, Aside
        <4>4. CASE job.cmd = "recover"
          <5>1. RecoverKept /\ pc \in {"discard", "finish_discard"}
            BY <2>1, <4>1, <4>4 DEF Safe, RecoverKept, DeleteSteps, Deleting
          <5>2. pc = "finish_discard"
            BY <2>6, <5>1 DEF RecoverKept, MarkerKept, Aside, DeleteSteps, Deleting
          <5>3. Committed(disk) /\ job.id = disk.marker.id /\ MarkerKept
            BY <5>1, <5>2 DEF RecoverKept, DeleteSteps, Deleting
          <5>4. Holds(disk, disk.marker.sec) /\ (c <= disk.marker.sec.c \/ Shelved(c))
            BY <2>6, <5>3 DEF MarkerKept, Committed
          <5> QED BY <5>4 DEF Holds, EncSecret
        <4> QED BY <4>2, <4>3, <4>4
      <3>2. Readable(disk') /\ disk'.enc.c = disk.enc.c
        BY <2>6, <3>1 DEF Readable
      <3>3. Shelved(c) => Shelved(c)'
        BY <1>1, ShelvedStays
      <3>4. Shelved(c)' => \E v \in Copies(disk') : v >= c
        BY <2>4 DEF Shelved
      <3> QED BY <2>3, <3>1, <3>2, <3>3, <3>4
    <2> QED BY <1>1, <2>1, <2>5, <2>6, LeavesQuarantine
  <1>2. TypeInv /\ FreshInv /\ KeepInv /\ [Next]_vars
            => [\A i \in Ids, f \in Files : Covered(i, f)]_vars
    BY <1>1
  <1> QED BY <1>2, AlwaysTyped, AlwaysFresh, AlwaysKept, PTL DEF Spec, DiscardsOnlyCopies
===============================================================================
