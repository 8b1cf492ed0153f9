--------------------------- MODULE StorageMigration ---------------------------
(***************************************************************************)
(* How one profile changes between file mode and protected mode, how       *)
(* logins are saved meanwhile, and how an interrupted change is recovered  *)
(* (core/auth_migration.py, core/credential_store.py, the save path of     *)
(* core/auth.py and the storage commands of services/auth_storage.py).     *)
(*                                                                         *)
(* Every command that writes holds the profile's inter-process FileLock,   *)
(* so at most one of them is under way: pc is where its holder stands      *)
(* ("idle": nobody holds the lock) and job what it remembers.  A step is   *)
(* one file replaced, moved or unlinked, or one call to the keystore; a    *)
(* crash may come between any two.  What set_storage_mode does without the *)
(* lock is kept apart, in pending, and interleaves with the holder.        *)
(***************************************************************************)
EXTENDS CredentialDisk

CONSTANTS
    MaxCrashes,  \* bound: processes killed while they hold the lock
    MaxFaults,   \* bound: file operations that the OS refuses
    Commands     \* the commands this instance lets users run

AllCommands == {"protect", "unprotect", "save", "login", "recover",
                "resolve", "clear_marker", "tidy"}

ASSUME BudgetAssumption == MaxCrashes \in Nat /\ MaxFaults \in Nat
ASSUME CommandsAssumption == Commands \subseteq AllCommands

VARIABLES
    disk,     \* the profile's files, its keystore entry and its operation marker
    pc,       \* the lock holder's next step, "idle" when the lock is free
    job,      \* the lock holder's local variables
    pending,  \* what set_storage_mode decided before taking the lock, or without it
    acked,    \* ghost: the login a user may rely on (saved last, or chosen to keep)
    spent,    \* how much of each bound is used
    outdated  \* ghost: set_storage_mode has acted on a check that did not hold any more

vars == <<disk, pc, job, pending, acked, spent, outdated>>

Steps == {"protect_mark", "protect_verify", "protect_move", "protect_commit",
          "protect_restore", "protect_meta", "protect_mode", "protect_cleanup",
          "protect_discard", "drop_enc", "restore", "discard", "clear",
          "write_mark", "write_key", "write_commit", "write_enc", "write_clear",
          "delete_mark", "delete_key", "delete_enc", "delete_cleanup", "delete_clear",
          "unprotect_mark", "unprotect_cookies", "unprotect_meta", "unprotect_mode",
          "unprotect_commit", "unprotect_enc", "unprotect_root",
          "finish_discard", "finish_mode", "finish_meta", "finish_cookies", "finish_root",
          "adopt_mode", "adopt_enc", "revert_mode",
          "save_read", "save_cookies", "save_meta", "save_root", "save_unlink", "saved",
          "resolve_unlink", "resolve_enc", "resolve_mode"}

Jobs == [cmd : {"none", "protect", "unprotect", "recover", "save", "login",
                "resolve_protected", "resolve_file", "tidy"},
         id : 0 .. MaxMigrations, sec : Secret, encPre : BOOLEAN, keyPre : BOOLEAN]
NoJob == [cmd |-> "none", id |-> 0, sec |-> None, encPre |-> FALSE, keyPre |-> FALSE]

Pendings == [switch : {"none", "protect", "unprotect"},
             tidy : {"none", "enc", "key", "cookies", "auth"}]
NoPending == [switch |-> "none", tidy |-> "none"]

(* A profile that never logged in, and one whose files are from file mode,  *)
(* perhaps with the auth.json of an older release beside them.             *)
NewDisk == [mode |-> "file", plain |-> NoFiles, meta |-> 0, enc |-> NoEnc, key |-> FALSE,
            marker |-> NoMarker, quar |-> [i \in Ids |-> NoFiles]]
LoggedInDisk(older) ==
    LET login == [c |-> 1, t |-> 1]
    IN  [NewDisk EXCEPT !.meta = 1,
                        !.plain = [f \in Files |->
                            CASE f = "cookies" -> [login EXCEPT !.t = 0]
                              [] f = "auth" -> IF older THEN login ELSE None
                              [] f = "root" -> IF IsDefault THEN login ELSE None]]

Init ==
    /\ disk \in {NewDisk, LoggedInDisk(FALSE), LoggedInDisk(TRUE)}
    /\ acked = disk.plain["cookies"].c
    /\ pc = "idle" /\ job = NoJob /\ pending = NoPending
    /\ spent = [login |-> acked, migration |-> 0, crash |-> 0, fault |-> 0]
    /\ outdated = FALSE

-------------------------------------------------------------------------------
(* Steps of the lock holder. *)

Idle == pc = "idle"

(* The holder goes on at "to", or returns and lets go of the lock. *)
Move(to, d) ==
    /\ pc' = to
    /\ disk' = d
    /\ job' = IF to = "idle" THEN NoJob ELSE job
    /\ UNCHANGED <<pending, acked, outdated>>

Goto(to, d) == Move(to, d) /\ UNCHANGED spent
Step(from, to, d) == pc = from /\ Goto(to, d)

(* The lock is taken for a command whose locals are j. *)
Take(to, j) == Idle /\ pc' = to /\ job' = j

Marked(op, phase) == [op |-> op, phase |-> phase, id |-> job.id, sec |-> job.sec,
                      encPre |-> job.encPre, keyPre |-> job.keyPre]
StoreMarked(op, phase) == [NoMarker EXCEPT !.op = op, !.phase = phase]

(* Where write_credentials and delete_credentials return to. *)
AfterWrite == IF job.cmd = "protect" THEN "protect_verify" ELSE "save_meta"
\* mutant: the rollback forgets the files it moved aside
MutantDeleteSkipsRestore ==
    CASE job.cmd = "protect"   -> "discard"
      [] job.cmd = "unprotect" -> "unprotect_enc"
      [] job.cmd = "recover"   -> "clear"
      [] job.cmd = "tidy"      -> "idle"
      [] OTHER                 -> "resolve_mode"
AfterDelete ==
    CASE job.cmd = "protect"   -> "restore"
      [] job.cmd = "unprotect" -> "unprotect_enc"
      [] job.cmd = "recover"   -> "clear"
      [] job.cmd = "tidy"      -> "idle"
      [] OTHER                 -> "resolve_mode"

(* What follows a step whose failure is suppressed: the same as if it had  *)
(* succeeded.                                                              *)
Suppressed == {"write_clear", "delete_clear", "protect_discard", "clear", "drop_enc",
               "discard", "unprotect_enc", "finish_discard", "finish_meta",
               "finish_cookies", "finish_root", "adopt_enc", "save_unlink",
               "resolve_unlink", "resolve_enc"}
Then ==
    CASE pc = "write_clear"     -> AfterWrite
      [] pc = "delete_clear"    -> AfterDelete
      [] pc = "protect_discard" -> "clear"
      [] pc = "drop_enc"        -> IF job.keyPre THEN AfterDelete ELSE "delete_mark"
      [] pc = "discard"         -> IF job.cmd = "recover" THEN "drop_enc" ELSE "clear"
      [] pc = "unprotect_enc"   -> IF IsDefault THEN "unprotect_root" ELSE "clear"
      [] pc = "finish_discard"  -> "finish_mode"
      [] pc = "finish_meta"     -> "finish_cookies"
      [] pc = "finish_cookies"  -> IF IsDefault THEN "finish_root" ELSE "clear"
      [] pc = "finish_root"     -> "clear"
      [] pc \in {"adopt_enc", "resolve_enc"} -> "delete_mark"
      [] pc = "save_unlink"     -> "saved"
      [] pc = "resolve_unlink"  -> "resolve_mode"
      [] OTHER                  -> "idle"

(* Where an exception of the other steps lands: the rollback of the        *)
(* migration, the caller that suppresses whatever delete_credentials       *)
(* raises, or the user.                                                    *)
Caught == {"write_mark", "write_key", "write_commit", "write_enc", "protect_verify",
           "protect_move", "protect_restore", "protect_commit", "protect_meta",
           "protect_mode", "protect_cleanup"}
Deleting == {"delete_mark", "delete_key", "delete_enc", "delete_cleanup"}
Raised ==
    IF job.cmd = "protect" /\ pc \in Caught THEN "drop_enc"
    ELSE IF pc \in Deleting THEN AfterDelete
    ELSE "idle"

SetMark(m) == [disk EXCEPT !.marker = m]
SetMode(m) == [disk EXCEPT !.mode = m]
Put(f, s) == [disk EXCEPT !.plain[f] = s]
Remove(S) == [disk EXCEPT !.plain = [f \in Files |-> IF f \in S THEN None ELSE @[f]]]

-------------------------------------------------------------------------------
(* CredentialStore.write_credentials *)

WriteMark == Step("write_mark", "write_key", SetMark(StoreMarked("write", "preparing")))

(* ensure_key makes a key only where no ciphertext could depend on another. *)
\* mutant: ensure_key is called with allow_create=True
MutantAlwaysMakesKey(d) == TRUE
HasOrMakesKey(d) == d.key \/ d.enc = NoEnc
WithKey(d) == [d EXCEPT !.key = TRUE]
WriteKey == HasOrMakesKey(disk) /\ Step("write_key", "write_commit", WithKey(disk))

WriteCommit == Step("write_commit", "write_enc", SetMark(StoreMarked("write", "committed")))
WriteEnc ==
    Step("write_enc", "write_clear",
         [disk EXCEPT !.enc = [c |-> job.sec.c, t |-> job.sec.t, sealed |-> TRUE]])
WriteClear == Step("write_clear", Then, SetMark(NoMarker))

WriteCredentials == WriteMark \/ WriteKey \/ WriteCommit \/ WriteEnc \/ WriteClear

(* CredentialStore.delete_credentials *)

DeleteMark == Step("delete_mark", "delete_key", SetMark(StoreMarked("delete", "preparing")))

(* The worker raises when there is no entry to delete. *)
WithoutKey(d) == [d EXCEPT !.key = FALSE, !.enc.sealed = FALSE]
DeleteKey == disk.key /\ Step("delete_key", "delete_enc", WithoutKey(disk))

DropEnc == [disk EXCEPT !.enc = NoEnc]
DeleteEnc == Step("delete_enc", "delete_cleanup", DropEnc)
DeleteCleanup ==
    Step("delete_cleanup", "delete_clear", SetMark(StoreMarked("delete", "cleanup")))
DeleteClear == Step("delete_clear", Then, SetMark(NoMarker))

DeleteCredentials ==
    DeleteMark \/ DeleteKey \/ DeleteEnc \/ DeleteCleanup \/ DeleteClear

-------------------------------------------------------------------------------
(* set_storage_mode, before the lock: the marker, the mode and a conflict  *)
(* between the copies are checked, then the migration waits for the lock.  *)
(* Only decrypting the ciphertext takes the lock, for the moment of it.    *)

Unfinished == disk.marker # NoMarker

DecideSwitch(cmd) ==
    /\ cmd \in Commands /\ pending.switch = "none"
    /\ ~Unfinished
    /\ disk.mode = (IF cmd = "protect" THEN "file" ELSE "protected")
    /\ BothCopies(disk) => Idle
    /\ BothCopies(disk) => CopiesAgree(disk)
    /\ pending' = [pending EXCEPT !.switch = cmd]
    /\ UNCHANGED <<disk, pc, job, acked, spent, outdated>>

(* The mode is already the one asked for: the other copy, when it says the *)
(* same, is residue, and is cleaned up without the lock.                   *)
DecideTidy ==
    /\ "tidy" \in Commands /\ pending.tidy = "none" /\ Idle
    /\ ~Unfinished /\ CopiesAgree(disk)
    /\ disk.mode = "protected" => HasLegacy(disk)
    /\ pending' = [pending EXCEPT !.tidy = IF disk.mode = "file" THEN "enc" ELSE "cookies"]
    /\ UNCHANGED <<disk, pc, job, acked, spent, outdated>>

(* A change rests on what was seen before the lock, or without it: it is   *)
(* outdated when another command is under way or left something unfinished *)
(* meanwhile, or when what the check had found does not hold any more.     *)
Acts(sound) == outdated' = (outdated \/ ~(Idle /\ ~Unfinished /\ sound))
TidyStep(from, to, d, sound) ==
    /\ pending.tidy = from
    /\ pending' = [pending EXCEPT !.tidy = to]
    /\ disk' = d
    /\ Acts(sound)
    /\ UNCHANGED <<pc, job, acked, spent>>
TidyUnlink ==
    \/ TidyStep("enc", "key", DropEnc, disk.mode = "file" /\ CopiesAgree(disk))
    \/ TidyStep("cookies", "auth", Remove({"cookies"}),
                disk.mode = "protected" /\ CopiesAgree(disk))
    \/ TidyStep("auth", "none", Remove({"auth"}), TRUE)
TidyKey ==
    /\ pending.tidy = "key"
    /\ Take("delete_mark", [NoJob EXCEPT !.cmd = "tidy"])
    /\ pending' = [pending EXCEPT !.tidy = "none"]
    /\ Acts(disk.enc = NoEnc)
    /\ UNCHANGED <<disk, acked, spent>>

(* The process dies, times out on the lock (LOCK_TIMEOUT_SECONDS) or finds *)
(* under it that the switch is no longer possible.                         *)
GiveUp ==
    /\ pending # NoPending
    /\ pending' \in {[pending EXCEPT !.switch = "none"], [pending EXCEPT !.tidy = "none"]}
    /\ pending' # pending
    /\ UNCHANGED <<disk, pc, job, acked, spent, outdated>>

-------------------------------------------------------------------------------
(* migrate_profile_to_protected *)

Decided(cmd) == pending.switch = cmd /\ pending' = [pending EXCEPT !.switch = "none"]

StartProtect ==
    /\ Idle /\ Decided("protect")
    /\ ~Unfinished /\ disk.mode = "file"
    /\ ReadPlain(disk.plain, disk.meta) # None
    /\ spent.migration < MaxMigrations
    /\ \E keyPre \in {disk.key, FALSE} :   \* has_key swallows a keystore that fails
          Take("protect_mark",
               [cmd |-> "protect", id |-> spent.migration + 1,
                sec |-> ReadPlain(disk.plain, disk.meta),
                encPre |-> disk.enc # NoEnc, keyPre |-> keyPre])
    /\ spent' = [spent EXCEPT !.migration = @ + 1]
    /\ UNCHANGED <<disk, acked, outdated>>

ProtectNothing ==
    /\ Idle /\ Decided("protect")
    /\ ~Unfinished /\ disk.mode = "file"
    /\ ReadPlain(disk.plain, disk.meta) = None
    /\ disk' = SetMode("protected")
    /\ UNCHANGED <<pc, job, acked, spent, outdated>>

\* mutant: the first marker already says committed
MutantCommitsFirst == Step("protect_mark", "write_mark", SetMark(Marked("protect", "committed")))
ProtectMark == Step("protect_mark", "write_mark", SetMark(Marked("protect", "preparing")))

Verified(d) == Readable(d) /\ EncSecret(d) = job.sec
ProtectVerify == Verified(disk) /\ Step("protect_verify", "protect_move", disk)

Aside == disk.quar[job.id]
MoveAside(f) == [disk EXCEPT !.plain[f] = None, !.quar[job.id][f] = disk.plain[f]]
MoveBack(f) == [disk EXCEPT !.plain[f] = Aside[f], !.quar[job.id][f] = None]

ProtectMove ==
    /\ Present(disk.plain) # {}
    /\ Step("protect_move", "protect_move", MoveAside(First(Present(disk.plain))))

(* The files moved aside must still give the secret that was encrypted.    *)
Unchanged(d) == ReadPlain(d.quar[job.id], d.meta) = job.sec
ProtectRecheck ==
    /\ pc = "protect_move" /\ Present(disk.plain) = {}
    /\ Goto(IF Unchanged(disk) THEN "protect_commit" ELSE "protect_restore", disk)
ProtectRestore ==
    /\ pc = "protect_restore"
    /\ IF Present(Aside) = {} THEN Goto("drop_enc", disk)
       ELSE Goto("protect_restore", MoveBack(First(Present(Aside))))

ProtectCommit == Step("protect_commit", "protect_meta", SetMark(Marked("protect", "committed")))
ProtectMeta == Step("protect_meta", "protect_mode", [disk EXCEPT !.meta = 0])
\* mutant: storage-mode.json is never switched
MutantKeepsMode == Step("protect_mode", "protect_cleanup", disk)
ProtectMode == Step("protect_mode", "protect_cleanup", SetMode("protected"))
ProtectCleanup ==
    Step("protect_cleanup", "protect_discard", SetMark(Marked("protect", "cleanup")))

(* rmtree of the quarantine directory, one file at a time in any order.    *)
\* mutant: the quarantine directory is never removed
MutantKeepsBackup ==
    /\ pc \in {"protect_discard", "discard", "finish_discard"}
    /\ Goto(Then, disk)
DiscardAside ==
    /\ pc \in {"protect_discard", "discard", "finish_discard"}
    /\ IF Present(Aside) = {} THEN Goto(Then, disk)
       ELSE \E f \in Present(Aside) : Goto(pc, [disk EXCEPT !.quar[job.id][f] = None])
Clear == Step("clear", "idle", SetMark(NoMarker))

(* "except Exception": the ciphertext and the key this migration made are  *)
(* taken back, and the files whose place is free are put back.             *)
DropCreatedEnc == Step("drop_enc", Then, IF job.encPre THEN disk ELSE DropEnc)
\* mutant: nothing is put back
MutantRestoresNothing == {}
CanGoBack == {f \in Present(Aside) : disk.plain[f] = None}
Restore ==
    /\ pc = "restore"
    /\ IF CanGoBack = {} THEN Goto("discard", disk)
       ELSE \E f \in CanGoBack : Goto("restore", MoveBack(f))

MigrateToProtected ==
    \/ ProtectMark \/ ProtectVerify \/ ProtectMove \/ ProtectRecheck \/ ProtectRestore
    \/ ProtectCommit \/ ProtectMeta \/ ProtectMode \/ ProtectCleanup
    \/ DiscardAside \/ Clear \/ DropCreatedEnc \/ Restore

-------------------------------------------------------------------------------
(* migrate_profile_to_file *)

Unprotect ==
    /\ Idle /\ ~Unfinished /\ disk.mode = "protected"
    /\ \/ disk.enc = NoEnc /\ disk' = SetMode("file") /\ UNCHANGED <<pc, job>>
       \/ /\ Readable(disk)
          /\ Take("unprotect_mark", [NoJob EXCEPT !.cmd = "unprotect", !.sec = EncSecret(disk)])
          /\ UNCHANGED disk
    /\ UNCHANGED spent

StartUnprotect ==
    /\ Decided("unprotect") /\ Unprotect
    /\ Acts(BothCopies(disk) => CopiesAgree(disk))
    /\ UNCHANGED acked

UnprotectMark ==
    Step("unprotect_mark", "unprotect_cookies", SetMark(Marked("unprotect", "preparing")))
UnprotectCookies ==
    Step("unprotect_cookies", "unprotect_meta", Put("cookies", [c |-> job.sec.c, t |-> 0]))
UnprotectMeta == Step("unprotect_meta", "unprotect_mode", [disk EXCEPT !.meta = job.sec.t])
UnprotectMode == Step("unprotect_mode", "unprotect_commit", SetMode("file"))
UnprotectCommit ==
    Step("unprotect_commit", "delete_mark", SetMark(Marked("unprotect", "committed")))
UnprotectEnc == Step("unprotect_enc", Then, DropEnc)
UnprotectRoot == Step("unprotect_root", "clear", Put("root", job.sec))

MigrateToFile ==
    UnprotectMark \/ UnprotectCookies \/ UnprotectMeta \/ UnprotectMode \/ UnprotectCommit
    \/ UnprotectEnc \/ UnprotectRoot

-------------------------------------------------------------------------------
(* reconcile_pending_operations, on every load of the profile.  Where it   *)
(* needs the keystore and gets no answer it leaves everything as it is.    *)

Published(d) ==   \* the export of an interrupted migrate_profile_to_file is complete
    /\ d.plain["cookies"] # None
    /\ Readable(d)
    /\ EncSecret(d) = [c |-> d.plain["cookies"].c, t |-> d.meta]

StartRecover ==
    /\ "recover" \in Commands /\ Unfinished
    /\ LET m == disk.marker
       IN  Take(CASE m.op = "protect" /\ m.phase = "preparing" -> "restore"
                  [] m.op = "protect" /\ m.phase # "preparing" -> "finish_discard"
                  [] m.op = "unprotect" -> IF Published(disk) THEN "adopt_mode" ELSE "revert_mode"
                  [] OTHER -> "clear",
                [cmd |-> "recover", id |-> m.id, sec |-> m.sec,
                 encPre |-> m.encPre, keyPre |-> m.keyPre])
    /\ UNCHANGED <<disk, pending, acked, spent, outdated>>

(* committed or cleanup: the migration is carried to its end; plaintext    *)
(* that differs from the marker's hash is left for the user.               *)
FinishMode == Step("finish_mode", "finish_meta", SetMode("protected"))
FinishMeta == Step("finish_meta", Then, [disk EXCEPT !.meta = 0])
\* mutant: the hash of the plaintext is not compared
MutantRemovesDivergent(f) == TRUE
Migrated(f) == disk.plain[f].c = job.sec.c
FinishCookies == Step("finish_cookies", Then, Remove({f \in {"cookies"} : Migrated(f)}))
FinishRoot == Step("finish_root", Then, Remove({f \in {"root"} : Migrated(f)}))

AdoptMode == Step("adopt_mode", "adopt_enc", SetMode("file"))
AdoptEnc == Step("adopt_enc", Then, DropEnc)
\* mutant: reverting returns without clearing the marker
MutantKeepsMarker == Step("revert_mode", "idle", SetMode("protected"))
RevertMode == Step("revert_mode", "clear", SetMode("protected"))

Reconcile ==
    FinishMode \/ FinishMeta \/ FinishCookies \/ FinishRoot \/ AdoptMode \/ AdoptEnc \/ RevertMode

-------------------------------------------------------------------------------
(* AuthManager.save_profile ("login") and save_tokens_to_cache ("save"),   *)
(* which adds the root mirror.  Neither looks at an unfinished operation.  *)

StartSave(cmd, withTokens) ==
    LET v == spent.login + 1
    IN  /\ cmd \in Commands /\ v <= MaxLogins
        /\ Take(CASE disk.mode = "file" -> "save_cookies"
                  [] disk.mode = "protected" /\ disk.enc # NoEnc -> "save_read"
                  [] OTHER -> "write_mark",
                [NoJob EXCEPT !.cmd = cmd, !.sec = [c |-> v, t |-> IF withTokens THEN v ELSE 0]])
        /\ spent' = [spent EXCEPT !.login = v]
        /\ UNCHANGED <<disk, pending, acked, outdated>>

(* save_profile reads the old ciphertext first; a reader that finds a      *)
(* "delete" marker and no key completes that deletion.                     *)
DeletionIntended(d) == d.marker.op = "delete" /\ ~d.key
SaveRead ==
    Step("save_read", "write_mark",
         IF DeletionIntended(disk) THEN [DropEnc EXCEPT !.marker = NoMarker] ELSE disk)

SaveCookies == Step("save_cookies", "save_meta", Put("cookies", [c |-> job.sec.c, t |-> 0]))
SaveMeta ==
    Step("save_meta",
         IF disk.mode = "protected" THEN "save_unlink"
         ELSE IF job.cmd = "save" /\ IsDefault THEN "save_root" ELSE "saved",
         [disk EXCEPT !.meta = IF disk.mode = "protected" THEN 0 ELSE job.sec.t])
SaveRoot == Step("save_root", "saved", Put("root", job.sec))
SaveUnlink == Step("save_unlink", Then, Remove({"cookies", "auth"}))
Saved ==
    /\ pc = "saved" /\ pc' = "idle" /\ job' = NoJob
    /\ acked' = job.sec.c
    /\ UNCHANGED <<disk, pending, spent, outdated>>

SaveProfile == SaveRead \/ SaveCookies \/ SaveMeta \/ SaveRoot \/ SaveUnlink \/ Saved

-------------------------------------------------------------------------------
(* resolve_storage_conflict: the user names the copy to keep. *)

CanResolve == "resolve" \in Commands /\ ~Unfinished /\ UNCHANGED <<pending, outdated>>

ResolveProtected ==
    /\ CanResolve
    /\ Readable(disk)
    /\ Take("resolve_unlink", [NoJob EXCEPT !.cmd = "resolve_protected"])
    /\ acked' = disk.enc.c
    /\ UNCHANGED <<disk, spent>>

ResolveFile ==
    /\ CanResolve
    /\ IF disk.plain["cookies"] # None
       THEN /\ Take(IF disk.enc # NoEnc THEN "resolve_enc" ELSE "delete_mark",
                    [NoJob EXCEPT !.cmd = "resolve_file"])
            /\ acked' = disk.plain["cookies"].c
            /\ UNCHANGED <<disk, spent>>
       ELSE Unprotect /\ acked' = IF disk.enc # NoEnc THEN disk.enc.c ELSE acked

(* --discard-inaccessible: only what nobody can decrypt is given up. *)
DiscardInaccessible ==
    /\ CanResolve
    /\ ~Readable(disk)
    /\ Take(IF disk.enc # NoEnc THEN "resolve_enc" ELSE "delete_mark",
            [NoJob EXCEPT !.cmd = "resolve_file"])
    /\ UNCHANGED <<disk, acked, spent>>

(* --clear-marker *)
ClearMarker ==
    /\ "clear_marker" \in Commands /\ Idle /\ Unfinished
    /\ NothingAside(disk)
    /\ disk' = SetMark(NoMarker)
    /\ UNCHANGED <<pc, job, pending, acked, spent, outdated>>

ResolveUnlink == Step("resolve_unlink", Then, Remove(Files))
ResolveEnc == Step("resolve_enc", Then, DropEnc)
ResolveMode ==
    Step("resolve_mode", "idle",
         SetMode(IF job.cmd = "resolve_protected" THEN "protected" ELSE "file"))
ResolveConflict == ResolveUnlink \/ ResolveEnc \/ ResolveMode

-------------------------------------------------------------------------------
(* Failures *)

(* The keystore worker answers with an error, or not before its deadline   *)
(* (and then may have done what it was asked).                             *)
KeystoreCalls == {"protect_verify", "write_mark", "write_key", "delete_mark", "delete_key"}
KeystoreRefuses == pc \in KeystoreCalls /\ Goto(Raised, disk)
KeystoreTimesOut ==
    \/ HasOrMakesKey(disk) /\ Step("write_key", Raised, WithKey(disk))
    \/ disk.key /\ Step("delete_key", Raised, WithoutKey(disk))

(* The OS refuses a file operation; a directory that refuses one unlink    *)
(* refuses the rest of that step too.                                      *)
DiskFault ==
    /\ pc \notin {"idle", "saved", "protect_verify", "write_key", "delete_key", "save_read"}
    /\ spent.fault < MaxFaults
    /\ spent' = [spent EXCEPT !.fault = @ + 1]
    /\ Move(IF pc \in Suppressed THEN Then ELSE Raised, disk)

Crash ==
    /\ ~Idle
    /\ spent.crash < MaxCrashes
    /\ spent' = [spent EXCEPT !.crash = @ + 1]
    /\ Move("idle", disk)

-------------------------------------------------------------------------------

Begin ==
    \/ \E cmd \in {"protect", "unprotect"} : DecideSwitch(cmd)
    \/ StartProtect \/ ProtectNothing \/ StartUnprotect
    \/ StartRecover
    \/ \E cmd \in {"save", "login"}, withTokens \in BOOLEAN : StartSave(cmd, withTokens)
    \/ ResolveProtected \/ ResolveFile \/ DiscardInaccessible \/ ClearMarker

Unlocked == DecideTidy \/ TidyUnlink \/ TidyKey \/ GiveUp

Continue ==
    \/ WriteCredentials \/ DeleteCredentials
    \/ MigrateToProtected \/ MigrateToFile
    \/ Reconcile \/ SaveProfile \/ ResolveConflict

Failure == KeystoreRefuses \/ KeystoreTimesOut \/ DiskFault \/ Crash

Next == Begin \/ Unlocked \/ Continue \/ Failure

Spec == Init /\ [][Next]_vars

-------------------------------------------------------------------------------
(* Properties *)

TypeOK ==
    /\ disk \in Disks
    /\ pc \in Steps \cup {"idle"}
    /\ job \in Jobs
    /\ pending \in Pendings
    /\ acked \in Version
    /\ spent \in [login : Version, migration : 0 .. MaxMigrations,
                 crash : 0 .. MaxCrashes, fault : 0 .. MaxFaults]
    /\ outdated \in BOOLEAN

(* A key in the keystore is the key the ciphertext was sealed with: no     *)
(* order of interrupted, failed or concurrent writes and deletions leaves  *)
(* an envelope beside a key that cannot open it (ensure_key is told not to *)
(* create one while credentials.enc exists).                               *)
KeyOpensCiphertext == disk.key /\ disk.enc # NoEnc => disk.enc.sealed

(* A login the user may rely on is never lost: whatever command is under   *)
(* way, crashed or failed, some copy on disk or in quarantine that can     *)
(* still be read holds it or a newer one.                                  *)
CredentialSurvives == \E v \in Copies(disk) : v >= acked

NoCrash == spent.crash = 0
NoFault == spent.fault = 0
OneKindOfFailure == NoFault \/ (NoCrash /\ spent.fault <= 1)

(* The same while nothing fails but processes that crash, or a single file *)
(* operation that the OS refuses (when a refusal makes a migration roll    *)
(* back and the rollback is interrupted too, the login can be lost), and   *)
(* set_storage_mode has not acted on an outdated check: other commands may *)
(* run between its checks and its turn, as long as they leave what it saw. *)
SurvivesOneKind == ~outdated /\ OneKindOfFailure => CredentialSurvives

(* Once the migration's marker says committed, the readable ciphertext     *)
(* holds the secret whose hash the marker keeps, however many processes    *)
(* crashed: this is what lets reconciliation destroy the quarantined       *)
(* plaintext instead of restoring it.                                      *)
CommittedMeansSealed ==
    ~outdated /\ NoFault /\ disk.marker.op = "protect" /\ disk.marker.phase # "preparing"
        => Readable(disk) /\ EncSecret(disk) = disk.marker.sec

(* Quarantined plaintext is destroyed only while its login is kept: the    *)
(* readable ciphertext, or another file, holds it or a newer one (the      *)
(* rmtree of migrate_profile_to_protected, of its rollback and of          *)
(* reconcile_pending_operations).                                          *)
DiscardsOnlyCopies ==
    [][\A i \in Ids, f \in Files :
           LET c == disk.quar[i][f].c
           IN  ~outdated' /\ OneKindOfFailure /\ c > disk'.quar[i][f].c
                   => \E v \in Copies(disk') : v >= c]_vars

(* With the lock free and nothing unfinished, a load returns exactly the   *)
(* login the user relies on, whatever switches, saves and resolutions ran  *)
(* and however the keystore failed them.                                   *)
ServesNewestLogin ==
    NoCrash /\ NoFault /\ Idle /\ ~Unfinished /\ acked # 0 => Loaded(disk) = acked

(* A refused file operation may make a login unavailable, but it does not  *)
(* bring a superseded one back silently: a load returns the newest or      *)
(* reports a problem (after a second refusal, in the rollback, it may fall *)
(* back to an old root mirror).                                            *)
NeverServesStale ==
    ~outdated /\ NoCrash /\ spent.fault <= 1 /\ Idle /\ ~Unfinished
        => Loaded(disk) = 0 \/ Loaded(disk) >= acked

(* "In Protected mode, credentials live in credentials.enc.  No plaintext  *)
(* cookies or auth.json files exist on disk" (docs/AUTHENTICATION.md:502), *)
(* as long as nothing crashed or was refused.                              *)
NoPlaintextWhenProtected ==
    NoCrash /\ NoFault /\ Idle /\ ~Unfinished /\ disk.mode = "protected"
        => Present(disk.plain) = {} /\ NothingAside(disk)

(* "Aborted before commitment: restore quarantined files if moved"         *)
(* (auth_migration.py): for reconciliation to find plaintext that a killed *)
(* migration left in quarantine, the marker must name its directory.       *)
QuarantineIsTracked ==
    Idle => \A i \in Ids : disk.quar[i] # NoFiles => disk.marker.op = "protect" /\ disk.marker.id = i

(* An unfinished operation does not stay unfinished: reconciliation runs   *)
(* on every load, and one that can reach the keystore always ends with the *)
(* marker gone, never in another unfinished operation.                     *)
UnfinishedIsResolved == Unfinished ~> (Idle /\ ~Unfinished)

(* A process that holds the lock goes on: every keystore call answers or   *)
(* times out.  The profile keeps being loaded, and the keystore is         *)
(* available in some of those loads.                                       *)
Fairness == WF_vars(Continue \/ KeystoreRefuses \/ KeystoreTimesOut) /\ SF_vars(StartRecover)
FairSpec == Spec /\ Fairness
===============================================================================
