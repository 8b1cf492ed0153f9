---------------------------- MODULE CredentialDisk ----------------------------
(***************************************************************************)
(* What one profile of the NotebookLM client keeps on disk and in the OS   *)
(* keystore, and the pure reads of it that the storage code makes.         *)
(*                                                                         *)
(* A saved login is abstracted to its version, a number that grows with    *)
(* every save: cookies of version c next to CSRF/session tokens of version *)
(* t are the secret [c |-> c, t |-> t].  Version 0 stands for "absent", so *)
(* two secrets are canonically equal exactly when the records are equal.   *)
(***************************************************************************)
EXTENDS Naturals

CONSTANTS
    MaxLogins,      \* bound: versions of a login that are ever saved
    MaxMigrations,  \* bound: switches to protected mode, each with its own quarantine
    IsDefault       \* is this the configured default profile (mirrored in root auth.json)

ASSUME BoundsAssumption == MaxLogins \in Nat \ {0} /\ MaxMigrations \in Nat
ASSUME DefaultAssumption == IsDefault \in BOOLEAN

Version == 0 .. MaxLogins
Ids == 1 .. MaxMigrations

Secret == [c : Version, t : Version]
None == [c |-> 0, t |-> 0]

(* The plaintext files of a profile: profiles/<p>/cookies.json, the legacy *)
(* profiles/<p>/auth.json and, for the default profile, root auth.json.    *)
Files == {"cookies", "auth", "root"}
NoFiles == [f \in Files |-> None]

(* credentials.enc; sealed: under the key that the keystore holds now.  A  *)
(* key is 32 random bytes, so a deleted one never comes back.              *)
Envelope == [c : Version, t : Version, sealed : BOOLEAN]
NoEnc == [c |-> 0, t |-> 0, sealed |-> FALSE]

(* operations/<p>.json, one file for the migrations and for CredentialStore *)
Markers == [op : {"none", "protect", "unprotect", "write", "delete"},
            phase : {"none", "preparing", "committed", "cleanup"},
            id : 0 .. MaxMigrations, sec : Secret,
            encPre : BOOLEAN, keyPre : BOOLEAN]
NoMarker == [op |-> "none", phase |-> "none", id |-> 0, sec |-> None,
             encPre |-> FALSE, keyPre |-> FALSE]

Disks == [mode : {"file", "protected"}, plain : [Files -> Secret], meta : Version,
          enc : Envelope, key : BOOLEAN, marker : Markers,
          quar : [Ids -> [Files -> Secret]]]

-------------------------------------------------------------------------------

Present(files) == {f \in Files : files[f] # None}

(* The order in which plaintext sources are read and moved aside. *)
First(S) == IF "cookies" \in S THEN "cookies" ELSE IF "auth" \in S THEN "auth" ELSE "root"

(* read_file_mode_credentials_from_paths: cookies of the first source that *)
(* is there; tokens of metadata.json, else of that source (cookies.json    *)
(* holds none).                                                            *)
ReadPlain(files, meta) ==
    LET src == files[First(Present(files))]
    IN  IF src = None THEN None
        ELSE [src EXCEPT !.t = IF meta # 0 THEN meta ELSE src.t]

EncSecret(d) == [c |-> d.enc.c, t |-> d.enc.t]

(* read_credentials succeeds, given a keystore that answers. *)
Readable(d) == d.enc # NoEnc /\ d.key /\ d.enc.sealed

HasLegacy(d) == {"cookies", "auth"} \cap Present(d.plain) # {}

(* The conflict check of set_storage_mode before a switch, and of its      *)
(* clean-up of residue: with both kinds of copy on disk it goes on only    *)
(* when it can read both and they are equal.                               *)
BothCopies(d) == d.enc # NoEnc /\ HasLegacy(d)
CopiesAgree(d) == Readable(d) /\ ReadPlain(d.plain, d.meta) = EncSecret(d)

(* The version load_cached_tokens returns while the keystore answers; 0    *)
(* when it raises or finds nothing.  Only a file-mode load of the default  *)
(* profile falls back to root auth.json.                                   *)
Loaded(d) ==
    IF d.mode = "protected" /\ (HasLegacy(d) \/ d.enc # NoEnc)
    THEN IF \/ ~Readable(d)
            \/ d.plain["cookies"] # None /\ ReadPlain(d.plain, d.meta) # EncSecret(d)
         THEN 0 ELSE d.enc.c
    ELSE IF d.plain["cookies"] # None THEN d.plain["cookies"].c ELSE d.plain["root"].c

(* The versions that some copy, on disk or in quarantine, still gives back. *)
Copies(d) == {d.plain[f].c : f \in Files}
             \cup {d.quar[i][f].c : i \in Ids, f \in Files}
             \cup {v \in {d.enc.c} : Readable(d)}

NothingAside(d) == \A i \in Ids : d.quar[i] = NoFiles
===============================================================================
