-------------------------- MODULE CredentialReads --------------------------
(***************************************************************************)
(* A protected profile as the threads of an MCP server read it: get_client *)
(* (mcp/tools/_utils.py), load_profile (core/auth.py) and read_credentials *)
(* (core/credential_store.py) with its cache of decrypted payloads, keyed  *)
(* by the revision of the envelope, and its single-flight loads; next to   *)
(* processes (this one too) that write and delete the credentials.         *)
(*                                                                         *)
(* A version is a state of the store.  The revision of an envelope is the  *)
(* version that its write made; its payload is called by the same number.  *)
(* Interrupted operations are in StorageMigration; here an operation fails *)
(* at its keystore call and leaves its marker behind.                      *)
(***************************************************************************)
EXTENDS Integers, FiniteSets

CONSTANTS
    Threads,        \* the threads that call get_client
    Nobody,         \* no thread
    Idle,           \* no read in progress
    MaxVersions     \* bound: states of the store

ASSUME ThreadsAssumption == Nobody \notin Threads
ASSUME VersionsAssumption == MaxVersions \in Nat \ {0}
ASSUME IdleAssumption == Idle \notin Nat

VARIABLES
    version,    \* ghost: the present state of the store
    enc,        \* the revision of credentials.enc, 0 when there is no such file
    key,        \* the keystore holds the key
    marker,     \* the operation marker
    writer,     \* the operation that holds the profile lock, and how far it is
    cache,      \* _CREDENTIAL_CACHE: the payload kept for each revision, 0 for none
    inflight,   \* _IN_FLIGHT_LOADS: the thread that loads each revision
    reader,     \* where each thread is
    began,      \* ghost: the version when its read began
    slot        \* _client: its login and its _auth_revision

store == <<version, enc, key, marker, writer>>
vars == <<version, enc, key, marker, writer, cache, inflight, reader, began, slot>>

Versions == 1..MaxVersions
Markers == {"none", "write", "delete"}
Writers == {"none", "write", "replaced", "written", "delete", "unlocked_key", "deleted"}

\* read_credentials: "looking" for file and marker, at the "revision", at the "lookup"
\* in the cache, "joining" or owning a load, "waiting" for the owner, "woken", under the
\* "locked" read, about to "store" the payload, at the "finish" of an owned load.
\* load_profile reads the revision for its tokens, unless the profile is "absent";
\* get_client installs the client.
Places == {"idle", "looking", "revision", "lookup", "joining", "waiting", "woken",
           "locked", "store", "finish", "tokens", "absent", "install"}
Reader == [at : Places, rev : 0..MaxVersions, login : 0..MaxVersions, owner : BOOLEAN,
           boss : Threads \cup {Nobody}, end : {"ok", "failed", "gone"}]
Rest == [at |-> "idle", rev |-> 0, login |-> 0, owner |-> FALSE, boss |-> Nobody, end |-> "ok"]

NoClient == [login |-> 0, rev |-> 0]

TypeOK ==
    /\ version \in Versions /\ enc \in 0..MaxVersions /\ key \in BOOLEAN
    /\ marker \in Markers /\ writer \in Writers
    /\ cache \in [Versions -> 0..MaxVersions]
    /\ inflight \in [Versions -> Threads \cup {Nobody}]
    /\ reader \in [Threads -> Reader]
    /\ \A t \in Threads : reader[t].at = "waiting" => reader[t].boss \in Threads
    /\ began \in [Threads -> Versions \cup {Idle}]
    /\ slot \in [login : 0..MaxVersions, rev : 0..MaxVersions]

Init ==
    /\ version = 1 /\ enc = 1 /\ key = TRUE
    /\ marker = "none" /\ writer = "none"
    /\ cache = [v \in Versions |-> 0]
    /\ inflight = [v \in Versions |-> Nobody]
    /\ reader = [t \in Threads |-> Rest]
    /\ began = [t \in Threads |-> Idle]
    /\ slot = NoClient

-----------------------------------------------------------------------------
\* write_credentials and delete_credentials, under the profile lock.

Free == writer = "none"
readers == <<inflight, reader, began, slot>>

StartWrite ==
    /\ Free /\ version < MaxVersions
    /\ marker' = "write" /\ writer' = "write"
    /\ UNCHANGED <<version, enc, key, cache, readers>>

\* The keystore is locked or does not answer, or it has lost the key of an envelope.
WriteFails ==
    /\ writer = "write"
    /\ writer' = "none"
    /\ UNCHANGED <<version, enc, key, marker, cache, readers>>

Replace ==
    /\ writer = "write" /\ (key \/ enc = 0)
    /\ version' = version + 1 /\ enc' = version + 1 /\ key' = TRUE
    /\ writer' = "replaced"
    /\ UNCHANGED <<marker, cache, readers>>

StartDelete ==
    /\ Free /\ version < MaxVersions
    /\ marker' = "delete" /\ writer' = "delete"
    /\ UNCHANGED <<version, enc, key, cache, readers>>

\* The keystore call fails or times out, in vain or with its effect.
DeleteFails ==
    /\ writer = "delete"
    /\ writer' = "none"
    /\ key' \in {key, FALSE}
    /\ UNCHANGED <<version, enc, marker, cache, readers>>

DeleteKey ==
    /\ writer = "delete"
    /\ key' = FALSE /\ writer' = "unlocked_key"
    /\ UNCHANGED <<version, enc, marker, cache, readers>>

Unlink ==
    /\ writer = "unlocked_key"
    /\ enc' = 0
    /\ version' = IF enc = 0 THEN version ELSE version + 1
    /\ writer' = "deleted"
    /\ UNCHANGED <<key, marker, cache, readers>>

ClearMarker ==
    /\ writer \in {"replaced", "deleted"}
    /\ marker' = "none" /\ writer' = "written"
    /\ UNCHANGED <<version, enc, key, cache, readers>>

\* The cache of the writing process is emptied; it may be this one.
Unlock(here) ==
    /\ writer = "written"
    /\ cache' = IF here THEN [v \in Versions |-> 0] ELSE cache
    /\ writer' = "none"
    /\ UNCHANGED <<version, enc, key, marker, readers>>

\* reconcile_pending_operations clears the marker of a failed write or deletion.
Reconcile ==
    /\ Free /\ marker # "none"
    /\ marker' = "none"
    /\ UNCHANGED <<version, enc, key, writer, cache, readers>>

Operation ==
    \/ StartWrite \/ WriteFails \/ Replace
    \/ StartDelete \/ DeleteFails \/ DeleteKey \/ Unlink
    \/ ClearMarker \/ Reconcile
    \/ \E here \in BOOLEAN : Unlock(here)

-----------------------------------------------------------------------------
\* One thread.

Goes(t, from, r) ==
    /\ reader[t].at = from
    /\ reader' = [reader EXCEPT ![t] = r]

\* read_credentials returns a payload or None, as of version v: back in load_profile.
Back(v, exists) == [Rest EXCEPT !.at = IF exists THEN "tokens" ELSE "absent", !.login = v]
Reads(t, v, exists) ==
    /\ began' = [began EXCEPT ![t] = Idle]
    /\ reader' = [reader EXCEPT ![t] = Back(v, exists)]

\* It raises, and so does get_client.
Raises(t) ==
    /\ began' = [began EXCEPT ![t] = Idle]
    /\ reader' = [reader EXCEPT ![t] = Rest]

Hot == slot # NoClient /\ enc # 0 /\ slot.rev = enc

\* get_client, first part under _client_lock: the hot path returns _client at once.
GetClient(t) ==
    /\ ~Hot
    /\ Goes(t, "idle", [Rest EXCEPT !.at = "looking"])
    /\ began' = [began EXCEPT ![t] = version]
    /\ UNCHANGED <<store, cache, inflight, slot>>

Look(t) ==
    /\ reader[t].at = "looking"
    /\ \/ enc = 0 /\ Reads(t, version, FALSE)
       \/ /\ enc # 0
          /\ Goes(t, "looking", [Rest EXCEPT !.at = IF marker = "none" THEN "revision" ELSE "locked"])
          /\ UNCHANGED began
    /\ UNCHANGED <<store, cache, inflight, slot>>

ReadRevision(t) ==
    /\ Goes(t, "revision", IF enc = 0 THEN [Rest EXCEPT !.at = "locked"]
                           ELSE [Rest EXCEPT !.at = "lookup", !.rev = enc])
    /\ UNCHANGED <<store, cache, inflight, began, slot>>

\* mutant: the payload is looked up by profile, whatever its revision
MutantServesAny(t) ==
    /\ reader[t].at = "lookup"
    /\ \/ \E v \in Versions : cache[v] # 0 /\ Reads(t, cache[v], TRUE)
       \/ /\ cache[reader[t].rev] = 0
          /\ Goes(t, "lookup", [reader[t] EXCEPT !.at = "joining"])
          /\ UNCHANGED began
    /\ UNCHANGED <<store, cache, inflight, slot>>

LookUp(t) ==
    /\ reader[t].at = "lookup"
    /\ \/ cache[reader[t].rev] # 0 /\ Reads(t, cache[reader[t].rev], TRUE)
       \/ /\ cache[reader[t].rev] = 0
          /\ Goes(t, "lookup", [reader[t] EXCEPT !.at = "joining"])
          /\ UNCHANGED began
    /\ UNCHANGED <<store, cache, inflight, slot>>

Own(t) ==
    /\ reader[t].at = "joining" /\ inflight[reader[t].rev] = Nobody
    /\ Goes(t, "joining", [reader[t] EXCEPT !.at = "locked", !.owner = TRUE])
    /\ inflight' = [inflight EXCEPT ![reader[t].rev] = t]
    /\ UNCHANGED <<store, cache, began, slot>>

Join(t) ==
    /\ reader[t].at = "joining" /\ inflight[reader[t].rev] # Nobody
    /\ Goes(t, "joining", [reader[t] EXCEPT !.at = "waiting", !.boss = inflight[reader[t].rev]])
    /\ UNCHANGED <<store, cache, inflight, began, slot>>

\* event.wait runs into LOCK_TIMEOUT_SECONDS.
WaitTimesOut(t) ==
    /\ Goes(t, "waiting", [reader[t] EXCEPT !.at = "woken", !.boss = Nobody])
    /\ UNCHANGED <<store, cache, inflight, began, slot>>

\* The owner's exception is raised here too; else its payload should be in the cache,
\* and if it is not, this thread decrypts by itself.
Woken(t) ==
    /\ reader[t].at = "woken"
    /\ \/ reader[t].end = "failed" /\ Raises(t)
       \/ /\ reader[t].end = "ok" /\ cache[reader[t].rev] # 0
          /\ Reads(t, cache[reader[t].rev], TRUE)
       \/ /\ reader[t].end = "ok" /\ cache[reader[t].rev] = 0
          /\ Goes(t, "woken", [reader[t] EXCEPT !.at = "locked"])
          /\ UNCHANGED began
    /\ UNCHANGED <<store, cache, inflight, slot>>

\* mutant: a load that fails leaves by the shortest way
MutantRaisesPast(t) == Raises(t)

\* The locked read of t raised: an owner has to tell those who wait.
Failed(t) ==
    IF reader[t].owner
    THEN /\ reader' = [reader EXCEPT ![t].at = "finish", ![t].end = "failed"]
         /\ UNCHANGED began
    ELSE Raises(t)

\* The payload was decrypted under the lock.  Without a revision nothing is cached.
Decrypt(t) ==
    /\ reader[t].at = "locked" /\ Free
    /\ enc # 0 /\ key
    /\ IF reader[t].rev = 0 THEN Reads(t, enc, TRUE)
       ELSE /\ reader' = [reader EXCEPT ![t].at = "store", ![t].login = enc]
            /\ UNCHANGED began
    /\ UNCHANGED <<store, cache, inflight, slot>>

\* The file has gone, the key has gone, the keystore refuses, or the lock times out.
DecryptFails(t) ==
    /\ reader[t].at = "locked"
    /\ Failed(t)
    /\ UNCHANGED <<store, cache, inflight, slot>>

\* The key has gone because a deletion stopped half-way: the read completes it.
CompleteDeletion(t) ==
    /\ reader[t].at = "locked" /\ Free
    /\ enc # 0 /\ ~key /\ marker = "delete" /\ version < MaxVersions
    /\ enc' = 0 /\ version' = version + 1 /\ marker' = "none"
    /\ IF reader[t].owner
       THEN /\ reader' = [reader EXCEPT ![t].at = "finish", ![t].login = version + 1,
                                                 ![t].end = "gone"]
            /\ UNCHANGED began
       ELSE Reads(t, version + 1, FALSE)
    /\ UNCHANGED <<key, writer, cache, inflight, slot>>

\* The payload is kept for the revision that was read before the lock was taken.
Store(t) ==
    /\ reader[t].at = "store"
    /\ cache' = [cache EXCEPT ![reader[t].rev] = reader[t].login]
    /\ IF reader[t].owner
       THEN Goes(t, "store", [reader[t] EXCEPT !.at = "finish"]) /\ UNCHANGED began
       ELSE Reads(t, reader[t].login, TRUE)
    /\ UNCHANGED <<store, inflight, slot>>

\* The owner ends its load and wakes those who wait; then its read ends.
Finish(t) ==
    LET me == reader[t]
        Waiter(u) == reader[u].at = "waiting" /\ reader[u].boss = t
    IN
    /\ me.at = "finish"
    /\ inflight' = [inflight EXCEPT ![me.rev] = Nobody]
    /\ reader' = [u \in Threads |->
                    IF u = t THEN IF me.end = "failed" THEN Rest ELSE Back(me.login, me.end = "ok")
                    ELSE IF Waiter(u) THEN [reader[u] EXCEPT !.at = "woken", !.boss = Nobody,
                                              !.end = IF me.end = "failed" THEN "failed" ELSE "ok"]
                    ELSE reader[u]]
    /\ began' = [began EXCEPT ![t] = Idle]
    /\ UNCHANGED <<store, cache, slot>>

\* load_profile reads the revision once more, for the tokens, without the lock.
Tokens(t) ==
    /\ Goes(t, "tokens", [reader[t] EXCEPT !.at = "install", !.rev = enc])
    /\ UNCHANGED <<store, cache, inflight, began, slot>>

\* ProfileNotFoundError: the profile is in protected mode and has no login.
NoProfile(t) ==
    /\ Goes(t, "absent", Rest)
    /\ UNCHANGED <<store, cache, inflight, began, slot>>

\* get_client, last part: the present client if it has this revision, else a new one.
Install(t) ==
    /\ Goes(t, "install", Rest)
    /\ slot' = IF slot # NoClient /\ slot.rev = reader[t].rev THEN slot
               ELSE [login |-> reader[t].login, rev |-> reader[t].rev]
    /\ UNCHANGED <<store, cache, inflight, began>>

ResetClient ==
    /\ slot' = NoClient
    /\ UNCHANGED <<store, cache, inflight, reader, began>>

OwnerStep(t) == Decrypt(t) \/ DecryptFails(t) \/ CompleteDeletion(t) \/ Store(t) \/ Finish(t)

Step(t) ==
    \/ GetClient(t) \/ Look(t) \/ ReadRevision(t) \/ LookUp(t) \/ Own(t) \/ Join(t)
    \/ WaitTimesOut(t) \/ Woken(t) \/ OwnerStep(t) \/ Tokens(t) \/ NoProfile(t) \/ Install(t)

Next == Operation \/ ResetClient \/ \E t \in Threads : Step(t)

Spec == Init /\ [][Next]_vars

\* A locked read ends: the lock and the keystore calls have deadlines.
FairSpec == Spec /\ \A t \in Threads : WF_vars(OwnerStep(t))

-----------------------------------------------------------------------------
\* A payload is kept for a revision only if it is of that version or of a later one,
\* although a write may fall between the reading of the revision and the lock
\* (credential_store.py:779): whoever looks the revision up gets nothing superseded
\* before the file said so.
CacheIsRecent == \A v \in Versions : cache[v] # 0 => cache[v] \in v..version

\* One thread at a time loads a revision on behalf of the others (single flight), and
\* the table names it from the registration to the end.
Loading(t) == reader[t].owner /\ reader[t].at \in {"locked", "store", "finish"}
OneLoadEach ==
    \A v \in Versions : \A t \in Threads :
        (Loading(t) /\ reader[t].rev = v) <=> inflight[v] = t

\* A load ends also when it fails, and later readers of its revision do not wait for
\* something that is over (the "finally" of read_credentials).
LoadsEnd == \A v \in Versions : inflight[v] # Nobody ~> inflight[v] = Nobody

\* Each read returns what was stored at some moment of the read.
Returned(t) == IF reader[t].at \in {"tokens", "absent", "install"} THEN reader[t].login ELSE 0
Vault == INSTANCE AtomicReads WITH got <- [t \in Threads |-> Returned(t)]
ReadsAreAtomic == Vault!Spec

\* The revision of the client belongs to its cookies.  (It does not: load_profile
\* reads payload and revision one after the other.)
RevisionVouches == slot.rev = 0 \/ slot.rev = slot.login
=============================================================================
