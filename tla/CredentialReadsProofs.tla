----------------------- MODULE CredentialReadsProofs -----------------------
(***************************************************************************)
(* Proofs about CredentialReads, for any number of threads and versions:   *)
(* types, the cache, single flight, and that it implements AtomicReads.    *)
(***************************************************************************)
EXTENDS CredentialReads, TLAPS

-----------------------------------------------------------------------------
\* The inductive invariant.  What each thread remembers is no older than the beginning
\* of its read, because an envelope on disk is always the present version.

Begun == {"looking", "revision", "lookup", "joining", "waiting", "woken",
          "locked", "store", "finish"}
Keyed == {"lookup", "joining", "waiting", "woken", "store", "finish"}

\* A reader r whose read began at version b, when the store is at version n.
ReaderOK(r, b, n) ==
    /\ r.at \in Begun <=> b # Idle
    /\ b # Idle => b <= n
    /\ r.at = "waiting" => r.boss \in Threads
    /\ r.at \in Keyed => r.rev # 0
    /\ r.at \in Keyed \cup {"locked"} /\ r.rev # 0 => b <= r.rev /\ r.rev <= n
    /\ r.at = "store" \/ (r.at = "finish" /\ r.end # "failed") => r.rev <= r.login /\ r.login <= n
    /\ r.owner => r.at \in {"locked", "store", "finish"} /\ r.rev # 0
    /\ r.at = "finish" => r.owner

EncIsVersion == enc # 0 => enc = version
\* The bound: an operation under way has a version left to make.
RoomToWrite == writer \in {"write", "delete", "unlocked_key"} => version < MaxVersions
ReadersOK == \A t \in Threads : ReaderOK(reader[t], began[t], version)

IInv == TypeOK /\ EncIsVersion /\ RoomToWrite /\ CacheIsRecent /\ ReadersOK /\ OneLoadEach

USE ThreadsAssumption, VersionsAssumption, IdleAssumption

-----------------------------------------------------------------------------
\* Arithmetic and records.

\* A version is a positive number.
LEMMA VersionsAreNumbers == \A v \in Versions : v \in Nat /\ v # 0 /\ v # Idle /\ v \in 0..MaxVersions
  BY DEF Versions

\* What a reader knows stays true when the store changes.
LEMMA LaterIsOK ==
  ASSUME NEW r \in Reader, NEW b \in Versions \cup {Idle}, NEW n \in Versions, NEW m \in Versions,
         n <= m, ReaderOK(r, b, n)
  PROVE  ReaderOK(r, b, m)
  BY DEF ReaderOK, Reader, Versions

LEMMA RestIsOK == Rest \in Reader /\ \A n \in Versions : ReaderOK(Rest, Idle, n)
  <1>1. Rest \in Reader
    BY DEF Rest, Reader, Places
  <1>2. ASSUME NEW n \in Versions PROVE ReaderOK(Rest, Idle, n)
    BY DEF Rest, ReaderOK, Begun, Keyed
  <1> QED BY <1>1, <1>2

\* So is a reader whose read_credentials has returned.
LEMMA BackIsOK ==
  ASSUME NEW v \in 0..MaxVersions, NEW exists \in BOOLEAN, NEW n \in Versions
  PROVE  /\ Back(v, exists) \in Reader
         /\ ReaderOK(Back(v, exists), Idle, n)
         /\ ~Back(v, exists).owner
         /\ Back(v, exists).at \in {"tokens", "absent"} /\ Back(v, exists).login = v
  <1> DEFINE place == IF exists THEN "tokens" ELSE "absent"
  <1>1. Rest \in Reader /\ Rest.at = "idle" /\ Rest.rev = 0 /\ Rest.owner = FALSE
    BY RestIsOK DEF Rest
  <1>2. place \in {"tokens", "absent"}
    OBVIOUS
  <1>3. place \in Places
    BY <1>2 DEF Places
  <1> HIDE DEF place
  <1>4. Back(v, exists) = [Rest EXCEPT !.at = place, !.login = v]
    BY DEF Back, place
  <1>5. /\ Back(v, exists) \in Reader
        /\ Back(v, exists).at = place /\ Back(v, exists).login = v
        /\ Back(v, exists).rev = 0 /\ Back(v, exists).owner = FALSE
    BY <1>1, <1>3, <1>4 DEF Reader
  <1> QED BY <1>2, <1>5 DEF ReaderOK, Begun, Keyed

-----------------------------------------------------------------------------
\* Steps that change the entry of one thread.

\* One thread moves to r, with its read begun at b, and the store does not go back.
Moves(t, r, b) ==
    /\ reader' = [reader EXCEPT ![t] = r]
    /\ began' = [began EXCEPT ![t] = b]
    /\ r \in Reader /\ b \in Versions \cup {Idle}
    /\ version' \in Versions /\ version <= version'
    /\ ReaderOK(r, b, version')

LEMMA MovesKeepReaders ==
  ASSUME TypeOK, ReadersOK, NEW t \in Threads, NEW r, NEW b, Moves(t, r, b)
  PROVE  /\ reader' \in [Threads -> Reader] /\ began' \in [Threads -> Versions \cup {Idle}]
         /\ \A u \in Threads : reader'[u].at = "waiting" => reader'[u].boss \in Threads
         /\ ReadersOK'
  <1>1. reader' \in [Threads -> Reader] /\ began' \in [Threads -> Versions \cup {Idle}]
    BY DEF TypeOK, Moves
  <1>2. ASSUME NEW u \in Threads PROVE ReaderOK(reader'[u], began'[u], version')
    <2>1. CASE u = t
      BY <2>1 DEF Moves, TypeOK
    <2>2. CASE u # t
      <3>1. reader'[u] = reader[u] /\ began'[u] = began[u]
        BY <2>2 DEF Moves, TypeOK
      <3>2. ReaderOK(reader[u], began[u], version)
        BY DEF ReadersOK
      <3>3. reader[u] \in Reader /\ began[u] \in Versions \cup {Idle} /\ version \in Versions
        BY DEF TypeOK
      <3>4. version' \in Versions /\ version <= version'
        BY DEF Moves
      <3> QED BY <3>1, <3>2, <3>3, <3>4, LaterIsOK
    <2> QED BY <2>1, <2>2
  <1>3. ReadersOK'
    BY <1>2 DEF ReadersOK
  <1> QED BY <1>1, <1>2, <1>3 DEF ReaderOK

\* The store changes and the threads do not move.
LEMMA ChangesKeepReaders ==
  ASSUME TypeOK, ReadersOK, version' \in Versions, version <= version', UNCHANGED <<reader, began>>
  PROVE  ReadersOK'
  <1>1. ASSUME NEW u \in Threads PROVE ReaderOK(reader[u], began[u], version')
    BY LaterIsOK DEF ReadersOK, TypeOK
  <1> QED BY <1>1 DEF ReadersOK

\* Whoever owns a load is at one of the places where it is loading.
LEMMA OwnerIsLoading ==
  ASSUME ReadersOK, NEW t \in Threads
  PROVE  Loading(t) <=> reader[t].owner
  BY DEF ReadersOK, ReaderOK, Loading

\* No thread begins or ends to own a load, and the owners keep their revisions.
LEMMA SameLoads ==
  ASSUME OneLoadEach, ReadersOK, ReadersOK', inflight' = inflight,
         \A u \in Threads : reader'[u].owner = reader[u].owner
                            /\ (reader[u].owner => reader'[u].rev = reader[u].rev)
  PROVE  OneLoadEach'
  <1>1. \A u \in Threads : Loading(u) <=> reader[u].owner
    BY OwnerIsLoading
  <1>2. \A u \in Threads : Loading(u)' <=> reader'[u].owner
    BY DEF ReadersOK, ReaderOK, Loading
  <1> QED BY <1>1, <1>2 DEF OneLoadEach

\* One thread moves, and its ownership with it stays.
LEMMA MovesKeepLoads ==
  ASSUME TypeOK, ReadersOK, OneLoadEach, NEW t \in Threads, NEW r, NEW b, Moves(t, r, b),
         inflight' = inflight, r.owner = reader[t].owner, r.owner => r.rev = reader[t].rev
  PROVE  OneLoadEach'
  <1>1. ReadersOK'
    BY MovesKeepReaders
  <1>2. ASSUME NEW u \in Threads
        PROVE  reader'[u].owner = reader[u].owner
               /\ (reader[u].owner => reader'[u].rev = reader[u].rev)
    BY DEF Moves, TypeOK
  <1> QED BY <1>1, <1>2, SameLoads

-----------------------------------------------------------------------------
\* The operations that write and delete.

LEMMA InitOK == Init => IInv
  <1> SUFFICES ASSUME Init PROVE IInv
    OBVIOUS
  <1>1. 1 \in Versions /\ 1 \in 0..MaxVersions /\ 0 \in 0..MaxVersions
    BY DEF Versions
  <1>2. TypeOK
    BY <1>1, RestIsOK DEF Init, TypeOK, Markers, Writers, NoClient, Rest
  <1>3. ReadersOK
    BY <1>1, RestIsOK DEF Init, ReadersOK
  <1>4. EncIsVersion /\ RoomToWrite /\ CacheIsRecent
    BY DEF Init, EncIsVersion, RoomToWrite, CacheIsRecent
  <1>5. OneLoadEach
    BY DEF Init, OneLoadEach, Loading, Rest
  <1> QED BY <1>2, <1>3, <1>4, <1>5 DEF IInv

\* An operation makes the next version or none, and leaves the threads alone.
LEMMA OperationStore ==
  ASSUME IInv, Operation
  PROVE  /\ version' \in Versions /\ version' \in {version, version + 1}
         /\ enc' \in 0..MaxVersions /\ key' \in BOOLEAN
         /\ marker' \in Markers /\ writer' \in Writers
         /\ EncIsVersion' /\ RoomToWrite'
         /\ cache' = cache \/ cache' = [v \in Versions |-> 0]
         /\ UNCHANGED readers
  <1> USE DEF IInv, TypeOK, EncIsVersion, RoomToWrite, Versions, Markers, Writers
  <1>1. CASE StartWrite BY <1>1 DEF StartWrite, Free
  <1>2. CASE WriteFails BY <1>2 DEF WriteFails
  <1>3. CASE Replace BY <1>3 DEF Replace
  <1>4. CASE StartDelete BY <1>4 DEF StartDelete, Free
  <1>5. CASE DeleteFails BY <1>5 DEF DeleteFails
  <1>6. CASE DeleteKey BY <1>6 DEF DeleteKey
  <1>7. CASE Unlink BY <1>7 DEF Unlink
  <1>8. CASE ClearMarker BY <1>8 DEF ClearMarker
  <1>9. CASE Reconcile BY <1>9 DEF Reconcile, Free
  <1>10. CASE \E here \in BOOLEAN : Unlock(here) BY <1>10 DEF Unlock
  <1> QED BY <1>1, <1>2, <1>3, <1>4, <1>5, <1>6, <1>7, <1>8, <1>9, <1>10 DEF Operation

LEMMA OperationOK == IInv /\ Operation => IInv'
  <1> SUFFICES ASSUME IInv, Operation PROVE IInv'
    OBVIOUS
  <1>1. UNCHANGED <<inflight, reader, began, slot>>
    BY OperationStore DEF readers
  <1>2. version' \in Versions /\ version <= version'
    BY OperationStore DEF IInv, TypeOK, Versions
  <1>3. ReadersOK'
    BY <1>1, <1>2, ChangesKeepReaders DEF IInv
  <1>4. OneLoadEach'
    BY <1>1, <1>3, SameLoads DEF IInv
  <1>5. cache' \in [Versions -> 0..MaxVersions] /\ CacheIsRecent'
    <2>1. CASE cache' = cache
      BY <2>1, <1>2 DEF IInv, TypeOK, CacheIsRecent, Versions
    <2>2. CASE cache' = [v \in Versions |-> 0]
      BY <2>2 DEF CacheIsRecent
    <2> QED BY <2>1, <2>2, OperationStore
  <1>6. TypeOK'
    BY <1>1, <1>5, OperationStore DEF IInv, TypeOK
  <1> QED BY <1>3, <1>4, <1>5, <1>6, OperationStore DEF IInv

-----------------------------------------------------------------------------
\* The steps of a thread.

\* A thread's move with the store, the cache, the loads and the client as they were.
Quiet == UNCHANGED <<store, cache, inflight, slot>>

LEMMA QuietMoveOK ==
  ASSUME IInv, Quiet, NEW t \in Threads, NEW r, NEW b, Moves(t, r, b),
         r.owner = reader[t].owner, r.owner => r.rev = reader[t].rev
  PROVE  IInv'
  <1>1. OneLoadEach'
    BY MovesKeepLoads DEF IInv, Quiet
  <1>2. TypeOK' /\ ReadersOK'
    BY MovesKeepReaders DEF IInv, TypeOK, Quiet, store
  <1>3. EncIsVersion' /\ RoomToWrite' /\ CacheIsRecent'
    BY DEF IInv, EncIsVersion, RoomToWrite, CacheIsRecent, Quiet, store
  <1> QED BY <1>1, <1>2, <1>3 DEF IInv

\* A read returns version v, or the profile's absence as of v.
LEMMA ReadsMoves ==
  ASSUME IInv, NEW t \in Threads, NEW v \in 0..MaxVersions, NEW exists \in BOOLEAN,
         Reads(t, v, exists), version' \in Versions, version <= version'
  PROVE  Moves(t, Back(v, exists), Idle) /\ ~Back(v, exists).owner
  BY BackIsOK DEF Moves, Reads

LEMMA RaisesMoves ==
  ASSUME IInv, NEW t \in Threads, Raises(t), version' = version
  PROVE  Moves(t, Rest, Idle) /\ ~Rest.owner
  <1>1. ~Rest.owner
    BY DEF Rest
  <1> QED BY <1>1, RestIsOK DEF Moves, Raises, IInv, TypeOK, Versions

\* What is known of a thread before it moves.
LEMMA Before ==
  ASSUME IInv, NEW t \in Threads
  PROVE  /\ reader[t] \in Reader /\ began[t] \in Versions \cup {Idle}
         /\ ReaderOK(reader[t], began[t], version)
         /\ version \in Versions /\ enc \in 0..MaxVersions
         /\ version \in 1..MaxVersions
         /\ enc # 0 => enc = version
         /\ \A v \in Versions : cache[v] \in 0..MaxVersions
                                /\ (cache[v] # 0 => v <= cache[v] /\ cache[v] <= version)
  BY DEF IInv, TypeOK, ReadersOK, EncIsVersion, CacheIsRecent, Versions

-----------------------------------------------------------------------------
\* What the steps are for AtomicReads.

Got(r) == IF r.at \in {"tokens", "absent", "install"} THEN r.login ELSE 0
gots == [t \in Threads |-> Returned(t)]
Abstract == Vault!Next \/ UNCHANGED <<version, began, gots>>

\* A move changes what its thread has got and nothing else.
LEMMA MovesGot ==
  ASSUME IInv, NEW t \in Threads, NEW r, NEW b, Moves(t, r, b)
  PROVE  gots' = [gots EXCEPT ![t] = Got(r)] /\ gots[t] = Got(reader[t])
  <1>1. \A u \in Threads : Returned(u) = Got(reader[u])
    BY DEF Returned, Got
  <1>2. \A u \in Threads : Returned(u)' = Got(reader'[u])
    BY DEF Returned, Got
  <1>3. \A u \in Threads : reader'[u] = IF u = t THEN r ELSE reader[u]
    BY DEF Moves, IInv, TypeOK
  <1>4. gots' = [u \in Threads |-> Got(reader'[u])]
    BY <1>2 DEF gots
  <1>5. gots = [u \in Threads |-> Got(reader[u])]
    BY <1>1 DEF gots
  <1> HIDE DEF Got
  <1> QED BY <1>3, <1>4, <1>5

LEMMA AbstractBegin ==
  ASSUME IInv, NEW t \in Threads, NEW r, Moves(t, r, version), began[t] = Idle,
         Got(r) = Got(reader[t]), version' = version
  PROVE  Abstract
  <1>1. gots' = gots
    BY MovesGot DEF gots
  <1>2. Vault!Begin(t)
    BY <1>1 DEF Vault!Begin, Moves, gots
  <1> QED BY <1>2 DEF Abstract, Vault!Next

LEMMA AbstractReturn ==
  ASSUME IInv, NEW t \in Threads, NEW r, Moves(t, r, Idle), began[t] # Idle,
         Got(r) \in {0} \cup (began[t]..version'), version' \in {version, version + 1}
  PROVE  Abstract
  <1>1. gots' = [gots EXCEPT ![t] = Got(r)]
    BY MovesGot
  <1>2. Vault!Return(t)
    BY <1>1 DEF Vault!Return, Moves, gots
  <1> QED BY <1>2 DEF Abstract, Vault!Next

LEMMA AbstractUse ==
  ASSUME IInv, NEW t \in Threads, NEW r, Moves(t, r, began[t]), Got(r) = 0, version' = version
  PROVE  Abstract
  <1>1. gots' = [gots EXCEPT ![t] = 0]
    BY MovesGot
  <1>2. began' = began
    BY DEF Moves, IInv, TypeOK
  <1>3. Vault!Use(t)
    BY <1>1, <1>2 DEF Vault!Use, gots
  <1> QED BY <1>3 DEF Abstract, Vault!Next

LEMMA AbstractNothing ==
  ASSUME IInv, NEW t \in Threads, NEW r, Moves(t, r, began[t]), Got(r) = Got(reader[t]),
         version' = version
  PROVE  Abstract
  <1>1. gots' = gots
    BY MovesGot DEF gots
  <1>2. began' = began
    BY DEF Moves, IInv, TypeOK
  <1> QED BY <1>1, <1>2 DEF Abstract

\* Without a move of a thread only the store may change, one version at a time.
LEMMA AbstractChange ==
  ASSUME IInv, UNCHANGED <<reader, began>>, version' \in {version, version + 1}
  PROVE  Abstract
  <1>1. gots' = gots
    BY DEF gots, Returned
  <1>2. CASE version' = version + 1
    BY <1>1, <1>2 DEF Abstract, Vault!Next, Vault!Change, gots
  <1>3. CASE version' = version
    BY <1>1, <1>3 DEF Abstract
  <1> QED BY <1>2, <1>3

-----------------------------------------------------------------------------
\* Steps that go on inside a read, without the store: t moves to r.
LEMMA InsideOK ==
  ASSUME IInv, Quiet, NEW t \in Threads, NEW r \in Reader, reader' = [reader EXCEPT ![t] = r],
         began' = began, reader[t].at \in Begun, r.at \in Begun,
         r.owner = reader[t].owner, r.owner => r.rev = reader[t].rev,
         ReaderOK(r, began[t], version)
  PROVE  IInv' /\ Abstract
  <1>1. Moves(t, r, began[t])
    BY Before DEF Moves, Quiet, store, IInv, TypeOK, Versions
  <1>2. Got(r) = Got(reader[t])
    BY DEF Got, Begun
  <1> QED BY <1>1, <1>2, QuietMoveOK, AbstractNothing DEF Quiet, store

\* A read that ends: its thread returns version v, which it knows.
LEMMA ReadsOK ==
  ASSUME IInv, Quiet, NEW t \in Threads, NEW v \in Versions, NEW exists \in BOOLEAN,
         Reads(t, v, exists), reader[t].at \in Begun, ~reader[t].owner,
         began[t] <= v, v <= version
  PROVE  IInv' /\ Abstract
  <1>1. version' = version /\ v \in 0..MaxVersions
    BY DEF Quiet, store, Versions
  <1>2. Moves(t, Back(v, exists), Idle) /\ ~Back(v, exists).owner
    BY <1>1, ReadsMoves, Before DEF Versions
  <1>3. began[t] # Idle /\ reader[t].owner = FALSE /\ Back(v, exists).owner = FALSE
    BY <1>1, Before, BackIsOK DEF ReaderOK, Reader
  <1>4. Got(Back(v, exists)) = v
    BY <1>1, BackIsOK, Before DEF Got
  <1>5. Got(Back(v, exists)) \in began[t]..version'
    BY <1>1, <1>3, <1>4, Before DEF Versions
  <1> QED BY <1>1, <1>2, <1>3, <1>5, QuietMoveOK, AbstractReturn

LEMMA RaisesOK ==
  ASSUME IInv, Quiet, NEW t \in Threads, Raises(t), reader[t].at \in Begun, ~reader[t].owner
  PROVE  IInv' /\ Abstract
  <1>1. Moves(t, Rest, Idle) /\ ~Rest.owner /\ version' = version
    BY RaisesMoves DEF Quiet, store
  <1>2. began[t] # Idle /\ reader[t].owner = FALSE /\ Rest.owner = FALSE
    BY Before DEF ReaderOK, Reader, Rest
  <1>3. Got(Rest) = 0
    BY DEF Got, Rest
  <1> QED BY <1>1, <1>2, <1>3, QuietMoveOK, AbstractReturn

LEMMA GetClientOK ==
  ASSUME IInv, NEW t \in Threads, GetClient(t)
  PROVE  IInv' /\ Abstract
  <1> DEFINE r == [Rest EXCEPT !.at = "looking"]
  <1>1. r \in Reader /\ r.at = "looking" /\ r.rev = 0 /\ r.owner = FALSE
    BY RestIsOK DEF Rest, Reader, Places
  <1>2. reader[t].at = "idle" /\ reader' = [reader EXCEPT ![t] = r] /\ Quiet
        /\ began' = [began EXCEPT ![t] = version]
    BY DEF GetClient, Goes, Quiet
  <1> HIDE DEF r
  <1>3. ReaderOK(r, version, version)
    BY <1>1, Before DEF ReaderOK, Begun, Keyed, Versions
  <1>4. Moves(t, r, version)
    BY <1>1, <1>2, <1>3, Before DEF Moves, Quiet, store, Versions
  <1>5. reader[t].owner = FALSE
    BY <1>2, Before DEF ReaderOK, Reader
  <1>6. began[t] = Idle /\ Got(r) = Got(reader[t]) /\ version' = version
    BY <1>1, <1>2, Before DEF ReaderOK, Begun, Got, Quiet, store
  <1> QED BY <1>1, <1>2, <1>4, <1>5, <1>6, QuietMoveOK, AbstractBegin

LEMMA LookOK == ASSUME IInv, NEW t \in Threads, Look(t) PROVE IInv' /\ Abstract
  <1>1. Quiet /\ reader[t].at = "looking" /\ reader[t].at \in Begun
    BY DEF Look, Quiet, Begun
  <1>2. ~reader[t].owner /\ began[t] <= version
    BY <1>1, Before DEF ReaderOK, Reader, Begun
  <1>3. CASE Reads(t, version, FALSE)
    <2>1. version \in Versions /\ version <= version
      BY Before DEF Versions
    <2> QED BY <1>1, <1>2, <1>3, <2>1, ReadsOK
  <1>4. CASE ~Reads(t, version, FALSE)
    <2> DEFINE place == IF marker = "none" THEN "revision" ELSE "locked"
    <2> DEFINE r == [Rest EXCEPT !.at = place]
    <2>1. reader' = [reader EXCEPT ![t] = r] /\ began' = began
      BY <1>4 DEF Look, Goes
    <2>2. place \in {"revision", "locked"}
      OBVIOUS
    <2>3. place \in Places /\ place \in Begun
      BY <2>2 DEF Places, Begun
    <2> HIDE DEF place
    <2>4. r \in Reader /\ r.at = place /\ r.rev = 0 /\ r.owner = FALSE
      BY <2>3, RestIsOK DEF Rest, Reader
    <2> HIDE DEF r
    <2>5. ReaderOK(r, began[t], version)
      BY <1>1, <2>2, <2>4, Before DEF ReaderOK, Begun, Keyed
    <2>6. r.owner = reader[t].owner
      BY <1>2, <2>4, Before DEF Reader
    <2> QED BY <1>1, <2>1, <2>3, <2>4, <2>5, <2>6, InsideOK
  <1> QED BY <1>3, <1>4

LEMMA ReadRevisionOK == ASSUME IInv, NEW t \in Threads, ReadRevision(t) PROVE IInv' /\ Abstract
  <1> DEFINE r == IF enc = 0 THEN [Rest EXCEPT !.at = "locked"]
                  ELSE [Rest EXCEPT !.at = "lookup", !.rev = enc]
  <1>1. Quiet /\ reader[t].at = "revision" /\ reader[t].at \in Begun
        /\ reader' = [reader EXCEPT ![t] = r] /\ began' = began
    BY DEF ReadRevision, Goes, Quiet, Begun
  <1>2. enc \in 0..MaxVersions /\ (enc # 0 => enc = version) /\ began[t] <= version
    BY <1>1, Before DEF ReaderOK
  <1>3. r \in Reader /\ r.owner = FALSE
        /\ \/ enc = 0 /\ r.at = "locked" /\ r.rev = 0
           \/ enc # 0 /\ r.at = "lookup" /\ r.rev = enc
    <2>1. CASE enc = 0
      BY <2>1, RestIsOK DEF Rest, Reader, Places
    <2>2. CASE enc # 0
      BY <1>2, <2>2, RestIsOK DEF Rest, Reader, Places
    <2> QED BY <2>1, <2>2
  <1> HIDE DEF r
  <1>4. ReaderOK(r, began[t], version) /\ r.at \in Begun
    BY <1>1, <1>2, <1>3, Before DEF ReaderOK, Begun, Keyed
  <1>5. r.owner = reader[t].owner
    BY <1>1, <1>3, Before DEF ReaderOK, Reader
  <1> QED BY <1>1, <1>3, <1>4, <1>5, InsideOK

\* A change of place alone, between places of the same kind.
LEMMA PlaceOK ==
  ASSUME IInv, Quiet, NEW t \in Threads, NEW place \in {"joining", "locked", "woken"},
         reader[t].at \in {"lookup", "waiting", "woken"},
         reader' = [reader EXCEPT ![t] = [reader[t] EXCEPT !.at = place]], began' = began
  PROVE  IInv' /\ Abstract
  <1> DEFINE r == [reader[t] EXCEPT !.at = place]
  <1>1. r \in Reader /\ r.at = place /\ r.rev = reader[t].rev /\ r.owner = reader[t].owner
    BY Before DEF Reader, Places
  <1>2. reader' = [reader EXCEPT ![t] = r]
    OBVIOUS
  <1> HIDE DEF r
  <1>3. ReaderOK(r, began[t], version) /\ r.at \in Begun /\ reader[t].at \in Begun
    BY <1>1, Before DEF ReaderOK, Begun, Keyed
  <1> QED BY <1>1, <1>2, <1>3, InsideOK

\* A payload of the cache is of the version of its key or a later one.
LEMMA CachedOK ==
  ASSUME IInv, Quiet, NEW t \in Threads, reader[t].at \in {"lookup", "woken"},
         cache[reader[t].rev] # 0, Reads(t, cache[reader[t].rev], TRUE)
  PROVE  IInv' /\ Abstract
  <1>1. /\ reader[t].rev \in Versions /\ began[t] <= reader[t].rev /\ ~reader[t].owner
        /\ reader[t].at \in Begun /\ began[t] \in Versions
    BY Before DEF ReaderOK, Reader, Begun, Keyed, Versions
  <1>2. cache[reader[t].rev] \in Versions /\ began[t] <= cache[reader[t].rev]
        /\ cache[reader[t].rev] <= version
    BY <1>1, Before DEF Versions
  <1> QED BY <1>1, <1>2, ReadsOK

LEMMA LookUpOK == ASSUME IInv, NEW t \in Threads, LookUp(t) PROVE IInv' /\ Abstract
  <1>1. Quiet /\ reader[t].at = "lookup"
    BY DEF LookUp, Quiet
  <1>2. CASE cache[reader[t].rev] # 0
    BY <1>1, <1>2, CachedOK DEF LookUp
  <1>3. CASE cache[reader[t].rev] = 0
    BY <1>1, <1>3, PlaceOK DEF LookUp, Goes
  <1> QED BY <1>2, <1>3

LEMMA WokenOK == ASSUME IInv, NEW t \in Threads, Woken(t) PROVE IInv' /\ Abstract
  <1>1. Quiet /\ reader[t].at = "woken"
    BY DEF Woken, Quiet
  <1>2. CASE Raises(t)
    <2>1. ~reader[t].owner /\ reader[t].at \in Begun
      BY <1>1, Before DEF ReaderOK, Reader, Begun
    <2> QED BY <1>1, <1>2, <2>1, RaisesOK
  <1>3. CASE cache[reader[t].rev] # 0 /\ Reads(t, cache[reader[t].rev], TRUE)
    BY <1>1, <1>3, CachedOK
  <1>4. CASE Goes(t, "woken", [reader[t] EXCEPT !.at = "locked"]) /\ began' = began
    BY <1>1, <1>4, PlaceOK DEF Goes
  <1> QED BY <1>2, <1>3, <1>4 DEF Woken

LEMMA JoinOK == ASSUME IInv, NEW t \in Threads, Join(t) PROVE IInv' /\ Abstract
  <1> DEFINE boss == inflight[reader[t].rev]
  <1> DEFINE r == [reader[t] EXCEPT !.at = "waiting", !.boss = boss]
  <1>1. Quiet /\ reader[t].at = "joining" /\ reader' = [reader EXCEPT ![t] = r] /\ began' = began
        /\ boss # Nobody
    BY DEF Join, Goes, Quiet
  <1>2. reader[t].rev \in Versions
    BY <1>1, Before DEF ReaderOK, Reader, Keyed, Versions
  <1>3. boss \in Threads
    BY <1>1, <1>2 DEF IInv, TypeOK
  <1> HIDE DEF boss
  <1>4. r \in Reader /\ r.at = "waiting" /\ r.boss = boss /\ r.rev = reader[t].rev
        /\ r.owner = reader[t].owner
    BY <1>3, Before DEF Reader, Places
  <1> HIDE DEF r
  <1>5. ReaderOK(r, began[t], version) /\ r.at \in Begun /\ reader[t].at \in Begun
    BY <1>1, <1>3, <1>4, Before DEF ReaderOK, Begun, Keyed
  <1> QED BY <1>1, <1>4, <1>5, InsideOK

LEMMA WaitTimesOutOK == ASSUME IInv, NEW t \in Threads, WaitTimesOut(t) PROVE IInv' /\ Abstract
  <1> DEFINE r == [reader[t] EXCEPT !.at = "woken", !.boss = Nobody]
  <1>1. Quiet /\ reader[t].at = "waiting" /\ reader' = [reader EXCEPT ![t] = r] /\ began' = began
    BY DEF WaitTimesOut, Goes, Quiet
  <1>2. r \in Reader /\ r.at = "woken" /\ r.rev = reader[t].rev /\ r.owner = reader[t].owner
    BY Before DEF Reader, Places
  <1> HIDE DEF r
  <1>3. ReaderOK(r, began[t], version) /\ r.at \in Begun /\ reader[t].at \in Begun
    BY <1>1, <1>2, Before DEF ReaderOK, Begun, Keyed
  <1> QED BY <1>1, <1>2, <1>3, InsideOK

-----------------------------------------------------------------------------
\* The load under the lock.

\* Its owner is registered: the only step that adds to the loads.
LEMMA OwnOK == ASSUME IInv, NEW t \in Threads, Own(t) PROVE IInv' /\ Abstract
  <1> DEFINE r == [reader[t] EXCEPT !.at = "locked", !.owner = TRUE]
  <1>1. /\ reader[t].at = "joining" /\ inflight[reader[t].rev] = Nobody
        /\ reader' = [reader EXCEPT ![t] = r] /\ began' = began
        /\ inflight' = [inflight EXCEPT ![reader[t].rev] = t]
        /\ UNCHANGED <<store, cache, slot>>
    BY DEF Own, Goes
  <1>2. r \in Reader /\ r.at = "locked" /\ r.rev = reader[t].rev /\ r.owner = TRUE
    BY Before DEF Reader, Places
  <1> HIDE DEF r
  <1>3. reader[t].rev \in Versions /\ reader[t].owner = FALSE
    BY <1>1, Before DEF ReaderOK, Reader, Keyed, Versions
  <1>4. ReaderOK(r, began[t], version)
    BY <1>1, <1>2, <1>3, Before DEF ReaderOK, Begun, Keyed, Versions
  <1>5. Moves(t, r, began[t]) /\ version' = version
    BY <1>1, <1>2, <1>4, Before DEF Moves, store, IInv, TypeOK, Versions
  <1>6. Got(r) = Got(reader[t])
    BY <1>1, <1>2 DEF Got
  <1>7. Abstract
    BY <1>5, <1>6, AbstractNothing
  <1>8. /\ reader' \in [Threads -> Reader] /\ began' \in [Threads -> Versions \cup {Idle}]
        /\ \A u \in Threads : reader'[u].at = "waiting" => reader'[u].boss \in Threads
        /\ ReadersOK'
    BY <1>5, MovesKeepReaders DEF IInv
  <1>9. OneLoadEach'
    <2>1. \A u \in Threads : Loading(u) <=> reader[u].owner
      BY OwnerIsLoading DEF IInv
    <2>2. \A u \in Threads : Loading(u)' <=> reader'[u].owner
      BY <1>8 DEF ReadersOK, ReaderOK, Loading
    <2>3. \A u \in Threads : reader'[u] = IF u = t THEN r ELSE reader[u]
      BY <1>1 DEF IInv, TypeOK
    <2>4. \A v \in Versions : inflight'[v] = IF v = reader[t].rev THEN t ELSE inflight[v]
      BY <1>1 DEF IInv, TypeOK
    <2>5. \A v \in Versions : \A u \in Threads :
            (reader[u].owner /\ reader[u].rev = v) <=> inflight[v] = u
      BY <2>1 DEF IInv, OneLoadEach
    <2>6. \A v \in Versions : \A u \in Threads :
            (reader'[u].owner /\ reader'[u].rev = v) <=> inflight'[v] = u
      BY <1>1, <1>2, <1>3, <2>3, <2>4, <2>5
    <2> QED BY <2>2, <2>6 DEF OneLoadEach
  <1>10. inflight' \in [Versions -> Threads \cup {Nobody}]
    BY <1>1 DEF IInv, TypeOK
  <1>11. TypeOK'
    BY <1>1, <1>8, <1>10 DEF IInv, TypeOK, store
  <1>12. EncIsVersion' /\ RoomToWrite' /\ CacheIsRecent'
    BY <1>1 DEF IInv, EncIsVersion, RoomToWrite, CacheIsRecent, store
  <1> QED BY <1>7, <1>8, <1>9, <1>11, <1>12 DEF IInv

LEMMA DecryptOK == ASSUME IInv, NEW t \in Threads, Decrypt(t) PROVE IInv' /\ Abstract
  <1>1. Quiet /\ reader[t].at = "locked" /\ reader[t].at \in Begun /\ enc # 0
    BY DEF Decrypt, Quiet, Begun
  <1>2. enc = version /\ version \in Versions /\ enc \in Versions /\ version <= version
        /\ began[t] <= enc /\ enc <= version
    BY <1>1, Before DEF ReaderOK, Versions
  <1>3. CASE reader[t].rev = 0
    <2>1. ~reader[t].owner /\ Reads(t, enc, TRUE)
      BY <1>1, <1>3, Before DEF Decrypt, ReaderOK, Reader
    <2> QED BY <1>1, <1>2, <2>1, ReadsOK
  <1>4. CASE reader[t].rev # 0
    <2> DEFINE r == [reader[t] EXCEPT !.at = "store", !.login = enc]
    <2>1. reader' = [reader EXCEPT ![t] = r] /\ began' = began
      BY <1>4, Before DEF Decrypt, IInv, TypeOK
    <2>2. r \in Reader /\ r.at = "store" /\ r.login = enc /\ r.rev = reader[t].rev
          /\ r.owner = reader[t].owner
      BY Before DEF Reader, Places
    <2> HIDE DEF r
    <2>3. ReaderOK(r, began[t], version) /\ r.at \in Begun
      BY <1>1, <1>2, <1>4, <2>2, Before DEF ReaderOK, Begun, Keyed
    <2> QED BY <1>1, <2>1, <2>2, <2>3, InsideOK
  <1> QED BY <1>3, <1>4

LEMMA DecryptFailsOK == ASSUME IInv, NEW t \in Threads, DecryptFails(t) PROVE IInv' /\ Abstract
  <1>1. Quiet /\ reader[t].at = "locked" /\ reader[t].at \in Begun
    BY DEF DecryptFails, Quiet, Begun
  <1>2. CASE reader[t].owner
    <2> DEFINE r == [reader[t] EXCEPT !.at = "finish", !.end = "failed"]
    <2>1. reader' = [reader EXCEPT ![t] = r] /\ began' = began
      BY <1>2, Before DEF DecryptFails, Failed, IInv, TypeOK
    <2>2. r \in Reader /\ r.at = "finish" /\ r.end = "failed" /\ r.rev = reader[t].rev
          /\ r.owner = reader[t].owner
      BY Before DEF Reader, Places
    <2> HIDE DEF r
    <2>3. ReaderOK(r, began[t], version) /\ r.at \in Begun
      BY <1>1, <1>2, <2>2, Before DEF ReaderOK, Begun, Keyed
    <2> QED BY <1>1, <2>1, <2>2, <2>3, InsideOK
  <1>3. CASE ~reader[t].owner
    BY <1>1, <1>3, RaisesOK DEF DecryptFails, Failed
  <1> QED BY <1>2, <1>3

\* A read that completes a deletion makes a version, and ends with it or tells the others.
LEMMA CompleteDeletionOK ==
  ASSUME IInv, NEW t \in Threads, CompleteDeletion(t) PROVE IInv' /\ Abstract
  <1>1. /\ reader[t].at = "locked" /\ Free /\ version < MaxVersions
        /\ enc' = 0 /\ version' = version + 1 /\ marker' = "none"
        /\ UNCHANGED <<key, writer, cache, inflight, slot>>
    BY DEF CompleteDeletion
  <1>2. version' \in Versions /\ version <= version' /\ version + 1 \in 0..MaxVersions
        /\ began[t] \in Versions /\ began[t] <= version
    BY <1>1, Before DEF Versions, ReaderOK, Begun
  <1>3. /\ version' \in Versions /\ EncIsVersion' /\ RoomToWrite' /\ CacheIsRecent'
        /\ marker' \in Markers /\ enc' \in 0..MaxVersions
    BY <1>1, <1>2 DEF EncIsVersion, RoomToWrite, CacheIsRecent, Free, IInv, Markers,
       Versions, TypeOK
  <1>4. ASSUME NEW r, NEW b, Moves(t, r, b), r.owner = reader[t].owner,
               r.owner => r.rev = reader[t].rev
        PROVE  IInv'
    <2>1. OneLoadEach'
      BY <1>1, <1>4, MovesKeepLoads DEF IInv
    <2>2. TypeOK' /\ ReadersOK'
      BY <1>1, <1>3, <1>4, MovesKeepReaders DEF IInv, TypeOK
    <2> QED BY <1>3, <2>1, <2>2 DEF IInv
  <1>5. CASE reader[t].owner
    <2> DEFINE r == [reader[t] EXCEPT !.at = "finish", !.login = version + 1, !.end = "gone"]
    <2>1. reader' = [reader EXCEPT ![t] = r] /\ began' = began
      BY <1>5, Before DEF CompleteDeletion, IInv, TypeOK
    <2>2. r \in Reader /\ r.at = "finish" /\ r.login = version + 1 /\ r.end = "gone"
          /\ r.rev = reader[t].rev /\ r.owner = reader[t].owner
      BY <1>2, Before DEF Reader, Places
    <2> HIDE DEF r
    <2>0. reader[t].rev \in 0..MaxVersions /\ reader[t].rev # 0 /\ began[t] <= reader[t].rev
          /\ reader[t].rev <= version /\ version \in 1..MaxVersions /\ began[t] \in 1..MaxVersions
      BY <1>1, <1>2, <1>5, Before DEF ReaderOK, Reader, Versions
    <2>1a. reader[t].at \in Begun /\ began[t] # Idle
      BY <1>1, <2>0 DEF Begun
    <2>3. ReaderOK(r, began[t], version')
      BY <1>1, <1>5, <2>0, <2>1a, <2>2 DEF ReaderOK, Begun, Keyed
    <2>4. Moves(t, r, began[t])
      BY <1>2, <2>1, <2>2, <2>3, Before DEF Moves, IInv, TypeOK
    <2>5. gots' = gots /\ began' = began
      <3>1. Got(r) = 0 /\ Got(reader[t]) = 0
        BY <1>1, <2>2 DEF Got
      <3> QED BY <2>1, <2>4, <3>1, MovesGot DEF gots
    <2>6. Abstract
      BY <1>1, <2>5 DEF Abstract, Vault!Next, Vault!Change, gots
    <2> QED BY <1>4, <2>2, <2>4, <2>6
  <1>6. CASE ~reader[t].owner
    <2>1. Reads(t, version + 1, FALSE)
      BY <1>6 DEF CompleteDeletion
    <2> DEFINE r == Back(version + 1, FALSE)
    <2>2. Moves(t, r, Idle) /\ ~r.owner
      BY <1>2, <2>1, ReadsMoves
    <2>3. r \in Reader /\ Got(r) = version + 1
      BY <1>2, BackIsOK DEF Got
    <2> HIDE DEF r
    <2>4. r.owner = reader[t].owner
      BY <1>6, <2>2, <2>3, Before DEF Reader
    <2>5. began[t] # Idle /\ Got(r) \in began[t]..version'
      BY <1>1, <1>2, <2>3, Before DEF Versions
    <2>6. Abstract
      BY <1>1, <2>2, <2>5, AbstractReturn
    <2> QED BY <1>4, <2>2, <2>4, <2>6
  <1> QED BY <1>5, <1>6

\* The payload that is kept was read after its key.
LEMMA StoreOK == ASSUME IInv, NEW t \in Threads, Store(t) PROVE IInv' /\ Abstract
  <1>1. /\ reader[t].at = "store" /\ cache' = [cache EXCEPT ![reader[t].rev] = reader[t].login]
        /\ UNCHANGED <<store, inflight, slot>>
    BY DEF Store
  <1>2. /\ reader[t].rev \in Versions /\ reader[t].login \in Versions
        /\ began[t] \in Versions /\ began[t] <= reader[t].rev
        /\ reader[t].rev <= reader[t].login /\ reader[t].login <= version
        /\ version' = version /\ version \in Versions /\ version <= version'
    BY <1>1, Before DEF ReaderOK, Reader, Begun, Keyed, Versions, store
  <1>3. cache' \in [Versions -> 0..MaxVersions] /\ CacheIsRecent'
    BY <1>1, <1>2 DEF IInv, TypeOK, CacheIsRecent, Versions
  <1>4. ASSUME NEW r, NEW b, Moves(t, r, b), r.owner = reader[t].owner,
               r.owner => r.rev = reader[t].rev
        PROVE  IInv'
    <2>1. OneLoadEach'
      BY <1>1, <1>4, MovesKeepLoads DEF IInv
    <2>2. TypeOK' /\ ReadersOK'
      BY <1>1, <1>3, <1>4, MovesKeepReaders DEF IInv, TypeOK, store
    <2>3. EncIsVersion' /\ RoomToWrite'
      BY <1>1 DEF IInv, EncIsVersion, RoomToWrite, store
    <2> QED BY <1>3, <2>1, <2>2, <2>3 DEF IInv
  <1>5. CASE reader[t].owner
    <2> DEFINE r == [reader[t] EXCEPT !.at = "finish"]
    <2>1. reader' = [reader EXCEPT ![t] = r] /\ began' = began
      BY <1>5 DEF Store, Goes
    <2>2. r \in Reader /\ r.at = "finish" /\ r.rev = reader[t].rev /\ r.login = reader[t].login
          /\ r.owner = reader[t].owner
      BY Before DEF Reader, Places
    <2> HIDE DEF r
    <2>3. ReaderOK(r, began[t], version')
      BY <1>1, <1>2, <1>5, <2>2, Before DEF ReaderOK, Begun, Keyed
    <2>4. Moves(t, r, began[t])
      BY <1>2, <2>1, <2>2, <2>3, Before DEF Moves, IInv, TypeOK
    <2>5. Got(r) = Got(reader[t])
      BY <1>1, <2>2 DEF Got
    <2> QED BY <1>2, <1>4, <2>2, <2>4, <2>5, AbstractNothing
  <1>6. CASE ~reader[t].owner
    <2> DEFINE r == Back(reader[t].login, TRUE)
    <2>0. reader[t].login \in 0..MaxVersions
      BY <1>2 DEF Versions
    <2>1. Reads(t, reader[t].login, TRUE)
      BY <1>6 DEF Store
    <2>2. Moves(t, r, Idle) /\ ~r.owner
      BY <1>2, <2>0, <2>1, ReadsMoves
    <2>3. r \in Reader /\ Got(r) = reader[t].login
      BY <1>2, <2>0, BackIsOK DEF Got
    <2> HIDE DEF r
    <2>4. r.owner = reader[t].owner
      BY <1>6, <2>2, <2>3, Before DEF Reader
    <2>5. began[t] # Idle /\ Got(r) \in began[t]..version'
      BY <1>2, <2>3 DEF Versions
    <2>6. Abstract
      BY <1>2, <2>2, <2>5, AbstractReturn
    <2> QED BY <1>4, <2>2, <2>4, <2>6
  <1> QED BY <1>5, <1>6

\* The end of a load is a step of its owner and of everyone who waits for it.
LEMMA FinishOK == ASSUME IInv, NEW t \in Threads, Finish(t) PROVE IInv' /\ Abstract
  <1> DEFINE r == IF reader[t].end = "failed" THEN Rest ELSE Back(reader[t].login, reader[t].end = "ok")
  <1> DEFINE word == IF reader[t].end = "failed" THEN "failed" ELSE "ok"
  <1> DEFINE Waiter(u) == reader[u].at = "waiting" /\ reader[u].boss = t
  <1> DEFINE w(u) == [reader[u] EXCEPT !.at = "woken", !.boss = Nobody, !.end = word]
  <1>1. /\ reader[t].at = "finish"
        /\ inflight' = [inflight EXCEPT ![reader[t].rev] = Nobody]
        /\ reader' = [u \in Threads |-> IF u = t THEN r ELSE IF Waiter(u) THEN w(u) ELSE reader[u]]
        /\ began' = [began EXCEPT ![t] = Idle]
        /\ UNCHANGED <<store, cache, slot>>
    BY DEF Finish
  <1> HIDE DEF r, w, word
  <1>2. /\ reader[t] \in Reader /\ reader[t].owner = TRUE /\ reader[t].rev \in Versions
        /\ began[t] \in Versions /\ began[t] <= reader[t].rev /\ version \in Versions
        /\ reader[t].end # "failed" => reader[t].rev <= reader[t].login /\ reader[t].login <= version
    <2>1. reader[t] \in Reader /\ version \in Versions /\ began[t] \in Versions \cup {Idle}
      BY Before
    <2>2. ReaderOK(reader[t], began[t], version)
      BY Before
    <2>3. reader[t].owner \in BOOLEAN /\ reader[t].rev \in 0..MaxVersions
      BY <2>1 DEF Reader
    <2> QED BY <1>1, <2>1, <2>2, <2>3 DEF ReaderOK, Begun, Keyed, Versions
  <1> USE DEF r, w, word
  <1>3. /\ r \in Reader /\ ReaderOK(r, Idle, version) /\ r.owner = FALSE
        /\ r.at # "waiting" /\ Got(r) \in {0} \cup (began[t]..version)
    <2>1. CASE reader[t].end = "failed"
      <3>1. r = Rest
        BY <2>1
      <3>2. Rest.owner = FALSE /\ Rest.at = "idle" /\ Got(Rest) = 0
        BY DEF Rest, Got
      <3> QED BY <1>2, <3>1, <3>2, RestIsOK
    <2>2. CASE reader[t].end # "failed"
      <3> DEFINE ok == reader[t].end = "ok"
      <3>1. ok \in BOOLEAN /\ reader[t].login \in 0..MaxVersions /\ r = Back(reader[t].login, ok)
        BY <1>2, <2>2 DEF Reader
      <3> HIDE DEF ok, r
      <3>2. /\ Back(reader[t].login, ok) \in Reader
            /\ ReaderOK(Back(reader[t].login, ok), Idle, version)
            /\ ~Back(reader[t].login, ok).owner
            /\ Back(reader[t].login, ok).at \in {"tokens", "absent"}
            /\ Back(reader[t].login, ok).login = reader[t].login
        BY <1>2, <3>1, BackIsOK
      <3>3. r.owner = FALSE
        BY <3>1, <3>2 DEF Reader
      <3>4. Got(r) = reader[t].login
        BY <3>1, <3>2 DEF Got
      <3> QED BY <1>2, <2>2, <3>1, <3>2, <3>3, <3>4 DEF Versions
    <2> QED BY <2>1, <2>2
  <1>4. word \in {"ok", "failed"}
    OBVIOUS
  <1> HIDE DEF r, word
  <1>5. ASSUME NEW u \in Threads
        PROVE  /\ w(u) \in Reader /\ w(u).at = "woken" /\ w(u).rev = reader[u].rev
               /\ w(u).owner = reader[u].owner
    BY <1>4, Before DEF Reader, Places
  <1> HIDE DEF w
  <1>6. ASSUME NEW u \in Threads, u # t
        PROVE  /\ reader'[u] = IF Waiter(u) THEN w(u) ELSE reader[u]
               /\ reader'[u] \in Reader /\ began'[u] = began[u]
               /\ reader'[u].owner = reader[u].owner /\ reader'[u].rev = reader[u].rev
               /\ ReaderOK(reader'[u], began[u], version)
               /\ Got(reader'[u]) = Got(reader[u])
               /\ reader'[u].at = "waiting" => reader'[u].boss \in Threads
    <2>1. reader'[u] = IF Waiter(u) THEN w(u) ELSE reader[u]
      BY <1>1, <1>6
    <2>2. began'[u] = began[u]
      BY <1>1, <1>6 DEF IInv, TypeOK
    <2>3. reader[u] \in Reader /\ ReaderOK(reader[u], began[u], version)
      BY Before
    <2>4. CASE Waiter(u)
      <3>1. reader'[u] = w(u) /\ reader[u].at = "waiting"
        BY <2>1, <2>4
      <3>2. ReaderOK(w(u), began[u], version)
        BY <1>5, <2>3, <3>1 DEF ReaderOK, Begun, Keyed
      <3>3. Got(w(u)) = 0 /\ Got(reader[u]) = 0
        BY <1>5, <3>1 DEF Got
      <3> QED BY <1>5, <2>1, <2>2, <3>1, <3>2, <3>3
    <2>5. CASE ~Waiter(u)
      <3>1. reader'[u] = reader[u]
        BY <2>1, <2>5
      <3> QED BY <2>1, <2>2, <2>3, <3>1 DEF ReaderOK
    <2> QED BY <2>4, <2>5
  <1>7. reader'[t] = r /\ began'[t] = Idle
    BY <1>1 DEF IInv, TypeOK
  <1>8. version' = version
    BY <1>1 DEF store
  <1>9. ReadersOK'
    BY <1>3, <1>6, <1>7, <1>8 DEF ReadersOK
  <1>10. TypeOK'
    <2>1. reader' \in [Threads -> Reader] /\ began' \in [Threads -> Versions \cup {Idle}]
      BY <1>1, <1>3, <1>6, <1>7 DEF IInv, TypeOK
    <2>2. \A u \in Threads : reader'[u].at = "waiting" => reader'[u].boss \in Threads
      BY <1>3, <1>6, <1>7
    <2>3. inflight' \in [Versions -> Threads \cup {Nobody}]
      BY <1>1 DEF IInv, TypeOK
    <2> QED BY <1>1, <2>1, <2>2, <2>3 DEF IInv, TypeOK, store
  <1>11. OneLoadEach'
    <2>1. \A u \in Threads : Loading(u) <=> reader[u].owner
      BY OwnerIsLoading DEF IInv
    <2>2. \A u \in Threads : Loading(u)' <=> reader'[u].owner
      BY <1>9 DEF ReadersOK, ReaderOK, Loading
    <2>3. \A v \in Versions : inflight'[v] = IF v = reader[t].rev THEN Nobody ELSE inflight[v]
      BY <1>1 DEF IInv, TypeOK
    <2>4. \A v \in Versions : \A u \in Threads :
            (reader[u].owner /\ reader[u].rev = v) <=> inflight[v] = u
      BY <2>1 DEF IInv, OneLoadEach
    <2>5. \A v \in Versions : \A u \in Threads :
            (reader'[u].owner /\ reader'[u].rev = v) <=> inflight'[v] = u
      <3> SUFFICES ASSUME NEW v \in Versions, NEW u \in Threads
                   PROVE  (reader'[u].owner /\ reader'[u].rev = v) <=> inflight'[v] = u
        OBVIOUS
      <3>1. CASE u = t
        BY <1>2, <1>3, <1>7, <2>3, <2>4, <3>1
      <3>2. CASE u # t
        BY <1>2, <1>6, <2>3, <2>4, <3>2
      <3> QED BY <3>1, <3>2
    <2> QED BY <2>2, <2>5 DEF OneLoadEach
  <1>12. EncIsVersion' /\ RoomToWrite' /\ CacheIsRecent'
    BY <1>1 DEF IInv, EncIsVersion, RoomToWrite, CacheIsRecent, store
  <1>13. gots' = [gots EXCEPT ![t] = Got(r)]
    <2>1. \A u \in Threads : Returned(u) = Got(reader[u])
      BY DEF Returned, Got
    <2>2. \A u \in Threads : Returned(u)' = Got(reader'[u])
      BY DEF Returned, Got
    <2>3. gots' = [u \in Threads |-> Got(reader'[u])]
      BY <2>2 DEF gots
    <2>4. gots = [u \in Threads |-> Got(reader[u])]
      BY <2>1 DEF gots
    <2> HIDE DEF Got
    <2> QED BY <1>6, <1>7, <2>3, <2>4
  <1>14. Vault!Return(t)
    <2>1. began[t] # Idle
      BY <1>2, VersionsAreNumbers
    <2>2. Got(r) \in {0} \cup (began[t]..version')
      BY <1>3, <1>8
    <2> HIDE DEF Got
    <2> QED BY <1>1, <1>8, <1>13, <2>1, <2>2 DEF Vault!Return, gots
  <1>15. Abstract
    BY <1>14 DEF Abstract, Vault!Next
  <1> QED BY <1>9, <1>10, <1>11, <1>12, <1>15 DEF IInv

-----------------------------------------------------------------------------
\* The client.

LEMMA TokensOK == ASSUME IInv, NEW t \in Threads, Tokens(t) PROVE IInv' /\ Abstract
  <1> DEFINE r == [reader[t] EXCEPT !.at = "install", !.rev = enc]
  <1>1. Quiet /\ reader[t].at = "tokens" /\ reader' = [reader EXCEPT ![t] = r] /\ began' = began
    BY DEF Tokens, Goes, Quiet
  <1>2. r \in Reader /\ r.at = "install" /\ r.login = reader[t].login /\ r.owner = reader[t].owner
    BY Before DEF Reader, Places
  <1> HIDE DEF r
  <1>3. reader[t].owner = FALSE /\ began[t] = Idle
    BY <1>1, Before DEF ReaderOK, Reader, Begun
  <1>4. ReaderOK(r, began[t], version)
    BY <1>2, <1>3, Before DEF ReaderOK, Begun, Keyed
  <1>5. Moves(t, r, began[t]) /\ version' = version
    BY <1>1, <1>2, <1>4, Before DEF Moves, Quiet, store, IInv, TypeOK, Versions
  <1>6. Got(r) = Got(reader[t])
    BY <1>1, <1>2 DEF Got
  <1> QED BY <1>1, <1>2, <1>3, <1>5, <1>6, QuietMoveOK, AbstractNothing

\* The last step of a thread, which forgets what it got; the client may change.
LEMMA UseOK ==
  ASSUME IInv, NEW t \in Threads, reader[t].at \in {"absent", "install"},
         reader' = [reader EXCEPT ![t] = Rest],
         UNCHANGED <<store, cache, inflight, began>>,
         slot' \in [login : 0..MaxVersions, rev : 0..MaxVersions]
  PROVE  IInv' /\ Abstract
  <1>1. began[t] = Idle /\ reader[t].owner = FALSE
    BY Before DEF ReaderOK, Reader, Begun
  <1>2. Moves(t, Rest, began[t]) /\ version' = version
    BY <1>1, RestIsOK, Before DEF Moves, store, IInv, TypeOK, Versions
  <1>3. Got(Rest) = 0 /\ Rest.owner = FALSE
    BY DEF Got, Rest
  <1>4. OneLoadEach'
    BY <1>1, <1>2, <1>3, MovesKeepLoads DEF IInv
  <1>5. TypeOK' /\ ReadersOK'
    BY <1>2, MovesKeepReaders DEF IInv, TypeOK, store
  <1>6. EncIsVersion' /\ RoomToWrite' /\ CacheIsRecent'
    BY DEF IInv, EncIsVersion, RoomToWrite, CacheIsRecent, store
  <1> QED BY <1>2, <1>3, <1>4, <1>5, <1>6, AbstractUse DEF IInv

LEMMA NoProfileOK == ASSUME IInv, NEW t \in Threads, NoProfile(t) PROVE IInv' /\ Abstract
  BY UseOK DEF NoProfile, Goes, IInv, TypeOK

LEMMA InstallOK == ASSUME IInv, NEW t \in Threads, Install(t) PROVE IInv' /\ Abstract
  <1>1. slot' \in [login : 0..MaxVersions, rev : 0..MaxVersions]
    BY Before DEF Install, IInv, TypeOK, Reader
  <1> QED BY <1>1, UseOK DEF Install, Goes

LEMMA ResetClientOK == IInv /\ ResetClient => IInv' /\ Abstract
  <1> SUFFICES ASSUME IInv, ResetClient PROVE IInv' /\ Abstract
    OBVIOUS
  <1>1. UNCHANGED <<store, cache, inflight, reader, began>> /\ slot' = NoClient
    BY DEF ResetClient
  <1>2. version' \in Versions /\ version <= version' /\ version' = version
    BY <1>1 DEF store, IInv, TypeOK, Versions
  <1>3. ReadersOK'
    BY <1>1, <1>2, ChangesKeepReaders DEF IInv
  <1>4. OneLoadEach'
    BY <1>1, <1>3, SameLoads DEF IInv
  <1>5. TypeOK'
    <2>1. NoClient \in [login : 0..MaxVersions, rev : 0..MaxVersions]
      BY DEF NoClient
    <2> QED BY <1>1, <2>1 DEF IInv, TypeOK, store
  <1>6. EncIsVersion' /\ RoomToWrite' /\ CacheIsRecent'
    BY <1>1 DEF IInv, EncIsVersion, RoomToWrite, CacheIsRecent, store
  <1> QED BY <1>1, <1>2, <1>3, <1>4, <1>5, <1>6, AbstractChange DEF IInv

-----------------------------------------------------------------------------
\* The theorems.

LEMMA StepOK == ASSUME IInv, NEW t \in Threads, Step(t) PROVE IInv' /\ Abstract
  BY GetClientOK, LookOK, ReadRevisionOK, LookUpOK, OwnOK, JoinOK, WaitTimesOutOK, WokenOK,
     DecryptOK, DecryptFailsOK, CompleteDeletionOK, StoreOK, FinishOK, TokensOK, NoProfileOK,
     InstallOK DEF Step, OwnerStep

LEMMA NextOK == IInv /\ [Next]_vars => IInv' /\ Abstract
  <1> SUFFICES ASSUME IInv, [Next]_vars PROVE IInv' /\ Abstract
    OBVIOUS
  <1>1. CASE Operation
    <2>1. UNCHANGED <<reader, began>> /\ version' \in {version, version + 1}
      BY <1>1, OperationStore DEF readers
    <2> QED BY <1>1, <2>1, OperationOK, AbstractChange
  <1>2. CASE ResetClient
    BY <1>2, ResetClientOK
  <1>3. CASE \E t \in Threads : Step(t)
    BY <1>3, StepOK
  <1>4. CASE UNCHANGED vars
    <2>1. IInv'
      BY <1>4 DEF vars, IInv, TypeOK, EncIsVersion, RoomToWrite, CacheIsRecent, ReadersOK,
         OneLoadEach, Loading
    <2>2. UNCHANGED <<reader, began>> /\ version' \in {version, version + 1}
      BY <1>4 DEF vars
    <2> QED BY <2>1, <2>2, AbstractChange
  <1> QED BY <1>1, <1>2, <1>3, <1>4 DEF Next

LEMMA Invariant == Spec => []IInv
  <1>1. IInv /\ [Next]_vars => IInv'
    BY NextOK
  <1> QED BY InitOK, <1>1, PTL DEF Spec

\* Types: a thread that waits waits for a thread, and every table stays within its domain.
THEOREM TypeCorrect == Spec => []TypeOK
  <1>1. IInv => TypeOK
    BY DEF IInv
  <1> QED BY <1>1, Invariant, PTL

\* Whatever falls between the reading of a revision and the load, a payload in the cache
\* is not older than the revision that it is kept for.
THEOREM CacheAlwaysRecent == Spec => []CacheIsRecent
  <1>1. IInv => CacheIsRecent
    BY DEF IInv
  <1> QED BY <1>1, Invariant, PTL

\* For any number of threads one at a time loads a revision, and the table names it.
THEOREM SingleFlight == Spec => []OneLoadEach
  <1>1. IInv => OneLoadEach
    BY DEF IInv
  <1> QED BY <1>1, Invariant, PTL

\* The cached, single-flight read implements the atomic one.
THEOREM ReadsImplementAtomic == Spec => ReadsAreAtomic
  <1>1. Init => Vault!Init
    <2> SUFFICES ASSUME Init PROVE Vault!Init
      OBVIOUS
    <2>1. \A t \in Threads : Returned(t) = 0
      BY DEF Init, Returned, Rest
    <2> QED BY <2>1 DEF Init, Vault!Init
  <1>2. IInv /\ [Next]_vars => [Vault!Next]_(Vault!vars)
    BY NextOK DEF Abstract, Vault!vars, gots
  <1> QED BY <1>1, <1>2, Invariant, PTL DEF Spec, ReadsAreAtomic, Vault!Spec
=============================================================================
