-------------------------- MODULE DownloadsProofs --------------------------
(***************************************************************************)
(* Proofs, for any number of artifacts, titles, processes and retries: a   *)
(* command finds a free name for every artifact of its listing, what it    *)
(* reports as saved is there under that name, and the file of a streamed   *)
(* artifact is whole.                                                      *)
(***************************************************************************)
EXTENDS Downloads, FiniteSetTheorems, SequenceTheorems, WellFoundedInduction, TLAPS

N == Cardinality(Artifacts)

\* What is written in place is not streamed.
WritesText(r) == r.at = "writing" => Head(r.todo) \notin streamed

\* A command works on an artifact.
HasWork(r) == r.at \notin {"idle", "next"} => r.todo # <<>>

\* Every artifact of a listing takes one name at most.
NamesLeft(r) == r.at # "idle" => Cardinality(r.used) + Len(r.todo) <= N

\* A command does not give a name again that it has reported.
ReportedIsUsed(r) ==
    r.at # "idle" => \A a \in Artifacts, n \in Names : <<a, n>> \in r.saved => n \in r.used

Sound(r) == HasWork(r) /\ NamesLeft(r) /\ ReportedIsUsed(r)

\* The listing has no artifact that is still to be completed, and none twice.
ListingIsShort == Len(listing) + Cardinality(future) <= N

\* What a command has saved counts while it has the directory to itself.
SavedAlone == \A s \in Sweeps : sweep[s].saved # {} => Alone(s)

IInv ==
    /\ TypeOK /\ ListingIsShort
    /\ \A s \in Sweeps : Sound(sweep[s]) /\ WritesText(sweep[s])
    /\ SavedAlone /\ StreamsAreWhole /\ SavedIsOnDisk

-----------------------------------------------------------------------------
\* Counting.

\* There are finitely many artifacts.
LEMMA NIsNatural == N \in Nat /\ IsFiniteSet(Artifacts)
  BY ArtifactsAssumption, FS_CardinalityType DEF N

\* The names of a command are finitely many: they are told apart by three values, the
\* last of which is at most N.
LEMMA FewNames ==
    ASSUME NEW a \in Artifacts, NEW kind \in BOOLEAN, NEW used \in SUBSET Names,
           IsFiniteSet(used), Cardinality(used) < N
    PROVE  \E k \in 1..N : <<Title[a], kind, k>> \notin used
  <1>1. SUFFICES ASSUME \A k \in 1..N : <<Title[a], kind, k>> \in used PROVE FALSE
    OBVIOUS
  <1> DEFINE name == [k \in 1..N |-> <<Title[a], kind, k>>]
  <1>2. name \in Injection(1..N, used)
    BY <1>1 DEF Injection, IsInjective
  <1>3. Cardinality(1..N) <= Cardinality(used)
    BY <1>2, FS_Injection
  <1>4. Cardinality(1..N) = N
    BY NIsNatural, FS_Interval
  <1>5. QED
    BY <1>3, <1>4, NIsNatural, FS_CardinalityType

\* The number that NameFor takes.
Least(free) == CHOOSE k \in free : \A j \in free : k <= j

\* A nonempty set of naturals up to N has a smallest element.
LEMMA Smallest ==
    ASSUME NEW free \in SUBSET (1..N), free # {}
    PROVE  Least(free) \in free
  <1>1. free \subseteq Nat
    BY NIsNatural
  <1>2. PICK k \in free : \A j \in free : <<j, k>> \notin OpToRel(<, Nat)
    BY <1>1, WFMin, NatLessThanWellFounded
  <1>3. \A j \in free : ~(j < k)
    BY <1>1, <1>2 DEF OpToRel
  <1>4. \E m \in free : \A j \in free : m <= j
    BY <1>1, <1>3
  <1>5. QED
    BY <1>4, Zenon DEF Least

\* The name of an artifact is one of its own, and the command has not used it.
LEMMA FreshName ==
    ASSUME NEW a \in Artifacts, NEW used \in SUBSET Names,
           IsFiniteSet(used), Cardinality(used) < N
    PROVE  NameFor(a, used) \in Names \ used
  <1> DEFINE kind == a \in streamed
             name(k) == <<Title[a], kind, k>>
             free == {k \in 1..N : name(k) \notin used}
  <1>1. free \in SUBSET (1..N) /\ free # {}
    <2>1. kind \in BOOLEAN
      OBVIOUS
    <2>2. QED
      BY <2>1, FewNames
  <1>2. NameFor(a, used) = name(Least(free))
    BY DEF NameFor, N, Least
  <1>3. Least(free) \in free
    <2> HIDE DEF free
    <2>1. QED
      BY <1>1, Smallest
  <1>4. \A m \in 1..N : name(m) \in Names
    <2>1. kind \in BOOLEAN
      OBVIOUS
    <2> HIDE DEF kind
    <2>2. QED
      BY <2>1 DEF Names, N
  <1>5. QED
    BY <1>2, <1>3, <1>4

\* Two things are a finite set.
LEMMA Pair == \A x, y : IsFiniteSet({x} \cup {y})
  BY FS_Singleton, FS_AddElement

\* There are finitely many names.
LEMMA NamesFinite == IsFiniteSet(Names)
  <1> DEFINE some == (Artifacts \X BOOLEAN) \X (1..N)
             name == [t \in some |-> <<Title[t[1][1]], t[1][2], t[2]>>]
  <1>1. IsFiniteSet(BOOLEAN)
    <2>1. BOOLEAN = {TRUE} \cup {FALSE}
      OBVIOUS
    <2>2. QED
      BY <2>1, Pair, Zenon
  <1>2. IsFiniteSet(1..N)
    BY NIsNatural, FS_Interval
  <1>3. IsFiniteSet(some)
    BY <1>1, <1>2, NIsNatural, FS_Product
  <1>4. name \in Surjection(some, Names)
    <2>1. \A t \in some : name[t] \in Names
      BY DEF Names, N
    <2>2. ASSUME NEW n \in Names PROVE \E t \in some : name[t] = n
      <3>1. PICK a \in Artifacts, kind \in BOOLEAN, k \in 1..N : n = <<Title[a], kind, k>>
        BY DEF Names, N
      <3>2. <<<<a, kind>>, k>> \in some
        OBVIOUS
      <3>3. name[<<<<a, kind>>, k>>] = n
        BY <3>1, <3>2
      <3>4. QED
        BY <3>2, <3>3
    <2>3. QED
      BY <2>1, <2>2 DEF Surjection
  <1>5. QED
    BY <1>3, <1>4, FS_Surjection
-----------------------------------------------------------------------------
\* The records of the commands.

\* Where a command starts is within the bounds.
LEMMA RestFields ==
    /\ "idle" \in Places /\ "next" \in Places /\ <<>> \in Seq(Artifacts)
    /\ 0 \in 0..MaxPolls /\ 0 \in 0..Retries
  BY BoundsAssumption, EmptySeq DEF Places

\* A process that runs no command is in order.
LEMMA RestIsSound ==
    /\ Rest \in Sweep /\ Sound(Rest) /\ WritesText(Rest) /\ Rest.at = "idle"
    /\ Rest.used = {} /\ Rest.saved = {}
  <1>1. Rest \in Sweep
    BY RestFields DEF Sweep, Rest
  <1>2. Rest.at = "idle" /\ Rest.used = {} /\ Rest.saved = {}
    BY DEF Rest
  <1>3. QED
    BY <1>1, <1>2 DEF Sound, HasWork, NamesLeft, ReportedIsUsed, WritesText

\* A command is at work on an artifact.
Works(s) == sweep[s].at # "idle" /\ sweep[s].todo # <<>>

\* The names that a command has used can be counted.
LEMMA FinitelyUsed == ASSUME NEW used \in SUBSET Names
                      PROVE  IsFiniteSet(used) /\ Cardinality(used) \in Nat
  BY NamesFinite, FS_Subset, FS_CardinalityType

\* A command at work has an artifact, and a name for it that it has not used.
LEMMA Current ==
    ASSUME IInv, NEW s \in Sweeps, Works(s)
    PROVE  This(s) \in Artifacts /\ NameOf(s) \in Names \ sweep[s].used
  <1>1. sweep[s] \in Sweep /\ NamesLeft(sweep[s])
    BY DEF IInv, TypeOK, Sound
  <1>2. This(s) \in Artifacts /\ Len(sweep[s].todo) \in Nat \ {0}
    BY <1>1, HeadTailProperties, EmptySeq, LenProperties DEF Works, This, Sweep
  <1> DEFINE used == sweep[s].used
  <1>3. used \in SUBSET Names
    BY <1>1 DEF Sweep
  <1>4. Cardinality(used) < N /\ IsFiniteSet(used)
    BY <1>1, <1>2, <1>3, FinitelyUsed, NIsNatural DEF NamesLeft, Works
  <1> HIDE DEF used
  <1>5. NameFor(This(s), used) \in Names \ used
    BY <1>2, <1>3, <1>4, FreshName
  <1>6. QED
    BY <1>2, <1>5 DEF NameOf, used

\* A command is through with its first artifact.
LEMMA ThroughIt ==
    ASSUME IInv, NEW s \in Sweeps, Works(s)
    PROVE  /\ Through(s) \in Sweep /\ Sound(Through(s)) /\ Through(s).at = "next"
           /\ Through(s).saved = sweep[s].saved /\ NameOf(s) \in Through(s).used
  <1> DEFINE r == sweep[s]
             n == NameOf(s)
             t == Through(s)
  <1>1. r \in Sweep /\ Sound(r) /\ r.at # "idle" /\ r.todo # <<>>
    BY DEF IInv, TypeOK, Works
  <1>2. n \in Names
    BY Current
  <1>3. t = [r EXCEPT !.at = "next", !.todo = Tail(@), !.tries = 0, !.used = @ \cup {n}]
    BY DEF Through
  <1> HIDE DEF r, n, t
  <1>4. Tail(r.todo) \in Seq(Artifacts) /\ Len(Tail(r.todo)) = Len(r.todo) - 1
        /\ Len(r.todo) \in Nat
    BY <1>1, HeadTailProperties, LenProperties DEF Sweep
  <1>5. t \in Sweep
    <2>1. 0 \in 0..Retries /\ r.used \cup {n} \in SUBSET Names
      BY <1>1, <1>2, BoundsAssumption DEF Sweep
    <2>2. "next" \in Places
      BY DEF Places
    <2>3. QED
      BY <1>1, <1>3, <1>4, <2>1, <2>2 DEF Sweep
  <1>6. /\ t.at = "next" /\ t.saved = r.saved /\ t.used = r.used \cup {n}
        /\ t.todo = Tail(r.todo)
    BY <1>1, <1>3 DEF Sweep
  <1>7. HasWork(t) /\ ReportedIsUsed(t)
    BY <1>1, <1>6 DEF Sound, HasWork, ReportedIsUsed
  <1>8. Cardinality(r.used \cup {n}) <= Cardinality(r.used) + 1
        /\ Cardinality(r.used) \in Nat /\ Cardinality(r.used \cup {n}) \in Nat
    <2>1. r.used \in SUBSET Names
      BY <1>1 DEF Sweep
    <2>2. IsFiniteSet(r.used) /\ Cardinality(r.used) \in Nat
      BY <2>1, FinitelyUsed
    <2>3. QED
      <3>1. Cardinality(r.used \cup {n}) =
              IF n \in r.used THEN Cardinality(r.used) ELSE Cardinality(r.used) + 1
        BY <2>2, FS_AddElement
      <3>2. QED
        BY <2>2, <3>1
  <1>9. NamesLeft(t)
    BY <1>1, <1>4, <1>6, <1>8, NIsNatural DEF Sound, NamesLeft
  <1>10. QED
    BY <1>5, <1>6, <1>7, <1>9 DEF Sound, r, n, t

\* ... and reports it as saved.
LEMMA SavedIt ==
    ASSUME IInv, NEW s \in Sweeps, Works(s)
    PROVE  /\ Saved(s) \in Sweep /\ Sound(Saved(s)) /\ Saved(s).at = "next"
           /\ Saved(s).saved = IF Alone(s) THEN sweep[s].saved \cup {<<This(s), NameOf(s)>>}
                               ELSE sweep[s].saved
  <1> DEFINE t == Through(s)
             it == <<This(s), NameOf(s)>>
             more == IF Alone(s) THEN t.saved \cup {it} ELSE t.saved
  <1>1. t \in Sweep /\ Sound(t) /\ t.at = "next" /\ t.saved = sweep[s].saved
        /\ NameOf(s) \in t.used
    BY ThroughIt
  <1>2. it \in Artifacts \X Names
    BY Current
  <1>3. Saved(s) = [t EXCEPT !.saved = more]
    BY DEF Saved
  <1>4. more \in SUBSET (Artifacts \X Names)
    BY <1>1, <1>2 DEF Sweep
  <1>5. \A a \in Artifacts, n \in Names : <<a, n>> \in more => n \in t.used
    BY <1>1 DEF Sound, ReportedIsUsed
  <1>6. more = IF Alone(s) THEN sweep[s].saved \cup {it} ELSE sweep[s].saved
    BY <1>1
  <1> HIDE DEF t, more
  <1>7. [t EXCEPT !.saved = more] \in Sweep
    BY <1>1, <1>4 DEF Sweep
  <1>8. \A u : u = [t EXCEPT !.saved = more] =>
            u.at = t.at /\ u.todo = t.todo /\ u.used = t.used /\ u.saved = more
    BY <1>1 DEF Sweep
  <1>9. Sound(Saved(s)) /\ Saved(s).at = "next" /\ Saved(s).saved = more
    BY <1>1, <1>3, <1>5, <1>8 DEF Sound, HasWork, NamesLeft, ReportedIsUsed
  <1>10. QED
    BY <1>3, <1>6, <1>7, <1>9

\* A command goes to another place with the same artifact.
LEMMA SamePlace ==
    ASSUME IInv, NEW s \in Sweeps, Works(s), NEW r \in Sweep,
           r.at # "idle", r.todo = sweep[s].todo, r.used = sweep[s].used,
           r.saved = sweep[s].saved
    PROVE  Sound(r)
  BY DEF IInv, Sound, HasWork, NamesLeft, ReportedIsUsed, Works
-----------------------------------------------------------------------------
\* The steps of a command.

\* One command moves, and the others do not.
LEMMA Effect ==
    ASSUME IInv, NEW s \in Sweeps, NEW r \in Sweep, Goes(s, r)
    PROVE  /\ sweep' \in [Sweeps -> Sweep] /\ sweep'[s] = r
           /\ \A u \in Sweeps \ {s} : sweep'[u] = sweep[u]
  BY DEF IInv, TypeOK, Goes

\* Nobody else has the directory to itself while a command is running.
LEMMA OthersForgot ==
    ASSUME IInv, NEW s \in Sweeps, sweep[s].at # "idle", NEW u \in Sweeps \ {s}
    PROVE  sweep[u].saved = {}
  BY DEF IInv, SavedAlone, Alone, Stopped

\* A command goes on without touching the directory.
LEMMA Moves ==
    ASSUME IInv, NEW s \in Sweeps, sweep[s].at # "idle",
           NEW r \in Sweep, Sound(r), WritesText(r), r.saved \subseteq sweep[s].saved,
           Goes(s, r), UNCHANGED <<streamed, listing, future, file>>
    PROVE  IInv'
  <1>1. /\ sweep' \in [Sweeps -> Sweep] /\ sweep'[s] = r
        /\ \A u \in Sweeps \ {s} : sweep'[u] = sweep[u] /\ sweep[u].saved = {}
    BY Effect, OthersForgot
  <1>2. TypeOK' /\ ListingIsShort'
    BY <1>1 DEF IInv, TypeOK, ListingIsShort
  <1>3. \A u \in Sweeps : (Sound(sweep[u]) /\ WritesText(sweep[u]))'
    BY <1>1 DEF IInv, Sound, HasWork, NamesLeft, ReportedIsUsed, WritesText
  <1>4. SavedAlone'
    BY <1>1 DEF IInv, SavedAlone, Alone, Stopped
  <1>5. StreamsAreWhole' /\ SavedIsOnDisk'
    BY <1>1 DEF IInv, StreamsAreWhole, SavedIsOnDisk
  <1>6. QED
    BY <1>2, <1>3, <1>4, <1>5 DEF IInv

\* One file is replaced.
LEMMA InFile ==
    ASSUME IInv, NEW n \in Names, NEW f \in File, file' = [file EXCEPT ![n] = f]
    PROVE  /\ file' \in [Names -> File \cup {Nothing}] /\ file'[n] = f
           /\ \A m \in Names \ {n} : file'[m] = file[m]
  BY DEF IInv, TypeOK

\* A whole file, or one that is not streamed, takes its place in the directory, under a
\* name that the command has not reported yet.
LEMMA Writes ==
    ASSUME IInv, NEW s \in Sweeps, Works(s), NEW r \in Sweep, Sound(r), WritesText(r),
           NEW whole \in BOOLEAN, This(s) \in streamed => whole,
           r.saved = IF whole /\ Alone(s) THEN sweep[s].saved \cup {<<This(s), NameOf(s)>>}
                     ELSE sweep[s].saved,
           Goes(s, r), UNCHANGED <<streamed, listing, future>>,
           file' = [file EXCEPT ![NameOf(s)] = [of |-> This(s), whole |-> whole]]
    PROVE  IInv'
  <1>1. /\ sweep' \in [Sweeps -> Sweep] /\ sweep'[s] = r
        /\ \A u \in Sweeps \ {s} : sweep'[u] = sweep[u] /\ sweep[u].saved = {}
    BY Effect, OthersForgot DEF Works
  <1> DEFINE f == [of |-> This(s), whole |-> whole]
             n == NameOf(s)
             it == This(s)
  <1>2. /\ f \in File /\ f.of = it /\ f.whole = whole /\ n \in Names /\ n \notin sweep[s].used
        /\ it \in Artifacts
    BY Current DEF File
  <1>3. f = [of |-> it, whole |-> whole] /\ (it \in streamed => whole)
        /\ r.saved = IF whole /\ Alone(s) THEN sweep[s].saved \cup {<<it, n>>}
                     ELSE sweep[s].saved
    OBVIOUS
  <1>4. /\ file' \in [Names -> File \cup {Nothing}] /\ file'[n] = f
        /\ \A m \in Names \ {n} : file'[m] = file[m]
    BY <1>2, InFile
  <1> HIDE DEF f, n, it
  <1>5. TypeOK' /\ ListingIsShort'
    BY <1>1, <1>4 DEF IInv, TypeOK, ListingIsShort
  <1>6. \A u \in Sweeps : (Sound(sweep[u]) /\ WritesText(sweep[u]))'
    BY <1>1 DEF IInv, Sound, HasWork, NamesLeft, ReportedIsUsed, WritesText
  <1>7. SavedAlone'
    BY <1>1, <1>3 DEF IInv, SavedAlone, Alone, Stopped
  <1>8. StreamsAreWhole'
    BY <1>2, <1>3, <1>4 DEF IInv, StreamsAreWhole
  <1>9. ASSUME NEW u \in Sweeps, NEW a \in Artifacts, NEW m \in Names,
               <<a, m>> \in sweep'[u].saved
        PROVE  file'[m] = [of |-> a, whole |-> TRUE]
    <2>1. u = s /\ <<a, m>> \in r.saved
      BY <1>1, <1>9
    <2>2. CASE <<a, m>> \in sweep[s].saved
      <3>1. m # n
        BY <1>2, <2>2 DEF IInv, Sound, ReportedIsUsed, Works
      <3>2. file[m] = [of |-> a, whole |-> TRUE]
        BY <2>2 DEF IInv, SavedIsOnDisk
      <3>3. QED
        BY <1>4, <3>1, <3>2
    <2>3. CASE <<a, m>> \notin sweep[s].saved
      <3>1. whole /\ a = it /\ m = n
        BY <1>3, <2>1, <2>3
      <3>2. QED
        BY <1>3, <1>4, <3>1
    <2>4. QED
      BY <2>2, <2>3
  <1>10. SavedIsOnDisk'
    BY <1>9 DEF SavedIsOnDisk
  <1>11. QED
    BY <1>5, <1>6, <1>7, <1>8, <1>10 DEF IInv

\* Every step of a command preserves the invariant.
LEMMA WorkStep ==
    ASSUME IInv, NEW s \in Sweeps, Work(s)
    PROVE  IInv'
  <1>1. sweep[s] \in Sweep /\ Sound(sweep[s]) /\ WritesText(sweep[s])
    BY DEF IInv, TypeOK
  <1>2. Finish(s) \/ Works(s)
    BY <1>1 DEF Work, Works, Skip, Choose, SelectFails, SelectStreamed, SelectText, Receive,
                ReceiveFails, NotFound, Replace, WriteText, WriteFails, Sound, HasWork
  <1>3. ASSUME Works(s), NEW place \in Places \ {"idle"}
        PROVE  LET r == [sweep[s] EXCEPT !.at = place]
               IN  r \in Sweep /\ Sound(r) /\ r.at = place /\ r.saved = sweep[s].saved
                   /\ r.todo = sweep[s].todo
    <2> DEFINE r == [sweep[s] EXCEPT !.at = place]
    <2>1. r \in Sweep /\ r.at = place /\ r.saved = sweep[s].saved
          /\ r.todo = sweep[s].todo /\ r.used = sweep[s].used
      BY <1>1, <1>3 DEF Sweep
    <2> HIDE DEF r
    <2>2. Sound(r)
      BY <1>3, <2>1, SamePlace
    <2>3. QED
      BY <2>1, <2>2 DEF r
  <1>4. CASE Skip(s) \/ SelectFails(s) \/ ReceiveFails(s) \/ WriteFails(s)
    <2>1. Works(s) /\ Goes(s, Through(s)) /\ UNCHANGED <<streamed, listing, future, file>>
      BY <1>1, <1>4 DEF Works, Skip, SelectFails, ReceiveFails, WriteFails, Sound, HasWork
    <2>2. Through(s) \in Sweep /\ Sound(Through(s)) /\ Through(s).at = "next"
          /\ Through(s).saved = sweep[s].saved
      BY <2>1, ThroughIt
    <2>3. QED
      BY <2>1, <2>2, Moves DEF WritesText, Works
  <1>5. CASE Choose(s) \/ SelectStreamed(s) \/ Receive(s)
    <2>1. PICK place \in {"select", "receiving", "received"} :
              Goes(s, [sweep[s] EXCEPT !.at = place])
      BY <1>5 DEF Choose, SelectStreamed, Receive
    <2>2. Works(s) /\ UNCHANGED <<streamed, listing, future, file>>
      BY <1>1, <1>5 DEF Works, Choose, SelectStreamed, Receive, Sound, HasWork
    <2> DEFINE r == [sweep[s] EXCEPT !.at = place]
    <2>3. r \in Sweep /\ Sound(r) /\ r.at = place /\ r.saved = sweep[s].saved
      BY <1>3, <2>2 DEF Places
    <2> HIDE DEF r
    <2>4. Goes(s, r)
      BY <2>1 DEF r
    <2>5. QED
      BY <2>2, <2>3, <2>4, Moves DEF WritesText, Works
  <1>6. CASE Finish(s)
    <2> DEFINE r == [Rest EXCEPT !.saved = sweep[s].saved]
    <2>1. r \in Sweep /\ r.at = "idle" /\ r.saved = sweep[s].saved
      <3>1. sweep[s].saved \in SUBSET (Artifacts \X Names)
        BY <1>1 DEF Sweep
      <3> DEFINE saved == sweep[s].saved
      <3> HIDE DEF saved
      <3>2. Rest \in Sweep /\ Rest.at = "idle"
        BY RestIsSound
      <3>3. [Rest EXCEPT !.saved = saved] \in Sweep
            /\ [Rest EXCEPT !.saved = saved].at = "idle"
            /\ [Rest EXCEPT !.saved = saved].saved = saved
        BY <3>1, <3>2 DEF Sweep, saved
      <3>4. QED
        BY <3>3 DEF saved
    <2> HIDE DEF r
    <2>2. Sound(r) /\ WritesText(r)
      BY <2>1 DEF Sound, HasWork, NamesLeft, ReportedIsUsed, WritesText
    <2>3. Goes(s, r) /\ sweep[s].at # "idle" /\ UNCHANGED <<streamed, listing, future, file>>
      BY <1>6 DEF Finish, r
    <2>4. QED
      BY <2>1, <2>2, <2>3, Moves
  <1>7. CASE NotFound(s)
    <2>1. Works(s) /\ UNCHANGED <<streamed, listing, future, file>>
      BY <1>1, <1>7 DEF Works, NotFound, Sound, HasWork
    <2> DEFINE r == AfterNotFound(s)
    <2>2. r \in Sweep /\ Sound(r) /\ r.at # "writing" /\ r.saved = sweep[s].saved
      <3>1. CASE r = Through(s)
        BY <2>1, <3>1, ThroughIt
      <3>2. CASE r # Through(s)
        <4>1. r.at = "select" /\ r.saved = sweep[s].saved /\ r.todo = sweep[s].todo
              /\ r.used = sweep[s].used
          BY <1>1, <3>2 DEF AfterNotFound, Sweep
        <4>2. r \in Sweep
          <5>1. sweep[s].tries \in 0..Retries /\ sweep[s].polls \in 0..MaxPolls
            BY <1>1 DEF Sweep
          <5>2. CASE sweep[s].tries < Retries
            <6>1. sweep[s].tries + 1 \in 0..Retries
              BY <5>1, <5>2, BoundsAssumption
            <6>2. r = [sweep[s] EXCEPT !.at = "select", !.tries = @ + 1]
              BY <5>2 DEF AfterNotFound
            <6> HIDE DEF r
            <6>3. QED
              BY <1>1, <6>1, <6>2 DEF Sweep, Places
          <5>3. CASE ~(sweep[s].tries < Retries)
            <6>1. sweep[s].polls - 1 \in 0..MaxPolls /\ 0 \in 0..Retries
              BY <3>2, <5>1, <5>3, BoundsAssumption DEF AfterNotFound
            <6>2. r = [sweep[s] EXCEPT !.at = "select", !.tries = 0, !.polls = @ - 1]
              BY <3>2, <5>3 DEF AfterNotFound
            <6> HIDE DEF r
            <6>3. QED
              BY <1>1, <6>1, <6>2 DEF Sweep, Places
          <5>4. QED
            BY <5>2, <5>3
        <4> HIDE DEF r
        <4>3. QED
          BY <2>1, <4>1, <4>2, SamePlace
      <3>3. QED
        BY <3>1, <3>2
    <2> HIDE DEF r
    <2>3. Goes(s, r)
      BY <1>7 DEF NotFound, r
    <2>4. QED
      BY <2>1, <2>2, <2>3, Moves DEF WritesText, Works
  <1>8. CASE SelectText(s)
    <2>1. Works(s) /\ This(s) \notin streamed
      BY <1>1, <1>8 DEF Works, SelectText, Sound, HasWork
    <2> DEFINE r == [sweep[s] EXCEPT !.at = "writing"]
    <2>2. r \in Sweep /\ Sound(r) /\ r.saved = sweep[s].saved /\ r.todo = sweep[s].todo
      BY <1>3, <2>1 DEF Places
    <2>3. /\ Goes(s, r) /\ UNCHANGED <<streamed, listing, future>>
          /\ file' = [file EXCEPT ![NameOf(s)] = [of |-> This(s), whole |-> FALSE]]
      BY <1>8 DEF SelectText
    <2> HIDE DEF r
    <2>4. WritesText(r)
      BY <2>1, <2>2 DEF WritesText, This
    <2>5. QED
      BY <2>1, <2>2, <2>3, <2>4, Writes
  <1>9. CASE Replace(s) \/ WriteText(s)
    <2>1. /\ Works(s) /\ Goes(s, Saved(s)) /\ UNCHANGED <<streamed, listing, future>>
          /\ file' = [file EXCEPT ![NameOf(s)] = [of |-> This(s), whole |-> TRUE]]
      BY <1>1, <1>9 DEF Works, Replace, WriteText, Sound, HasWork
    <2> DEFINE r == Saved(s)
    <2>2. /\ r \in Sweep /\ Sound(r) /\ r.at = "next"
          /\ r.saved = IF Alone(s) THEN sweep[s].saved \cup {<<This(s), NameOf(s)>>}
                       ELSE sweep[s].saved
      BY <2>1, SavedIt
    <2> HIDE DEF r
    <2>3. WritesText(r)
      BY <2>2 DEF WritesText
    <2>4. Goes(s, r)
      BY <2>1 DEF r
    <2>5. QED
      BY <2>1, <2>2, <2>3, <2>4, Writes
  <1>10. QED
    BY <1>4, <1>5, <1>6, <1>7, <1>8, <1>9 DEF Work

\* A command begins: those that share the directory forget what they have saved.
LEMMA BeginStep ==
    ASSUME IInv, NEW s \in Sweeps, NEW todo \in Seq(Artifacts), Len(todo) <= N,
           NEW r \in Sweep, r.at = "next", r.todo = todo, r.used = {}, r.saved = {},
           Begins(s, r)
    PROVE  IInv'
  <1>1. /\ sweep' = [u \in Sweeps |-> IF u = s THEN r ELSE [sweep[u] EXCEPT !.saved = {}]]
        /\ UNCHANGED <<streamed, listing, future, file>>
    BY DEF Begins
  <1>2. ASSUME NEW u \in Sweeps \ {s}
        PROVE  /\ sweep'[u] \in Sweep /\ sweep'[u].at = sweep[u].at
               /\ sweep'[u].todo = sweep[u].todo /\ sweep'[u].used = sweep[u].used
               /\ sweep'[u].saved = {}
    <2>1. sweep[u] \in Sweep /\ sweep'[u] = [sweep[u] EXCEPT !.saved = {}]
      BY <1>1 DEF IInv, TypeOK
    <2>2. QED
      BY <2>1 DEF Sweep
  <1>3. sweep'[s] = r
    BY <1>1
  <1>4. sweep' \in [Sweeps -> Sweep] /\ \A u \in Sweeps : sweep'[u].saved = {}
    BY <1>1, <1>2, <1>3
  <1>5. TypeOK' /\ ListingIsShort'
    BY <1>1, <1>4 DEF IInv, TypeOK, ListingIsShort
  <1>6. Sound(r) /\ WritesText(r)
    <2>1. Len(todo) \in Nat /\ N \in Nat
      BY LenProperties, NIsNatural
    <2>2. QED
      BY <2>1, FS_EmptySet DEF Sound, HasWork, NamesLeft, ReportedIsUsed, WritesText
  <1>7. \A u \in Sweeps : (Sound(sweep[u]) /\ WritesText(sweep[u]))'
    <2>1. ASSUME NEW u \in Sweeps \ {s} PROVE (Sound(sweep[u]) /\ WritesText(sweep[u]))'
      <3>1. /\ sweep'[u].at = sweep[u].at /\ sweep'[u].todo = sweep[u].todo
            /\ sweep'[u].used = sweep[u].used /\ sweep'[u].saved = {} /\ streamed' = streamed
        BY <1>1, <1>2
      <3>2. Sound(sweep[u]) /\ WritesText(sweep[u])
        BY DEF IInv
      <3>3. QED
        BY <3>1, <3>2 DEF Sound, HasWork, NamesLeft, ReportedIsUsed, WritesText
    <2>2. (Sound(sweep[s]) /\ WritesText(sweep[s]))'
      BY <1>1, <1>3, <1>6 DEF Sound, HasWork, NamesLeft, ReportedIsUsed, WritesText
    <2>3. QED
      BY <2>1, <2>2
  <1>8. SavedAlone' /\ SavedIsOnDisk'
    BY <1>4 DEF SavedAlone, SavedIsOnDisk
  <1>9. StreamsAreWhole'
    BY <1>1 DEF IInv, StreamsAreWhole
  <1>10. QED
    BY <1>5, <1>7, <1>8, <1>9 DEF IInv

-----------------------------------------------------------------------------
\* The service.

\* A listing has as many artifacts at most as there are.
LEMMA ListingFits ==
    ASSUME IInv
    PROVE  /\ listing \in Seq(Artifacts) /\ Len(listing) \in Nat /\ Len(listing) <= N
           /\ IsFiniteSet(future) /\ Cardinality(future) \in Nat
  <1>1. listing \in Seq(Artifacts) /\ future \in SUBSET Artifacts /\ ListingIsShort
    BY DEF IInv, TypeOK
  <1>2. IsFiniteSet(future) /\ Cardinality(future) \in Nat
    BY <1>1, NIsNatural, FS_Subset, FS_CardinalityType
  <1>3. QED
    BY <1>1, <1>2, LenProperties, NIsNatural DEF ListingIsShort

\* So does the service, whose listing grows by what was still to come.
LEMMA ServiceStep ==
    ASSUME IInv, NEW a \in Artifacts, Complete(a) \/ Delete(a)
    PROVE  IInv'
  <1>1. ASSUME listing' \in Seq(Artifacts), future' \subseteq Artifacts, ListingIsShort',
               UNCHANGED <<streamed, file, sweep>>
        PROVE  IInv'
    BY <1>1 DEF IInv, TypeOK, Sound, HasWork, NamesLeft, ReportedIsUsed, WritesText,
                SavedAlone, Alone, Stopped, StreamsAreWhole, SavedIsOnDisk
  <1>2. listing \in Seq(Artifacts) /\ future \subseteq Artifacts /\ ListingIsShort
    BY DEF IInv, TypeOK
  <1>3. /\ Len(listing) \in Nat /\ IsFiniteSet(future) /\ Cardinality(future) \in Nat
        /\ N \in Nat
    BY ListingFits, NIsNatural
  <1>4. CASE Complete(a)
    <2>1. /\ a \in future /\ listing' = <<a>> \o listing /\ future' = future \ {a}
          /\ UNCHANGED <<streamed, file, sweep>>
      BY <1>4 DEF Complete
    <2>2. <<a>> \in Seq(Artifacts) /\ Len(<<a>>) = 1
      OBVIOUS
    <2>3. listing' \in Seq(Artifacts) /\ Len(listing') = 1 + Len(listing)
      BY <1>2, <2>1, <2>2, ConcatProperties
    <2>4. Cardinality(future') = Cardinality(future) - 1
      BY <1>3, <2>1, FS_RemoveElement
    <2>5. ListingIsShort'
      BY <1>2, <1>3, <2>3, <2>4 DEF ListingIsShort
    <2>6. QED
      BY <1>1, <1>2, <2>1, <2>3, <2>5
  <1>5. CASE Delete(a)
    <2>1. PICK i \in DOMAIN listing : listing' = RemoveAt(listing, i)
      BY <1>5 DEF Delete
    <2>2. UNCHANGED <<streamed, future, file, sweep>>
      BY <1>5 DEF Delete
    <2> DEFINE before == SubSeq(listing, 1, i - 1)
               after == SubSeq(listing, i + 1, Len(listing))
    <2>3. i \in 1..Len(listing) /\ \A j \in 1..Len(listing) : listing[j] \in Artifacts
      BY <1>2, LenProperties, ElementOfSeq
    <2>4. before \in Seq(Artifacts) /\ Len(before) = i - 1
      BY <1>3, <2>3, SubSeqProperties
    <2>5. after \in Seq(Artifacts) /\ Len(after) = Len(listing) - i
      BY <1>3, <2>3, SubSeqProperties
    <2>6. listing' = before \o after
      BY <2>1 DEF RemoveAt
    <2> HIDE DEF before, after
    <2>7. listing' \in Seq(Artifacts) /\ Len(listing') = Len(listing) - 1
      BY <1>3, <2>3, <2>4, <2>5, <2>6, ConcatProperties
    <2>8. ListingIsShort'
      BY <1>2, <1>3, <2>2, <2>7 DEF ListingIsShort
    <2>9. QED
      BY <1>1, <1>2, <2>2, <2>7, <2>8
  <1>6. QED
    BY <1>4, <1>5

-----------------------------------------------------------------------------
\* The theorems.

\* The invariant is inductive.
LEMMA Preserved == IInv /\ [Next]_vars => IInv'
  <1>1. SUFFICES ASSUME IInv, [Next]_vars PROVE IInv'
    OBVIOUS
  <1>2. CASE UNCHANGED vars
    BY <1>1, <1>2 DEF vars, IInv, TypeOK, ListingIsShort, Sound, HasWork, NamesLeft,
                      ReportedIsUsed, WritesText, SavedAlone, Alone, Stopped,
                      StreamsAreWhole, SavedIsOnDisk
  <1>3. ASSUME NEW s \in Sweeps, Work(s) PROVE IInv'
    BY <1>1, <1>3, WorkStep
  <1>4. ASSUME NEW s \in Sweeps, Crash(s) PROVE IInv'
    <2>1. sweep[s].at # "idle" /\ Goes(s, Rest) /\ UNCHANGED <<streamed, listing, future, file>>
      BY <1>4 DEF Crash, Stopped
    <2>2. QED
      BY <1>1, <2>1, RestIsSound, Moves
  <1>5. ASSUME NEW s \in Sweeps, NEW skip \in BOOLEAN, StartAll(s, skip) PROVE IInv'
    <2> DEFINE r == [Rest EXCEPT !.at = "next", !.todo = listing, !.skip = skip]
    <2>1. listing \in Seq(Artifacts) /\ Len(listing) <= N
      BY <1>1, ListingFits
    <2>2. /\ r \in Sweep /\ r.at = "next" /\ r.todo = listing /\ r.used = {} /\ r.saved = {}
      BY <2>1, RestIsSound, RestFields DEF Sweep
    <2>3. Begins(s, r)
      BY <1>5 DEF StartAll
    <2> HIDE DEF r
    <2>4. QED
      BY <1>1, <2>1, <2>2, <2>3, BeginStep
  <1>6. ASSUME NEW s \in Sweeps, NEW a \in Artifacts, NEW polls \in 0..MaxPolls,
               StartOne(s, a, polls)
        PROVE  IInv'
    <2> DEFINE todo == <<a>>
               r == [Rest EXCEPT !.at = "next", !.todo = todo, !.polls = polls]
    <2>1. todo \in Seq(Artifacts) /\ Len(todo) = 1
      OBVIOUS
    <2>2. N # 0
      BY NIsNatural, FS_EmptySet DEF N
    <2>3. Len(todo) <= N
      BY <2>1, <2>2, NIsNatural
    <2>4. Begins(s, r)
      BY <1>6 DEF StartOne
    <2> HIDE DEF todo
    <2>5. /\ r \in Sweep /\ r.at = "next" /\ r.todo = todo /\ r.used = {} /\ r.saved = {}
      BY <2>1, RestIsSound, RestFields DEF Sweep
    <2> HIDE DEF r
    <2>6. QED
      BY <1>1, <2>1, <2>3, <2>4, <2>5, BeginStep
  <1>7. ASSUME NEW a \in Artifacts, Complete(a) \/ Delete(a) PROVE IInv'
    BY <1>1, <1>7, ServiceStep
  <1>8. QED
    BY <1>1, <1>2, <1>3, <1>4, <1>5, <1>6, <1>7 DEF Next

\* It holds when nothing has been downloaded.
LEMMA Initially == Init => IInv
  <1>1. SUFFICES ASSUME Init PROVE IInv
    OBVIOUS
  <1>2. /\ streamed \in Kinds /\ listing = <<>> /\ future = Artifacts
        /\ file = [n \in Names |-> Nothing] /\ sweep = [s \in Sweeps |-> Rest]
    BY <1>1 DEF Init
  <1>3. TypeOK
    BY <1>2, RestIsSound, EmptySeq DEF TypeOK
  <1>4. ListingIsShort
    BY <1>2, NIsNatural DEF ListingIsShort, N
  <1>5. SavedAlone /\ StreamsAreWhole /\ SavedIsOnDisk
    BY <1>2, RestIsSound DEF SavedAlone, StreamsAreWhole, SavedIsOnDisk
  <1>6. QED
    BY <1>2, <1>3, <1>4, <1>5, RestIsSound DEF IInv

\* And so it always holds.
LEMMA Always == Spec => []IInv
  BY Initially, Preserved, PTL DEF Spec

\* The variables have their types; above all, a command finds a name in Names for every
\* artifact: the numbers that download_all appends are never exhausted.
THEOREM TypesKept == Spec => []TypeOK
  <1>1. IInv => TypeOK
    BY DEF IInv
  <1>2. QED
    BY <1>1, Always, PTL

\* Whatever fails, whichever process is killed, and whatever the others do to the
\* directory: a streamed artifact has a whole file or none.
THEOREM NeverCorrupted == Spec => []StreamsAreWhole
  <1>1. IInv => StreamsAreWhole
    BY DEF IInv
  <1>2. QED
    BY <1>1, Always, PTL

\* What download_all has reported as saved is there under the reported path, whole, until
\* another command works on the directory, whatever the titles are.
THEOREM SavedStays == Spec => []SavedIsOnDisk
  <1>1. IInv => SavedIsOnDisk
    BY DEF IInv
  <1>2. QED
    BY <1>1, Always, PTL
=============================================================================
