----------------------------- MODULE Downloads -----------------------------
(***************************************************************************)
(* Saving the completed artifacts of a notebook to a directory:            *)
(* download_all and download_async (services/downloads.py) over the        *)
(* methods of DownloadMixin (core/download.py), run by several processes   *)
(* on one directory while the service completes and removes artifacts.     *)
(*                                                                         *)
(* Audio, video, slides, infographics and spreadsheets are streamed to a   *)
(* temporary file that then replaces the target; reports, tables, mind     *)
(* maps, quizzes and flashcards are written in place.  A file is who it    *)
(* belongs to and whether it is whole.                                     *)
(***************************************************************************)
EXTENDS Integers, FiniteSets, Sequences, SequencesExt

CONSTANTS
    Artifacts,      \* the artifacts there may be
    Kinds,          \* which of them are streamed: the cases to consider
    Title,          \* the sanitized title of each
    Sweeps,         \* the processes that download
    Nothing,        \* no file, no artifact
    Retries,        \* _VIDEO_DOWNLOAD_RETRY_DELAYS: repetitions after a 404
    MaxPolls        \* bound: polls of a download that waits

ASSUME ArtifactsAssumption == IsFiniteSet(Artifacts) /\ Nothing \notin Artifacts
ASSUME KindsAssumption == Kinds \subseteq SUBSET Artifacts
ASSUME BoundsAssumption == Retries \in Nat /\ MaxPolls \in Nat

VARIABLES
    streamed,   \* the artifacts that are streamed
    listing,    \* get_studio_status: the completed artifacts, newest first
    future,     \* artifacts that the service has not completed yet
    file,       \* the directory
    sweep       \* the command that each process runs

vars == <<streamed, listing, future, file, sweep>>

\* A name: title, extension (by kind) and number.
Names == {<<Title[a], kind, k>> : a \in Artifacts, kind \in BOOLEAN,
                                  k \in 1..Cardinality(Artifacts)}
File == [of : Artifacts, whole : BOOLEAN]

\* "saved" is a ghost: what a command has saved since it had the directory to itself.
Places == {"idle", "next", "select", "receiving", "received", "writing"}
Sweep == [at : Places, todo : Seq(Artifacts), skip : BOOLEAN, used : SUBSET Names,
          polls : 0..MaxPolls, tries : 0..Retries, saved : SUBSET (Artifacts \X Names)]
Rest == [at |-> "idle", todo |-> <<>>, skip |-> FALSE, used |-> {}, polls |-> 0, tries |-> 0,
         saved |-> {}]

TypeOK ==
    /\ streamed \in Kinds
    /\ listing \in Seq(Artifacts) /\ future \subseteq Artifacts
    /\ file \in [Names -> File \cup {Nothing}]
    /\ sweep \in [Sweeps -> Sweep]

Init ==
    /\ streamed \in Kinds
    /\ listing = <<>> /\ future = Artifacts
    /\ file = [n \in Names |-> Nothing]
    /\ sweep = [s \in Sweeps |-> Rest]

-----------------------------------------------------------------------------
\* The service.

Complete(a) ==
    /\ a \in future
    /\ listing' = <<a>> \o listing /\ future' = future \ {a}
    /\ UNCHANGED <<streamed, file, sweep>>

Delete(a) ==
    /\ \E i \in DOMAIN listing : listing[i] = a /\ listing' = RemoveAt(listing, i)
    /\ UNCHANGED <<streamed, future, file, sweep>>

-----------------------------------------------------------------------------
\* A command.

Stopped(s) == sweep[s].at = "idle"
Alone(s) == \A u \in Sweeps \ {s} : Stopped(u)
Goes(s, r) == sweep' = [sweep EXCEPT ![s] = r]

\* A command disturbs those that share the directory with it.
Begins(s, r) ==
    /\ Stopped(s)
    /\ sweep' = [u \in Sweeps |->
                   IF u = s THEN r ELSE [sweep[u] EXCEPT !.saved = {}]]
    /\ UNCHANGED <<streamed, listing, future, file>>

\* download_all takes the artifacts of one listing.
StartAll(s, skip) == Begins(s, [Rest EXCEPT !.at = "next", !.todo = listing, !.skip = skip])

\* download_async takes one, and may wait for it.
StartOne(s, a, polls) == Begins(s, [Rest EXCEPT !.at = "next", !.todo = <<a>>, !.polls = polls])

\* mutant: the names are told apart by counting, not by looking
MutantForgetsUsed(a, used) == <<Title[a], a \in streamed, 1>>

\* The title, or the first of title_2, title_3, ... that this command has not used.
NameFor(a, used) ==
    LET name(k) == <<Title[a], a \in streamed, k>>
        free == {k \in 1..Cardinality(Artifacts) : name(k) \notin used}
    IN name(CHOOSE k \in free : \A j \in free : k <= j)

This(s) == Head(sweep[s].todo)
NameOf(s) == NameFor(This(s), sweep[s].used)

\* The record of a command that is through with its first artifact.
Through(s) ==
    [sweep[s] EXCEPT !.at = "next", !.todo = Tail(@), !.tries = 0,
                     !.used = @ \cup {NameOf(s)}]
Saved(s) == [Through(s) EXCEPT !.saved = IF Alone(s) THEN @ \cup {<<This(s), NameOf(s)>>} ELSE @]

Skip(s) ==
    /\ sweep[s].at = "next" /\ sweep[s].todo # <<>>
    /\ sweep[s].skip /\ file[NameOf(s)] # Nothing
    /\ Goes(s, Through(s))
    /\ UNCHANGED <<streamed, listing, future, file>>

Choose(s) ==
    /\ sweep[s].at = "next" /\ sweep[s].todo # <<>>
    /\ ~(sweep[s].skip /\ file[NameOf(s)] # Nothing)
    /\ Goes(s, [sweep[s] EXCEPT !.at = "select"])
    /\ UNCHANGED <<streamed, listing, future, file>>

Finish(s) ==
    /\ sweep[s].at = "next" /\ sweep[s].todo = <<>>
    /\ Goes(s, [Rest EXCEPT !.saved = sweep[s].saved])
    /\ UNCHANGED <<streamed, listing, future, file>>

\* ArtifactNotReadyError, a refused request, an unexpected structure.
SelectFails(s) ==
    /\ sweep[s].at = "select"
    /\ Goes(s, Through(s))
    /\ UNCHANGED <<streamed, listing, future, file>>

\* The artifact is still listed: its URL is opened, into a temporary file.
SelectStreamed(s) ==
    /\ sweep[s].at = "select"
    /\ This(s) \in streamed /\ Contains(listing, This(s))
    /\ Goes(s, [sweep[s] EXCEPT !.at = "receiving"])
    /\ UNCHANGED <<streamed, listing, future, file>>

\* Its content was in the listing: the target is opened, and empty.
SelectText(s) ==
    /\ sweep[s].at = "select"
    /\ This(s) \notin streamed /\ Contains(listing, This(s))
    /\ file' = [file EXCEPT ![NameOf(s)] = [of |-> This(s), whole |-> FALSE]]
    /\ Goes(s, [sweep[s] EXCEPT !.at = "writing"])
    /\ UNCHANGED <<streamed, listing, future>>

\* mutant: the stream is written to its target
MutantStreamsInPlace(s) ==
    /\ sweep[s].at = "receiving"
    /\ file' = [file EXCEPT ![NameOf(s)] = [of |-> This(s), whole |-> FALSE]]
    /\ Goes(s, [sweep[s] EXCEPT !.at = "received"])
    /\ UNCHANGED <<streamed, listing, future>>

Receive(s) ==
    /\ sweep[s].at = "receiving"
    /\ Goes(s, [sweep[s] EXCEPT !.at = "received"])
    /\ UNCHANGED <<streamed, listing, future, file>>

\* The connection breaks, or the answer is the login page.
ReceiveFails(s) ==
    /\ sweep[s].at = "receiving"
    /\ Goes(s, Through(s))
    /\ UNCHANGED <<streamed, listing, future, file>>

\* mutant: the attempts are counted from the start after each
MutantTriesForEver(s) ==
    [sweep[s] EXCEPT !.at = "select"]

\* A 404 of a media URL that still propagates: again with a fresh URL, at most Retries
\* times; then a download that waits polls, and begins anew.
AfterNotFound(s) ==
    IF sweep[s].tries < Retries THEN [sweep[s] EXCEPT !.at = "select", !.tries = @ + 1]
    ELSE IF sweep[s].polls > 0 THEN [sweep[s] EXCEPT !.at = "select", !.tries = 0, !.polls = @ - 1]
    ELSE Through(s)

NotFound(s) ==
    /\ sweep[s].at = "receiving"
    /\ Goes(s, AfterNotFound(s))
    /\ UNCHANGED <<streamed, listing, future, file>>

\* os.replace, the only step that touches the target of a stream.
Replace(s) ==
    /\ sweep[s].at = "received"
    /\ file' = [file EXCEPT ![NameOf(s)] = [of |-> This(s), whole |-> TRUE]]
    /\ Goes(s, Saved(s))
    /\ UNCHANGED <<streamed, listing, future>>

WriteText(s) ==
    /\ sweep[s].at = "writing"
    /\ file' = [file EXCEPT ![NameOf(s)] = [of |-> This(s), whole |-> TRUE]]
    /\ Goes(s, Saved(s))
    /\ UNCHANGED <<streamed, listing, future>>

\* The disk is full: what was written stays.
WriteFails(s) ==
    /\ sweep[s].at = "writing"
    /\ Goes(s, Through(s))
    /\ UNCHANGED <<streamed, listing, future, file>>

\* The process is killed.  Nothing removes its temporary file, which nobody reads.
Crash(s) ==
    /\ ~Stopped(s)
    /\ Goes(s, Rest)
    /\ UNCHANGED <<streamed, listing, future, file>>

Work(s) ==
    \/ Skip(s) \/ Choose(s) \/ Finish(s)
    \/ SelectFails(s) \/ SelectStreamed(s) \/ SelectText(s)
    \/ Receive(s) \/ ReceiveFails(s) \/ NotFound(s) \/ Replace(s)
    \/ WriteText(s) \/ WriteFails(s)

Next ==
    \/ \E a \in Artifacts : Complete(a) \/ Delete(a)
    \/ \E s \in Sweeps :
         \/ Work(s) \/ Crash(s)
         \/ \E skip \in BOOLEAN : StartAll(s, skip)
         \/ \E a \in Artifacts, polls \in 0..MaxPolls : StartOne(s, a, polls)

Spec == Init /\ [][Next]_vars

\* Requests have deadlines, and a command waits for nobody else.
FairSpec == Spec /\ \A s \in Sweeps : WF_vars(Work(s))

-----------------------------------------------------------------------------
\* Whatever fails, and whichever process is killed, the file of a streamed artifact is
\* whole ("temp file usage to prevent corrupted partial downloads", download.py:151).
StreamsAreWhole ==
    \A n \in Names : file[n] # Nothing /\ file[n].of \in streamed => file[n].whole

\* What a command has reported as saved is there under the reported path, whole, until
\* another command works on the directory: no later artifact of the same title takes its
\* place, and a report is not made before the file is complete.
SavedIsOnDisk ==
    \A s \in Sweeps, a \in Artifacts, n \in Names :
        <<a, n>> \in sweep[s].saved => file[n] = [of |-> a, whole |-> TRUE]

\* A command ends, although a media URL may never stop answering 404.
CommandsEnd == \A s \in Sweeps : ~Stopped(s) ~> Stopped(s)
=============================================================================
