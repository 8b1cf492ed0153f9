---------------------------- MODULE SourceAdding ----------------------------
(***************************************************************************)
(* Adding sources to one notebook and deleting them: add_source,           *)
(* add_sources, delete_source and delete_sources (services/sources.py)     *)
(* over SourceMixin (core/sources.py), called by threads that share one    *)
(* client.                                                                 *)
(*                                                                         *)
(* The service takes URLs in one of two request formats, or in both, and   *)
(* answers "invalid argument" (code 3) to what it refuses and to some of   *)
(* what it has accepted.  The client finds out which format to use at its  *)
(* first URL, and looks for the source in the notebook when the answer is  *)
(* ambiguous.  Below that, the RPC layer sends a request again, up to      *)
(* MaxRetries times, after an answer of a kind that it takes for passing   *)
(* (a status 429 or 5xx), whether or not the request was executed.         *)
(***************************************************************************)
EXTENDS Integers, FiniteSets, Sequences, SequencesExt

CONSTANTS
    Threads,        \* the threads that call
    Names,          \* what a source is looked up by: its URL, title or Drive id
    MaxPolls,       \* poll_attempts of _reconcile_source
    MaxRetries,     \* the retries of one request, DEFAULT_MAX_RETRIES
    MaxSources,     \* the service's limit of sources in a notebook, deleted ones counted
    MaxAdds         \* bound: calls

VARIABLES
    notebook,   \* the sources of the notebook; a source's id is its position
    recorded,   \* _source_rpc_version
    adding,     \* what each thread does
    adds        \* how many calls have begun

sourceVars == <<notebook, recorded, adding, adds>>

\* "hidden": accepted, but not in the listing yet; "empty": registered, not uploaded;
\* "gone": deleted.
Statuses == {"hidden", "empty", "processing", "ready", "error", "gone"}
Source == [name : Names, by : 0..MaxAdds, status : Statuses]

Kinds == {"url", "batch", "text", "drive", "file"}
Places == {"idle", "choose", "post", "reconcile", "record", "upload", "wait", "delete"}

\* via is the request format, first whether this call tries the formats out, again
\* whether there is another variant of the text to send, retries how often this request
\* was sent again.  replays, looked and result are ghosts: how often any request of the
\* call was, whether a poll has shown every source of the call, and how the last call ended.
Adding == [at : Places, kind : Kinds, names : SUBSET Names, wait : BOOLEAN, number : 0..MaxAdds,
           via : {"own", "v1", "v2"}, first : BOOLEAN, again : BOOLEAN, polls : 0..MaxPolls,
           retries : 0..MaxRetries, replays : 0..2 * MaxRetries,
           ids : SUBSET (1..MaxSources), found : BOOLEAN, looked : BOOLEAN,
           result : {"none", "added", "failed", "deleted"}]

Idle == [at |-> "idle", kind |-> "url", names |-> {}, wait |-> FALSE, number |-> 0, via |-> "own",
         first |-> FALSE, again |-> FALSE, polls |-> 0, retries |-> 0, replays |-> 0,
         ids |-> {}, found |-> FALSE, looked |-> FALSE, result |-> "none"]

SourcesTypeOK ==
    /\ notebook \in Seq(Source) /\ Len(notebook) <= MaxSources
    /\ recorded \in {"none", "v1", "v2"}
    /\ adding \in [Threads -> Adding]
    /\ adds \in 0..MaxAdds

SourcesInit ==
    /\ notebook = <<>> /\ recorded = "none"
    /\ adding = [t \in Threads |-> Idle]
    /\ adds = 0

-----------------------------------------------------------------------------
\* The service.

Room(S) == Len(notebook) + Cardinality(S) <= MaxSources
NewIds(S) == (Len(notebook) + 1) .. (Len(notebook) + Cardinality(S))
Put(S, number, status) ==
    notebook' = notebook \o SetToSeq({[name |-> n, by |-> number, status |-> status] : n \in S})

Listed == {i \in DOMAIN notebook : notebook[i].status \notin {"hidden", "gone"}}

\* The sources that a call has made.
Of(c) == {i \in DOMAIN notebook : notebook[i].by = c.number /\ notebook[i].status # "gone"}

\* Somebody adds a source in the browser.
OthersAdd(n) ==
    /\ Room({n})
    /\ Put({n}, 0, "ready")
    /\ UNCHANGED <<recorded, adding, adds>>

\* A source is processed: it appears, then it is ready or has failed.
Process(i) ==
    /\ i \in DOMAIN notebook
    /\ \E s \in CASE notebook[i].status = "hidden"     -> {"processing"}
                  [] notebook[i].status = "processing" -> {"ready", "error"}
                  [] OTHER                             -> {} :
          notebook' = [notebook EXCEPT ![i].status = s]
    /\ UNCHANGED <<recorded, adding, adds>>

-----------------------------------------------------------------------------
\* A call.

Goes(t, r) == adding' = [adding EXCEPT ![t] = r]
Ended(c, result) ==
    [Idle EXCEPT !.kind = c.kind, !.number = c.number, !.polls = c.polls,
                 !.replays = c.replays, !.ids = c.ids, !.found = c.found, !.looked = c.looked,
                 !.result = result]
Stays == UNCHANGED <<notebook, recorded, adds>>

Add(t, kind, S, wait) ==
    /\ adding[t].at = "idle" /\ adds < MaxAdds
    /\ (kind = "batch") \/ Cardinality(S) = 1
    /\ adds' = adds + 1
    /\ \E again \in (IF kind = "text" THEN BOOLEAN ELSE {FALSE}) :
          Goes(t, [Idle EXCEPT !.at = IF kind \in {"url", "batch"} THEN "choose" ELSE "post",
                               !.kind = kind, !.names = S, !.wait = wait, !.number = adds + 1,
                               !.again = again])
    /\ UNCHANGED <<notebook, recorded>>

\* The recorded format, or the legacy one first.
Choose(t) ==
    /\ adding[t].at = "choose"
    /\ Goes(t, [adding[t] EXCEPT !.at = "post", !.first = (recorded = "none"),
                                 !.via = IF recorded = "none" THEN "v1" ELSE recorded])
    /\ Stays

\* Where a call goes with the ids it was answered; a batch may have got none.
WithIds(c) ==
    CASE c.ids = {} /\ c.kind # "batch" -> Ended(c, "failed")
      [] c.ids = {} /\ c.kind = "batch" -> Ended(c, "added")
      [] c.ids # {} /\ c.wait           -> [c EXCEPT !.at = "wait"]
      [] OTHER                          -> Ended(c, "added")

\* What a request without a proper answer leaves: nothing, or sources that appear sooner
\* or later.
Unanswered(c) ==
    \E S \in {{}, c.names} :
        Room(S) /\ Put(S, c.number, IF c.kind = "file" THEN "empty" ELSE "hidden")

\* _call_rpc: the request is sent again.
PostReplayed(t) ==
    /\ adding[t].at = "post" /\ adding[t].retries < MaxRetries
    /\ Unanswered(adding[t])
    /\ Goes(t, [adding[t] EXCEPT !.retries = @ + 1, !.replays = @ + 1])
    /\ UNCHANGED <<recorded, adds>>

\* The request is answered with the sources that were added, or so that no id can
\* be read from the answer.
PostAnswered(t) ==
    /\ adding[t].at = "post"
    /\ \E S \in SUBSET adding[t].names, read \in BOOLEAN :
          /\ Room(S)
          /\ Put(S, adding[t].number,
                 IF adding[t].kind = "file" THEN "empty" ELSE "processing")
          /\ LET c == [adding[t] EXCEPT !.ids = IF read THEN NewIds(S) ELSE {}]
             IN Goes(t, CASE c.first                        -> [c EXCEPT !.at = "record"]
                          [] c.kind = "file" /\ c.ids # {} -> [c EXCEPT !.at = "upload"]
                          [] OTHER                          -> WithIds(c))
    /\ UNCHANGED <<recorded, adds>>

\* The first request of a call that tries the formats out.
Trying(c) == c.first /\ c.via = "v1"

NewRequest(c) == [c EXCEPT !.at = "post", !.retries = 0]

\* mutant: a URL goes to the second format as a batch does, without being looked for
MutantSendsAtOnce(c, code) ==
    CASE c.kind \in {"text", "drive"}                        -> [c EXCEPT !.at = "reconcile"]
      [] c.kind \in {"url", "batch"} /\ code = 3 /\ Trying(c) -> NewRequest([c EXCEPT !.via = "v2"])
      [] OTHER                                               -> Ended(c, "failed")

\* What an ambiguous code leads to.
Ambiguous(c, code) ==
    CASE c.kind = "text" /\ code = 9 /\ c.again     -> NewRequest([c EXCEPT !.again = FALSE])
      [] c.kind = "text" /\ ~(code = 9 /\ c.again)  -> [c EXCEPT !.at = "reconcile"]
      [] c.kind = "drive"                           -> [c EXCEPT !.at = "reconcile"]
      [] c.kind = "url" /\ code = 3 /\ Trying(c)    -> [c EXCEPT !.at = "reconcile"]
      [] c.kind = "batch" /\ code = 3 /\ Trying(c)  -> NewRequest([c EXCEPT !.via = "v2"])
      [] OTHER                                      -> Ended(c, "failed")

\* Code 3 or 9: refused, or accepted for later.
PostAmbiguous(t) ==
    /\ adding[t].at = "post"
    /\ \E S \in {{}, adding[t].names} :
          Room(S) /\ Put(S, adding[t].number, "hidden")
    /\ \E code \in {3, 9} : Goes(t, Ambiguous(adding[t], code))
    /\ UNCHANGED <<recorded, adds>>

\* A timeout, a lost answer, any other code: executed or not.
PostLost(t) ==
    /\ adding[t].at = "post"
    /\ Unanswered(adding[t])
    /\ Goes(t, Ended(adding[t], "failed"))
    /\ UNCHANGED <<recorded, adds>>

\* _reconcile_source: a source of that name is listed, the first one is it.
Match(t) ==
    LET c == adding[t]
        matching == {i \in Listed : notebook[i].name \in c.names}
    IN /\ c.at = "reconcile" /\ matching # {}
       /\ LET d == [c EXCEPT !.ids = {CHOOSE i \in matching : \A j \in matching : i <= j},
                             !.found = TRUE]
          IN Goes(t, IF c.kind = "url" THEN [d EXCEPT !.at = "record"] ELSE Ended(d, "added"))
       /\ Stays

\* A poll is used up; after the last one a URL is sent in the second format.
Polled(c) ==
    LET d == [c EXCEPT !.polls = @ + 1]
    IN CASE d.polls < MaxPolls                       -> d
         [] d.polls = MaxPolls /\ c.kind = "url"     -> NewRequest([d EXCEPT !.via = "v2"])
         [] OTHER                                    -> Ended(d, "failed")

\* No source of that name is listed.
NoMatch(t) ==
    LET c == adding[t]
    IN /\ c.at = "reconcile"
       /\ \A i \in Listed : notebook[i].name \notin c.names
       /\ Goes(t, Polled([c EXCEPT !.looked = Of(c) \subseteq Listed]))
       /\ Stays

\* The listing fails; the error is passed over.
PollFails(t) ==
    /\ adding[t].at = "reconcile"
    /\ Goes(t, Polled(adding[t]))
    /\ Stays

\* The first format that worked is recorded, in a critical section of its own.  A
\* source that was found is returned without waiting for it.
Record(t) ==
    /\ adding[t].at = "record"
    /\ recorded' = IF recorded = "none" THEN adding[t].via ELSE recorded
    /\ Goes(t, IF adding[t].found THEN Ended(adding[t], "added") ELSE WithIds(adding[t]))
    /\ UNCHANGED <<notebook, adds>>

\* The file is streamed to the upload URL of its registered source.
Upload(t) ==
    /\ adding[t].at = "upload"
    /\ notebook' = [i \in DOMAIN notebook |->
                      IF i \in adding[t].ids /\ notebook[i].status = "empty"
                      THEN [notebook[i] EXCEPT !.status = "processing"] ELSE notebook[i]]
    /\ Goes(t, WithIds(adding[t]))
    /\ UNCHANGED <<recorded, adds>>

\* Starting the upload, or sending the content, fails for good.
UploadFails(t) ==
    /\ adding[t].at = "upload"
    /\ Goes(t, Ended(adding[t], "failed"))
    /\ Stays

\* wait_for_source_ready, for each source of the call.
Ready(t) ==
    /\ adding[t].at = "wait"
    /\ \A i \in adding[t].ids : notebook[i].status = "ready"
    /\ Goes(t, Ended(adding[t], "added"))
    /\ Stays

ProcessingFailed(t) ==
    /\ adding[t].at = "wait"
    /\ \E i \in adding[t].ids : notebook[i].status = "error"
    /\ Goes(t, Ended(adding[t], "failed"))
    /\ Stays

WaitTimesOut(t) ==
    /\ adding[t].at = "wait"
    /\ Goes(t, Ended(adding[t], "failed"))
    /\ Stays

-----------------------------------------------------------------------------
\* Deleting sources that a listing has shown, one or several in one request.

StartDeletion(t, ids) ==
    /\ adding[t].at = "idle" /\ adds < MaxAdds
    /\ adds' = adds + 1
    /\ Goes(t, [Idle EXCEPT !.at = "delete", !.number = adds + 1, !.ids = ids])
    /\ UNCHANGED <<notebook, recorded>>

Without(ids) ==
    [i \in DOMAIN notebook |->
       IF i \in ids THEN [notebook[i] EXCEPT !.status = "gone"] ELSE notebook[i]]

Delete(t) ==
    /\ adding[t].at = "delete"
    /\ notebook' = Without(adding[t].ids)
    /\ Goes(t, Ended(adding[t], "deleted"))
    /\ UNCHANGED <<recorded, adds>>

\* Refused or without an answer, executed or not.
DeletionFails(t) ==
    /\ adding[t].at = "delete"
    /\ notebook' \in {notebook, Without(adding[t].ids)}
    /\ Goes(t, Ended(adding[t], "failed"))
    /\ UNCHANGED <<recorded, adds>>

-----------------------------------------------------------------------------
AddStep(t) ==
    \/ Choose(t) \/ PostReplayed(t) \/ PostAnswered(t) \/ PostAmbiguous(t) \/ PostLost(t)
    \/ Match(t) \/ NoMatch(t) \/ PollFails(t) \/ Record(t) \/ Upload(t) \/ UploadFails(t)
    \/ Ready(t) \/ ProcessingFailed(t) \/ WaitTimesOut(t) \/ Delete(t) \/ DeletionFails(t)

StartsAdding(t) ==
    \/ \E kind \in Kinds, S \in (SUBSET Names) \ {{}}, wait \in BOOLEAN : Add(t, kind, S, wait)
    \/ \E ids \in (SUBSET Listed) \ {{}} : StartDeletion(t, ids)

ServiceStep == (\E n \in Names : OthersAdd(n)) \/ (\E i \in DOMAIN notebook : Process(i))

-----------------------------------------------------------------------------
\* Properties.

(* What add_url_source does between the formats against submitting twice: of a URL   *)
(* that is added alone, every copy beyond the first is one that the RPC layer has sent *)
(* again, and one more of the second format, when every poll was spent and the last   *)
(* one could not show the first copy.                                                 *)
TwiceOnlyUnseen ==
    \A t \in Threads :
        LET c == adding[t]
            unseen == c.polls = MaxPolls /\ ~c.looked
        IN c.number > 0 /\ c.kind = "url" =>
             Cardinality(Of(c)) <= 1 + c.replays + (IF unseen THEN 1 ELSE 0)

(* _reconcile_source promises the source that was just submitted.                   *)
FoundIsOwn ==
    \A t \in Threads :
        adding[t].found => \A i \in adding[t].ids : notebook[i].by = adding[t].number
=============================================================================
