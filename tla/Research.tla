------------------------------- MODULE Research -------------------------------
(***************************************************************************)
(* Research on the web or in Drive, and the import of what it found:       *)
(* services/research.py over ResearchMixin (core/research.py), called by   *)
(* threads that share one client.                                          *)
(*                                                                         *)
(* A task appears in the service's list some time after it was started,    *)
(* deep research gives it another id, and a later one may discard it.  The *)
(* client takes the task it is asked for, or one that could be it.  The RPC*)
(* layer sends a request again after a passing error, whether or not it    *)
(* was executed.                                                           *)
(***************************************************************************)
EXTENDS Integers, FiniteSets, FiniteSetsExt, Sequences, SequencesExt

CONSTANTS Threads, Names, MaxPolls, MaxSources, MaxCalls,
          MaxTasks      \* bound: research tasks

VARIABLES
    notebook,       \* the sources, as in SourceAdding
    tasks,          \* the research tasks of the notebook, the most recent one last
    research,       \* what each thread does
    researches      \* how many calls have begun

researchVars == <<notebook, tasks, research, researches>>

Tasks == 1 .. MaxTasks
NoTask == 0
Task == [query : Names, known : BOOLEAN, status : {"hidden", "in_progress", "completed", "gone"}]

\* id is the task a call was given or has started, with a query to go by; got is what the
\* last poll returned, pre the sources listed before the import.  The ghost missed says that
\* a poll did not list the task under its id.
Research == [at : {"idle", "check", "start", "poll", "look", "snapshot", "import", "pending"},
             auto : BOOLEAN, id : Tasks \cup {NoTask}, shown : BOOLEAN, query : Names, byQuery : BOOLEAN,
             got : Tasks \cup {NoTask}, pre : SUBSET (1 .. MaxSources), polls : 0 .. MaxPolls,
             missed : BOOLEAN, imported : BOOLEAN]

NoResearch == [at |-> "idle", auto |-> FALSE, id |-> NoTask, shown |-> FALSE,
               query |-> CHOOSE q \in Names : TRUE, byQuery |-> FALSE, got |-> NoTask, pre |-> {},
               polls |-> 0, missed |-> FALSE, imported |-> FALSE]

ResearchTypeOK ==
    /\ tasks \in Seq(Task) /\ Len(tasks) <= MaxTasks
    /\ research \in [Threads -> Research]
    /\ researches \in 0 .. MaxCalls

\* There may be a task from before.
ResearchInit ==
    /\ tasks \in {<<>>} \cup {<<[query |-> q, known |-> TRUE, status |-> "completed"]>> : q \in Names}
    /\ research = [t \in Threads |-> NoResearch]
    /\ researches = 0

-----------------------------------------------------------------------------
\* The service.

Listed == {i \in DOMAIN notebook : notebook[i].status \notin {"hidden", "gone"}}
Running == {k \in DOMAIN tasks : tasks[k].status = "in_progress"}
Shown == {k \in DOMAIN tasks : tasks[k].status \in {"in_progress", "completed"}}
Latest(S) == IF S = {} THEN NoTask ELSE Max(S)

Progress(k) ==
    /\ k \in DOMAIN tasks
    /\ \/ /\ tasks[k].status = "hidden"
          /\ \E same \in BOOLEAN :
               tasks' = [tasks EXCEPT ![k].status = "in_progress", ![k].known = same]
       \/ /\ tasks[k].status = "in_progress"
          /\ tasks' = [tasks EXCEPT ![k].status = "completed"]
    /\ UNCHANGED <<notebook, research, researches>>

-----------------------------------------------------------------------------
\* What a poll returns.

\* Whether a task is listed under an id that a start has answered, or a poll has shown.
ById(id, shown) == id \in Shown /\ (shown \/ tasks[id].known)

\* mutant: a query goes before the id
MutantAsksByQuery(id, shown, byQuery, query) ==
    LET alike == {k \in Shown : byQuery /\ tasks[k].query = query}
    IN CASE alike # {}                        -> Latest(alike)
         [] alike = {} /\ ById(id, shown)     -> id
         [] alike = {} /\ ~ById(id, shown)    -> Latest(Shown)

\* poll_research: the task of that id; one with the query; one that is running, or the
\* most recent one (which is the only one, if there is one).
Polled(id, shown, byQuery, query) ==
    LET alike == {k \in Shown : byQuery /\ tasks[k].query = query}
    IN CASE ById(id, shown)                      -> id
         [] ~ById(id, shown) /\ alike # {}       -> Latest(alike)
         [] ~ById(id, shown) /\ alike = {} /\ id # NoTask /\ Running # {} -> Latest(Running)
         [] OTHER                                -> Latest(Shown)

Goes(t, r) == research' = [research EXCEPT ![t] = r]
At(t, place) == research[t].at = place
Ends(t) == Goes(t, NoResearch)
Imported(t, r) ==
    Goes(t, [NoResearch EXCEPT !.id = r.id, !.got = r.got, !.missed = r.missed,
                               !.imported = TRUE])
Stays == UNCHANGED <<notebook, tasks, researches>>

\* The call with what a poll returns, and whether the poll did not show the task asked for.
Seen(r) ==
    [r EXCEPT !.got = Polled(r.id, r.shown, r.byQuery, r.query),
              !.missed = @ \/ ~ById(r.id, r.shown)]

-----------------------------------------------------------------------------
\* Starting.

Start(t, query, check, auto) ==
    /\ At(t, "idle") /\ researches < MaxCalls
    /\ Goes(t, [NoResearch EXCEPT !.at = IF check THEN "check" ELSE "start", !.auto = auto,
                                  !.query = query])
    /\ researches' = researches + 1
    /\ UNCHANGED <<notebook, tasks>>

\* nlm research start without --force: not while one is running; whoever has results that
\* were not imported is asked.
Check(t) ==
    /\ At(t, "check")
    /\ LET there == Polled(NoTask, FALSE, FALSE, research[t].query)
       IN \/ /\ there \notin Running
             /\ Goes(t, [research[t] EXCEPT !.at = "start"])
          \/ there # NoTask /\ Ends(t)
    /\ Stays

\* What was there may be discarded.
NewTask(query) ==
    /\ Len(tasks) < MaxTasks
    /\ \E kept \in {tasks, [k \in DOMAIN tasks |-> [tasks[k] EXCEPT !.status = "gone"]]} :
          tasks' = Append(kept, [query |-> query, known |-> TRUE, status |-> "hidden"])

Started(t) ==
    /\ At(t, "start")
    /\ NewTask(research[t].query)
    /\ LET r == [research[t] EXCEPT !.id = Len(tasks) + 1]
       IN IF r.auto THEN Goes(t, [r EXCEPT !.at = "poll"]) ELSE Ends(t)
    /\ UNCHANGED <<notebook, researches>>

\* Refused, or the answer is lost.
StartFails(t) ==
    /\ At(t, "start")
    /\ NewTask(research[t].query) \/ UNCHANGED tasks
    /\ Ends(t)
    /\ UNCHANGED <<notebook, researches>>

-----------------------------------------------------------------------------
\* Waiting for it.

Status(t, id, shown, byQuery, query) ==
    /\ At(t, "idle") /\ researches < MaxCalls
    /\ Goes(t, [NoResearch EXCEPT !.at = "poll", !.auto = TRUE, !.id = id,
                                  !.shown = shown, !.byQuery = byQuery, !.query = query])
    /\ researches' = researches + 1
    /\ UNCHANGED <<notebook, tasks>>

\* Polls until a task is completed (a running one, or an empty list for a task known by
\* id, leaves the call waiting) or the time is up.  A completed task is imported under the
\* id the poll has returned.
Poll(t) ==
    /\ At(t, "poll")
    /\ LET r == Seen(research[t])
       IN IF r.got \in Shown \ Running THEN Goes(t, [r EXCEPT !.at = "look", !.shown = TRUE])
          ELSE Ends(t)
    /\ Stays

PollFails(t) == At(t, "poll") /\ Ends(t) /\ Stays

-----------------------------------------------------------------------------
\* Importing.

Import(t, id, shown) ==
    /\ At(t, "idle") /\ researches < MaxCalls
    /\ Goes(t, [NoResearch EXCEPT !.at = "look", !.id = id, !.shown = shown,
                                  !.got = id])
    /\ researches' = researches + 1
    /\ UNCHANGED <<notebook, tasks>>

\* import_research polls again, for the id that is to be imported; a running task will do.
Look(t) ==
    /\ At(t, "look")
    /\ LET r == research[t]
           got == Polled(r.got, r.shown, FALSE, r.query)
       IN IF got = NoTask THEN Ends(t)
          ELSE \/ Goes(t, [r EXCEPT !.at = "snapshot", !.got = got,
                             !.missed = @ \/ ~ById(r.got, r.shown)])
               \/ Ends(t)      \* it has no sources, or none of those asked for
    /\ Stays

\* The sources that are listed before; none, if they cannot be listed.
Snapshot(t) ==
    /\ At(t, "snapshot")
    /\ \E pre \in {Listed, {}} : Goes(t, [research[t] EXCEPT !.at = "import", !.pre = pre])
    /\ Stays

\* The service adds what the task has found.
Adds(t, status) ==
    /\ Len(notebook) < MaxSources
    /\ notebook' = Append(notebook, [name |-> tasks[research[t].got].query, by |-> 0,
                                     status |-> status])

ImportAnswered(t) ==
    /\ At(t, "import")
    /\ Adds(t, "processing")
    /\ Imported(t, research[t])
    /\ UNCHANGED <<tasks, researches>>

\* An answer without sources, an error, or none: executed or not.
ImportFails(t) ==
    /\ At(t, "import")
    /\ Adds(t, "processing") \/ UNCHANGED notebook
    /\ Ends(t)
    /\ UNCHANGED <<tasks, researches>>

\* Code 3 or 9: accepted for later, or refused.
ImportPending(t) ==
    /\ At(t, "import")
    /\ Adds(t, "hidden") \/ UNCHANGED notebook
    /\ Goes(t, [research[t] EXCEPT !.at = "pending"])
    /\ UNCHANGED <<tasks, researches>>

\* Any source that was not there before is taken for an imported one; a listing that
\* fails is passed over.
Appeared(t) ==
    /\ At(t, "pending")
    /\ LET r == research[t]
           new == Listed \ r.pre
       IN \/ /\ new # {}
             /\ Imported(t, r)
          \/ /\ r.polls < MaxPolls
             /\ Goes(t, [r EXCEPT !.polls = @ + 1])
          \/ /\ r.polls = MaxPolls
             /\ Ends(t)
    /\ Stays

-----------------------------------------------------------------------------
\* _call_rpc: what was executed for a passing error is there, and the request is sent again.
ResearchReplayed(t) ==
    /\ \/ At(t, "start") /\ NewTask(research[t].query) /\ UNCHANGED notebook
       \/ At(t, "import") /\ Adds(t, "hidden") /\ UNCHANGED tasks
    /\ UNCHANGED <<research, researches>>

ResearchStep(t) ==
    \/ ResearchReplayed(t) \/ Check(t) \/ Started(t) \/ StartFails(t) \/ Poll(t) \/ PollFails(t)
    \/ Look(t) \/ Snapshot(t) \/ ImportAnswered(t) \/ ImportFails(t) \/ ImportPending(t)
    \/ Appeared(t)

\* The ids that a caller may know: of tasks that were started, as they were answered or as
\* a poll has shown them (nlm research import polls by itself).
StartsResearch(t) ==
    \E query \in Names :
        \/ \E check, auto \in BOOLEAN : Start(t, query, check, auto)
        \/ \E byQuery, shown \in BOOLEAN, id \in DOMAIN tasks \cup {NoTask} :
             (shown => id # NoTask) /\ Status(t, id, shown, byQuery, query)
        \/ \E id \in DOMAIN tasks, shown \in BOOLEAN : Import(t, id, shown)

-----------------------------------------------------------------------------
\* Properties.

(* The id, the query and the guesses of poll_research are asked for twice, before the   *)
(* import and by it, while tasks appear, change ids and are discarded: what another     *)
(* task has found is imported only by a call one of whose polls did not list its own    *)
(* task under its id.                                                                   *)
ImportsAsked ==
    \A t \in Threads :
        LET r == research[t]
        IN r.imported /\ r.id # NoTask /\ r.got # r.id => r.missed
===============================================================================
