---------------------------- MODULE NotebookWork ----------------------------
(***************************************************************************)
(* The worker threads of one process that share a client, as those of the  *)
(* MCP server do: each runs one tool call at a time on one notebook, which *)
(* adds sources (SourceAdding), researches (Research), makes or deletes    *)
(* artifacts (StudioArtifacts), generates report elements (ReportElements) *)
(* or runs a pipeline (services/pipeline.py) of such steps.                *)
(***************************************************************************)
EXTENDS Integers, FiniteSets

CONSTANTS Threads, Names, MaxPolls, MaxRetries, MaxSources, Elements, Nobody, Reads,
          MaxTasks,     \* bound: research tasks
          MaxArtifacts, \* bound: artifacts
          MaxCreates,   \* bound: studio_create steps of a pipeline
          MaxCalls      \* bound: calls of all kinds

ASSUME ElementsAssumption == IsFiniteSet(Elements) /\ Nobody \notin Threads
ASSUME NamesAssumption == IsFiniteSet(Names)
ASSUME BoundsAssumption == {MaxRetries, MaxSources, MaxCalls, MaxArtifacts, MaxCreates} \subseteq Nat
                           /\ {MaxPolls, Reads, MaxTasks} \subseteq Nat \ {0}

VARIABLES notebook, recorded, adding, adds,
          tasks, research, researches,
          artifacts, making, makes,
          element, flying, setting, lock, batch, batches, doubted, strayed,
          pipeline      \* the pipeline that each thread runs

S == INSTANCE SourceAdding WITH MaxAdds <- MaxCalls
F == INSTANCE Research
M == INSTANCE StudioArtifacts
R == INSTANCE ReportElements WITH MaxBatches <- MaxCalls

addingVars == <<recorded, adding, adds>>
researchVars == <<tasks, research, researches>>
studioVars == <<artifacts, making, makes>>
elementVars == <<element, flying, setting, lock, batch, batches, doubted, strayed>>
vars == <<notebook, addingVars, researchVars, studioVars, elementVars, pipeline>>

\* left are the studio_create steps to come, added what the source_add step has reported.
Pipeline == [stage : {"none", "begin", "adding", "making"}, left : 0 .. MaxCreates,
             added : SUBSET (1 .. MaxSources)]
NoPipeline == [stage |-> "none", left |-> 0, added |-> {}]

TypeOK ==
    /\ S!SourcesTypeOK /\ F!ResearchTypeOK /\ M!StudioTypeOK /\ R!ElementsTypeOK
    /\ pipeline \in [Threads -> Pipeline]

Init ==
    /\ S!SourcesInit /\ F!ResearchInit /\ M!StudioInit /\ R!ElementsInit
    /\ pipeline = [t \in Threads |-> NoPipeline]

-----------------------------------------------------------------------------
\* Steps of one part.

Adds(A) == A /\ UNCHANGED <<researchVars, studioVars, elementVars, pipeline>>
Researches(A) == A /\ UNCHANGED <<addingVars, studioVars, elementVars, pipeline>>
Makes(A) == A /\ UNCHANGED <<addingVars, researchVars, elementVars, pipeline>>
Elaborates(A) == A /\ UNCHANGED <<notebook, addingVars, researchVars, studioVars, pipeline>>

\* A worker takes another call when its last one has ended.
Free(t) ==
    /\ adding[t].at = "idle" /\ research[t].at = "idle" /\ making[t].at = "idle"
    /\ batch[t].at = "idle" /\ pipeline[t].stage = "none"

Room == adds + researches + makes + batches < MaxCalls

Call(t) ==
    /\ Free(t) /\ Room
    /\ \/ Adds(S!StartsAdding(t))
       \/ Researches(F!StartsResearch(t))
       \/ Makes(M!StartsStudio(t))
       \/ Elaborates(R!StartsBatch(t))

Step(t) ==
    \/ Adds(S!AddStep(t))
    \/ Researches(F!ResearchStep(t))
    \/ Makes(M!StudioStep(t))
    \/ Elaborates(R!BatchStep(t))

Service ==
    \/ Adds(S!ServiceStep)
    \/ \E k \in DOMAIN tasks : Researches(F!Progress(k))
    \/ \E a \in DOMAIN artifacts : Makes(M!Generated(a))
    \/ Elaborates(R!FlightEnds)

-----------------------------------------------------------------------------
\* Pipelines: a source and an artifact of everything, or several artifacts.

StartsPipeline(t) ==
    /\ Free(t) /\ Room
    /\ \E n \in Names, kind \in {"url", "text"} : S!Add(t, kind, {n}, FALSE)
    /\ pipeline' = [pipeline EXCEPT ![t] = [stage |-> "adding", left |-> 1, added |-> {}]]
    /\ UNCHANGED <<researchVars, studioVars, elementVars>>

StartsMultiFormat(t) ==
    /\ Free(t) /\ Room
    /\ pipeline' = [pipeline EXCEPT ![t] = [stage |-> "begin", left |-> MaxCreates, added |-> {}]]
    /\ makes' = makes + 1
    /\ UNCHANGED <<notebook, addingVars, researchVars, artifacts, making, elementVars>>

\* Whether the step before was a success.
WentWell(t) ==
    CASE pipeline[t].stage = "begin"  -> TRUE
      [] pipeline[t].stage = "adding" -> adding[t].at = "idle" /\ adding[t].result = "added"
      [] pipeline[t].stage = "making" -> making[t].at = "idle" /\ making[t].result = "created"
      [] OTHER                        -> FALSE

NextStep(t) ==
    /\ WentWell(t) /\ pipeline[t].left > 0
    /\ M!Create(t, "media", {})
    /\ pipeline' = [pipeline EXCEPT ![t] =
         [stage |-> "making", left |-> @.left - 1,
          added |-> IF @.stage = "adding" THEN adding[t].ids ELSE @.added]]
    /\ UNCHANGED <<notebook, addingVars, researchVars, artifacts, makes, elementVars>>

\* The first step that fails is the last (the question between the two, too).
PipelineEnds(t) ==
    /\ pipeline[t].stage \in {"adding", "making"}
    /\ adding[t].at = "idle" /\ making[t].at = "idle"
    /\ ~WentWell(t) \/ pipeline[t].left = 0 \/ pipeline[t].stage = "adding"
    /\ pipeline' = [pipeline EXCEPT ![t] = NoPipeline]
    /\ UNCHANGED <<notebook, addingVars, researchVars, studioVars, elementVars>>

Next ==
    \/ \E t \in Threads : Call(t) \/ Step(t) \/ StartsPipeline(t) \/ StartsMultiFormat(t)
                          \/ NextStep(t) \/ PipelineEnds(t)
    \/ Service

Spec == Init /\ [][Next]_vars

-----------------------------------------------------------------------------
TwiceOnlyUnseen == S!TwiceOnlyUnseen
FoundIsOwn == S!FoundIsOwn
ImportsAsked == F!ImportsAsked
DeletedIsGone == M!DeletedIsGone
StartsOnce == R!StartsOnce
OwnOptions == R!OwnOptions

(* A pipeline that adds a source makes its artifact of all that the notebook lists, a    *)
(* step later and without waiting for the source: the source it has reported is one of   *)
(* those that the artifact is made of, unless another call has deleted it.               *)
PipelineUsesSource ==
    \A t \in Threads :
        pipeline[t].stage = "making" /\ (making[t].at = "create" \/ making[t].result = "created")
            => \A i \in pipeline[t].added : i \in making[t].of \/ notebook[i].status = "gone"
=============================================================================
