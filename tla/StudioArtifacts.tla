---------------------------- MODULE StudioArtifacts ----------------------------
(***************************************************************************)
(* Studio artifacts of one notebook: creating, revising and deleting them  *)
(* (services/studio.py over StudioMixin, core/studio.py), called by        *)
(* threads that share one client.                                          *)
(*                                                                         *)
(* An artifact is created by one request for all kinds but mind maps: a    *)
(* map is generated by one request and saved by another, and it is deleted *)
(* by two requests of its own, which the client also tries whenever the    *)
(* deletion of another artifact has failed.  The RPC layer sends a request *)
(* again after a passing error, whether or not it was executed.            *)
(***************************************************************************)
EXTENDS Integers, FiniteSets, Sequences

CONSTANTS Threads, Names, MaxSources, MaxCalls,
          MaxArtifacts      \* bound: artifacts

VARIABLES
    notebook,       \* the sources, as in SourceAdding
    artifacts,      \* the artifacts of the notebook; an artifact's id is its position
    making,         \* what each thread does
    makes           \* how many calls have begun

studioVars == <<notebook, artifacts, making, makes>>

Ids == 1 .. MaxArtifacts
NoId == 0

\* "map" is a mind map, "media" stands for the other kinds; of are the sources it was made
\* of.  A map whose deletion was not finished is a tombstone.
Artifact == [kind : {"media", "map"}, of : SUBSET (1 .. MaxSources),
             status : {"in_progress", "completed", "failed", "tombstone", "deleted"}]

\* of are the sources of the call; dated says that the list shows a map with its time.
Making == [at : {"idle", "resolve", "create", "generate", "save", "revise",
                 "delete", "list", "unmap", "untime"},
           kind : {"media", "map"}, given : BOOLEAN, of : SUBSET (1 .. MaxSources),
           id : Ids \cup {NoId}, dated : BOOLEAN, result : {"none", "created", "deleted"}]

NotMaking == [at |-> "idle", kind |-> "media", given |-> FALSE, of |-> {},
              id |-> NoId, dated |-> FALSE, result |-> "none"]

StudioTypeOK ==
    /\ artifacts \in Seq(Artifact) /\ Len(artifacts) <= MaxArtifacts
    /\ making \in [Threads -> Making]
    /\ makes \in 0 .. MaxCalls

StudioInit ==
    /\ artifacts = <<>>
    /\ making = [t \in Threads |-> NotMaking]
    /\ makes = 0

-----------------------------------------------------------------------------
\* The service.

Listed == {i \in DOMAIN notebook : notebook[i].status \notin {"hidden", "gone"}}
\* list_mind_maps passes over tombstones; poll_studio_status shows maps and the others.
MindMaps == {a \in DOMAIN artifacts :
               artifacts[a].kind = "map" /\ artifacts[a].status \notin {"tombstone", "deleted"}}
There == MindMaps \cup {a \in DOMAIN artifacts :
                          artifacts[a].kind = "media" /\ artifacts[a].status # "deleted"}
Becomes(a, status) == artifacts' = [artifacts EXCEPT ![a].status = status]

MakesArtifact(artifact) ==
    /\ Len(artifacts) < MaxArtifacts
    /\ artifacts' = Append(artifacts, artifact)

Generated(a) ==
    /\ a \in There /\ artifacts[a].status = "in_progress"
    /\ \E status \in {"completed", "failed"} : Becomes(a, status)
    /\ UNCHANGED <<notebook, making, makes>>

-----------------------------------------------------------------------------
Goes(t, r) == making' = [making EXCEPT ![t] = r]
At(t, place) == making[t].at = place
Ends(t) == Goes(t, NotMaking)
Reports(t, r, result) ==
    Goes(t, [NotMaking EXCEPT !.kind = r.kind, !.of = r.of, !.id = r.id, !.result = result])
Stays == UNCHANGED <<notebook, artifacts, makes>>
Calls == makes' = makes + 1 /\ UNCHANGED <<notebook, artifacts>>

\* A call with source ids, or for all sources of the notebook.
Create(t, kind, given) ==
    /\ At(t, "idle")
    /\ Goes(t, [NotMaking EXCEPT !.at = "resolve", !.kind = kind, !.given = (given # {}),
                                 !.of = given])

\* mutant: only what has been processed
MutantTakesReady == {i \in Listed : notebook[i].status = "ready"}

\* get_notebook_sources_with_types
AllSources == Listed

\* _resolve_source_ids; nothing is made of an empty notebook.
Resolve(t) ==
    /\ At(t, "resolve")
    /\ LET r == making[t]
           of == IF r.given THEN r.of ELSE AllSources
       IN IF of = {} THEN Ends(t)
          ELSE Goes(t, [r EXCEPT !.of = of,
                                 !.at = IF r.kind = "map" THEN "generate" ELSE "create"])
    /\ Stays

ResolveFails(t) == At(t, "resolve") /\ ~making[t].given /\ Ends(t) /\ Stays

\* What a create_ method asks for.
Requested(t) ==
    [kind |-> "media", of |-> making[t].of, status |-> "in_progress"]

\* _dispatch_create, and one of the methods: answered with the artifact.
Created(t) ==
    /\ At(t, "create")
    /\ MakesArtifact(Requested(t))
    /\ Reports(t, [making[t] EXCEPT !.id = Len(artifacts) + 1], "created")
    /\ UNCHANGED <<notebook, makes>>

\* An answer without an artifact, or an error: rejected, rate limited, not executed.
CreateRejected(t) == At(t, "create") /\ Ends(t) /\ Stays

\* Executed, but the answer was lost or does not tell.
CreateLost(t) ==
    /\ At(t, "create")
    /\ MakesArtifact(Requested(t))
    /\ Ends(t)
    /\ UNCHANGED <<notebook, makes>>

\* _create_mind_map: nothing is in the notebook until the map is saved.
Generate(t) ==
    /\ At(t, "generate")
    /\ \/ Goes(t, [making[t] EXCEPT !.at = "save"])
       \/ Ends(t)
    /\ Stays

\* save_mind_map
SavedMap(t) == [kind |-> "map", of |-> making[t].of, status |-> "completed"]

Save(t) ==
    /\ At(t, "save")
    /\ \/ /\ MakesArtifact(SavedMap(t))
          /\ \/ Reports(t, [making[t] EXCEPT !.id = Len(artifacts) + 1], "created")
             \/ Ends(t)
       \/ UNCHANGED artifacts /\ Ends(t)
    /\ UNCHANGED <<notebook, makes>>

\* revise_slide_deck: a new artifact out of the old one.
StartRevise(t, a) ==
    /\ At(t, "idle")
    /\ Goes(t, [NotMaking EXCEPT !.at = "revise", !.id = a])
    /\ Calls

CanRevise(t) ==
    LET old == artifacts[making[t].id] IN old.kind = "media" /\ old.status = "completed"
Revised(t) == [artifacts[making[t].id] EXCEPT !.status = "in_progress"]

Revise(t) ==
    /\ At(t, "revise")
    /\ \/ /\ CanRevise(t) /\ MakesArtifact(Revised(t))
          /\ \/ Reports(t, [making[t] EXCEPT !.id = Len(artifacts) + 1], "created")
             \/ Ends(t)
       \/ UNCHANGED artifacts /\ Ends(t)
    /\ UNCHANGED <<notebook, makes>>

\* _call_rpc: what was executed for a passing error is there, and the request is sent again.
MakeReplayed(t) ==
    /\ \/ At(t, "create") /\ MakesArtifact(Requested(t))
       \/ At(t, "save") /\ MakesArtifact(SavedMap(t))
       \/ At(t, "revise") /\ CanRevise(t) /\ MakesArtifact(Revised(t))
    /\ UNCHANGED <<notebook, making, makes>>

-----------------------------------------------------------------------------
\* Deleting.

StartDelete(t, a) ==
    /\ At(t, "idle")
    /\ Goes(t, [NotMaking EXCEPT !.at = "delete", !.kind = artifacts[a].kind, !.id = a])
    /\ Calls

\* delete_studio_artifact: answered for what is no map.
Delete(t) ==
    /\ At(t, "delete")
    /\ LET a == making[t].id
       IN /\ artifacts[a].kind = "media"
          /\ Becomes(a, "deleted")
          /\ Reports(t, making[t], "deleted")
    /\ UNCHANGED <<notebook, makes>>

\* Whatever went wrong, or an empty answer: the way of the mind maps is tried.
DeleteFails(t) ==
    /\ At(t, "delete")
    /\ LET a == making[t].id
       IN (artifacts[a].kind = "media" /\ Becomes(a, "deleted")) \/ UNCHANGED artifacts
    /\ Goes(t, [making[t] EXCEPT !.at = "list"])
    /\ UNCHANGED <<notebook, makes>>

\* delete_mind_map looks for the map's time in the list.
ListMaps(t) ==
    /\ At(t, "list")
    /\ LET a == making[t].id
       IN Goes(t, [making[t] EXCEPT !.at = "unmap",
                                    !.dated = (a \in MindMaps)])
    /\ Stays

\* The deletion by id: an answer is taken for a success whatever it says, and there is
\* nothing that this request deletes but mind maps.
Unmap(t) ==
    /\ At(t, "unmap")
    /\ LET a == making[t].id
       IN (a \in MindMaps /\ Becomes(a, "tombstone")) \/ UNCHANGED artifacts
    /\ IF making[t].dated THEN Goes(t, [making[t] EXCEPT !.at = "untime"])
       ELSE Reports(t, making[t], "deleted")
    /\ UNCHANGED <<notebook, makes>>

\* The deletion by time, without which a tombstone stays; the same is true of its answer.
Untime(t) ==
    /\ At(t, "untime")
    /\ Becomes(making[t].id, "deleted") \/ UNCHANGED artifacts
    /\ Reports(t, making[t], "deleted")
    /\ UNCHANGED <<notebook, makes>>

\* An error, which ends the deletion: what was asked for is done or not.
MapDeletionFails(t) ==
    /\ making[t].at \in {"list", "unmap", "untime"}
    /\ \/ At(t, "unmap") /\ making[t].id \in MindMaps /\ Becomes(making[t].id, "tombstone")
       \/ At(t, "untime") /\ Becomes(making[t].id, "deleted")
       \/ UNCHANGED artifacts
    /\ Ends(t)
    /\ UNCHANGED <<notebook, makes>>

-----------------------------------------------------------------------------
StudioStep(t) ==
    \/ Resolve(t) \/ ResolveFails(t) \/ Created(t) \/ CreateRejected(t) \/ CreateLost(t)
    \/ Generate(t) \/ Save(t) \/ Revise(t) \/ MakeReplayed(t) \/ Delete(t) \/ DeleteFails(t)
    \/ ListMaps(t) \/ Unmap(t) \/ Untime(t) \/ MapDeletionFails(t)

StartsStudio(t) ==
    \/ \E kind \in {"media", "map"}, given \in {{}} \cup {{i} : i \in Listed} :
         Create(t, kind, given) /\ Calls
    \/ \E a \in There : StartDelete(t, a) \/ StartRevise(t, a)

-----------------------------------------------------------------------------
\* Properties.

(* delete_studio_artifact and delete_mind_map return True "on success": what is         *)
(* reported as deleted is not there.  A deletion is tried in two ways, of three         *)
(* requests; errors of the first way are passed over, and so is what the second answers.*)
DeletedIsGone ==
    \A t \in Threads : making[t].result = "deleted" => making[t].id \notin There
=============================================================================
