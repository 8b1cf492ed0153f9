--------------------------- MODULE MCNotebookWork ---------------------------
(* An instance of NotebookWork for TLC, explored in parts. *)
EXTENDS NotebookWork, Sequences, TLC

CONSTANTS t1, t2, u1, e1, e2
Two == {t1, t2}
MCNames == {u1}
MCElements == {e1, e2}
Symmetry == Permutations(Two) \cup Permutations(MCElements)

NoPipelines == \A t \in Threads : pipeline[t].stage = "none"

\* No source that a call has made is processed to its end.
Unprocessed ==
    \A i \in DOMAIN notebook :
        notebook[i].by # 0 => notebook[i].status \in {"hidden", "processing", "gone"}

\* Research has only the list of sources in common with the other parts, to which others
\* add as well, and it asks only whether a source is listed, never whether it is ready.
ResearchOnly ==
    /\ adds + makes + batches = 0 /\ Len(notebook) <= 2
    /\ researches > 0 => \A i \in DOMAIN notebook : notebook[i].status \in {"hidden", "processing"}

\* Calls of both kinds, none of them after a pipeline that has made its artifact; beside
\* sources no artifact is made twice.
CallsOnly == NoPipelines /\ (adds > 0 => Len(artifacts) <= makes)

\* A pipeline that adds a source, and never waits for it, beside what others add and a
\* deletion by the other thread.
SourcePipeline ==
    /\ ~NoPipelines /\ makes = 0 /\ Unprocessed
    /\ \E t \in Threads :
         pipeline[t].stage = "none"
           /\ (adding[t].at = "delete" \/ adding[t].result = "deleted" \/ adding[t] = S!Idle)

ArtifactPipeline == ~NoPipelines /\ adds = 0

\* Sources and artifacts: no request for a source is sent again.
SourcesAndArtifacts ==
    /\ researches + batches = 0 /\ tasks = <<>> /\ Len(notebook) <= 2
    /\ \A t \in Threads : adding[t].replays = 0
    /\ CallsOnly \/ SourcePipeline \/ ArtifactPipeline

\* URLs that are added one at a time, with requests sent again, and sources that are
\* deleted, beside one source that somebody else adds: only such a URL is looked for
\* between two formats.
UrlsOnly ==
    /\ researches + makes + batches = 0 /\ tasks = <<>> /\ NoPipelines /\ Unprocessed
    /\ \A t \in Threads : adding[t].kind = "url" /\ ~adding[t].wait
    /\ Cardinality({i \in DOMAIN notebook : notebook[i].by = 0}) <= 1

\* Elements have no state in common with the other parts; at most one of their requests
\* for options gets no answer.
ElementsOnly ==
    /\ adds + researches + makes = 0 /\ notebook = <<>> /\ tasks = <<>> /\ NoPipelines
    /\ Cardinality(strayed) <= 1

InParts == ResearchOnly \/ SourcesAndArtifacts \/ UrlsOnly \/ ElementsOnly
=============================================================================
