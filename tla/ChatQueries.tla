---------------------------- MODULE ChatQueries ----------------------------
(***************************************************************************)
(* services/chat.py and core/conversation.py: questions to a notebook,     *)
(* asked by several threads of an MCP server over one client.  A question  *)
(* is asked synchronously, or started and polled: then it has an entry in  *)
(* the table of pending queries and a worker thread that outlives the call *)
(* that started it.  All of them share the cache of conversations.         *)
(*                                                                         *)
(* Time is kept as what is left of each interval; -1 is "passed", so that  *)
(* the clock needs no bound.  A slot stands for a query id; a slot is used *)
(* again for a new query when nothing of the old one is left.              *)
(***************************************************************************)
EXTENDS ConversationCache, FiniteSets

CONSTANTS
    Slots,      \* bound: queries that are running or remembered at one time
    Servers,    \* the conversations that the service may name
    Nowhere,    \* no conversation
    Limit,      \* NOTEBOOKLM_ASYNC_QUERY_MAX_INFLIGHT
    Ttl,        \* _QUERY_TTL_SECONDS
    Timeouts    \* the timeouts in use

ASSUME SlotsAssumption == IsFiniteSet(Slots)
ASSUME ServersAssumption == Servers \subseteq Conversations /\ Nowhere \notin Conversations
ASSUME TimesAssumption == Limit \in Nat \ {0} /\ Ttl \in Nat /\ Timeouts \subseteq Nat

VARIABLES
    table,      \* _pending_queries: status and time left to expires_at, or, when the
                \* query is over, to the end of its retention
    query,      \* the thread of each query, and (ghosts) the time left to it
    owed,       \* ghost: time for which the outcome of a query must still be kept
    renamed     \* ghost: <<c, d>> when the service has come to answer for c under d

vars == <<order, turns, table, query, owed, renamed>>
threadVars == <<query, renamed>>

Locals == Conversations \ Servers
Over == {"completed", "error"}
Times == Nat \cup {-1}
Absent == [status |-> "absent", left |-> -1]
Entry == [status : {"absent", "in_progress"} \cup Over, left : Times]

\* "reserved" is query_start between its reservation and the start of the worker; the
\* others are query(): about to choose a conversation, waiting for the answer, answered,
\* moved to the service's conversation, and (in a worker) about to report.
Places == {"idle", "reserved", "asking", "waiting", "answered", "moved", "returned", "raised"}
Idle == [at |-> "idle", polled |-> FALSE, conv |-> Nowhere, reply |-> Nowhere,
         text |-> FALSE, left |-> -1]
Thread == [at : Places, polled : BOOLEAN, conv : Conversations \cup {Nowhere},
           reply : Conversations \cup {Nowhere}, text : BOOLEAN, left : Times]

TypeOK ==
    /\ CacheTypeOK
    /\ table \in [Slots -> Entry]
    /\ query \in [Slots -> Thread]
    /\ owed \in [Slots -> Times]
    /\ renamed \subseteq Conversations \X Conversations

Init ==
    /\ CacheInit
    /\ table = [s \in Slots |-> Absent]
    /\ query = [s \in Slots |-> Idle]
    /\ owed = [s \in Slots |-> -1]
    /\ renamed = {}

-----------------------------------------------------------------------------
\* The table of pending queries.

\* mutant: only finished queries expire
MutantSweepsFinished ==
    [s \in Slots |-> IF table[s].left < 0 /\ table[s].status \in Over THEN Absent ELSE table[s]]

\* _cleanup_expired_queries
Swept == [s \in Slots |-> IF table[s].left < 0 THEN Absent ELSE table[s]]

InProgress(t) == {s \in Slots : t[s].status = "in_progress"}

\* mutant: the retention time is all that a query gets
MutantIgnoresTimeout(timeout) == Ttl

\* expires_at - created_at
Lifetime(timeout) == IF timeout > Ttl THEN timeout ELSE Ttl

\* query_start, its critical section: refused, or an entry is reserved.
Refuse ==
    /\ Cardinality(InProgress(Swept)) >= Limit
    /\ table' = Swept
    /\ UNCHANGED <<cacheVars, threadVars, owed>>

Start(s, timeout) ==
    /\ query[s] = Idle /\ Swept[s] = Absent
    /\ Cardinality(InProgress(Swept)) < Limit
    /\ table' = [Swept EXCEPT ![s] = [status |-> "in_progress", left |-> Lifetime(timeout)]]
    /\ query' = [query EXCEPT ![s] = [Idle EXCEPT !.at = "reserved", !.polled = TRUE,
                   !.left = IF timeout > Ttl THEN timeout ELSE Ttl]]
    /\ owed' = [owed EXCEPT ![s] = -1]
    /\ UNCHANGED <<cacheVars, renamed>>

\* The sources cannot be resolved, or the thread does not start: the entry is popped.
StartFails(s) ==
    /\ query[s].at = "reserved"
    /\ table' = [table EXCEPT ![s] = Absent]
    /\ query' = [query EXCEPT ![s] = Idle]
    /\ UNCHANGED <<cacheVars, owed, renamed>>

StartWorker(s) ==
    /\ query[s].at = "reserved"
    /\ query' = [query EXCEPT ![s].at = "asking"]
    /\ UNCHANGED <<cacheVars, table, owed, renamed>>

\* query_status; also what a poll for an unknown id does.
Poll ==
    /\ table' = Swept
    /\ UNCHANGED <<cacheVars, threadVars, owed>>

\* The same question without a table entry: notebook_query.
Ask(s) ==
    /\ query[s] = Idle /\ table[s] = Absent
    /\ query' = [query EXCEPT ![s] = [Idle EXCEPT !.at = "asking"]]
    /\ UNCHANGED <<cacheVars, table, owed, renamed>>

-----------------------------------------------------------------------------
\* query(), in the caller's thread or in the worker.

\* A local id that nobody has seen: uuid4.
Fresh(c) ==
    /\ c \in Locals /\ ~Cached(c)
    /\ \A s \in Slots : query[s].conv # c
    /\ \A pair \in renamed : pair[1] # c

\* The conversation is the caller's, or the one the service remembers for the
\* notebook; its history is read from the cache.
Resume(s, c) ==
    /\ query[s].at = "asking"
    /\ c \in Servers \/ Cached(c)
    /\ Touch(c)
    /\ query' = [query EXCEPT ![s].at = "waiting", ![s].conv = c]
    /\ UNCHANGED <<table, owed, renamed>>

\* A new conversation under a local id.
Open(s, c) ==
    /\ query[s].at = "asking"
    /\ Fresh(c)
    /\ query' = [query EXCEPT ![s].at = "waiting", ![s].conv = c]
    /\ UNCHANGED <<cacheVars, table, owed, renamed>>

\* The call leaves query() with an exception: a synchronous one is over.
Raised(s) ==
    IF query[s].polled
    THEN [Idle EXCEPT !.at = "raised", !.polled = TRUE, !.left = query[s].left] ELSE Idle

\* The call returns an answer.
Returned(s) == IF query[s].polled THEN [Raised(s) EXCEPT !.at = "returned"] ELSE Idle

\* A look-up fails, the request is refused or lost, or a deadline passes.
Fails(s) ==
    /\ query[s].at \in {"asking", "waiting"}
    /\ query' = [query EXCEPT ![s] = Raised(s)]
    /\ UNCHANGED <<cacheVars, table, owed, renamed>>

\* c and what was renamed to it; c and what it was renamed to.
Before(c) == {c} \cup {d \in Conversations : <<d, c>> \in renamed}
After(c) == {c} \cup {d \in Conversations : <<c, d>> \in renamed}

\* The service answers, with or without text, and may name the conversation.
Answer(s, reply, text) ==
    /\ query[s].at = "waiting"
    /\ reply \in Servers \cup {Nowhere, query[s].conv}
    /\ query' = [query EXCEPT ![s].at = "answered", ![s].reply = reply, ![s].text = text]
    /\ renamed' = IF reply \in {Nowhere, query[s].conv} THEN renamed
                  ELSE renamed \cup (Before(query[s].conv) \X After(reply))
    /\ UNCHANGED <<cacheVars, table, owed>>

Elsewhere(s) == query[s].reply \notin {Nowhere, query[s].conv}

\* mutant: the turn is kept under the id that was asked for
MutantStaysLocal(s) ==
    /\ query[s].at = "answered" /\ Elsewhere(s)
    /\ Cached(query[s].conv) \/ Cached(query[s].reply)
    /\ Migrate(query[s].conv, query[s].reply)
    /\ query' = [query EXCEPT ![s].at = "moved"]
    /\ UNCHANGED <<table, owed, renamed>>

\* The service named another conversation: the entry moves there.
Move(s) ==
    /\ query[s].at = "answered" /\ Elsewhere(s)
    /\ Cached(query[s].conv) \/ Cached(query[s].reply)
    /\ Migrate(query[s].conv, query[s].reply)
    /\ query' = [query EXCEPT ![s].at = "moved", ![s].conv = query[s].reply]
    /\ UNCHANGED <<table, owed, renamed>>

\* move_to_end of a key that is not there: KeyError, and the answer is dropped.
MoveRaises(s) ==
    /\ query[s].at = "answered" /\ Elsewhere(s)
    /\ ~Cached(query[s].conv) /\ ~Cached(query[s].reply)
    /\ query' = [query EXCEPT ![s] = Raised(s)]
    /\ UNCHANGED <<cacheVars, table, owed, renamed>>

\* An answer with text becomes a turn and is returned; one without is an error.
Remember(s) ==
    /\ \/ query[s].at = "moved"
       \/ query[s].at = "answered" /\ ~Elsewhere(s)
    /\ IF query[s].text
       THEN CacheTurn(query[s].conv,
                      IF query[s].reply = Nowhere THEN query[s].conv ELSE query[s].reply)
       ELSE UNCHANGED cacheVars
    /\ query' = [query EXCEPT ![s] = IF query[s].text THEN Returned(s) ELSE Raised(s)]
    /\ UNCHANGED <<table, owed, renamed>>

\* mutant: a finished query keeps the expiry of the running one
MutantKeepsExpiry(s) ==
    /\ query[s].at \in {"returned", "raised"}
    /\ table' = [table EXCEPT ![s].status =
                   IF table[s] = Absent THEN @
                   ELSE IF query[s].at = "returned" THEN "completed" ELSE "error"]
    /\ owed' = [owed EXCEPT ![s] = IF query[s].left < 0 THEN -1 ELSE Ttl]
    /\ query' = [query EXCEPT ![s] = Idle]
    /\ UNCHANGED <<cacheVars, renamed>>

\* The worker stores its outcome, unless the entry has been swept away.
Report(s) ==
    /\ query[s].at \in {"returned", "raised"}
    /\ table' = [table EXCEPT ![s] =
                   IF table[s] = Absent THEN @
                   ELSE [status |-> IF query[s].at = "returned" THEN "completed" ELSE "error",
                         left |-> Ttl]]
    /\ owed' = [owed EXCEPT ![s] = IF query[s].left < 0 THEN -1 ELSE Ttl]
    /\ query' = [query EXCEPT ![s] = Idle]
    /\ UNCHANGED <<cacheVars, renamed>>

-----------------------------------------------------------------------------
\* The other operations on the cache.
ReadHistory(c) == Touch(c) /\ UNCHANGED <<table, threadVars, owed>>
Delete(c) == Forget(c) /\ UNCHANGED <<table, threadVars, owed>>

Later(left) == IF left < 0 THEN -1 ELSE left - 1

Tick ==
    /\ table' = [s \in Slots |-> [table[s] EXCEPT !.left = Later(@)]]
    /\ query' = [s \in Slots |-> [query[s] EXCEPT !.left = Later(@)]]
    /\ owed' = [s \in Slots |-> Later(owed[s])]
    /\ UNCHANGED <<cacheVars, renamed>>

Work(s) ==
    \/ StartFails(s) \/ StartWorker(s)
    \/ \E c \in Conversations : Resume(s, c) \/ Open(s, c)
    \/ Fails(s)
    \/ \E reply \in Conversations \cup {Nowhere}, text \in BOOLEAN : Answer(s, reply, text)
    \/ Move(s) \/ MoveRaises(s) \/ Remember(s) \/ Report(s)

Next ==
    \/ Refuse \/ Poll \/ Tick
    \/ \E s \in Slots : Ask(s) \/ Work(s)
    \/ \E s \in Slots, timeout \in Timeouts : Start(s, timeout)
    \/ \E c \in Conversations : ReadHistory(c) \/ Delete(c)

Spec == Init /\ [][Next]_vars

\* Time passes, and somebody polls; workers may hang for good.
FairSpec == Spec /\ WF_vars(Tick) /\ WF_vars(Poll)

-----------------------------------------------------------------------------
\* Not more than Limit queries are running within the time they were given, whatever
\* entries other threads sweep away (CHANGELOG.md:103; chat.py:559).  A worker that
\* overruns its time is no longer counted, so the threads alive may be more.
RunningBounded ==
    Cardinality({s \in Slots : query[s].polled /\ query[s].left >= 0}) <= Limit

\* The outcome of a query that ended in its time can be polled for the whole retention
\* time, although every call of query_start and query_status sweeps (chat.py:450-466).
OutcomeKept ==
    \A s \in Slots : owed[s] >= 0 => table[s].status \in Over

\* What is sent as the history of a conversation was said in it, or in one that the
\* service has since renamed to it, however answers, renames and evictions of several
\* threads interleave (conversation.py:551-566).
TurnsBelong ==
    \A c \in Conversations : \A i \in 1..Len(turns[c]) :
        turns[c][i] = c \/ <<turns[c][i], c>> \in renamed

\* A query whose worker never returns does not keep its place for ever (the hint of
\* the refusal, "Poll existing query IDs and retry", works): chat.py:454-461.
PlaceIsFreed ==
    \A s \in Slots : table[s].status = "in_progress" ~> table[s].status # "in_progress"

\* A query that the service answered is not reported as failed.
AnswerIsReturned ==
    [][\A s \in Slots : query[s].at = "answered" /\ query[s].text => query'[s].at # "raised"]_vars
=============================================================================
