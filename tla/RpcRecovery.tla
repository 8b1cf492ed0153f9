---------------------------- MODULE RpcRecovery ----------------------------
(***************************************************************************)
(* core/base.py: _call_rpc over HTTP with its retries and its three layers *)
(* of authentication recovery, for several threads that share one client   *)
(* object, next to other processes that use the same profile.              *)
(*                                                                         *)
(* _call_rpc calls itself.  All its recursive calls but one are the last   *)
(* thing a frame does, so a call is one frame plus the fact whether an     *)
(* outer frame stands in the "try" of layer 1 (guarded).                   *)
(*                                                                         *)
(* Left out: authentication from the environment, RPC over CDP, a profile  *)
(* that is deleted or changes its storage mode under a call.               *)
(*                                                                         *)
(* A login is the number of its cookies, newer logins have higher numbers. *)
(* Those below `live` have expired.  A page token (CSRF and session ID)    *)
(* is "fresh", "stale", or "none", and belongs to the cookies beside it.   *)
(***************************************************************************)
EXTENDS Naturals, FiniteSets

CONSTANTS
    Calls,              \* the threads that call
    Replays,            \* the values of retry_server_errors in use
    Protected,          \* the profile's storage mode is "protected"
    MaxRetries,         \* DEFAULT_MAX_RETRIES
    RateLimitRetries,   \* NOTEBOOKLM_RATE_LIMIT_MAX_RETRIES
    MaxLogins           \* bound: logins ever made

ASSUME RetriesAssumption == MaxRetries \in Nat /\ RateLimitRetries \in Nat
ASSUME ModeAssumption == Protected \in BOOLEAN
ASSUME ReplaysAssumption == Replays \subseteq BOOLEAN
ASSUME LoginsAssumption == MaxLogins \in Nat \ {0}

VARIABLES
    live,       \* the oldest login that the remote service still accepts
    newest,     \* ghost: the newest login ever made
    disk,       \* the stored login: cookies and page token
    client,     \* the shared client: the same, the cookies in its open HTTP client
                \* (0: none open), and whether _auth_revision is the disk's
    call        \* the call of each thread

vars == <<live, newest, disk, client, call>>

Logins == 1..MaxLogins
Tokens == {"fresh", "stale", "none"}

\* What a POST comes to.  "server" is a 5xx that is_retryable_error names, "limit" a
\* 429, "client" another HTTP error, "quota" RPC error 8, "rpc" any other RPC error,
\* "connect" a connection never made, "lost" a timeout or a broken connection after
\* the request was sent.
Answers == {"ok", "auth", "server", "limit", "client", "quota", "rpc", "connect", "lost"}

\* After these the request may have been carried out.
Ambiguous == {"server", "lost"}

\* How a call ends: an answer as it is, or one of the errors made of it.
Ends == Answers \cup {"transient", "store", "unknown", "running"}

Places == {"idle", "post", "refresh", "extracted", "writeback", "load", "launch",
           "browser", "reextract"}

Call == [pc : Places, replay : BOOLEAN, retry : BOOLEAN, deep : BOOLEAN, guarded : BOOLEAN,
         tries : Nat, seen : Logins, moved : BOOLEAN,
         posts : Nat, browsers : Nat, heard : SUBSET Ambiguous, end : Ends]

TypeOK ==
    /\ live \in 1..(MaxLogins + 1) /\ newest \in Logins
    /\ disk \in [cookies : Logins, token : Tokens]
    /\ client \in [cookies : Logins, token : Tokens, jar : 0..MaxLogins, synced : BOOLEAN]
    /\ call \in [Calls -> Call]

Frame(replay) ==
    [pc |-> "post", replay |-> replay, retry |-> FALSE, deep |-> FALSE, guarded |-> FALSE,
     tries |-> 0, seen |-> 1, moved |-> FALSE, posts |-> 0, browsers |-> 0, heard |-> {},
     end |-> "running"]

Init ==
    /\ live = 1 /\ newest = 1
    /\ disk = [cookies |-> 1, token |-> "fresh"]
    /\ client = [cookies |-> 1, token |-> "fresh", jar |-> 0, synced |-> TRUE]
    /\ call = [c \in Calls |-> [Frame(TRUE) EXCEPT !.pc = "idle", !.end = "ok"]]

-----------------------------------------------------------------------------
\* The control of _call_rpc, on the record of one call.

\* start_artifact_generation, the one caller that forbids replays, turns an HTTP error
\* or a transport error other than a failed connect into "outcome unknown".
Reported(c, error) ==
    IF ~c.replay /\ error \in {"server", "limit", "client", "lost"} THEN "unknown" ELSE error

Ended(c, end) == [c EXCEPT !.pc = "idle", !.end = Reported(c, end)]

\* mutant: timeouts are not taken for an unreachable backend
MutantTimeoutIsExpiry(error) == error \in {"server", "connect"}

\* _is_unreachable_failure of an exception that came out of the repeated call.
Unreachable(error) == error \in {"server", "connect", "lost"}

\* The exceptions that layer 1 catches: httpx.HTTPError and its kinds.
Caught == {"server", "limit", "client", "connect", "lost"}

\* An error leaves the frame.  An outer frame in layer 1 makes it a
\* TransientBackendError or goes on with layers 2 and 3.
Raise(c, error) ==
    IF c.guarded /\ error \in Caught
    THEN IF Unreachable(error)
         THEN Ended(c, "transient")
         ELSE [c EXCEPT !.pc = "load", !.retry = TRUE, !.deep = FALSE, !.guarded = FALSE]
    ELSE Ended(c, error)

Limit(answer) == IF answer \in {"limit", "quota"} THEN RateLimitRetries ELSE MaxRetries

\* The answers that the same request is sent again for, with _server_retry + 1.
Retried(c, answer) ==
    /\ \/ answer \in {"server", "limit"} /\ c.replay
       \/ answer \in {"connect", "quota"}
    /\ c.tries < Limit(answer)

\* The authentication was refused: the next layer that this frame may still try.
Recover(c) ==
    IF ~c.retry THEN [c EXCEPT !.pc = "refresh"]
    ELSE IF ~c.deep THEN [c EXCEPT !.pc = "load"]
    ELSE Ended(c, "auth")

AfterAnswer(c, answer) ==
    IF Retried(c, answer) THEN [c EXCEPT !.tries = @ + 1]
    ELSE IF answer = "auth" THEN Recover(c)
    ELSE IF answer \in {"ok", "quota", "rpc"} THEN Ended(c, answer)
    ELSE Raise(c, answer)

\* mutant: the repeated call after a reload may itself go deep again
MutantForgetsDeep(c) == [c EXCEPT !.pc = "post", !.tries = 0, !.retry = TRUE]

\* The recursive call after layer 2 or 3.
Deep(c) == [c EXCEPT !.pc = "post", !.tries = 0, !.retry = TRUE, !.deep = TRUE]

\* The recursive call of layer 1, inside its "try".
Again(c) == [c EXCEPT !.pc = "post", !.tries = 0, !.retry = TRUE, !.guarded = TRUE]

\* What _try_reload_or_headless_auth leads to: the page token is extracted again if
\* there is none.
Recovered(c, token) == IF token = "none" THEN [c EXCEPT !.pc = "reextract"] ELSE Deep(c)

-----------------------------------------------------------------------------
\* The steps of a call.

Put(c, rec) == call' = [call EXCEPT ![c] = rec]

\* The disk is written by c, or by another process if c is none of the calls: those
\* that remember what was on it will find it changed.
Write(cookies, token, c, rec) ==
    /\ disk' = [cookies |-> cookies, token |-> token]
    /\ call' = [d \in Calls |-> IF d = c THEN rec ELSE [call[d] EXCEPT !.moved = TRUE]]

Start(c, replay) ==
    /\ call[c].pc = "idle"
    /\ Put(c, Frame(replay))
    /\ UNCHANGED <<live, newest, disk, client>>

\* The cookies a POST goes out with: those of the open HTTP client (_get_client).
Jar == IF client.jar = 0 THEN client.cookies ELSE client.jar

Accepted == Jar >= live /\ Jar = client.cookies /\ client.token = "fresh"

Post(c, answer) ==
    /\ call[c].pc = "post"
    /\ answer = "ok" => Accepted
    /\ client' = [client EXCEPT !.jar = Jar]
    /\ Put(c, AfterAnswer([call[c] EXCEPT !.posts = @ + 1,
                                          !.heard = @ \cup ({answer} \cap Ambiguous)], answer))
    /\ UNCHANGED <<live, newest, disk>>

\* _refresh_auth_tokens, the home page: "expired" is the redirect to the login page,
\* "odd" any other page without a token, "unreachable" a transport error or a 5xx.
Fetch(c, page) ==
    /\ call[c].pc \in {"refresh", "reextract"}
    /\ page = "ok" => client.cookies >= live
    /\ Put(c, CASE page = "ok" -> [call[c] EXCEPT !.pc = "extracted", !.seen = client.cookies]
                [] page # "ok" /\ call[c].pc = "reextract" -> Deep(call[c])
                [] page = "unreachable" /\ call[c].pc = "refresh" -> Ended(call[c], "transient")
                [] OTHER -> [call[c] EXCEPT !.pc = "load", !.retry = TRUE])
    /\ client' = IF page # "ok" /\ call[c].pc = "reextract" THEN [client EXCEPT !.jar = 0] ELSE client
    /\ UNCHANGED <<live, newest, disk>>

\* ... and its result, under _state_lock: the cookies of the fetch and its tokens, which
\* the service may have let go meanwhile.
Extract(c, token) ==
    /\ call[c].pc = "extracted"
    /\ client' = [client EXCEPT !.cookies = call[c].seen, !.token = token]
    /\ Put(c, [call[c] EXCEPT !.pc = "writeback"])
    /\ UNCHANGED <<live, newest, disk>>

\* The recursive call that follows a refresh: of layer 1, or after layers 2 and 3.
Resumed(c) == IF c.retry THEN Deep(c) ELSE Again(c)

\* mutant: the refreshed tokens are saved without the revision they came from
MutantSavesBlindly == TRUE

\* save_tokens_to_cache with expected_revision: only protected mode has revisions.
MaySave == Protected => client.synced

\* StaleRevisionError: the revision is not the one on disk; or, in file mode, the root
\* mirror (an older login, where it exists) has the cookies to save and the profile has not.
Stale == IF Protected THEN ~client.synced ELSE client.cookies # disk.cookies

\* _update_cached_tokens and the step after it: compare and save; or they are
\* stale, and the login on disk is loaded instead; or saving fails and is passed over.
WriteBack(c) ==
    /\ call[c].pc = "writeback"
    /\ \/ /\ MaySave
          /\ Write(client.cookies, client.token, c, Resumed(call[c]))
          /\ client' = [client EXCEPT !.jar = 0]
       \/ /\ Stale
          /\ client' = [cookies |-> disk.cookies, token |-> disk.token, jar |-> 0, synced |-> TRUE]
          /\ Put(c, Resumed(call[c]))
          /\ UNCHANGED disk
       \/ /\ client' = [client EXCEPT !.jar = 0]
          /\ Put(c, Resumed(call[c]))
          /\ UNCHANGED disk
    /\ UNCHANGED <<live, newest>>

\* A keystore or lock error at a step that reads or writes the stored login is not
\* among the exceptions that the layers catch.
StoreFails(c) ==
    /\ \/ call[c].pc \in {"writeback", "load"}
       \/ call[c].pc = "browser" /\ call[c].moved
    /\ Put(c, Ended(call[c], "store"))
    /\ UNCHANGED <<live, newest, disk, client>>

\* Layer 2: other cookies on disk than in memory are taken, without their tokens: those
\* of another login, or of the same one with rotated session cookies.
Load(c, rotated) ==
    /\ call[c].pc = "load"
    /\ IF disk.cookies # client.cookies \/ rotated
       THEN /\ client' = [client EXCEPT !.cookies = disk.cookies, !.token = "none", !.synced = TRUE]
            /\ Put(c, Recovered([call[c] EXCEPT !.moved = FALSE], "none"))
       ELSE /\ Put(c, [call[c] EXCEPT !.pc = "launch", !.moved = FALSE])
            /\ UNCHANGED client
    /\ UNCHANGED <<live, newest, disk>>

\* Layer 3 is switched off, or the recovery budget refuses: the call fails.
Refused(c) ==
    /\ call[c].pc = "launch"
    /\ Put(c, Ended(call[c], "auth"))
    /\ UNCHANGED <<live, newest, disk, client>>

\* Layer 3 starts a browser (that threads share one is the subject of RecoveryBudget:
\* here each call has its own).  In file mode the login on disk is remembered only now.
Launch(c) ==
    /\ call[c].pc = "launch"
    /\ Put(c, [call[c] EXCEPT !.pc = "browser", !.browsers = @ + 1,
                              !.moved = @ /\ Protected])
    /\ UNCHANGED <<live, newest, disk, client>>

Adopt(cookies, token) ==
    client' = [cookies |-> cookies, token |-> token, jar |-> 0, synced |-> TRUE]

\* The browser's session is alive: its login is saved, unless the disk has changed
\* since; then the login on disk is returned.
BrowserSucceeds(c) ==
    /\ call[c].pc = "browser"
    /\ IF call[c].moved
       THEN /\ Adopt(disk.cookies, disk.token)
            /\ Put(c, Recovered(call[c], disk.token))
            /\ UNCHANGED <<newest, disk>>
       ELSE /\ newest < MaxLogins
            /\ newest' = newest + 1
            /\ Adopt(newest + 1, "fresh")
            /\ Write(newest + 1, "fresh", c, Deep(call[c]))
    /\ UNCHANGED live

BrowserFails(c) ==
    /\ call[c].pc = "browser"
    /\ Put(c, Ended(call[c], "auth"))
    /\ UNCHANGED <<live, newest, disk, client>>

-----------------------------------------------------------------------------
\* The rest of the world.

\* The disk changed under the calls that are under way.
Disturbed == call' = [d \in Calls |-> [call[d] EXCEPT !.moved = TRUE]]

\* Another process logs in,
OtherLogin ==
    /\ newest < MaxLogins
    /\ newest' = newest + 1
    /\ disk' = [cookies |-> newest + 1, token |-> "fresh"]
    /\ client' = [client EXCEPT !.synced = FALSE]
    /\ Disturbed
    /\ UNCHANGED live

\* or refreshes the tokens of the login on disk.
OtherRefresh ==
    /\ disk.cookies >= live
    /\ disk' = [disk EXCEPT !.token = "fresh"]
    /\ client' = [client EXCEPT !.synced = FALSE]
    /\ Disturbed
    /\ UNCHANGED <<live, newest>>

\* The remote service lets go of the oldest login,
CookiesExpire ==
    /\ live <= newest
    /\ live' = live + 1
    /\ UNCHANGED <<newest, disk, client, call>>

Staled(token) == IF token = "fresh" THEN "stale" ELSE token

\* and of the page tokens handed out so far.
TokensExpire ==
    /\ disk.token = "fresh" \/ client.token = "fresh"
    /\ disk' = [disk EXCEPT !.token = Staled(@)]
    /\ client' = [client EXCEPT !.token = Staled(@)]
    /\ UNCHANGED <<live, newest, call>>

Step(c) ==
    \/ \E answer \in Answers : Post(c, answer)
    \/ \E page \in {"ok", "expired", "odd", "unreachable"} : Fetch(c, page)
    \/ \E token \in {"fresh", "stale"} : Extract(c, token)
    \/ \E rotated \in BOOLEAN : Load(c, rotated)
    \/ WriteBack(c) \/ StoreFails(c) \/ Refused(c) \/ Launch(c) \/ BrowserSucceeds(c) \/ BrowserFails(c)

Next ==
    \/ \E c \in Calls : Step(c) \/ \E replay \in Replays : Start(c, replay)
    \/ OtherLogin \/ OtherRefresh \/ CookiesExpire \/ TokensExpire

Spec == Init /\ [][Next]_vars

-----------------------------------------------------------------------------
MaxTries == IF RateLimitRetries > MaxRetries THEN RateLimitRetries ELSE MaxRetries

\* One call sends a bounded number of requests and starts a bounded number of browsers,
\* although every recursive call begins with new retry counters (base.py:1189, 1230).
BoundedWork ==
    \A c \in Calls : call[c].posts <= 4 * (MaxTries + 1) /\ call[c].browsers <= 2

\* A request that may have been carried out is not sent again: never after its answer
\* was lost, and not after a 5xx either where replays are forbidden.
AmbiguousNeverResent ==
    [][\A c \in Calls : call'[c].posts > call[c].posts =>
        /\ "lost" \notin call[c].heard
        /\ call[c].replay \/ "server" \notin call[c].heard]_vars

\* A kickoff whose answer was lost or was a 5xx is reported as "outcome unknown"
\* (errors.py:183-188).
LostKickoffIsUnknown ==
    \A c \in Calls :
        call[c].pc = "idle" /\ ~call[c].replay /\ call[c].heard # {}
            => call[c].end = "unknown"

\* _update_cached_tokens never puts an older login in the place of a newer one: the
\* compare-and-save of protected mode (README.md:56).
NewerLoginKept == [][disk'.cookies >= disk.cookies]_vars
=============================================================================
