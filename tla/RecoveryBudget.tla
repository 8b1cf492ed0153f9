-------------------------- MODULE RecoveryBudget --------------------------
(***************************************************************************)
(* core/auth_recovery_budget.py: threads of one process that want to renew *)
(* the login of one profile by starting a headless browser.  They share    *)
(* the attempt in flight; a new attempt needs the budget's consent, which  *)
(* depends on the time of the last attempt and on the failures under the   *)
(* present credential revision.                                            *)
(*                                                                         *)
(* The budgets of different profiles are entries of one dictionary under   *)
(* one lock, and never meet; one profile is modelled.                      *)
(***************************************************************************)
EXTENDS Integers, Sequences

CONSTANTS
    Threads,        \* the client threads of the process
    Revisions,      \* the credential revisions (or cookie fingerprints)
    NoRevision,     \* the profile has no budget yet
    Cooldown,       \* NOTEBOOKLM_AUTH_RECOVERY_COOLDOWN_SECONDS
    FailureLimit,   \* NOTEBOOKLM_AUTH_MAX_HEADLESS_FAILURES, 0 for no limit
    MaxTime,        \* bound: the clock
    MaxAttempts     \* bound: browser launches

ASSUME CooldownAssumption == Cooldown \in Nat
ASSUME LimitAssumption == FailureLimit \in Nat
ASSUME RevisionAssumption == NoRevision \notin Revisions

VARIABLES
    now,        \* time.monotonic()
    budget,     \* _budgets[profile]
    attempts,   \* every _Attempt ever made, with (ghosts) its revision and time
    inflight,   \* _inflight[profile], as a position in attempts, 0 for none
    pc,         \* where each thread is in run_automatic_recovery
    mine,       \* the attempt each thread owns or waits for
    asked,      \* ghost: how many attempts were over when its call began
    got         \* the attempt whose tokens its last call returned, 0 for None

budgetVars == <<now, budget, attempts, inflight, pc, mine, asked, got>>

Outcomes == {"none", "tokens"}
Attempt == [revision : Revisions, at : Nat, result : Outcomes, done : BOOLEAN]

\* Since no time is negative, a last attempt at -Cooldown is "never": float("-inf").
Fresh(rev) == [revision |-> rev, last |-> -Cooldown, failures |-> 0]

BudgetTypeOK ==
    /\ now \in Nat
    /\ budget \in [revision : Revisions \cup {NoRevision}, last : Int, failures : Nat]
    /\ attempts \in Seq(Attempt)
    /\ inflight \in 0..Len(attempts)
    /\ pc \in [Threads -> {"idle", "waiting", "recovering", "finally"}]
    /\ mine \in [Threads -> 0..Len(attempts)]
    /\ asked \in [Threads -> 0..Len(attempts)]
    /\ got \in [Threads -> 0..Len(attempts)]

BudgetInit ==
    /\ now = 0
    /\ budget = Fresh(NoRevision)
    /\ attempts = <<>>
    /\ inflight = 0
    /\ pc = [t \in Threads |-> "idle"]
    /\ mine = [t \in Threads |-> 0]
    /\ asked = [t \in Threads |-> 0]
    /\ got = [t \in Threads |-> 0]

-----------------------------------------------------------------------------
\* allow_automatic_recovery: the budget a request is judged by, and the verdict.

BudgetFor(rev) == IF budget.revision = rev THEN budget ELSE Fresh(rev)

\* mutant: one failure more than the limit
MutantLateCap(b) ==
    /\ FailureLimit = 0 \/ b.failures <= FailureLimit
    /\ now - b.last >= Cooldown
Allows(b) ==
    /\ FailureLimit = 0 \/ b.failures < FailureLimit
    /\ now - b.last >= Cooldown

\* finish_automatic_recovery: what the outcome does to the failure count.
Charge(b, outcome) ==
    [b EXCEPT !.failures = IF outcome = "tokens" THEN 0 ELSE @ + 1]

\* The attempts that are over.
Over ==
    IF Len(attempts) > 0 /\ ~attempts[Len(attempts)].done
    THEN Len(attempts) - 1 ELSE Len(attempts)

\* The call of t begins, as the owner of attempt a or waiting for it.
Enter(t, place, a) ==
    /\ pc[t] = "idle"
    /\ pc' = [pc EXCEPT ![t] = place]
    /\ mine' = [mine EXCEPT ![t] = a]
    /\ asked' = [asked EXCEPT ![t] = Over]
    /\ got' = [got EXCEPT ![t] = 0]

\* The call of t ends: attempt.result, if that is tokens, else None or an exception.
Return(t) ==
    /\ pc' = [pc EXCEPT ![t] = "idle"]
    /\ mine' = [mine EXCEPT ![t] = 0]
    /\ got' = [got EXCEPT ![t] = IF attempts[mine[t]].result = "tokens" THEN mine[t] ELSE 0]
    /\ asked' = [asked EXCEPT ![t] = IF attempts[mine[t]].result = "tokens" THEN @ ELSE 0]

-----------------------------------------------------------------------------
\* run_automatic_recovery, first critical section: an attempt in flight is
\* joined before any limit is looked at.
Join(t) ==
    /\ inflight # 0
    /\ Enter(t, "waiting", inflight)
    /\ UNCHANGED <<now, budget, attempts, inflight>>

\* No attempt in flight and the budget refuses: return None, no browser.
Declined(t, rev) ==
    /\ pc[t] = "idle" /\ inflight = 0
    /\ ~Allows(BudgetFor(rev))
    /\ budget' = BudgetFor(rev)
    /\ asked' = [asked EXCEPT ![t] = 0]
    /\ got' = [got EXCEPT ![t] = 0]
    /\ UNCHANGED <<now, attempts, inflight, pc, mine>>

\* mutant: two requests that arrive together both become owners
MutantNoSingleFlight(t, rev) ==
    /\ Allows(BudgetFor(rev))
    /\ budget' = [BudgetFor(rev) EXCEPT !.last = now]
    /\ attempts' = Append(attempts, [revision |-> rev, at |-> now, result |-> "none", done |-> FALSE])
    /\ inflight' = Len(attempts) + 1
    /\ Enter(t, "recovering", Len(attempts) + 1)
    /\ UNCHANGED now

\* The attempt is reserved (last_attempt) and published in one critical section.
Own(t, rev) ==
    /\ inflight = 0
    /\ Allows(BudgetFor(rev))
    /\ budget' = [BudgetFor(rev) EXCEPT !.last = now]
    /\ attempts' = Append(attempts, [revision |-> rev, at |-> now, result |-> "none", done |-> FALSE])
    /\ inflight' = Len(attempts) + 1
    /\ Enter(t, "recovering", Len(attempts) + 1)
    /\ UNCHANGED now

\* mutant: an exception of recover() leaves by the shortest way, without "finally"
MutantRaisesPast(t, outcome, raises) ==
    /\ pc[t] = "recovering"
    /\ raises => outcome = "none"
    /\ attempts' = [attempts EXCEPT ![mine[t]].result = outcome]
    /\ pc' = [pc EXCEPT ![t] = IF raises THEN "idle" ELSE "finally"]
    /\ UNCHANGED <<now, budget, inflight, mine, asked, got>>

\* recover() ends, outside the lock: it returned tokens or None, or it raised,
\* which leaves result at None.  All of them reach the "finally" block.
Attempted(t, outcome, raises) ==
    /\ pc[t] = "recovering"
    /\ raises => outcome = "none"
    /\ attempts' = [attempts EXCEPT ![mine[t]].result = outcome]
    /\ pc' = [pc EXCEPT ![t] = "finally"]
    /\ UNCHANGED <<now, budget, inflight, mine, asked, got>>

\* mutant: the finished attempt stays where the next caller finds it
MutantKeepsInflight(t) ==
    /\ pc[t] = "finally"
    /\ budget' = Charge(budget, attempts[mine[t]].result)
    /\ attempts' = [attempts EXCEPT ![mine[t]].done = TRUE]
    /\ Return(t)
    /\ UNCHANGED <<now, inflight>>

\* The "finally" block, one critical section: charge the budget, free the slot,
\* wake the waiters; then the owner returns attempt.result or goes on raising.
Finish(t) ==
    /\ pc[t] = "finally"
    /\ budget' = Charge(budget, attempts[mine[t]].result)
    /\ inflight' = 0
    /\ attempts' = [attempts EXCEPT ![mine[t]].done = TRUE]
    /\ Return(t)
    /\ UNCHANGED now

\* attempt.done.wait returns True: the waiter takes the owner's result.
Woken(t) ==
    /\ pc[t] = "waiting" /\ attempts[mine[t]].done
    /\ Return(t)
    /\ UNCHANGED <<now, budget, attempts, inflight>>

\* wait_timeout passes first: the waiter returns None and charges nothing.
WaitTimesOut(t) ==
    /\ pc[t] = "waiting" /\ ~attempts[mine[t]].done
    /\ pc' = [pc EXCEPT ![t] = "idle"]
    /\ mine' = [mine EXCEPT ![t] = 0]
    /\ asked' = [asked EXCEPT ![t] = 0]
    /\ UNCHANGED <<now, budget, attempts, inflight, got>>

Tick ==
    /\ now < MaxTime
    /\ now' = now + 1
    /\ UNCHANGED <<budget, attempts, inflight, pc, mine, asked, got>>

OwnerStep(t) ==
    \/ \E outcome \in Outcomes, raises \in BOOLEAN : Attempted(t, outcome, raises)
    \/ Finish(t)

Ask(t) ==
    \/ Join(t)
    \/ \E rev \in Revisions : Declined(t, rev)
    \/ \E rev \in Revisions : Len(attempts) < MaxAttempts /\ Own(t, rev)

BudgetNext ==
    \/ Tick
    \/ \E t \in Threads : Ask(t) \/ OwnerStep(t) \/ Woken(t) \/ WaitTimesOut(t)

BudgetSpec == BudgetInit /\ [][BudgetNext]_budgetVars

\* The browser launch has a deadline and the rest is bookkeeping: owners go on.
FairBudgetSpec == BudgetSpec /\ \A t \in Threads : WF_budgetVars(OwnerStep(t))

-----------------------------------------------------------------------------
\* One browser at a time for the profile: the owner of the attempt in flight is
\* the only thread between its reservation and the end of its "finally" block.
OneBrowser ==
    \A t \in Threads : pc[t] \in {"recovering", "finally"} =>
        /\ inflight # 0 /\ mine[t] = inflight
        /\ \A u \in Threads : pc[u] \in {"recovering", "finally"} => u = t

\* Two launches in a row for one revision are a cooldown apart, whoever asked
\* (auth_recovery_budget.py:57-59).
LaunchesSpaced ==
    \A i \in 2..Len(attempts) :
        attempts[i].revision = attempts[i-1].revision =>
            attempts[i].at - attempts[i-1].at >= Cooldown

Failed(i) == attempts[i].done /\ attempts[i].result = "none"

\* Attempts i..j are in a row for one revision, and each of them failed.
LosingStreak(i, j) ==
    \A k \in i..j : Failed(k) /\ attempts[k].revision = attempts[j].revision

\* After FailureLimit failures in a row the revision gets no further attempt: no
\* streak of failures is longer, and none that long is followed by an attempt
\* under the same revision (auth_recovery_budget.py:55-56).
FailuresCapped ==
    FailureLimit > 0 =>
        \A i, j \in 1..Len(attempts) :
            /\ j = i + FailureLimit
            /\ LosingStreak(i, j - 1)
            => attempts[j].revision # attempts[i].revision

\* A call returns tokens only of an attempt that ended after the call began: a
\* login that was already tried and rejected is never handed out again.
TokensAreNew ==
    \A t \in Threads : got[t] # 0 =>
        /\ got[t] > asked[t]
        /\ attempts[got[t]].done /\ attempts[got[t]].result = "tokens"

\* Whatever recover() does, also when it raises, the slot becomes free again, so
\* that later calls are not turned into waiters for good.
SlotIsFreed == inflight # 0 ~> inflight = 0
=============================================================================
