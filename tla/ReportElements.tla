--------------------------- MODULE ReportElements ---------------------------
(***************************************************************************)
(* Generating the suggested elements of an interactive report:             *)
(* generate_report_elements (services/interactive_reports.py) over         *)
(* start_artifact_generation (core/studio.py), called by threads of one    *)
(* process.  An element is started in two requests, which set its options  *)
(* and kick it off; the answer to either may be lost, and the service may  *)
(* execute it later.  A request that sets options is sent again by the RPC *)
(* layer, a kickoff never.  A thread stands for the options it asks for.   *)
(* Other processes are left out: the code's own comment excludes them.     *)
(***************************************************************************)
EXTENDS Integers, FiniteSets, Sequences, SequencesExt

CONSTANTS
    Threads,        \* the threads that call
    Elements,       \* the suggested elements of the report
    Nobody,         \* no thread
    Reads,          \* reconcile_reads
    MaxBatches      \* bound: calls

VARIABLES
    element,    \* what the service knows of each element
    flying,     \* kickoffs whose answer was lost and that are still to be executed
    setting,    \* requests that set options, of which the same is true
    lock,       \* _ELEMENT_LOCKS: who holds each
    batch,      \* what each thread does
    batches,    \* how many calls have begun
    doubted,    \* ghost: elements whose start some call has not reported as started
    strayed     \* ghost: the requests that set options and got no answer

elementVars == <<element, flying, setting, lock, batch, batches, doubted, strayed>>

\* runs counts the kickoffs that the service executed; by and prompt say whose the
\* last one was, and whose options it found.
Element == [status : {"suggested", "started"}, options : Threads \cup {Nobody},
            runs : 0..2 * MaxBatches, by : Threads \cup {Nobody}, prompt : Threads \cup {Nobody}]

Outcomes == {"started", "failed", "unknown", "not_started"}
Places == {"idle", "lock", "check", "fields", "kick", "reconcile"}
Batch == [at : Places, plan : Seq(Elements), stopped : BOOLEAN, reads : 0..Reads,
          results : [Elements -> Outcomes \cup {"none"}]]
Idle == [at |-> "idle", plan |-> <<>>, stopped |-> FALSE, reads |-> 0,
         results |-> [e \in Elements |-> "none"]]

ElementsTypeOK ==
    /\ element \in [Elements -> Element]
    /\ {flying, setting, strayed} \subseteq SUBSET (Elements \X Threads)
    /\ lock \in [Elements -> Threads \cup {Nobody}]
    /\ batch \in [Threads -> Batch]
    /\ batches \in 0..MaxBatches
    /\ doubted \subseteq Elements

ElementsInit ==
    /\ element = [e \in Elements |-> [status |-> "suggested", options |-> Nobody, runs |-> 0,
                                      by |-> Nobody, prompt |-> Nobody]]
    /\ flying = {} /\ setting = {} /\ strayed = {}
    /\ lock = [e \in Elements |-> Nobody]
    /\ batch = [t \in Threads |-> Idle]
    /\ batches = 0 /\ doubted = {}

-----------------------------------------------------------------------------
\* The service.

\* A kickoff is executed: with the options that are there now.
Kicked(e, t) ==
    element' = [element EXCEPT ![e].status = "started", ![e].runs = @ + 1, ![e].by = t,
                               ![e].prompt = element[e].options]

\* A kickoff whose answer was lost arrives.
Arrives(e, t) ==
    /\ <<e, t>> \in flying
    /\ Kicked(e, t)
    /\ flying' = flying \ {<<e, t>>}
    /\ UNCHANGED <<lock, batch, batches, doubted, setting, strayed>>

\* ... or never does.
Vanishes(e, t) ==
    /\ <<e, t>> \in flying
    /\ flying' = flying \ {<<e, t>>}
    /\ UNCHANGED <<element, lock, batch, batches, doubted, setting, strayed>>

\* A request that sets options arrives late.
FieldsArrive(e, t) ==
    /\ <<e, t>> \in setting
    /\ element' = [element EXCEPT ![e].options = t]
    /\ setting' = setting \ {<<e, t>>}
    /\ UNCHANGED <<flying, strayed, lock, batch, batches, doubted>>

-----------------------------------------------------------------------------
\* A call.

Goes(t, r) == batch' = [batch EXCEPT ![t] = r]
This(t) == Head(batch[t].plan)

\* prepare_element_plan reads the elements: all must be suggested.
Generate(t, plan) ==
    /\ batch[t].at = "idle" /\ batches < MaxBatches
    /\ plan # <<>> /\ \A i \in DOMAIN plan : element[plan[i]].status = "suggested"
    /\ Goes(t, [Idle EXCEPT !.at = "lock", !.plan = plan])
    /\ batches' = batches + 1
    /\ UNCHANGED <<element, flying, setting, strayed, lock, doubted>>

\* The next element of the plan, after this one ended with an outcome.
Result(b, outcome) ==
    [b EXCEPT !.at = "lock", !.plan = Tail(@), !.reads = 0,
              !.results[Head(b.plan)] = outcome]

\* ... whose lock is released.  What is not known to have started is in doubt.
Finishes(t, outcome, stop) ==
    /\ Goes(t, [Result(batch[t], outcome) EXCEPT !.stopped = stop])
    /\ lock' = [lock EXCEPT ![This(t)] = Nobody]

Doubts(t) == doubted' = doubted \cup {This(t)}

\* The batch was stopped by a quota or authentication error.
PassOver(t) ==
    /\ batch[t].at = "lock" /\ batch[t].plan # <<>> /\ batch[t].stopped
    /\ Goes(t, Result(batch[t], "not_started"))
    /\ UNCHANGED <<element, flying, setting, strayed, lock, batches, doubted>>

\* mutant: the lock is taken whoever holds it
MutantTakesAnyLock(t) ==
    /\ batch[t].at = "lock" /\ batch[t].plan # <<>> /\ ~batch[t].stopped
    /\ lock' = [lock EXCEPT ![This(t)] = t]
    /\ Goes(t, [batch[t] EXCEPT !.at = "check"])
    /\ UNCHANGED <<element, flying, setting, strayed, batches, doubted>>

\* The element's lock is taken without waiting.
Lock(t) ==
    /\ batch[t].at = "lock" /\ batch[t].plan # <<>> /\ ~batch[t].stopped
    /\ lock[This(t)] = Nobody
    /\ lock' = [lock EXCEPT ![This(t)] = t]
    /\ Goes(t, [batch[t] EXCEPT !.at = "check"])
    /\ UNCHANGED <<element, flying, setting, strayed, batches, doubted>>

LockBusy(t) ==
    /\ batch[t].at = "lock" /\ batch[t].plan # <<>> /\ ~batch[t].stopped
    /\ lock[This(t)] # Nobody
    /\ Goes(t, Result(batch[t], "failed"))
    /\ UNCHANGED <<element, flying, setting, strayed, lock, batches, doubted>>

\* mutant: the element is not read again under its lock
MutantTrustsThePlan(t) ==
    /\ batch[t].at = "check"
    /\ Goes(t, [batch[t] EXCEPT !.at = "fields"])
    /\ UNCHANGED <<element, flying, setting, strayed, lock, batches, doubted>>

\* The element is read again under the lock.
Check(t) ==
    /\ batch[t].at = "check"
    /\ IF element[This(t)].status = "suggested"
       THEN Goes(t, [batch[t] EXCEPT !.at = "fields"]) /\ UNCHANGED lock
       ELSE Finishes(t, "failed", FALSE)
    /\ UNCHANGED <<element, flying, setting, strayed, batches, doubted>>

\* A read, the options or the kickoff fail before the kickoff is executed; quota and
\* authentication errors stop the batch.
Fails(t) ==
    /\ batch[t].at \in {"check", "fields", "kick"}
    /\ \E stop \in BOOLEAN : Finishes(t, "failed", stop)
    /\ UNCHANGED <<element, flying, setting, strayed, batches, doubted>>

\* The options are set.
SetFields(t) ==
    /\ batch[t].at = "fields"
    /\ element' = [element EXCEPT ![This(t)].options = t]
    /\ Goes(t, [batch[t] EXCEPT !.at = "kick"])
    /\ UNCHANGED <<flying, setting, strayed, lock, batches, doubted>>

\* The answer is lost, or is a passing error: the request may be executed at any time from
\* now on, or never.  It is sent again, or the element is reported as failed.
FieldsLost(t) ==
    /\ batch[t].at = "fields"
    /\ setting' = setting \cup {<<This(t), t>>}
    /\ strayed' = strayed \cup {<<This(t), t>>}
    /\ UNCHANGED <<batch, lock>> \/ Finishes(t, "failed", FALSE)
    /\ UNCHANGED <<element, flying, batches, doubted>>

Kickoff(t) ==
    /\ batch[t].at = "kick"
    /\ Kicked(This(t), t)
    /\ Finishes(t, "started", FALSE)
    /\ UNCHANGED <<flying, setting, strayed, batches, doubted>>

\* The answer is lost: the kickoff was executed, or it may be later.
KickoffLost(t) ==
    /\ batch[t].at = "kick"
    /\ \/ Kicked(This(t), t) /\ UNCHANGED flying
       \/ flying' = flying \cup {<<This(t), t>>} /\ UNCHANGED element
    /\ Goes(t, [batch[t] EXCEPT !.at = "reconcile"])
    /\ UNCHANGED <<lock, batches, doubted, setting, strayed>>

\* The RPC layer may report a lost kickoff as an error of another kind (the module
\* RpcRecovery): the element is reported as failed.
KickoffMisreported(t) ==
    /\ batch[t].at = "kick"
    /\ \/ Kicked(This(t), t) /\ UNCHANGED flying
       \/ flying' = flying \cup {<<This(t), t>>} /\ UNCHANGED element
    /\ Finishes(t, "failed", FALSE) /\ Doubts(t)
    /\ UNCHANGED <<batches, setting, strayed>>

\* _reconcile: the element is read until it is not suggested any more.
Reconcile(t) ==
    /\ batch[t].at = "reconcile"
    /\ \/ /\ element[This(t)].status = "started"
          /\ Finishes(t, "started", FALSE) /\ UNCHANGED doubted
       \/ /\ element[This(t)].status = "suggested" /\ batch[t].reads + 1 < Reads
          /\ Goes(t, [batch[t] EXCEPT !.reads = @ + 1]) /\ UNCHANGED <<lock, doubted>>
       \/ /\ element[This(t)].status = "suggested" /\ batch[t].reads + 1 = Reads
          /\ Finishes(t, "unknown", FALSE) /\ Doubts(t)
    /\ UNCHANGED <<element, flying, setting, strayed, batches>>

\* A read of the reconciliation raises, out of the except clause that it runs in: the
\* lock is released, and the call ends without a result.
ReconcileRaises(t) ==
    /\ batch[t].at = "reconcile"
    /\ Goes(t, Idle)
    /\ lock' = [lock EXCEPT ![This(t)] = Nobody]
    /\ Doubts(t)
    /\ UNCHANGED <<element, flying, setting, strayed, batches>>

\* The results are returned.
Finish(t) ==
    /\ batch[t].at = "lock" /\ batch[t].plan = <<>>
    /\ Goes(t, Idle)
    /\ UNCHANGED <<element, flying, setting, strayed, lock, batches, doubted>>

BatchStep(t) ==
    \/ PassOver(t) \/ Lock(t) \/ LockBusy(t) \/ Check(t) \/ Fails(t) \/ SetFields(t)
    \/ FieldsLost(t)
    \/ Kickoff(t) \/ KickoffLost(t) \/ KickoffMisreported(t) \/ Reconcile(t)
    \/ ReconcileRaises(t) \/ Finish(t)

StartsBatch(t) == \E plan \in SetToAllKPermutations(Elements) : Generate(t, plan)

FlightEnds ==
    \E e \in Elements, t \in Threads : Arrives(e, t) \/ Vanishes(e, t) \/ FieldsArrive(e, t)

-----------------------------------------------------------------------------
\* Properties.

(* The process makes the service generate an element twice only after one of its    *)
(* calls has told the user that it does not know, or that it failed: the locks and   *)
(* the second look under them leave no other way.                                    *)
StartsOnce == \A e \in Elements : element[e].runs > 1 => e \in doubted

(* An element is generated with the options of the call that kicked it off: the two  *)
(* requests are not mixed with those of another call, unless a kickoff was left      *)
(* behind, or a request for just those options was.                                  *)
OwnOptions ==
    \A e \in Elements :
        element[e].prompt # element[e].by => e \in doubted \/ <<e, element[e].prompt>> \in strayed
=============================================================================
