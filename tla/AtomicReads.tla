---------------------------- MODULE AtomicReads ----------------------------
(***************************************************************************)
(* What read_credentials promises to the threads of a process: although it *)
(* caches, waits for other threads and reads files that other processes    *)
(* replace, a read that returns something returns a login that was the     *)
(* stored one at some moment between the beginning and the end of the      *)
(* read.  Versions number the states of the store; a deletion makes one.   *)
(***************************************************************************)
EXTENDS Integers

CONSTANTS Threads, Idle

VARIABLES
    version,    \* the present state of the store
    began,      \* the version when the read of each thread began, Idle if none
    got         \* the version that the read of each thread has returned, 0 for nothing

vars == <<version, began, got>>

Init ==
    /\ version \in Nat
    /\ began = [t \in Threads |-> Idle]
    /\ got = [t \in Threads |-> 0]

Change ==
    /\ version' = version + 1
    /\ UNCHANGED <<began, got>>

Begin(t) ==
    /\ began[t] = Idle
    /\ began' = [began EXCEPT ![t] = version]
    /\ UNCHANGED <<version, got>>

\* The end of a read may itself be a change: it completes a deletion.
Return(t) ==
    /\ began[t] # Idle
    /\ version' \in {version, version + 1}
    /\ \E v \in {0} \cup (began[t]..version') : got' = [got EXCEPT ![t] = v]
    /\ began' = [began EXCEPT ![t] = Idle]

\* The thread has used what it got.
Use(t) ==
    /\ got' = [got EXCEPT ![t] = 0]
    /\ UNCHANGED <<version, began>>

Next ==
    \/ Change
    \/ \E t \in Threads : Begin(t) \/ Return(t) \/ Use(t)

Spec == Init /\ [][Next]_vars
=============================================================================
