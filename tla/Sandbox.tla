------------------------------- MODULE Sandbox -------------------------------
(***************************************************************************)
(* SearchSandbox (sandbox.rs of mcp-reader): work of any length on the     *)
(* threads tokio keeps for blocking work, under a deadline.  The deadline  *)
(* ends the wait, never the work: a search that was given up still holds   *)
(* its thread, and one that waited for a thread still runs when its turn   *)
(* comes.  The pool of threads is tokio's (external).                      *)
(***************************************************************************)
EXTENDS Naturals, FiniteSets

CONSTANTS
    Searches,       \* the calls of `run` under way at a time
    Threads,        \* how many threads there are for blocking work
    none

VARIABLES
    work,       \* of each search: its work
    outcome     \* and what its caller was told

vars == <<work, outcome>>

Waiting == "waiting"
Busy == {s \in Searches : work[s] = "running"}

Init ==
    /\ work = [s \in Searches |-> none]
    /\ outcome = [s \in Searches |-> none]

\* run, find_all: spawn_blocking, and then the timeout.
Run(s) ==
    /\ work[s] = none /\ outcome[s] # Waiting
    /\ work' = [work EXCEPT ![s] = "queued"]
    /\ outcome' = [outcome EXCEPT ![s] = Waiting]

\* A thread takes the work, whoever still waits for it.
Take(s) ==
    /\ work[s] = "queued" /\ Cardinality(Busy) < Threads
    /\ work' = [work EXCEPT ![s] = "running"]
    /\ UNCHANGED outcome

\* The pattern does not compile, the search has its hits, or the work panics.
Finish(s, result) ==
    /\ work[s] = "running"
    /\ work' = [work EXCEPT ![s] = none]
    /\ outcome' = IF outcome[s] = Waiting THEN [outcome EXCEPT ![s] = result] ELSE outcome

\* Mutant of Deadline: it runs from the moment a thread has taken the work.
DeadlineOfWork(s) ==
    /\ outcome[s] = Waiting /\ work[s] = "running"
    /\ outcome' = [outcome EXCEPT ![s] = "deadline"]
    /\ UNCHANGED work

Deadline(s) ==
    /\ outcome[s] = Waiting
    /\ outcome' = [outcome EXCEPT ![s] = "deadline"]
    /\ UNCHANGED work

Results == {"hits", "too complex", "worker failed"}

Next ==
    \E s \in Searches :
        \/ Run(s) \/ Take(s) \/ Deadline(s)
        \/ \E r \in Results : Finish(s, r)

\* Timers fire; threads take work when they can.  No work needs to end.
Fairness == \A s \in Searches : WF_vars(Deadline(s)) /\ WF_vars(Take(s))

Spec == Init /\ [][Next]_vars /\ Fairness

-----------------------------------------------------------------------------
(* A caller is told something in the end, also when every thread is held by  *)
(* work that never ends and its own was never begun (run: the deadline       *)
(* "schützt die Antwortlatenz").                                             *)
ToldInTime == \A s \in Searches : outcome[s] = Waiting ~> outcome[s] # Waiting
=============================================================================
