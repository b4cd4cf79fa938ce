------------------------------ MODULE Readiness ------------------------------
(***************************************************************************)
(* A pod under the eyes of its orchestrator: livez, readyz and startupz    *)
(* (health.rs, probes.rs, app.rs of mcp-reader) over Redis and Fedlex,     *)
(* which go down, come back, or stay mute: they take the question and do   *)
(* not answer.  Neither probe has a timeout, and readyz asks one after     *)
(* the other.                                                              *)
(*                                                                         *)
(* The orchestrator (external) asks startupz before the others, gives up   *)
(* on a readyz that does not come, routes calls to a pod that is ready and *)
(* restarts one that is not alive.                                         *)
(***************************************************************************)
EXTENDS Naturals, Sequences

CONSTANTS Probes        \* the dependencies, in the order they are asked

Dependencies == {Probes[i] : i \in DOMAIN Probes}
NotAsked == 0

VARIABLES
    link,       \* of each dependency: "up", "down" or "mute"
    live, started,
    asking,     \* the readyz under way: the probe it is at
    failing,    \* and the names it has collected
    seen,       \* the orchestrator: startupz was answered by 200
    routed      \* and whether calls are sent to the pod

vars == <<link, live, started, asking, failing, seen, routed>>

Init ==
    /\ link \in [Dependencies -> {"up", "down"}]
    /\ live = TRUE /\ started = FALSE
    /\ asking = NotAsked /\ failing = {}
    /\ seen = FALSE /\ routed = FALSE

MarkStarted ==
    /\ ~started
    /\ started' = TRUE
    /\ UNCHANGED <<link, live, asking, failing, seen, routed>>

MarkUnhealthy ==
    /\ live
    /\ live' = FALSE
    /\ UNCHANGED <<link, started, asking, failing, seen, routed>>

Startupz ==
    /\ ~seen /\ started
    /\ seen' = TRUE
    /\ UNCHANGED <<link, live, started, asking, failing, routed>>

\* Mutant of Livez: a pod is also restarted when all it depends on is away.
LivezOfAll ==
    /\ seen /\ (~live \/ \A d \in Dependencies : link[d] # "up")
    /\ live' = TRUE /\ started' = FALSE /\ asking' = NotAsked /\ failing' = {}
    /\ seen' = FALSE /\ routed' = FALSE
    /\ UNCHANGED link

\* livez is 503: the pod is started anew.
Livez ==
    /\ seen /\ ~live
    /\ live' = TRUE /\ started' = FALSE /\ asking' = NotAsked /\ failing' = {}
    /\ seen' = FALSE /\ routed' = FALSE
    /\ UNCHANGED link

-----------------------------------------------------------------------------
Readyz ==
    /\ seen /\ asking = NotAsked
    /\ asking' = 1 /\ failing' = {}
    /\ UNCHANGED <<link, live, started, seen, routed>>

\* A probe that is answered, also by a bucket without a token, is ready.
ProbeReady ==
    /\ asking \in DOMAIN Probes /\ link[Probes[asking]] = "up"
    /\ asking' = asking + 1
    /\ UNCHANGED <<link, live, started, failing, seen, routed>>

ProbeFails ==
    /\ asking \in DOMAIN Probes /\ link[Probes[asking]] = "down"
    /\ failing' = failing \cup {Probes[asking]}
    /\ asking' = asking + 1
    /\ UNCHANGED <<link, live, started, seen, routed>>

\* 200 when no name was collected, 503 otherwise.
Answer ==
    /\ asking > Len(Probes)
    /\ routed' = (failing = {})
    /\ asking' = NotAsked /\ failing' = {}
    /\ UNCHANGED <<link, live, started, seen>>

\* The orchestrator waits no longer; the handler is dropped where it awaits.
GiveUp ==
    /\ asking \in DOMAIN Probes /\ link[Probes[asking]] = "mute"
    /\ routed' = FALSE
    /\ asking' = NotAsked /\ failing' = {}
    /\ UNCHANGED <<link, live, started, seen>>

-----------------------------------------------------------------------------
Turn(d, how) ==
    /\ link[d] # how
    /\ link' = [link EXCEPT ![d] = how]
    /\ UNCHANGED <<live, started, asking, failing, seen, routed>>

Next ==
    \/ MarkStarted \/ MarkUnhealthy \/ Startupz \/ Livez
    \/ Readyz \/ ProbeReady \/ ProbeFails \/ Answer \/ GiveUp
    \/ \E d \in Dependencies, how \in {"up", "down", "mute"} : Turn(d, how)

\* main marks the start, the orchestrator goes on asking, and a readyz under way
\* is answered by its probe or given up.
Fairness ==
    /\ WF_vars(MarkStarted) /\ WF_vars(Startupz) /\ WF_vars(Livez)
    /\ WF_vars(Readyz) /\ WF_vars(ProbeReady \/ ProbeFails \/ GiveUp) /\ WF_vars(Answer)

Spec == Init /\ [][Next]_vars /\ Fairness

-----------------------------------------------------------------------------
(* Calls follow the dependencies: if one of them stays down or mute from     *)
(* some time on, the pod ends up without calls, although it could answer     *)
(* some of them by its fallback; if all of them stay up and the pod is       *)
(* declared dead only finitely often, it ends up with calls. But a pod that  *)
(* nobody declares dead is never restarted, whatever its dependencies do     *)
(* (failing_probes, readyz_handler, livez_handler).                          *)
RoutedAsReady ==
    /\ \A d \in Dependencies : <>[](link[d] # "up") => <>[]~routed
    /\ (<>[](\A d \in Dependencies : link[d] = "up") /\ <>[]live) => <>[]routed
    /\ []live => [](seen => []seen)
=============================================================================
