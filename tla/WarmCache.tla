------------------------------ MODULE WarmCache ------------------------------
(***************************************************************************)
(* WarmupCache (warmup.rs of mcp-reader): what it makes of the single      *)
(* flight of moka, with loaders that fail or are dropped, a store that     *)
(* changes and invalidations that come at any time.                        *)
(*                                                                         *)
(* Of moka is modelled what the code uses (external): a miss starts a      *)
(* flight or joins the one under way, the outcome goes to all who wait, a  *)
(* flight is not touched by invalidate, and when the task that runs it is  *)
(* dropped those who wait look again.                                      *)
(***************************************************************************)
EXTENDS Integers, SequencesExt

CONSTANTS
    Callers, Keys,
    WarmKeys,       \* the keys warm is called with, in order
    none,
    MaxVersion,     \* bounds of the model: changes of the source,
    MaxRemovals     \* entries invalidated or evicted

VARIABLES
    source,     \* the version the store behind the loaders has
    cache,      \* by key: none, or what is held
    flight,     \* by key: none, or the load under way
    caller,     \* the tasks
    told,       \* what each was last told
    loads,      \* load_count, by key
    removals,   \* history: how often an entry was to be removed
    owed        \* history: the version at the last invalidation

vars == <<source, cache, flight, caller, told, loads, removals, owed>>

Idle == [pc |-> "idle"]
NoReport == [warmed |-> {}, skipped |-> {}, failed |-> {}]
Failed == [kind |-> "error"]

Init ==
    /\ source = 1
    /\ cache = [k \in Keys |-> none]
    /\ flight = [k \in Keys |-> none]
    /\ caller = [c \in Callers |-> Idle]
    /\ told = [c \in Callers |-> Failed]
    /\ loads = [k \in Keys |-> 0]
    /\ removals = [k \in Keys |-> 0]
    /\ owed = [k \in Keys |-> 1]

-----------------------------------------------------------------------------
(* The end of a get_or_load: alone, the answer; in warm, a line of the report *)
(* and the next key.                                                         *)
NextKey(w, report) ==
    IF w.rest = <<>> THEN Idle
    ELSE [w EXCEPT !.pc = "check", !.key = Head(w.rest), !.rest = Tail(w.rest), !.report = report]

Line(w, r) ==
    IF r = Failed THEN [w.report EXCEPT !.failed = @ \cup {w.key}]
    ELSE [w.report EXCEPT !.warmed = @ \cup {w.key}]

After(w, r) == IF w.kind = "get" THEN Idle ELSE NextKey(w, Line(w, r))

Said(w, r, before) ==
    IF w.kind = "get"
    THEN IF r = Failed THEN Failed ELSE [kind |-> "value", key |-> w.key, owed |-> w.owed, entry |-> r]
    ELSE IF w.rest = <<>> THEN [kind |-> "report", report |-> Line(w, r)] ELSE before

Finish(who, r) ==
    /\ caller' = [c \in Callers |-> IF c \in who THEN After(caller[c], r) ELSE caller[c]]
    /\ told' = [c \in Callers |-> IF c \in who THEN Said(caller[c], r, told[c]) ELSE told[c]]

Waiting(k) == {c \in Callers : caller[c].pc = "wait" /\ caller[c].key = k}

-----------------------------------------------------------------------------
Task(kind, pc, k, rest) ==
    [kind |-> kind, pc |-> pc, key |-> k, rest |-> rest, owed |-> owed[k], report |-> NoReport]

GetOrLoad(c, k) ==
    /\ caller[c] = Idle
    /\ told' = [told EXCEPT ![c] = Failed]
    /\ caller' = [caller EXCEPT ![c] = Task("get", "look", k, <<>>)]
    /\ UNCHANGED <<source, cache, flight, loads, removals, owed>>

Warm(c) ==
    /\ caller[c] = Idle
    /\ told' = [told EXCEPT ![c] = Failed]
    /\ caller' = [caller EXCEPT ![c] = Task("warm", "check", Head(WarmKeys), Tail(WarmKeys))]
    /\ UNCHANGED <<source, cache, flight, loads, removals, owed>>

\* warm: contains_key, by which a key is skipped.
Check(c) ==
    /\ caller[c].pc = "check"
    /\ LET w      == caller[c]
           report == [w.report EXCEPT !.skipped = @ \cup {w.key}]
       IN  IF cache[w.key] = none
           THEN caller' = [caller EXCEPT ![c].pc = "look"] /\ UNCHANGED told
           ELSE /\ caller' = [caller EXCEPT ![c] = NextKey(w, report)]
                /\ told' = IF w.rest # <<>> THEN told
                           ELSE [told EXCEPT ![c] = [kind |-> "report", report |-> report]]
    /\ UNCHANGED <<source, cache, flight, loads, removals, owed>>

Hit(c) ==
    /\ caller[c].pc = "look" /\ cache[caller[c].key] # none
    /\ Finish({c}, cache[caller[c].key])
    /\ UNCHANGED <<source, cache, flight, loads, removals, owed>>

\* Mutant of Miss: no flight is joined.
EachOnItsOwn(c) ==
    LET k == caller[c].key
    IN  /\ caller[c].pc = "look" /\ cache[k] = none
        /\ \/ flight[k] = none /\ flight' = [flight EXCEPT ![k] = [by |-> c, version |-> none, raced |-> FALSE]]
              /\ caller' = [caller EXCEPT ![c].pc = "load"] /\ UNCHANGED <<cache, loads>>
           \/ /\ flight[k] # none /\ loads' = [loads EXCEPT ![k] = @ + 1]
              /\ caller' = [caller EXCEPT ![c] = Idle] /\ UNCHANGED <<cache, flight>>
        /\ UNCHANGED <<source, told, removals, owed>>

\* try_get_with on a miss: a flight starts, or is joined.
Miss(c) ==
    LET k == caller[c].key
    IN  /\ caller[c].pc = "look" /\ cache[k] = none
        /\ IF flight[k] = none
           THEN /\ flight' = [flight EXCEPT ![k] = [by |-> c, version |-> none, raced |-> FALSE]]
                /\ caller' = [caller EXCEPT ![c].pc = "load"]
           ELSE caller' = [caller EXCEPT ![c].pc = "wait"] /\ UNCHANGED flight
        /\ UNCHANGED <<source, cache, told, loads, removals, owed>>

\* The loader has its value of the store, but has not returned yet.
Read(c) ==
    LET k == caller[c].key
    IN  /\ caller[c].pc = "load" /\ flight[k].version = none
        /\ flight' = [flight EXCEPT ![k].version = source]
        /\ UNCHANGED <<source, cache, caller, told, loads, removals, owed>>

\* The loader is counted, its value stored and given to all who wait.
Loaded(c) ==
    LET k     == caller[c].key
        entry == [version |-> flight[k].version, raced |-> flight[k].raced]
    IN  /\ caller[c].pc = "load" /\ flight[k].version # none
        /\ cache' = [cache EXCEPT ![k] = entry]
        /\ flight' = [flight EXCEPT ![k] = none]
        /\ loads' = [loads EXCEPT ![k] = @ + 1]
        /\ Finish({c} \cup Waiting(k), entry)
        /\ UNCHANGED <<source, removals, owed>>

\* Mutant of LoadFails: a placeholder of the first version is stored.
FailsStored(c) ==
    LET k == caller[c].key
    IN  /\ caller[c].pc = "load"
        /\ flight' = [flight EXCEPT ![k] = none]
        /\ cache' = [cache EXCEPT ![k] = [version |-> 1, raced |-> FALSE]]
        /\ Finish({c} \cup Waiting(k), Failed)
        /\ UNCHANGED <<source, loads, removals, owed>>

\* It fails: nothing is stored, and all who wait are told.
LoadFails(c) ==
    LET k == caller[c].key
    IN  /\ caller[c].pc = "load"
        /\ flight' = [flight EXCEPT ![k] = none]
        /\ Finish({c} \cup Waiting(k), Failed)
        /\ UNCHANGED <<source, cache, loads, removals, owed>>

\* Mutant of Drop: those who wait go on waiting.
DropAlone(c) ==
    /\ caller[c].pc \in {"load", "wait"}
    /\ flight' = [k \in Keys |-> IF flight[k] # none /\ flight[k].by = c THEN none ELSE flight[k]]
    /\ caller' = [caller EXCEPT ![c] = Idle]
    /\ UNCHANGED <<source, cache, told, loads, removals, owed>>

\* A task is dropped where it awaits; if it ran the loader, the others look again.
Drop(c) ==
    /\ caller[c].pc \in {"load", "wait"}
    /\ LET k == caller[c].key
           loader == caller[c].pc = "load"
       IN  /\ flight' = IF loader THEN [flight EXCEPT ![k] = none] ELSE flight
           /\ caller' = [x \in Callers |->
                  IF x = c THEN Idle
                  ELSE IF loader /\ x \in Waiting(k) THEN [caller[x] EXCEPT !.pc = "look"] ELSE caller[x]]
    /\ UNCHANGED <<source, cache, told, loads, removals, owed>>

-----------------------------------------------------------------------------
(* What happens to the store and to the entries meanwhile.                    *)
Change ==
    /\ source < MaxVersion
    /\ source' = source + 1
    /\ UNCHANGED <<cache, flight, caller, told, loads, removals, owed>>

Removed(k) ==
    /\ SumFunction(removals) < MaxRemovals
    /\ removals' = [removals EXCEPT ![k] = @ + 1]
    /\ cache' = [cache EXCEPT ![k] = none]
    /\ UNCHANGED <<source, loads, caller, told>>

\* invalidate, of both caches, at an event of the broker.
Invalidate(k) ==
    /\ Removed(k)
    /\ flight' = IF flight[k] = none THEN flight ELSE [flight EXCEPT ![k].raced = TRUE]
    /\ owed' = [owed EXCEPT ![k] = source]

\* moka makes room.
Evict(k) ==
    /\ cache[k] # none
    /\ Removed(k)
    /\ UNCHANGED <<flight, owed>>

Ends(c) == Loaded(c) \/ LoadFails(c) \/ Drop(c)
Turn(c) == Check(c) \/ Hit(c) \/ Miss(c) \/ Read(c)

Next ==
    \/ \E c \in Callers, k \in Keys : GetOrLoad(c, k)
    \/ \E c \in Callers : Warm(c) \/ Turn(c) \/ Ends(c)
    \/ Change \/ \E k \in Keys : Invalidate(k) \/ Evict(k)

\* The runtime polls tasks that can go on, and a loader comes to an end.
Fairness == \A c \in Callers : WF_vars(Turn(c)) /\ WF_vars(Loaded(c) \/ LoadFails(c))

Spec == Init /\ [][Next]_vars /\ Fairness

-----------------------------------------------------------------------------
(* Properties.                                                              *)

(* What is held, and what was told, is at least as new as the last           *)
(* invalidation, but for a load that was under way when it came: that one is *)
(* stored after the invalidation and stays (invalidate, try_get_with).       *)
FreshOrRaced ==
    /\ \A k \in Keys : cache[k] # none /\ ~cache[k].raced => cache[k].version >= owed[k]
    /\ \A c \in Callers :
           told[c].kind = "value" /\ ~told[c].entry.raced => told[c].entry.version >= told[c].owed

(* One load per miss, whoever asks, waits, fails or is dropped: the loader   *)
(* succeeds no more often than there was nothing held (the stampede of        *)
(* warmup.rs).                                                               *)
LoadsAreNeeded ==
    \A k \in Keys : loads[k] <= removals[k] + 1

(* Nobody who waits for the load of another is left alone, also when that    *)
(* one fails or is dropped, unless loads are dropped for ever: those who     *)
(* look again may each time find a new load under way.                       *)
NobodyWaitsForever ==
    <>[][~ \E c \in Callers : Drop(c)]_vars =>
        \A c \in Callers : caller[c].pc = "wait" ~> caller[c].pc \in {"idle", "check"}
=============================================================================
