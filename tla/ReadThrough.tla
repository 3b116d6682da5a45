----------------------------- MODULE ReadThrough -----------------------------
(***************************************************************************)
(* What a cache of upstream reads promises, with no word of Maps, orders   *)
(* of eviction, promises or timers.  Every call is bound to one read of    *)
(* what it demands, begun since the cache was last cleared: a read begun   *)
(* for it, one that is running, or one that brought something back and was *)
(* kept less than the caller's ttl ago.                                    *)
(***************************************************************************)
EXTENDS Naturals

CONSTANTS
    Callers,
    Reads,          \* reads, reused once no other call is bound to them
    Keys,           \* what can be read
    Demands,        \* [key, ttl]: what callers ask for, how old they accept it
    Nothing         \* no read

VARIABLES
    read,           \* [key, running, got, kept, epoch] of every read: kept is
                    \* {} or the one moment it was kept at
    caller,         \* [demand, bound, answered] of every caller's latest call
    clock,
    epoch           \* how often the cache was cleared

vars == <<read, caller, clock, epoch>>

Init ==
    /\ read \in [Reads -> [key : Keys, running : {FALSE}, got : {"none"}, kept : {{}},
                           epoch : {0}]]
    /\ caller \in [Callers -> [demand : Demands, bound : {Nothing}, answered : {FALSE}]]
    /\ clock = 0
    /\ epoch = 0

-----------------------------------------------------------------------------
Idle(c) == caller[c].bound = Nothing \/ caller[c].answered

Bind(c, demand, r, answered) ==
    caller' = [caller EXCEPT ![c] = [demand |-> demand, bound |-> r, answered |-> answered]]

\* The read r, changed in what a step may change.
Becomes(r, running, got, kept) ==
    [key |-> read[r].key, running |-> running, got |-> got, kept |-> kept,
     epoch |-> read[r].epoch]

Current(r, key) == read[r].key = key /\ read[r].epoch = epoch

Begin(c, demand, r) ==
    /\ ~read[r].running /\ \A d \in Callers \ {c} : caller[d].bound # r
    /\ read' = [read EXCEPT ![r] = [key |-> demand.key, running |-> TRUE, got |-> "none",
                                    kept |-> {}, epoch |-> epoch]]
    /\ Bind(c, demand, r, FALSE)

Share(c, demand, r) ==
    /\ Current(r, demand.key) /\ read[r].running
    /\ Bind(c, demand, r, FALSE)
    /\ UNCHANGED read

Reuse(c, demand, r) ==
    /\ Current(r, demand.key)
    /\ \E moment \in read[r].kept : clock' - moment < demand.ttl
    /\ Bind(c, demand, r, TRUE)
    /\ UNCHANGED read

\* A call, which may look at the clock more than once.
Call(c) ==
    /\ Idle(c)
    /\ clock' >= clock
    /\ \E demand \in Demands, r \in Reads :
          Begin(c, demand, r) \/ Share(c, demand, r) \/ Reuse(c, demand, r)
    /\ UNCHANGED epoch

Get(r) ==
    /\ read[r].running /\ read[r].got = "none"
    /\ \E got \in {"package", "notFound", "failed"} :
          read' = [read EXCEPT ![r] = Becomes(r, TRUE, got, {})]
    /\ UNCHANGED <<caller, clock, epoch>>

Keep(r) ==
    /\ read[r].running /\ read[r].got = "package" /\ read[r].kept = {}
    /\ read' = [read EXCEPT ![r] = Becomes(r, TRUE, "package", {clock})]
    /\ UNCHANGED <<caller, clock, epoch>>

Finish(r) ==
    /\ read[r].running /\ read[r].got # "none"
    /\ read' = [read EXCEPT ![r] = Becomes(r, FALSE, read[r].got, read[r].kept)]
    /\ UNCHANGED <<caller, clock, epoch>>

Answer(c) ==
    /\ ~Idle(c) /\ ~read[caller[c].bound].running
    /\ Bind(c, caller[c].demand, caller[c].bound, TRUE)
    /\ UNCHANGED <<read, clock, epoch>>

\* Nothing is kept any more; what is running is of use to those who wait for it.
Clear ==
    /\ epoch' = epoch + 1
    /\ read' = [r \in Reads |-> Becomes(r, read[r].running, read[r].got, {})]
    /\ UNCHANGED <<caller, clock>>

Advance == clock' > clock /\ UNCHANGED <<read, caller, epoch>>

Next ==
    \/ \E c \in Callers : Call(c) \/ Answer(c)
    \/ \E r \in Reads : Get(r) \/ Keep(r) \/ Finish(r)
    \/ Clear
    \/ Advance

Spec == Init /\ [][Next]_vars
=============================================================================
