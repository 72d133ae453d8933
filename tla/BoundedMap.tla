----------------------------- MODULE BoundedMap -----------------------------
(***************************************************************************)
(* What the callers of an LRU cache rely on (mirrors/cache.go stores the   *)
(* objects of Redis in four of them): a map from keys to values that       *)
(* answers with the value last stored, whose values never weigh more than  *)
(* the capacity, and that forgets entries only to make room, no more of    *)
(* them than it must.                                                      *)
(***************************************************************************)
EXTENDS Naturals, FiniteSets, FiniteSetsExt

CONSTANTS
    Key, Value,
    SizeOf(_),   \* Value.Size()
    Capacities   \* the capacities that are used

VARIABLES
    map,         \* the values held, by key
    capacity,
    reply        \* the result of the last call

Absent == "absent"
Done == "done"
vars == <<map, capacity, reply>>

Weight(f, D) == MapThenSumSet(LAMBDA k : SizeOf(f[k]), D)
Restriction(f, D) == [k \in D |-> f[k]]
Extended(f, k, v) == [j \in DOMAIN f \cup {k} |-> IF j = k THEN v ELSE f[j]]

\* f with no more entries forgotten than capacity c asks for.
MakesRoom(f, c) ==
    \E D \in SUBSET DOMAIN f :
        /\ Weight(f, D) <= c
        /\ D # DOMAIN f => \E k \in DOMAIN f \ D : Weight(f, D \cup {k}) > c
        /\ map' = Restriction(f, D)

Init ==
    /\ map = << >>
    /\ capacity \in Capacities
    /\ reply = Done

Get(k) ==
    /\ reply' = IF k \in DOMAIN map THEN map[k] ELSE Absent
    /\ UNCHANGED <<map, capacity>>

Set(k, v) ==
    /\ MakesRoom(Extended(map, k, v), capacity)
    /\ reply' = Done
    /\ UNCHANGED capacity

SetIfAbsent(k, v) ==
    /\ IF k \in DOMAIN map THEN UNCHANGED map
                           ELSE MakesRoom(Extended(map, k, v), capacity)
    /\ reply' = Done
    /\ UNCHANGED capacity

Delete(k) ==
    /\ map' = Restriction(map, DOMAIN map \ {k})
    /\ reply' = IF k \in DOMAIN map THEN Done ELSE Absent
    /\ UNCHANGED capacity

Clear ==
    /\ map' = << >>
    /\ reply' = Done
    /\ UNCHANGED capacity

SetCapacity(c) ==
    /\ capacity' = c
    /\ MakesRoom(map, c)
    /\ reply' = Done

Next ==
    \/ \E k \in Key : Get(k) \/ Delete(k)
    \/ \E k \in Key, v \in Value : Set(k, v) \/ SetIfAbsent(k, v)
    \/ Clear
    \/ \E c \in Capacities : SetCapacity(c)

Spec == Init /\ [][Next]_vars
=============================================================================
