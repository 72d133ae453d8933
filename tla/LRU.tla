-------------------------------- MODULE LRU --------------------------------
(***************************************************************************)
(* LRUCache (mirrors/lru.go): a list of entries, most recently used first, *)
(* a table from keys to elements of the list, and the running total of     *)
(* their sizes, an unsigned integer.  Every operation holds the mutex from *)
(* its first to its last statement, so an operation is one step.           *)
(***************************************************************************)
EXTENDS Integers, Sequences, SequencesExt

CONSTANTS
    Key, Value,
    SizeOf(_),    \* Value.Size()
    Capacities,   \* the capacities given to NewLRUCache and SetCapacity
    Modulus,      \* the integers of size wrap at Modulus (2^64)
    MaxClock      \* bound on the number of calls

\* The capacities are below 2^64, as capacity is a uint64, and leave room for a
\* value more: addNew adds its size before checkCapacity looks (Size() is an int,
\* and the largest cache is of 4,096,000 bytes).
ASSUME LRUAssumption ==
    /\ Modulus \in Nat \ {0} /\ MaxClock \in Nat
    /\ Capacities \subseteq 0..(Modulus - 1)
    /\ \A v \in Value : SizeOf(v) \in Nat
    /\ \A c \in Capacities, v \in Value : c + SizeOf(v) < Modulus

VARIABLES
    list,         \* the entries, front first
    table,        \* the keys that have an element
    size,
    capacity,
    clock,        \* time.Now()
    reply         \* the result of the last call

NotFound == "absent"
Done == "done"
lruVars == <<list, table, size, capacity, clock, reply>>

Entry == [key : Key, value : Value, size : 0..(Modulus - 1), timeAccessed : 0..MaxClock]

\* The position of the element table[k].
Element(k) == CHOOSE i \in DOMAIN list : list[i].key = k

Touched(e) == [e EXCEPT !.timeAccessed = clock]
ToFront(l, i, e) == <<e>> \o RemoveAt(l, i)

TotalSize(l) == FoldSeq(LAMBDA e, total : e.size + total, 0, l)

-----------------------------------------------------------------------------
\* The size once the last n elements of l are removed from a cache of size s.
SizeWithout(l, s, n) == (s - TotalSize(SubSeq(l, Len(l) - n + 1, Len(l)))) % Modulus

\* Mutant: entries are dropped from a cache that is exactly full.
checkCapacityWhenFull(l, t, s, c) ==
    LET enough == {n \in 0..Len(l) : SizeWithout(l, s, n) < c} \cup {Len(l)}
        n == CHOOSE i \in enough : \A j \in enough : i <= j
    IN /\ list' = SubSeq(l, 1, Len(l) - n)
       /\ table' = t \ {l[i].key : i \in (Len(l) - n + 1)..Len(l)}
       /\ size' = SizeWithout(l, s, n)
       /\ capacity' = c

\* checkCapacity, on a cache (l, t, s) of capacity c: elements are removed from
\* the back until the rest fits.  (On an empty list the code would panic, which
\* Accounted excludes.)
checkCapacity(l, t, s, c) ==
    LET enough == {n \in 0..Len(l) : SizeWithout(l, s, n) <= c} \cup {Len(l)}
        n == CHOOSE i \in enough : \A j \in enough : i <= j
    IN /\ list' = SubSeq(l, 1, Len(l) - n)
       /\ table' = t \ {l[i].key : i \in (Len(l) - n + 1)..Len(l)}
       /\ size' = SizeWithout(l, s, n)
       /\ capacity' = c

\* Mutant: the size of the value that is replaced is forgotten.
updateInplaceAdds(k, v) ==
    LET i == Element(k)
        e == [list[i] EXCEPT !.value = v, !.size = SizeOf(v)]
    IN checkCapacity(ToFront(list, i, Touched(e)), table, (size + SizeOf(v)) % Modulus, capacity)

\* uint64(sizeDiff) of a negative difference is sizeDiff modulo 2^64.
updateInplace(k, v) ==
    LET i == Element(k)
        sizeDiff == SizeOf(v) - list[i].size
        e == [list[i] EXCEPT !.value = v, !.size = SizeOf(v)]
    IN checkCapacity(ToFront(list, i, Touched(e)), table,
                     (size + (sizeDiff % Modulus)) % Modulus, capacity)

addNew(k, v) ==
    LET e == [key |-> k, value |-> v, size |-> SizeOf(v), timeAccessed |-> clock]
    IN checkCapacity(<<e>> \o list, table \cup {k}, (size + SizeOf(v)) % Modulus, capacity)

moveToFront(k) ==
    LET i == Element(k)
    IN list' = ToFront(list, i, Touched(list[i]))

-----------------------------------------------------------------------------
\* Every call reads the clock at most once, and no two calls the same time.
Tick == clock < MaxClock /\ clock' = clock + 1

Get(k) ==
    /\ Tick
    /\ UNCHANGED <<table, size, capacity>>
    /\ \/ /\ k \notin table
          /\ reply' = NotFound
          /\ UNCHANGED list
       \/ /\ k \in table
          /\ moveToFront(k)
          /\ reply' = list[Element(k)].value

Set(k, v) ==
    /\ Tick
    /\ reply' = Done
    /\ \/ k \in table /\ updateInplace(k, v)
       \/ k \notin table /\ addNew(k, v)

SetIfAbsent(k, v) ==
    /\ Tick
    /\ reply' = Done
    /\ \/ k \in table /\ moveToFront(k) /\ UNCHANGED <<table, size, capacity>>
       \/ k \notin table /\ addNew(k, v)

Delete(k) ==
    /\ Tick
    /\ UNCHANGED capacity
    /\ \/ /\ k \notin table
          /\ reply' = NotFound
          /\ UNCHANGED <<list, table, size>>
       \/ /\ k \in table
          /\ list' = RemoveAt(list, Element(k))
          /\ table' = table \ {k}
          /\ size' = (size - list[Element(k)].size) % Modulus
          /\ reply' = Done

Clear ==
    /\ Tick
    /\ list' = <<>>
    /\ table' = {}
    /\ size' = 0
    /\ reply' = Done
    /\ UNCHANGED capacity

SetCapacity(c) ==
    /\ Tick
    /\ checkCapacity(list, table, size, c)
    /\ reply' = Done

\* NewLRUCache
LRUInit ==
    /\ list = <<>>
    /\ table = {}
    /\ size = 0
    /\ capacity \in Capacities
    /\ clock = 0
    /\ reply = Done

LRUNext ==
    \/ \E k \in Key : Get(k) \/ Delete(k)
    \/ \E k \in Key, v \in Value : Set(k, v) \/ SetIfAbsent(k, v)
    \/ Clear
    \/ \E c \in Capacities : SetCapacity(c)

LRUSpec == LRUInit /\ [][LRUNext]_lruVars

LRUTypeOK ==
    /\ list \in Seq(Entry)
    /\ table \subseteq Key
    /\ size \in 0..(Modulus - 1)
    /\ capacity \in Capacities
    /\ clock \in 0..MaxClock
    /\ reply \in Value \cup {NotFound, Done}

-----------------------------------------------------------------------------
(* Properties                                                              *)

\* The running size is the sum of the sizes of the entries in the list, and the
\* table has exactly one element for every entry: what checkCapacity needs to
\* stop before the list is empty, whatever updateInplace and Delete have added
\* and subtracted.
Accounted ==
    /\ size = TotalSize(list)
    /\ table = {list[i].key : i \in DOMAIN list}
    /\ \A i, j \in DOMAIN list : list[i].key = list[j].key => i = j

\* The list and the table implement the map of the callers.
Map == INSTANCE BoundedMap WITH
    map <- [k \in table |-> list[Element(k)].value]

\* Get returns the value last stored, the values fit the capacity, and entries
\* are forgotten only when there is no room, no more of them than needed.
ImplementsMap == Map!Spec
=============================================================================
