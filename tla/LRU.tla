----------------------------------- MODULE LRU -----------------------------------
(***************************************************************************)
(* The recency list of aggregator.LRU: the keys that are tracked, newest   *)
(* first.  The code keeps a linked list and a map from key to element; a   *)
(* sequence without repetitions is both.                                   *)
(***************************************************************************)
EXTENDS Integers, Sequences

\* NewLRU treats a capacity that is not positive as one.
EffectiveCap(n) == IF n <= 0 THEN 1 ELSE n

Tracks(s, k) == \E i \in 1..Len(s) : s[i] = k

PushFront(s, k) == [i \in 1..(Len(s) + 1) |-> IF i = 1 THEN k ELSE s[i - 1]]
DropBack(s)     == [i \in 1..(Len(s) - 1) |-> s[i]]

\* list.MoveToFront of the element that holds k.
MoveToFront(s, k) ==
    LET at == CHOOSE i \in 1..Len(s) : s[i] = k
    IN  [i \in 1..Len(s) |->
            IF i = 1 THEN k ELSE IF i <= at THEN s[i - 1] ELSE s[i]]

\* Mutant of Evicts: the capacity is compared with ">".
EvictsLate(s, k, cap) == ~Tracks(s, k) /\ Len(s) > cap

\* Put evicts when the key is new and the list is full.
Evicts(s, k, cap) == ~Tracks(s, k) /\ Len(s) >= cap

\* The list in which a new key finds room.
Room(s, k, cap) == IF Evicts(s, k, cap) THEN DropBack(s) ELSE s

\* Mutant of Use: Get does not mark the entry as recently used.
UseWithoutRefresh(s, k, cap) ==
    IF Tracks(s, k) THEN s ELSE PushFront(Room(s, k, cap), k)

\* Get, followed on a miss by Put: what every collector does with a key.
Use(s, k, cap) ==
    IF Tracks(s, k) THEN MoveToFront(s, k) ELSE PushFront(Room(s, k, cap), k)
=============================================================================
