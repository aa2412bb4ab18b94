------------------------------ MODULE CircularQ ------------------------------
(***************************************************************************)
(* The ring buffer of spdlog (details/circular_q.h), the storage of the     *)
(* queue between the threads that log and the thread that writes.  A ring   *)
(* is a record of its slots v and of the two indices; one slot more than    *)
(* MaxItems is allocated, so that a full ring differs from an empty one.    *)
(***************************************************************************)
EXTENDS Integers, Sequences

CONSTANTS
    MaxItems,   \* the capacity asked for (8192 in async.h)
    NoItem      \* what a slot holds before it is used, and once it is moved from

ASSUME MaxItemsAssumption == MaxItems \in Nat \ {0}

Slots   == MaxItems + 1
Indices == 0 .. MaxItems

\* The index after i.
After(i) == (i + 1) % Slots

Rings(Items) == [v : [Indices -> Items \cup {NoItem}], head : Indices, tail : Indices]

EmptyRing == [v |-> [i \in Indices |-> NoItem], head |-> 0, tail |-> 0]

IsEmpty(r) == r.tail = r.head
IsFull(r)  == After(r.tail) = r.head

Size(r) == IF r.tail >= r.head THEN r.tail - r.head
                               ELSE Slots - (r.head - r.tail)

Front(r) == r.v[r.head]

\* The i-th oldest item, counted from 0, and all of them, oldest first.
At(r, i)    == r.v[(r.head + i) % Slots]
Contents(r) == [k \in 1 .. Size(r) |-> At(r, k - 1)]

\* A ring that is full loses its oldest item.
PushBack(r, x) ==
    LET tail == After(r.tail)
    IN [v    |-> [r.v EXCEPT ![r.tail] = x],
        head |-> IF tail = r.head THEN After(r.head) ELSE r.head,
        tail |-> tail]

\* The front has been moved out of its slot by the caller.
PopFront(r) == [v    |-> [r.v EXCEPT ![r.head] = NoItem],
                head |-> After(r.head),
                tail |-> r.tail]
=============================================================================
