------------------------------ MODULE LRUCache ------------------------------
(***************************************************************************)
(* The cache library the pgx-prepared wrapper uses (external), as the      *)
(* wrapper sees it: each operation is atomic, a hit counts as a use, and   *)
(* an insertion that does not fit evicts the entry used longest ago. A     *)
(* cache is a sequence of <<key, value>> entries with different keys, the  *)
(* one used last first.                                                    *)
(***************************************************************************)
EXTENDS Naturals, Sequences

CONSTANT Capacity

\* NewGuardedDB refuses a capacity that is not positive.
ASSUME CapacityAssumption == Capacity \in Nat \ {0}

KeyOf(entry) == entry[1]
Entries(cache) == {cache[k] : k \in 1..Len(cache)}
Keys(cache) == {KeyOf(entry) : entry \in Entries(cache)}

\* Fault: the most recent entry is taken for the one looked up.
PositionOfFirst(cache, key) == 1

Position(cache, key) == CHOOSE k \in 1..Len(cache) : KeyOf(cache[k]) = key

ToFront(cache, p) ==
  [k \in 1..Len(cache) |->
     IF k = 1 THEN cache[p] ELSE IF k <= p THEN cache[k - 1] ELSE cache[k]]

PushFront(cache, entry) ==
  [k \in 1..Len(cache) + 1 |-> IF k = 1 THEN entry ELSE cache[k - 1]]

\* Fault: nothing is evicted.
Unfitted(cache) == cache

Fit(cache) ==
  [k \in 1..(IF Len(cache) > Capacity THEN Capacity ELSE Len(cache)) |-> cache[k]]

Lookup(cache, key) == cache[Position(cache, key)][2]

\* Fault: a hit does not count as a use.
GetWithoutUse(cache, key) == cache

\* The cache after a hit.
Get(cache, key) == ToFront(cache, Position(cache, key))

\* A key that is there already is used and gets the new value.
Add(cache, key, value) ==
  IF key \in Keys(cache) THEN [ToFront(cache, Position(cache, key)) EXCEPT ![1] = <<key, value>>]
  ELSE Fit(PushFront(cache, <<key, value>>))

\* What a cache without bound would do to a sequence of keys.
Used(recency, key) ==
  IF key \in Keys(recency) THEN ToFront(recency, Position(recency, key))
  ELSE PushFront(recency, <<key>>)
=============================================================================
