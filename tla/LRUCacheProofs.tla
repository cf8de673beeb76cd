--------------------------- MODULE LRUCacheProofs ---------------------------
(***************************************************************************)
(* What the operations of the cache keep, for every capacity and every set *)
(* of entries: at most Capacity entries, no key twice, and nothing but     *)
(* what was added. Aligned says that a cache holds the keys used last; the *)
(* operations keep it with what Used does to the same keys without bound.  *)
(***************************************************************************)
EXTENDS LRUCache, FiniteSets, SequenceTheorems, FiniteSetTheorems, TLAPS

\* No key twice.
WellKeyed(s) == \A k, l \in 1..Len(s) : KeyOf(s[k]) = KeyOf(s[l]) => k = l

\* The keys of s are the first ones of t, all of them unless s is full.
Aligned(s, t) ==
  /\ Len(s) <= Len(t) /\ Len(s) <= Capacity
  /\ Len(s) < Capacity => Len(s) = Len(t)
  /\ \A k \in 1..Len(s) : KeyOf(s[k]) = KeyOf(t[k])

\* A function on an initial segment of the naturals is a sequence.
LEMMA SegmentIsSeq ==
  ASSUME NEW S, NEW n \in Nat, NEW f \in [1..n -> S]
  PROVE  f \in Seq(S) /\ Len(f) = n
  OBVIOUS

\* The position of a key that is there.
LEMMA PositionFound ==
  ASSUME NEW S, NEW s \in Seq(S), NEW key \in Keys(s)
  PROVE  Position(s, key) \in 1..Len(s) /\ KeyOf(s[Position(s, key)]) = key
<1>1. \E k \in 1..Len(s) : KeyOf(s[k]) = key
  BY DEF Keys, Entries
<1>2. QED
  BY <1>1 DEF Position

\* A key is there when an entry has it.
LEMMA KeyThere ==
  ASSUME NEW s, NEW k \in 1..Len(s)
  PROVE  KeyOf(s[k]) \in Keys(s)
  BY DEF Keys, Entries

\* The place before a place that is not the first.
LEMMA PlaceBefore ==
  ASSUME NEW l \in Nat, NEW m \in Nat, NEW n \in Nat, l <= m + 1, m <= n,
         NEW k \in 1..l, k # 1
  PROVE  k - 1 \in 1..m /\ k \in 1..n + 1
  OBVIOUS

\* Entries that are all found elsewhere are elsewhere.
LEMMA EntriesFound ==
  ASSUME NEW s, NEW t, \A k \in 1..Len(t) : \E l \in 1..Len(s) : t[k] = s[l]
  PROVE  Entries(t) \subseteq Entries(s)
  BY DEF Entries

\* Moving an entry to the front only reorders.
LEMMA ToFrontReorders ==
  ASSUME NEW S, NEW s \in Seq(S), NEW p \in 1..Len(s)
  PROVE  /\ ToFront(s, p) \in Seq(S) /\ Len(ToFront(s, p)) = Len(s)
         /\ \A k \in 1..Len(s) : ToFront(s, p)[k] =
              IF k = 1 THEN s[p] ELSE IF k <= p THEN s[k - 1] ELSE s[k]
         /\ Entries(ToFront(s, p)) = Entries(s)
         /\ WellKeyed(s) => WellKeyed(ToFront(s, p))
<1> DEFINE t == ToFront(s, p)
<1>1. t \in [1..Len(s) -> S]
  BY DEF ToFront
<1>2. t \in Seq(S) /\ Len(t) = Len(s)
  <2> HIDE DEF t
  <2>1. Len(s) \in Nat
    OBVIOUS
  <2>2. QED
    BY <1>1, <2>1, SegmentIsSeq
<1>3. \A k \in 1..Len(s) : t[k] = IF k = 1 THEN s[p] ELSE IF k <= p THEN s[k - 1] ELSE s[k]
  BY DEF ToFront
<1>4. Entries(t) = Entries(s)
  <2>1. ASSUME NEW k \in 1..Len(s) PROVE \E l \in 1..Len(s) : t[k] = s[l]
    <3> DEFINE l == IF k = 1 THEN p ELSE IF k <= p THEN k - 1 ELSE k
    <3>1. l \in 1..Len(s) /\ t[k] = s[l]
      BY <1>3
    <3>2. QED
      BY <3>1
  <2>2. ASSUME NEW l \in 1..Len(s) PROVE \E k \in 1..Len(s) : t[k] = s[l]
    <3> DEFINE k == IF l = p THEN 1 ELSE IF l < p THEN l + 1 ELSE l
    <3>1. k \in 1..Len(s) /\ t[k] = s[l]
      BY <1>3
    <3>2. QED
      BY <3>1
  <2> HIDE DEF t
  <2>3. Entries(t) \subseteq Entries(s)
    <3>1. \A k \in 1..Len(t) : \E l \in 1..Len(s) : t[k] = s[l]
      BY <1>2, <2>1
    <3>2. QED
      BY <3>1, EntriesFound
  <2>4. Entries(s) \subseteq Entries(t)
    <3>1. \A l \in 1..Len(s) : \E k \in 1..Len(t) : s[l] = t[k]
      BY <1>2, <2>2
    <3>2. QED
      BY <3>1, EntriesFound
  <2>5. QED
    BY <2>3, <2>4
<1>5. ASSUME WellKeyed(s) PROVE WellKeyed(t)
  <2> HIDE DEF t
  <2>1. SUFFICES ASSUME NEW k \in 1..Len(s), NEW l \in 1..Len(s), KeyOf(t[k]) = KeyOf(t[l])
                 PROVE  k = l
    BY <1>2 DEF WellKeyed
  <2> DEFINE From(n) == IF n = 1 THEN p ELSE IF n <= p THEN n - 1 ELSE n
  <2>2. \A n \in 1..Len(s) : From(n) \in 1..Len(s) /\ t[n] = s[From(n)]
    BY <1>3
  <2>3. From(k) = From(l)
    <3> HIDE DEF From
    <3>1. KeyOf(s[From(k)]) = KeyOf(s[From(l)]) /\ From(k) \in 1..Len(s) /\ From(l) \in 1..Len(s)
      BY <2>1, <2>2
    <3>2. QED
      BY <1>5, <3>1 DEF WellKeyed
  <2>4. QED
    BY <2>3
<1>6. QED
  BY <1>2, <1>3, <1>4, <1>5

\* A new entry goes before all others.
LEMMA PushFrontAdds ==
  ASSUME NEW S, NEW s \in Seq(S), NEW e \in S
  PROVE  /\ PushFront(s, e) \in Seq(S) /\ Len(PushFront(s, e)) = Len(s) + 1
         /\ \A k \in 1..Len(s) + 1 :
              PushFront(s, e)[k] = IF k = 1 THEN e ELSE s[k - 1]
         /\ Entries(PushFront(s, e)) = Entries(s) \cup {e}
         /\ WellKeyed(s) /\ KeyOf(e) \notin Keys(s) => WellKeyed(PushFront(s, e))
<1> DEFINE t == PushFront(s, e)
<1>0. Len(s) \in Nat /\ Len(s) + 1 \in Nat
  OBVIOUS
<1>1. t \in [1..Len(s) + 1 -> S]
  BY DEF PushFront
<1>2. t \in Seq(S) /\ Len(t) = Len(s) + 1
  <2> HIDE DEF t
  <2>1. QED
    BY <1>0, <1>1, SegmentIsSeq
<1>3. \A k \in 1..Len(s) + 1 : t[k] = IF k = 1 THEN e ELSE s[k - 1]
  BY DEF PushFront
<1> HIDE DEF t
<1>4. Entries(t) = Entries(s) \cup {e}
  <2>1. t[1] = e /\ 1 \in 1..Len(t)
    BY <1>0, <1>2, <1>3
  <2>2. \A k \in 1..Len(s) : k + 1 \in 1..Len(t) /\ t[k + 1] = s[k]
    BY <1>0, <1>2, <1>3
  <2>3. \A k \in 1..Len(t) : k = 1 \/ (k - 1 \in 1..Len(s) /\ t[k] = s[k - 1])
    BY <1>0, <1>2, <1>3
  <2>4. QED
    BY <2>1, <2>2, <2>3 DEF Entries
<1>5. ASSUME WellKeyed(s), KeyOf(e) \notin Keys(s) PROVE WellKeyed(t)
  <2>1. \A k \in 1..Len(s) : KeyOf(s[k]) # KeyOf(e)
    BY <1>5, KeyThere
  <2>2. \A k, l \in 1..Len(s) : KeyOf(s[k]) = KeyOf(s[l]) => k = l
    BY <1>5 DEF WellKeyed
  <2>3. ASSUME NEW k \in 1..Len(t), NEW l \in 1..Len(t), KeyOf(t[k]) = KeyOf(t[l])
        PROVE  k = l
    <3>1. \A n \in 1..Len(t) : n = 1 \/ (n - 1 \in 1..Len(s) /\ t[n] = s[n - 1])
      BY <1>0, <1>2, <1>3
    <3>2. \A n \in 1..Len(t) : n # 1 => KeyOf(t[n]) # KeyOf(t[1])
      <4>1. t[1] = e
        BY <1>0, <1>3
      <4>2. QED
        BY <2>1, <3>1, <4>1
    <3>3. CASE k = 1 \/ l = 1
      BY <2>3, <3>2, <3>3
    <3>4. CASE k # 1 /\ l # 1
      <4>1. k - 1 = l - 1
        BY <2>2, <2>3, <3>1, <3>4
      <4>2. QED
        BY <4>1
    <3>5. QED
      BY <3>3, <3>4
  <2>4. QED
    BY <2>3 DEF WellKeyed
<1>6. QED
  BY <1>2, <1>3, <1>4, <1>5 DEF t

\* Eviction drops from the end.
LEMMA FitCuts ==
  ASSUME NEW S, NEW s \in Seq(S)
  PROVE  /\ Fit(s) \in Seq(S)
         /\ Len(Fit(s)) = IF Len(s) > Capacity THEN Capacity ELSE Len(s)
         /\ \A k \in 1..Len(Fit(s)) : Fit(s)[k] = s[k]
         /\ Entries(Fit(s)) \subseteq Entries(s)
         /\ WellKeyed(s) => WellKeyed(Fit(s))
<1> DEFINE n == IF Len(s) > Capacity THEN Capacity ELSE Len(s)
           t == Fit(s)
<1>0. Capacity \in Nat /\ Len(s) \in Nat /\ n \in Nat /\ n <= Len(s)
  BY CapacityAssumption
<1>1. t \in [1..n -> S] /\ \A k \in 1..n : t[k] = s[k]
  <2>1. t = [k \in 1..n |-> s[k]]
    BY DEF Fit
  <2> HIDE DEF t, n
  <2>2. \A k \in 1..n : s[k] \in S
    BY <1>0
  <2>3. QED
    BY <2>1, <2>2
<1> HIDE DEF t, n
<1>2. t \in Seq(S) /\ Len(t) = n
  BY <1>0, <1>1, SegmentIsSeq
<1>3. \A k \in 1..n : k \in 1..Len(s)
  BY <1>0
<1>4. Entries(t) \subseteq Entries(s) /\ (WellKeyed(s) => WellKeyed(t))
  BY <1>1, <1>2, <1>3 DEF Entries, WellKeyed
<1>5. QED
  BY <1>1, <1>2, <1>4 DEF t, n

-----------------------------------------------------------------------------
(* The operations.                                                         *)

\* A lookup answers with the value of an entry under that key.
LEMMA LookupFinds ==
  ASSUME NEW S, NEW s \in Seq(S), NEW key \in Keys(s)
  PROVE  \E entry \in Entries(s) : KeyOf(entry) = key /\ Lookup(s, key) = entry[2]
  BY PositionFound DEF Lookup, Entries

\* A hit reorders the entries.
LEMMA GetKeeps ==
  ASSUME NEW S, NEW s \in Seq(S), NEW key \in Keys(s)
  PROVE  /\ Get(s, key) \in Seq(S) /\ Len(Get(s, key)) = Len(s)
         /\ Entries(Get(s, key)) = Entries(s)
         /\ WellKeyed(s) => WellKeyed(Get(s, key))
  BY PositionFound, ToFrontReorders DEF Get

\* An insertion adds nothing but its entry, keeps the bound and doubles no key.
LEMMA AddKeeps ==
  ASSUME NEW S, NEW s \in Seq(S), Len(s) <= Capacity, NEW key, NEW value,
         <<key, value>> \in S
  PROVE  /\ Add(s, key, value) \in Seq(S) /\ Len(Add(s, key, value)) <= Capacity
         /\ Entries(Add(s, key, value)) \subseteq Entries(s) \cup {<<key, value>>}
         /\ WellKeyed(s) => WellKeyed(Add(s, key, value))
<1> DEFINE e == <<key, value>>
<1>0. KeyOf(e) = key /\ Capacity \in Nat /\ Len(s) \in Nat
  BY CapacityAssumption DEF KeyOf
<1> HIDE DEF e
<1>1. CASE key \in Keys(s)
  <2> DEFINE p == Position(s, key)
             t == ToFront(s, p)
             u == [t EXCEPT ![1] = e]
  <2>0. p \in 1..Len(s) /\ KeyOf(s[p]) = key
    BY <1>1, PositionFound
  <2> HIDE DEF p
  <2>1. /\ t \in Seq(S) /\ Len(t) = Len(s) /\ t[1] = s[p]
        /\ Entries(t) = Entries(s) /\ (WellKeyed(s) => WellKeyed(t))
    BY <2>0, ToFrontReorders
  <2>2. Add(s, key, value) = u
    BY <1>1 DEF Add, p, e
  <2> HIDE DEF t
  <2>3. /\ u \in Seq(S) /\ Len(u) = Len(t)
        /\ \A k \in 1..Len(t) : u[k] = IF k = 1 THEN e ELSE t[k]
    <3>1. 1 \in 1..Len(t) /\ e \in S
      BY <2>0, <2>1 DEF e
    <3>2. QED
      BY <2>1, <3>1, ExceptSeq
  <2> HIDE DEF u
  <2>4. Entries(u) \subseteq Entries(t) \cup {e}
    BY <2>3 DEF Entries
  <2>5. \A k \in 1..Len(u) : KeyOf(u[k]) = KeyOf(t[k])
    BY <1>0, <2>0, <2>1, <2>3
  <2>6. WellKeyed(t) => WellKeyed(u)
    BY <2>3, <2>5 DEF WellKeyed
  <2>7. QED
    BY <2>1, <2>2, <2>3, <2>4, <2>6 DEF e
<1>2. CASE key \notin Keys(s)
  <2> DEFINE t == PushFront(s, e)
  <2>0. e \in S
    BY DEF e
  <2>1. t \in Seq(S) /\ Entries(t) = Entries(s) \cup {e}
    BY <2>0, PushFrontAdds
  <2>2. WellKeyed(s) => WellKeyed(t)
    <3>1. KeyOf(e) \notin Keys(s)
      BY <1>0, <1>2
    <3>2. QED
      BY <2>0, <3>1, PushFrontAdds
  <2>3. Add(s, key, value) = Fit(t)
    BY <1>2 DEF Add, e
  <2> HIDE DEF t
  <2>4. QED
    BY <1>0, <2>1, <2>2, <2>3, FitCuts DEF e
<1>3. QED
  BY <1>1, <1>2

\* A use without bound keeps the keys apart.
LEMMA UsedKeeps ==
  ASSUME NEW K, NEW t \in Seq(Seq(K)), NEW key \in K
  PROVE  /\ Used(t, key) \in Seq(Seq(K))
         /\ WellKeyed(t) => WellKeyed(Used(t, key))
<1>1. CASE key \in Keys(t)
  BY <1>1, PositionFound, ToFrontReorders DEF Used
<1>2. CASE key \notin Keys(t)
  <2>1. <<key>> \in Seq(K) /\ KeyOf(<<key>>) = key
    BY DEF KeyOf
  <2>2. QED
    BY <1>2, <2>1, PushFrontAdds DEF Used
<1>3. QED
  BY <1>1, <1>2

-----------------------------------------------------------------------------
(* A cache and what would be there without a bound.                        *)

\* The same key is at the same place in both.
LEMMA SamePosition ==
  ASSUME NEW S, NEW T, NEW s \in Seq(S), NEW t \in Seq(T),
         WellKeyed(t), Aligned(s, t), NEW key \in Keys(s)
  PROVE  key \in Keys(t) /\ Position(t, key) = Position(s, key)
<1> DEFINE p == Position(s, key)
           q == Position(t, key)
<1>1. p \in 1..Len(s) /\ KeyOf(s[p]) = key
  BY PositionFound
<1> HIDE DEF p
<1>2. p \in 1..Len(t) /\ KeyOf(t[p]) = key
  BY <1>1 DEF Aligned
<1>3. key \in Keys(t)
  BY <1>2, KeyThere
<1>4. q \in 1..Len(t) /\ KeyOf(t[q]) = key
  BY <1>3, PositionFound
<1> HIDE DEF q
<1>5. q = p
  BY <1>2, <1>4 DEF WellKeyed
<1>6. QED
  BY <1>3, <1>5 DEF p, q

\* Moving the same position to the front keeps both aligned.
LEMMA ToFrontStaysAligned ==
  ASSUME NEW S, NEW T, NEW s \in Seq(S), NEW t \in Seq(T), Aligned(s, t),
         NEW p \in 1..Len(s)
  PROVE  Aligned(ToFront(s, p), ToFront(t, p))
<1>0. p \in 1..Len(t) /\ Len(s) \in Nat /\ Len(t) \in Nat
  BY DEF Aligned
<1> DEFINE u == ToFront(s, p)
           v == ToFront(t, p)
<1>1. Len(u) = Len(s) /\ \A k \in 1..Len(s) : u[k] =
          IF k = 1 THEN s[p] ELSE IF k <= p THEN s[k - 1] ELSE s[k]
  BY ToFrontReorders
<1>2. Len(v) = Len(t) /\ \A k \in 1..Len(t) : v[k] =
          IF k = 1 THEN t[p] ELSE IF k <= p THEN t[k - 1] ELSE t[k]
  BY <1>0, ToFrontReorders
<1> HIDE DEF u, v
<1>3. ASSUME NEW k \in 1..Len(s) PROVE KeyOf(u[k]) = KeyOf(v[k])
  <2> DEFINE n == IF k = 1 THEN p ELSE IF k <= p THEN k - 1 ELSE k
  <2>1. n \in 1..Len(s) /\ u[k] = s[n] /\ v[k] = t[n]
    BY <1>0, <1>1, <1>2 DEF Aligned
  <2> HIDE DEF n
  <2>2. QED
    BY <2>1 DEF Aligned
<1>4. QED
  BY <1>1, <1>2, <1>3 DEF Aligned, u, v

\* After a hit the cache still holds the keys used last.
LEMMA GetStaysAligned ==
  ASSUME NEW S, NEW T, NEW s \in Seq(S), NEW t \in Seq(T),
         WellKeyed(t), Aligned(s, t), NEW key \in Keys(s)
  PROVE  Aligned(Get(s, key), Used(t, key))
<1>1. key \in Keys(t) /\ Position(t, key) = Position(s, key)
  BY SamePosition
<1>2. Position(s, key) \in 1..Len(s)
  BY PositionFound
<1>3. Aligned(ToFront(s, Position(s, key)), ToFront(t, Position(s, key)))
  BY <1>2, ToFrontStaysAligned
<1>4. QED
  BY <1>1, <1>3 DEF Get, Used

\* After an insertion too: what it evicts is the key used longest ago.
LEMMA AddStaysAligned ==
  ASSUME NEW S, NEW K, NEW s \in Seq(S), NEW t \in Seq(Seq(K)),
         WellKeyed(t), Aligned(s, t), NEW key \in K, NEW value, <<key, value>> \in S
  PROVE  Aligned(Add(s, key, value), Used(t, key))
<1> DEFINE e == <<key, value>>
<1>0. /\ KeyOf(e) = key /\ e \in S /\ KeyOf(<<key>>) = key /\ <<key>> \in Seq(K)
      /\ Capacity \in Nat /\ Capacity # 0 /\ Len(s) \in Nat /\ Len(t) \in Nat
  BY CapacityAssumption DEF KeyOf
<1> HIDE DEF e
<1>1. CASE key \in Keys(s)
  <2> DEFINE p == Position(s, key)
             u == ToFront(s, p)
             v == ToFront(t, p)
             w == [u EXCEPT ![1] = e]
  <2>1. key \in Keys(t) /\ Position(t, key) = p
    BY <1>1, SamePosition
  <2>2. p \in 1..Len(s) /\ KeyOf(s[p]) = key
    BY <1>1, PositionFound
  <2>3. Add(s, key, value) = w /\ Used(t, key) = v
    BY <1>1, <2>1 DEF Add, Used, e
  <2> HIDE DEF p
  <2>4. Aligned(u, v)
    BY <2>2, ToFrontStaysAligned
  <2>5. u \in Seq(S) /\ Len(u) = Len(s) /\ u[1] = s[p]
    BY <2>2, ToFrontReorders
  <2> HIDE DEF u, v
  <2>6. /\ Len(w) = Len(u)
        /\ \A k \in 1..Len(u) : w[k] = IF k = 1 THEN e ELSE u[k]
    BY <1>0, <2>2, <2>5, ExceptSeq
  <2> HIDE DEF w
  <2>7. \A k \in 1..Len(w) : KeyOf(w[k]) = KeyOf(u[k])
    BY <1>0, <2>2, <2>5, <2>6
  <2>8. Aligned(w, v)
    BY <2>4, <2>6, <2>7 DEF Aligned
  <2>9. QED
    BY <2>3, <2>8
<1>2. CASE key \notin Keys(s)
  <2> DEFINE u == PushFront(s, e)
             w == Fit(u)
             v == Used(t, key)
  <2>1. Add(s, key, value) = w
    BY <1>2 DEF Add, e
  <2>2. /\ u \in Seq(S) /\ Len(u) = Len(s) + 1
        /\ \A k \in 1..Len(s) + 1 : u[k] = IF k = 1 THEN e ELSE s[k - 1]
    <3>1. e \in S
      BY <1>0
    <3>2. u \in Seq(S) /\ Len(u) = Len(s) + 1
      BY <3>1, PushFrontAdds
    <3>3. ASSUME NEW k \in 1..Len(s) + 1 PROVE u[k] = IF k = 1 THEN e ELSE s[k - 1]
      BY <3>1, PushFrontAdds
    <3>4. QED
      BY <3>2, <3>3
  <2> HIDE DEF u
  <2>3. /\ Len(w) = IF Len(u) > Capacity THEN Capacity ELSE Len(u)
        /\ \A k \in 1..Len(w) : w[k] = u[k]
    BY <2>2, FitCuts
  <2> HIDE DEF w
  <2>4. /\ Len(w) <= Len(s) + 1 /\ Len(w) <= Capacity /\ Len(w) \in Nat
        /\ \A k \in 1..Len(w) : w[k] = IF k = 1 THEN e ELSE s[k - 1]
    BY <1>0, <2>2, <2>3
  <2>5. CASE key \notin Keys(t)
    <3>1. /\ Len(v) = Len(t) + 1
          /\ \A k \in 1..Len(t) + 1 : v[k] = IF k = 1 THEN <<key>> ELSE t[k - 1]
      <4> DEFINE f == <<key>>
                 T == Seq(K)
      <4>0. f \in T /\ t \in Seq(T)
        OBVIOUS
      <4>1. v = PushFront(t, f)
        BY <2>5 DEF Used
      <4> HIDE DEF v, f, T
      <4>2. /\ Len(PushFront(t, f)) = Len(t) + 1
            /\ \A k \in 1..Len(t) + 1 :
                 PushFront(t, f)[k] = IF k = 1 THEN f ELSE t[k - 1]
        BY <4>0, PushFrontAdds
      <4>3. QED
        BY <4>1, <4>2 DEF f
    <3> HIDE DEF v
    <3>2. Len(s) <= Len(t) /\ Len(s) <= Capacity /\ (Len(s) < Capacity => Len(s) = Len(t))
      BY DEF Aligned
    <3>3. Len(w) <= Len(v) /\ Len(w) <= Capacity /\ (Len(w) < Capacity => Len(w) = Len(v))
      BY <1>0, <2>2, <2>3, <3>1, <3>2
    <3>4. ASSUME NEW k \in 1..Len(w) PROVE KeyOf(w[k]) = KeyOf(v[k])
      <4>1. CASE k = 1
        BY <1>0, <2>4, <3>1, <4>1
      <4>2. CASE k # 1
        <5>1. k - 1 \in 1..Len(s) /\ w[k] = s[k - 1] /\ v[k] = t[k - 1]
          <6>1. k - 1 \in 1..Len(s) /\ k \in 1..Len(t) + 1
            <7>1. Len(w) \in Nat /\ Len(w) <= Len(s) + 1 /\ Len(s) \in Nat /\ Len(t) \in Nat
              BY <1>0, <2>4
            <7>2. QED
              BY <3>2, <4>2, <7>1, PlaceBefore
          <6>2. QED
            BY <2>4, <3>1, <4>2, <6>1
        <5>2. QED
          BY <5>1 DEF Aligned
      <4>3. QED
        BY <4>1, <4>2
    <3>5. QED
      BY <2>1, <3>3, <3>4 DEF Aligned, v
  <2>6. CASE key \in Keys(t)
    <3> DEFINE q == Position(t, key)
    <3>1. q \in 1..Len(t) /\ KeyOf(t[q]) = key
      BY <2>6, PositionFound
    <3>2. /\ Len(v) = Len(t)
          /\ \A k \in 1..Len(t) : v[k] =
               IF k = 1 THEN t[q] ELSE IF k <= q THEN t[k - 1] ELSE t[k]
      BY <2>6, <3>1, ToFrontReorders DEF Used
    <3> HIDE DEF q, v
    <3>3. q > Len(s)
      <4>1. SUFFICES ASSUME q <= Len(s) PROVE FALSE
        BY <1>0, <3>1
      <4>2. q \in 1..Len(s) /\ KeyOf(s[q]) = key
        BY <3>1, <4>1 DEF Aligned
      <4>3. QED
        BY <1>2, <4>2, KeyThere
    <3>4. Len(s) = Capacity /\ Len(s) < Len(t)
      BY <1>0, <3>1, <3>3 DEF Aligned
    <3>5. Len(w) = Capacity
      BY <1>0, <2>2, <2>3, <3>4
    <3>6. ASSUME NEW k \in 1..Len(w) PROVE KeyOf(w[k]) = KeyOf(v[k])
      <4>1. CASE k = 1
        <5>1. 1 \in 1..Len(t) /\ w[k] = e
          BY <1>0, <2>4, <3>4, <4>1
        <5>2. v[k] = t[q]
          BY <3>2, <4>1, <5>1
        <5>3. QED
          BY <1>0, <3>1, <5>1, <5>2
      <4>2. CASE k # 1
        <5>1. k - 1 \in 1..Len(s) /\ w[k] = s[k - 1] /\ v[k] = t[k - 1]
          <6>1. k - 1 \in 1..Len(s) /\ k \in 1..Len(t) /\ k <= q
            BY <1>0, <3>1, <3>3, <3>4, <3>5, <4>2
          <6>2. QED
            BY <2>4, <3>2, <4>2, <6>1
        <5>2. QED
          BY <5>1 DEF Aligned
      <4>3. QED
        BY <4>1, <4>2
    <3>7. QED
      BY <1>0, <2>1, <3>2, <3>4, <3>5, <3>6 DEF Aligned, v
  <2>7. QED
    BY <2>5, <2>6
<1>3. QED
  BY <1>1, <1>2

\* With no key twice, there are as many keys as entries.
LEMMA KeysAreCounted ==
  ASSUME NEW S, NEW s \in Seq(S), WellKeyed(s)
  PROVE  Cardinality(Keys(s)) = Len(s)
<1> DEFINE n == Len(s)
           f == [k \in 1..n |-> KeyOf(s[k])]
<1>1. n \in Nat /\ IsFiniteSet(1..n) /\ Cardinality(1..n) = n
  <2>1. n \in Nat
    OBVIOUS
  <2> HIDE DEF n
  <2>2. QED
    BY <2>1, FS_Interval
<1>2. f \in Bijection(1..n, Keys(s))
  <2>1. f \in [1..n -> Keys(s)]
    BY KeyThere
  <2>2. \A k, l \in 1..n : f[k] = f[l] => k = l
    BY DEF WellKeyed
  <2>3. \A key \in Keys(s) : \E k \in 1..n : f[k] = key
    BY DEF Keys, Entries
  <2> HIDE DEF f, n
  <2>4. QED
    BY <2>1, <2>2, <2>3 DEF Bijection, Injection, Surjection, IsInjective
<1> HIDE DEF f
<1>3. Cardinality(Keys(s)) = Cardinality(1..n)
  BY <1>1, <1>2, FS_Bijection DEF ExistsBijection
<1>4. QED
  BY <1>1, <1>3
=============================================================================
