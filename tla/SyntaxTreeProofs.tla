-------------------------- MODULE SyntaxTreeProofs --------------------------
(***************************************************************************)
(* What the rules are shown and what a walk visits is right for every      *)
(* text: any number of statements, nested to any depth.                    *)
(*                                                                         *)
(* The text's messages form a tree because each is written after the one   *)
(* it stands in; everything about the tree follows by taking the first     *)
(* message that is an exception. Both traversals keep a list of what is    *)
(* left, and the same invariant holds of both (Spread): what was taken up, *)
(* and then what is below each element of the list, are one after the      *)
(* other in pre-order, and together they are everything there is.          *)
(***************************************************************************)
EXTENDS SyntaxTree, FiniteSetTheorems, WellFoundedInduction, TLAPS

-----------------------------------------------------------------------------
(* The invariant.                                                          *)

AllFields == {"stmts", "distinct_clause", "from_clause", "with_clause", "larg", "query", "ctes",
              "ctequery"}
Messages == [kind : Kinds, parent : Nat, field : AllFields]

\* Every message stands in an earlier one, in a field its kind has and that holds
\* messages of its kind; a field that does not repeat holds at most one.
Standing(text, n) ==
  /\ text[n].parent < n
  /\ IF text[n].parent = 0 THEN text[n].field = "stmts" /\ text[n].kind \in StatementKinds
     ELSE LET names == Fields[text[text[n].parent].kind]
          IN  \E k \in 1..Len(names) : names[k] = text[n].field
  /\ text[n].field = "with_clause" => text[n].kind = "WithClause"
  /\ text[n].field = "ctes" => text[n].kind = "CommonTableExpr"
  /\ text[n].field = "ctequery" => text[n].kind \in StatementKinds

Alone(text, m, n) ==
  text[m].parent = text[n].parent /\ text[m].field = text[n].field
    => m = n \/ text[m].parent = 0 \/ IsList(text[m].field)

WellFormed(text) ==
  /\ text \in Seq(Messages)
  /\ \A n \in 1..Len(text) : Standing(text, n)
  /\ \A m, n \in 1..Len(text) : Alone(text, m, n)

TextOK == WellFormed(messages)

\* The tree is the text's, and complete.
ParsedOK ==
  phase \in {"parsed", "sequencing"} =>
    /\ ~broken
    /\ tree = [n \in {0} \cup Ids |-> convertPGNode(n)]
    /\ result = InOrder(Roots)

\* What was taken up, then what is below the first element that is left, and so on:
\* all of whole, in pre-order.
Spread(taken, left, below, whole) ==
  /\ InPreOrder(taken)
  /\ \A m \in Elements(taken), x \in Elements(left) : \A n \in below[x] : Precedes(m, n)
  /\ \A k, l \in 1..Len(left) : k < l =>
       \A m \in below[left[k]], n \in below[left[l]] : Precedes(m, n)
  /\ \A n : n \in whole <=> n \in Elements(taken) \/ \E x \in Elements(left) : n \in below[x]

Below == [n \in Ids |-> Within(n)]
DeclaredBelow == [n \in {0} \cup Ids |-> IF n = 0 THEN {} ELSE Within(n) \cap Declared]

SequenceOK ==
  IF phase = "sequencing"
  THEN /\ sequence \in Seq(Ids) /\ pending \in Seq({0} \cup Declared)
       /\ Spread(sequence, pending, DeclaredBelow, Declared)
  ELSE sequence = << >> /\ pending = << >> /\ walk.root = 0

WalkOK ==
  /\ walk \in [root : Nat, left : Seq(Ids), seen : Seq(Ids), stopped : Nat]
  /\ walk.root = 0 => ~Walking /\ walk.seen = << >>
  /\ walk.root # 0 => walk.root \in Ids
  /\ Walking =>
       /\ walk.stopped = 0
       /\ Spread(walk.seen, walk.left, Below, Within(walk.root))
       /\ \A n \in Elements(walk.seen) : messages[n].kind # "Empty"

IInv == TextOK /\ ParsedOK /\ SequenceOK /\ WalkOK /\ WalkIsPreOrder

-----------------------------------------------------------------------------
(* Numbers and lists.                                                      *)

\* Of the exceptions to a claim about numbers, if there are any, one comes first.
LEMMA FirstOne ==
  ASSUME NEW T \in SUBSET Nat, T # {}
  PROVE  \E m \in T : \A n \in T : m <= n
<1>1. PICK R : R = {pair \in Nat \X Nat : pair[1] < pair[2]} /\ IsWellFoundedOn(R, Nat)
  BY NatLessThanWellFounded, Zenon DEF OpToRel
<1>2. PICK m \in T : \A n \in T : ~(<<n, m>> \in R)
  BY <1>1, WFMin
<1>3. ASSUME NEW n \in T PROVE m <= n
  <2>1. m \in Nat /\ n \in Nat /\ <<n, m>> \notin R
    BY <1>2
  <2>2. ~(n < m)
    BY <1>1, <2>1
  <2>3. QED
    BY <2>1, <2>2
<1>4. QED
  BY <1>3

\* How many numbers there are up to n.
LEMMA CountTo == ASSUME NEW n \in Nat PROVE IsFiniteSet(1..n) /\ Cardinality(1..n) = n
<1>1. IsFiniteSet(1..n) /\ Cardinality(1..n) = IF 1 > n THEN 0 ELSE n - 1 + 1
  BY FS_Interval
<1>2. QED
  BY <1>1

Rank(S, n) == Cardinality({m \in S : m <= n})

\* Counting up to a member is a bijection between a finite set of numbers and its ranks.
LEMMA Ranks ==
  ASSUME NEW S \in SUBSET Nat, IsFiniteSet(S)
  PROVE  LET rank == [n \in S |-> Rank(S, n)]
         IN  /\ rank \in [S -> 1..Cardinality(S)]
             /\ \A m, n \in S : m < n => rank[m] < rank[n]
             /\ \A k \in 1..Cardinality(S) : \E n \in S : rank[n] = k
<1> DEFINE upTo(n) == {m \in S : m <= n}
           rank == [n \in S |-> Cardinality(upTo(n))]
           all == Cardinality(S)
<1>1. all \in Nat
  BY FS_CardinalityType
<1>2. ASSUME NEW n \in S
      PROVE  /\ IsFiniteSet(upTo(n)) /\ Cardinality(upTo(n)) \in Nat
             /\ Cardinality(upTo(n)) <= all /\ Cardinality(upTo(n)) # 0
  <2>1. upTo(n) \in SUBSET S /\ n \in upTo(n)
    OBVIOUS
  <2>2. IsFiniteSet(upTo(n)) /\ Cardinality(upTo(n)) <= all
    BY <2>1, FS_Subset
  <2>3. Cardinality(upTo(n)) \in Nat /\ Cardinality(upTo(n)) # 0
    BY <2>1, <2>2, FS_CardinalityType, FS_EmptySet
  <2>4. QED
    BY <2>2, <2>3
<1>3. rank \in [S -> 1..all]
  <2>1. ASSUME NEW n \in S PROVE Cardinality(upTo(n)) \in 1..all
    BY <1>1, <1>2
  <2>2. QED
    BY <2>1
<1>4. ASSUME NEW m \in S, NEW n \in S, m < n PROVE rank[m] < rank[n]
  <2>1. upTo(m) \in SUBSET upTo(n) /\ n \in upTo(n) /\ n \notin upTo(m)
    <3>1. m \in Nat /\ n \in Nat /\ n <= n /\ ~(n <= m)
      BY <1>4
    <3>2. ASSUME NEW k \in S, k <= m PROVE k <= n
      <4>1. k \in Nat
        OBVIOUS
      <4>2. QED
        BY <1>4, <3>1, <3>2, <4>1
    <3>3. QED
      BY <3>1, <3>2, Zenon
  <2>2. Cardinality(upTo(m)) <= Cardinality(upTo(n))
        /\ (Cardinality(upTo(n)) = Cardinality(upTo(m)) => upTo(n) = upTo(m))
    BY <1>2, <2>1, FS_Subset
  <2>3. Cardinality(upTo(m)) # Cardinality(upTo(n))
    BY <2>1, <2>2
  <2>4. Cardinality(upTo(m)) < Cardinality(upTo(n))
    BY <1>2, <2>2, <2>3
  <2>5. QED
    BY <2>4
<1> HIDE DEF rank
<1>5. ASSUME NEW m \in S, NEW n \in S, rank[m] = rank[n] PROVE m = n
  <2>1. rank[m] \in Nat /\ ~(m < n) /\ ~(n < m)
    BY <1>3, <1>4, <1>5
  <2>2. QED
    BY <2>1
<1>6. rank \in Injection(S, 1..all)
  BY <1>3, <1>5 DEF Injection, IsInjective
<1>7. IsFiniteSet(1..all) /\ Cardinality(1..all) = all
  BY <1>1, CountTo
<1>8. rank \in Surjection(S, 1..all)
  BY <1>6, <1>7, FS_Injection
<1>9. ASSUME NEW k \in 1..all PROVE \E n \in S : rank[n] = k
  BY <1>8 DEF Surjection
<1>10. QED
  BY <1>3, <1>4, <1>9 DEF rank, Rank

\* InOrder lists a finite set of numbers, the smaller before the greater.
LEMMA Listed ==
  ASSUME NEW S \in SUBSET Nat, IsFiniteSet(S)
  PROVE  LET list == InOrder(S)
         IN  /\ list \in Seq(S) /\ Elements(list) = S
             /\ \A k, l \in 1..Len(list) : k < l => list[k] < list[l]
<1> DEFINE all == Cardinality(S)
           list == InOrder(S)
<1>1. /\ \A n \in S : Rank(S, n) \in 1..all
      /\ \A m, n \in S : m < n => Rank(S, m) < Rank(S, n)
      /\ \A k \in 1..all : \E n \in S : Rank(S, n) = k
  <2> DEFINE rank == [n \in S |-> Rank(S, n)]
  <2>1. /\ rank \in [S -> 1..all]
        /\ \A m, n \in S : m < n => rank[m] < rank[n]
        /\ \A k \in 1..all : \E n \in S : rank[n] = k
    BY Ranks
  <2>2. QED
    BY <2>1
<1>2. all \in Nat
  BY FS_CardinalityType
<1>3. list = [k \in 1..all |-> CHOOSE n \in S : Rank(S, n) = k]
  BY DEF InOrder, Rank
<1> HIDE DEF all, list
<1>4. ASSUME NEW k \in 1..all PROVE list[k] \in S /\ Rank(S, list[k]) = k
  <2>1. list[k] = CHOOSE n \in S : Rank(S, n) = k
    BY <1>3
  <2>2. QED
    BY <1>1, <2>1
<1>5. list \in Seq(S) /\ Len(list) = all
  <2>1. list \in [1..all -> S]
    BY <1>3, <1>4
  <2>2. QED
    BY <1>2, <2>1
<1>6. ASSUME NEW n \in S PROVE n \in Elements(list)
  <2>1. list[Rank(S, n)] \in S /\ Rank(S, list[Rank(S, n)]) = Rank(S, n) /\ Rank(S, n) \in 1..all
    BY <1>1, <1>4
  <2>2. ~(n < list[Rank(S, n)]) /\ ~(list[Rank(S, n)] < n)
    <3>1. Rank(S, n) \in Nat
      BY <2>1, <1>2
    <3>2. ~(Rank(S, n) < Rank(S, n))
      BY <3>1
    <3>3. QED
      BY <1>1, <2>1, <3>2, Zenon
  <2>3. n = list[Rank(S, n)]
    <3>1. list[Rank(S, n)] \in Nat /\ n \in Nat
      BY <2>1
    <3>2. QED
      BY <2>2, <3>1
  <2>4. QED
    BY <1>5, <2>1, <2>3 DEF Elements
<1>7. ASSUME NEW k \in 1..all, NEW l \in 1..all, k < l PROVE list[k] < list[l]
  <2>1. list[k] \in S /\ list[l] \in S /\ Rank(S, list[k]) = k /\ Rank(S, list[l]) = l
    BY <1>4
  <2>2. k \in Nat /\ l \in Nat /\ ~(l < k) /\ k # l
    BY <1>2, <1>7
  <2>3. ~(list[l] < list[k]) /\ list[k] # list[l]
    BY <1>1, <2>1, <2>2, Zenon
  <2>4. list[k] \in Nat /\ list[l] \in Nat
    BY <2>1
  <2>5. QED
    BY <2>3, <2>4
<1>8. Elements(list) = S
  BY <1>4, <1>5, <1>6 DEF Elements
<1>9. QED
  BY <1>5, <1>7, <1>8 DEF list

\* It lists all places of a list one by one.
LEMMA ListedPlaces == ASSUME NEW n \in Nat PROVE InOrder(1..n) = [k \in 1..n |-> k]
<1> DEFINE rank(k) == Cardinality({m \in 1..n : m <= k})
<1>1. Cardinality(1..n) = n
  BY CountTo
<1>2. ASSUME NEW k \in 1..n PROVE rank(k) = k
  <2>1. {m \in 1..n : m <= k} = 1..k /\ k \in Nat
    OBVIOUS
  <2>2. Cardinality(1..k) = k
    BY <2>1, CountTo
  <2>3. QED
    BY <2>1, <2>2
<1>3. InOrder(1..n) = [k \in 1..Cardinality(1..n) |-> CHOOSE m \in 1..n : rank(m) = k]
  BY DEF InOrder
<1> HIDE DEF rank
<1>4. ASSUME NEW k \in 1..n PROVE (CHOOSE m \in 1..n : rank(m) = k) = k
  BY <1>2
<1>5. QED
  BY <1>1, <1>3, <1>4

-----------------------------------------------------------------------------
(* The tree of the text.                                                   *)

Parent(n) == messages[n].parent

LEMMA TextFacts ==
  ASSUME TextOK
  PROVE  /\ messages \in Seq(Messages)
         /\ \A n \in Ids : Standing(messages, n)
         /\ \A m, n \in Ids : Alone(messages, m, n)
  BY DEF TextOK, WellFormed, Ids

\* A message is one of the text's, and what it stands in is an earlier one.
LEMMA Earlier ==
  ASSUME TextOK, NEW n \in Ids
  PROVE  /\ n \in Nat /\ n > 0 /\ Parent(n) \in Nat /\ Parent(n) < n
         /\ Parent(n) # 0 => Parent(n) \in Ids
         /\ messages[n].kind \in Kinds
<1>0. messages \in Seq(Messages)
  BY TextFacts
<1>1. Len(messages) \in Nat /\ n \in Nat /\ n > 0 /\ messages[n] \in Messages
  BY <1>0 DEF Ids
<1>2. messages[n].kind \in Kinds /\ Parent(n) \in Nat /\ Parent(n) < n
  BY <1>1, TextFacts DEF Standing, Parent, Messages
<1>3. n <= Len(messages)
  BY <1>1 DEF Ids
<1>4. Parent(n) # 0 => Parent(n) \in 1..Len(messages)
  BY <1>1, <1>2, <1>3
<1>5. QED
  BY <1>1, <1>2, <1>4 DEF Ids

\* The chain from a message up to its root: the least set with the message in it and,
\* with any message, the one it stands in.  That is what Enclosing's equation says.
LEMMA EnclosingExists ==
  ASSUME TextOK
  PROVE  \E f : f = [n \in Ids |-> {n} \cup IF messages[n].parent = 0 THEN {}
                                            ELSE f[messages[n].parent]]
<1> DEFINE Closed(C) == \A m \in C : Parent(m) # 0 => Parent(m) \in C
           chain(n) == {a \in Ids : \A C \in SUBSET Ids : n \in C /\ Closed(C) => a \in C}
           f == [n \in Ids |-> chain(n)]
<1>1. ASSUME NEW n \in Ids PROVE n \in chain(n) /\ Closed(chain(n)) /\ chain(n) \in SUBSET Ids
  <2>1. ASSUME NEW m \in chain(n), Parent(m) # 0 PROVE Parent(m) \in chain(n)
    <3>1. Parent(m) \in Ids
      BY <2>1, Earlier
    <3>2. ASSUME NEW C \in SUBSET Ids, n \in C, Closed(C) PROVE Parent(m) \in C
      <4>1. m \in C
        BY <3>2
      <4>2. QED
        BY <2>1, <3>2, <4>1
    <3>3. QED
      BY <3>1, <3>2
  <2>2. QED
    BY <2>1
<1>2. ASSUME NEW n \in Ids, Parent(n) = 0 PROVE chain(n) = {n}
  <2>1. {n} \in SUBSET Ids /\ n \in {n} /\ Closed({n})
    BY <1>2
  <2>2. chain(n) \subseteq {n}
    BY <2>1
  <2>3. QED
    BY <1>1, <2>2
<1>3. ASSUME NEW n \in Ids, Parent(n) # 0 PROVE chain(n) = {n} \cup chain(Parent(n))
  <2>1. Parent(n) \in Ids
    BY <1>3, Earlier
  <2>2. Parent(n) \in chain(Parent(n)) /\ Closed(chain(Parent(n)))
        /\ chain(Parent(n)) \in SUBSET Ids
    BY <1>1, <2>1
  <2>3. chain(n) \subseteq {n} \cup chain(Parent(n))
    <3> DEFINE C == {n} \cup chain(Parent(n))
    <3>1. C \in SUBSET Ids /\ n \in C
      BY <2>2
    <3>2. Closed(C)
      BY <2>2
    <3>3. QED
      BY <3>1, <3>2
  <2>4. ASSUME NEW a \in chain(Parent(n)) PROVE a \in chain(n)
    <3>1. ASSUME NEW C \in SUBSET Ids, n \in C, Closed(C) PROVE a \in C
      <4>1. Parent(n) \in C
        BY <1>3, <3>1
      <4>2. QED
        BY <3>1, <4>1
    <3>2. QED
      BY <3>1
  <2>5. QED
    BY <1>1, <2>3, <2>4
<1> HIDE DEF chain
<1>4. ASSUME NEW n \in Ids
      PROVE  chain(n) = {n} \cup IF messages[n].parent = 0 THEN {} ELSE f[messages[n].parent]
  <2>1. CASE Parent(n) = 0
    BY <1>2, <2>1 DEF Parent
  <2>2. CASE Parent(n) # 0
    <3>1. Parent(n) \in Ids
      BY <2>2, Earlier
    <3>2. f[Parent(n)] = chain(Parent(n))
      BY <3>1
    <3>3. QED
      BY <1>3, <2>2, <3>2 DEF Parent
  <2>3. QED
    BY <2>1, <2>2
<1>5. f = [n \in Ids |-> {n} \cup IF messages[n].parent = 0 THEN {} ELSE f[messages[n].parent]]
  BY <1>4, Zenon
<1>6. QED
  BY <1>5

LEMMA EnclosingEquation ==
  ASSUME TextOK
  PROVE  \A n \in Ids :
           Enclosing[n] = {n} \cup IF Parent(n) = 0 THEN {} ELSE Enclosing[Parent(n)]
<1>1. Enclosing = [n \in Ids |-> {n} \cup IF messages[n].parent = 0 THEN {}
                                          ELSE Enclosing[messages[n].parent]]
  BY EnclosingExists, Zenon DEF Enclosing
<1>2. QED
  BY <1>1, Zenon DEF Parent

\* What encloses a message is not later; its chain is part of the message's chain; if it is
\* not the message, the chain goes on one level down; and the chain starts at a root.
Chain(m) ==
  /\ m \in Enclosing[m]
  /\ \A a \in Enclosing[m] :
       /\ a \in Ids /\ a <= m /\ Enclosing[a] \subseteq Enclosing[m]
       /\ a # m => \E c \in Enclosing[m] : Parent(c) = a
  /\ \E r \in Enclosing[m] : Parent(r) = 0

LEMMA Chains == ASSUME TextOK, NEW m \in Ids PROVE Chain(m)
<1> DEFINE T == {n \in Ids : ~Chain(n)}
<1>1. SUFFICES ASSUME T # {} PROVE FALSE
  OBVIOUS
<1>2. T \in SUBSET Nat
  BY Earlier
<1>3. PICK n \in T : \A k \in T : n <= k
  BY <1>1, <1>2, FirstOne
<1>4. n \in Ids /\ n \in Nat /\ Parent(n) \in Nat /\ Parent(n) < n /\ (Parent(n) # 0 => Parent(n) \in Ids)
  BY <1>3, Earlier
<1>5. CASE Parent(n) = 0
  <2>1. Enclosing[n] = {n}
    BY <1>4, <1>5, EnclosingEquation
  <2>2. Chain(n)
    BY <1>4, <1>5, <2>1 DEF Chain
  <2>3. QED
    BY <2>2
<1>6. CASE Parent(n) # 0
  <2> DEFINE p == Parent(n)
  <2>1. Enclosing[n] = {n} \cup Enclosing[p]
    BY <1>4, <1>6, EnclosingEquation
  <2>2. p \in Ids /\ p \in Nat /\ p < n
    BY <1>4, <1>6
  <2>3. Chain(p)
    BY <1>3, <1>4, <2>2
  <2> HIDE DEF p
  <2>4. ASSUME NEW a \in Enclosing[n], a # n
        PROVE  a \in Ids /\ a <= n /\ Enclosing[a] \subseteq Enclosing[n]
    <3>1. a \in Enclosing[p]
      BY <2>1, <2>4
    <3>2. a \in Ids /\ a <= p /\ Enclosing[a] \subseteq Enclosing[p]
      BY <2>3, <3>1 DEF Chain
    <3>3. a \in Nat
      BY <3>2, Earlier
    <3>4. a <= n
      BY <2>2, <1>4, <3>2, <3>3
    <3>5. QED
      BY <2>1, <3>2, <3>4
  <2>5. ASSUME NEW a \in Enclosing[n], a # n PROVE \E c \in Enclosing[n] : Parent(c) = a
    <3>1. a \in Enclosing[p]
      BY <2>1, <2>5
    <3>2. CASE a = p
      BY <2>1, <3>2 DEF p
    <3>3. CASE a # p
      BY <2>1, <2>3, <3>1, <3>3 DEF Chain
    <3>4. QED
      BY <3>2, <3>3
  <2>6. \E r \in Enclosing[n] : Parent(r) = 0
    BY <2>1, <2>3 DEF Chain
  <2>7. n <= n /\ n \in Enclosing[n]
    BY <1>4, <2>1
  <2>8. Chain(n)
    BY <1>4, <2>4, <2>5, <2>6, <2>7 DEF Chain
  <2>9. QED
    BY <2>8
<1>7. QED
  BY <1>5, <1>6

\* What is below a message, and what a message below is enclosed by.
LEMMA Belows ==
  ASSUME TextOK, NEW n \in Ids
  PROVE  /\ n \in Within(n)
         /\ \A m \in Within(n) : /\ m \in Ids /\ n <= m /\ Within(m) \subseteq Within(n)
                                 /\ Enclosing[n] \subseteq Enclosing[m]
<1>1. n \in Within(n)
  BY Chains DEF Chain, Within
<1>2. ASSUME NEW m \in Within(n)
      PROVE  m \in Ids /\ n <= m /\ Enclosing[n] \subseteq Enclosing[m] /\ n \in Enclosing[m]
  BY Chains DEF Chain, Within
<1>3. ASSUME NEW m \in Within(n), NEW k \in Within(m) PROVE k \in Within(n)
  <2>1. k \in Ids /\ m \in Enclosing[k]
    BY DEF Within
  <2>2. Enclosing[m] \subseteq Enclosing[k]
    BY <2>1, Chains DEF Chain
  <2>3. QED
    BY <1>2, <2>1, <2>2 DEF Within
<1>4. QED
  BY <1>1, <1>2, <1>3

\* Of what is below a message and is not itself, each is below one of its children, which
\* come after it and have their own messages below them.
LEMMA Branches ==
  ASSUME TextOK, NEW n \in Ids
  PROVE  /\ \A m \in Within(n) : m # n => \E c \in Ids : Parent(c) = n /\ m \in Within(c)
         /\ \A c \in Ids : Parent(c) = n =>
              \A m \in Within(c) : m \in Within(n) /\ m # n /\ Precedes(n, m)
<1>1. ASSUME NEW m \in Within(n), m # n
      PROVE  \E c \in Ids : Parent(c) = n /\ m \in Within(c)
  <2>1. m \in Ids /\ n \in Enclosing[m]
    BY DEF Within
  <2>2. PICK c \in Enclosing[m] : Parent(c) = n
    BY <1>1, <2>1, Chains DEF Chain
  <2>3. c \in Ids
    BY <2>1, Chains DEF Chain
  <2>4. QED
    BY <2>1, <2>2, <2>3 DEF Within
<1>2. ASSUME NEW c \in Ids, Parent(c) = n, NEW m \in Within(c)
      PROVE  m \in Within(n) /\ m # n /\ Precedes(n, m)
  <2>1. m \in Ids /\ c \in Enclosing[m]
    BY DEF Within
  <2>2. c <= m /\ Enclosing[c] \subseteq Enclosing[m]
    BY <2>1, Chains DEF Chain
  <2>3. n \in Enclosing[n] /\ n # 0 /\ n < c /\ n \in Nat /\ c \in Nat /\ m \in Nat
    <3>1. n \in Enclosing[n]
      BY Chains DEF Chain
    <3>2. n \in Nat /\ n > 0 /\ m \in Nat
      BY <2>1, Earlier
    <3>3. c \in Nat /\ n < c
      BY <1>2, Earlier
    <3>4. QED
      BY <3>1, <3>2, <3>3
  <2>4. n \in Enclosing[c]
    BY <1>2, <2>3, EnclosingEquation
  <2>5. n \in Enclosing[m] /\ m # n
    BY <2>2, <2>3, <2>4
  <2>6. QED
    BY <2>1, <2>5 DEF Within, Precedes
<1>3. QED
  BY <1>1, <1>2

\* Children of one message, or roots, of which one comes before the other.
Before(x, y) ==
  /\ messages[x].parent = messages[y].parent
  /\ Place(x) < Place(y) \/ (Place(x) = Place(y) /\ x < y)

\* All that is below the one comes before all that is below the other.
LEMMA Siblings ==
  ASSUME NEW x, NEW y, Before(x, y), NEW m \in Within(x), NEW n \in Within(y)
  PROVE  Precedes(m, n)
<1>1. x \in Enclosing[m] /\ y \in Enclosing[n]
  BY DEF Within
<1>2. QED
  BY <1>1 DEF Before, Precedes

-----------------------------------------------------------------------------
(* The fields of a message.                                                *)

\* A list of which each element stands in the relation R to every later one.
Ordered(list, R) == \A k, l \in 1..Len(list) : k < l => <<list[k], list[l]>> \in R

LEMMA Joined ==
  ASSUME NEW S, NEW s \in Seq(S), NEW t \in Seq(S), NEW R
  PROVE  /\ s \o t \in Seq(S) /\ Elements(s \o t) = Elements(s) \cup Elements(t)
         /\ Ordered(s, R) /\ Ordered(t, R)
            /\ (\A x \in Elements(s), y \in Elements(t) : <<x, y>> \in R) => Ordered(s \o t, R)
<1> DEFINE st == s \o t
           m == Len(s)
           n == Len(t)
<1>1. m \in Nat /\ n \in Nat /\ st \in Seq(S) /\ Len(st) = m + n
  OBVIOUS
<1>2. ASSUME NEW k \in 1..m PROVE k \in 1..Len(st) /\ st[k] = s[k]
  BY <1>1
<1>3. ASSUME NEW k \in 1..n PROVE m + k \in 1..Len(st) /\ st[m + k] = t[k]
  BY <1>1
<1>4. ASSUME NEW k \in 1..Len(st), ~(k <= m) PROVE k - m \in 1..n /\ st[k] = t[k - m]
  <2>1. k - m \in 1..n /\ m + (k - m) = k
    BY <1>1, <1>4
  <2>2. QED
    BY <1>3, <2>1
<1>5. ASSUME NEW k \in 1..Len(st), k <= m PROVE k \in 1..m /\ st[k] = s[k]
  BY <1>1, <1>2, <1>5
<1> HIDE DEF st
<1>6. Elements(st) \subseteq Elements(s) \cup Elements(t)
  BY <1>4, <1>5 DEF Elements
<1>7. Elements(s) \subseteq Elements(st)
  BY <1>2 DEF Elements
<1>8. Elements(t) \subseteq Elements(st)
  BY <1>3 DEF Elements
<1>9. ASSUME Ordered(s, R), Ordered(t, R),
             \A x \in Elements(s), y \in Elements(t) : <<x, y>> \in R,
             NEW k \in 1..Len(st), NEW l \in 1..Len(st), k < l
      PROVE  <<st[k], st[l]>> \in R
  <2>1. CASE l <= m
    <3>1. k <= m
      BY <1>1, <1>9, <2>1
    <3>2. QED
      BY <1>5, <1>9, <2>1, <3>1 DEF Ordered
  <2>2. CASE ~(l <= m) /\ k <= m
    <3>1. st[k] \in Elements(s) /\ st[l] \in Elements(t)
      BY <1>4, <1>5, <2>2 DEF Elements
    <3>2. QED
      BY <1>9, <3>1
  <2>3. CASE ~(k <= m)
    <3>1. ~(l <= m)
      BY <1>1, <1>9, <2>3
    <3>2. k - m < l - m
      BY <1>1, <1>9
    <3>3. QED
      BY <1>4, <1>9, <2>3, <3>1, <3>2 DEF Ordered
  <2>4. QED
    BY <2>1, <2>2, <2>3
<1>10. QED
  BY <1>1, <1>6, <1>7, <1>8, <1>9 DEF Ordered, st

LEMMA OneName ==
  ASSUME NEW kind \in {"DeleteStmt", "ExplainStmt", "WithClause", "CommonTableExpr"}
  PROVE  Len(Fields[kind]) = 1
<1>1. Fields["DeleteStmt"] = <<"with_clause">> /\ Fields["ExplainStmt"] = <<"query">>
      /\ Fields["WithClause"] = <<"ctes">> /\ Fields["CommonTableExpr"] = <<"ctequery">>
  BY DEF Fields
<1>2. QED
  BY <1>1

\* No kind has more than four fields, or two of one name.
LEMMA FieldNames ==
  ASSUME NEW kind \in Kinds
  PROVE  LET names == Fields[kind]
         IN  /\ Len(names) \in 0..4
             /\ \A k, l \in 1..Len(names) : names[k] = names[l] => k = l
<1>1. Fields["SelectStmt"] = <<"distinct_clause", "from_clause", "with_clause", "larg">>
  BY DEF Fields
<1>2. Fields["Empty"] = << >>
  BY DEF Fields
<1>3. CASE kind = "SelectStmt"
  <2>1. Len(Fields[kind]) = 4 /\ 1..4 = {1, 2, 3, 4}
    BY <1>1, <1>3
  <2>2. /\ Fields[kind][1] = "distinct_clause" /\ Fields[kind][2] = "from_clause"
        /\ Fields[kind][3] = "with_clause" /\ Fields[kind][4] = "larg"
    BY <1>1, <1>3
  <2>3. QED
    BY <2>1, <2>2
<1>4. CASE kind \in {"DeleteStmt", "ExplainStmt", "WithClause", "CommonTableExpr"}
  <2>1. Len(Fields[kind]) = 1
    BY <1>4, OneName
  <2>2. QED
    BY <2>1
<1>5. CASE kind = "Empty"
  <2>1. Len(Fields[kind]) = 0
    BY <1>2, <1>5
  <2>2. QED
    BY <2>1
<1>6. QED
  BY <1>3, <1>4, <1>5 DEF Kinds

\* A message's place is that of its field among the fields of what it stands in.
LEMMA Placed ==
  ASSUME TextOK, NEW n \in Ids, Parent(n) # 0
  PROVE  LET names == Fields[messages[Parent(n)].kind]
         IN  /\ Place(n) \in 1..Len(names) /\ names[Place(n)] = messages[n].field
             /\ \A k \in 1..Len(names) : names[k] = messages[n].field => Place(n) = k
<1> DEFINE names == Fields[messages[Parent(n)].kind]
<1>1. \E k \in 1..Len(names) : names[k] = messages[n].field
  BY TextFacts DEF Standing, Parent
<1>2. Place(n) = CHOOSE k \in 1..Len(names) : names[k] = messages[n].field
  BY DEF Place, Parent
<1>3. messages[Parent(n)].kind \in Kinds
  <2>1. Parent(n) \in Ids
    BY Earlier
  <2>2. QED
    BY <2>1, Earlier
<1>4. \A k, l \in 1..Len(names) : names[k] = names[l] => k = l
  BY <1>3, FieldNames
<1> HIDE DEF names
<1>5. Place(n) \in 1..Len(names) /\ names[Place(n)] = messages[n].field
  BY <1>1, <1>2
<1>6. QED
  BY <1>4, <1>5 DEF names

\* What the text holds is finite.
LEMMA SomeIds ==
  ASSUME TextOK, NEW S \in SUBSET Ids
  PROVE  LET list == InOrder(S)
         IN  /\ list \in Seq(Ids) /\ Elements(list) = S
             /\ \A k, l \in 1..Len(list) : k < l => list[k] < list[l]
<1>1. Len(messages) \in Nat
  BY TextFacts
<1>2. IsFiniteSet(Ids)
  BY <1>1, CountTo DEF Ids
<1>3. S \in SUBSET Nat /\ IsFiniteSet(S)
  BY <1>2, FS_Subset, Earlier
<1>4. /\ InOrder(S) \in Seq(S) /\ Elements(InOrder(S)) = S
      /\ \A k, l \in 1..Len(InOrder(S)) : k < l => InOrder(S)[k] < InOrder(S)[l]
  BY <1>3, Listed
<1>5. InOrder(S) \in Seq(Ids)
  BY <1>4
<1>6. QED
  BY <1>4, <1>5

SiblingOrder == {pair \in Ids \X Ids : Before(pair[1], pair[2])}

\* convertMessage takes over the messages of the k-th field in their order.
LEMMA OneField ==
  ASSUME TextOK, NEW n \in Ids, NEW k \in 1..4
  PROVE  LET names == Fields[messages[n].kind]
             nodes == IF k <= Len(names) THEN InOrder(InField(n, names[k])) ELSE << >>
         IN  /\ nodes \in Seq(Ids) /\ Ordered(nodes, SiblingOrder)
             /\ Elements(nodes) = {m \in Ids : Parent(m) = n /\ Place(m) = k}
<1> DEFINE names == Fields[messages[n].kind]
           there == {m \in Ids : Parent(m) = n /\ Place(m) = k}
<1>1. n \in Nat /\ n # 0 /\ Len(names) \in 0..4
  <2>1. n \in Nat /\ n > 0 /\ messages[n].kind \in Kinds
    BY Earlier
  <2>3. Len(names) \in 0..4
    BY <2>1, FieldNames
  <2>4. QED
    BY <2>1, <2>3
<1>2. ASSUME NEW m \in Ids, Parent(m) = n
      PROVE  /\ Place(m) \in 1..Len(names) /\ names[Place(m)] = messages[m].field
             /\ \A l \in 1..Len(names) : names[l] = messages[m].field => Place(m) = l
  BY <1>1, <1>2, Placed
<1> HIDE DEF names
<1>3. CASE k <= Len(names)
  <2> DEFINE nodes == InOrder(InField(n, names[k]))
  <2>1. k \in 1..Len(names)
    BY <1>1, <1>3
  <2>2. InField(n, names[k]) = there
    BY <1>2, <2>1 DEF InField, Parent
  <2>3. /\ nodes \in Seq(Ids) /\ Elements(nodes) = there
        /\ \A i, j \in 1..Len(nodes) : i < j => nodes[i] < nodes[j]
    BY <2>2, SomeIds
  <2> HIDE DEF nodes
  <2>4. ASSUME NEW i \in 1..Len(nodes), NEW j \in 1..Len(nodes), i < j
        PROVE  <<nodes[i], nodes[j]>> \in SiblingOrder
    <3>1. nodes[i] \in there /\ nodes[j] \in there /\ nodes[i] < nodes[j]
      BY <2>3, <2>4 DEF Elements
    <3>2. Before(nodes[i], nodes[j]) /\ nodes[i] \in Ids /\ nodes[j] \in Ids
      BY <3>1 DEF Before, Parent
    <3>3. QED
      BY <3>2 DEF SiblingOrder
  <2>5. QED
    BY <1>3, <2>3, <2>4 DEF Ordered, nodes, names
<1>4. CASE ~(k <= Len(names))
  <2>1. there = {}
    <3>1. ASSUME NEW m \in Ids, Parent(m) = n PROVE Place(m) # k
      BY <1>1, <1>2, <1>4, <3>1
    <3>2. QED
      BY <3>1
  <2>2. << >> \in Seq(Ids) /\ Elements(<< >>) = {} /\ Ordered(<< >>, SiblingOrder)
    BY DEF Elements, Ordered
  <2>3. QED
    BY <1>4, <2>1, <2>2 DEF names
<1>5. QED
  BY <1>3, <1>4

\* The child values of a node that is not nil are its children, in order.
LEMMA Children ==
  ASSUME TextOK, NEW n \in Ids, messages[n].kind # "Empty"
  PROVE  LET kids == ChildValues(convertMessage(n))
         IN  /\ kids \in Seq(Ids) /\ Ordered(kids, SiblingOrder)
             /\ Elements(kids) = {m \in Ids : Parent(m) = n}
<1> DEFINE names == Fields[messages[n].kind]
           nodes(k) == IF k <= Len(names) THEN InOrder(InField(n, names[k])) ELSE << >>
           there(k) == {m \in Ids : Parent(m) = n /\ Place(m) = k}
           kids == ChildValues(convertMessage(n))
<1>1. Len(names) \in 0..4
  <2>1. messages[n].kind \in Kinds
    BY Earlier
  <2>2. QED
    BY <2>1, FieldNames
<1>2. kids = nodes(1) \o nodes(2) \o nodes(3) \o nodes(4)
  <2> DEFINE fields == [k \in 1..Len(names) |->
                          [name |-> names[k], value |-> convertValue(n, names[k])]]
             taken(k) == IF k <= Len(fields) THEN fields[k].value.nodes ELSE << >>
  <2>1. convertMessage(n).fields = fields
    BY DEF convertMessage
  <2>2. kids = taken(1) \o taken(2) \o taken(3) \o taken(4)
    BY <2>1 DEF ChildValues
  <2>3. Len(fields) = Len(names)
    BY <1>1
  <2>4. ASSUME NEW k \in 1..4 PROVE taken(k) = nodes(k)
    <3>1. CASE k <= Len(names)
      <4>1. k \in 1..Len(names)
        BY <1>1, <3>1
      <4>2. fields[k].value.nodes = InOrder(InField(n, names[k]))
        BY <4>1 DEF convertValue
      <4>3. QED
        BY <2>3, <3>1, <4>2
    <3>2. CASE ~(k <= Len(names))
      BY <2>3, <3>2
    <3>3. QED
      BY <3>1, <3>2
  <2> HIDE DEF taken, nodes
  <2>5. taken(1) = nodes(1) /\ taken(2) = nodes(2) /\ taken(3) = nodes(3) /\ taken(4) = nodes(4)
    BY <2>4
  <2>6. QED
    BY <2>2, <2>5
<1>3. ASSUME NEW k \in 1..4
      PROVE  nodes(k) \in Seq(Ids) /\ Ordered(nodes(k), SiblingOrder) /\ Elements(nodes(k)) = there(k)
  BY OneField
<1> HIDE DEF nodes, names, kids
<1> DEFINE upTo(k) == {m \in Ids : Parent(m) = n /\ Place(m) \in 1..k}
           two == nodes(1) \o nodes(2)
           three == two \o nodes(3)
<1>4. ASSUME NEW k \in 1..3, NEW s \in Seq(Ids), Ordered(s, SiblingOrder), Elements(s) = upTo(k)
      PROVE  LET t == s \o nodes(k + 1)
             IN  t \in Seq(Ids) /\ Ordered(t, SiblingOrder) /\ Elements(t) = upTo(k + 1)
  <2>1. k + 1 \in 1..4
    OBVIOUS
  <2>2. /\ nodes(k + 1) \in Seq(Ids) /\ Ordered(nodes(k + 1), SiblingOrder)
        /\ Elements(nodes(k + 1)) = there(k + 1)
    BY <1>3, <2>1
  <2>3. ASSUME NEW x \in upTo(k), NEW y \in there(k + 1) PROVE <<x, y>> \in SiblingOrder
    <3>1. Place(x) < Place(y) /\ Parent(x) = Parent(y)
      OBVIOUS
    <3>2. QED
      BY <3>1 DEF SiblingOrder, Before, Parent
  <2>4. upTo(k) \cup there(k + 1) = upTo(k + 1)
    <3>1. 1..(k + 1) = 1..k \cup {k + 1}
      OBVIOUS
    <3>2. QED
      BY <3>1
  <2> HIDE DEF upTo, there
  <2> DEFINE t == s \o nodes(k + 1)
  <2>5. t \in Seq(Ids) /\ Ordered(t, SiblingOrder) /\ Elements(t) = Elements(s) \cup Elements(nodes(k + 1))
    <3>1. \A x \in Elements(s), y \in Elements(nodes(k + 1)) : <<x, y>> \in SiblingOrder
      BY <1>4, <2>2, <2>3
    <3>2. QED
      BY <1>4, <2>2, <3>1, Joined
  <2>6. Elements(t) = upTo(k + 1)
    BY <1>4, <2>2, <2>4, <2>5
  <2>7. QED
    BY <2>5, <2>6
<1>5. nodes(1) \in Seq(Ids) /\ Ordered(nodes(1), SiblingOrder) /\ Elements(nodes(1)) = upTo(1)
  BY <1>3
<1> HIDE DEF there, upTo
<1>6. two \in Seq(Ids) /\ Ordered(two, SiblingOrder) /\ Elements(two) = upTo(2)
  <2>1. 1 \in 1..3 /\ 1 + 1 = 2
    OBVIOUS
  <2>2. QED
    BY <1>4, <1>5, <2>1
<1> HIDE DEF two
<1>7. three \in Seq(Ids) /\ Ordered(three, SiblingOrder) /\ Elements(three) = upTo(3)
  <2>1. 2 \in 1..3 /\ 2 + 1 = 3
    OBVIOUS
  <2>2. QED
    BY <1>4, <1>6, <2>1
<1> HIDE DEF three
<1>8. /\ three \o nodes(4) \in Seq(Ids) /\ Ordered(three \o nodes(4), SiblingOrder)
      /\ Elements(three \o nodes(4)) = upTo(4)
  <2>1. 3 \in 1..3 /\ 3 + 1 = 4
    OBVIOUS
  <2>2. QED
    BY <1>4, <1>7, <2>1
<1>9. upTo(4) = {m \in Ids : Parent(m) = n}
  <2>1. ASSUME NEW m \in Ids, Parent(m) = n PROVE Place(m) \in 1..4
    <3>1. n \in Nat /\ n > 0
      BY Earlier
    <3>2. Place(m) \in 1..Len(Fields[messages[Parent(m)].kind])
      BY <2>1, <3>1, Placed
    <3>3. Place(m) \in 1..Len(names)
      BY <2>1, <3>2, Zenon DEF names
    <3>4. ASSUME NEW length \in 0..4, NEW k \in 1..length PROVE k \in 1..4
      OBVIOUS
    <3>5. QED
      BY <1>1, <3>3, <3>4, Zenon
  <2>2. QED
    BY <2>1 DEF upTo
<1>10. QED
  BY <1>2, <1>8, <1>9 DEF two, three, kids

-----------------------------------------------------------------------------
(* One step of a traversal.                                                *)

\* The list without its first element.
LEMMA TailOf ==
  ASSUME NEW T, NEW left \in Seq(T), left # << >>
  PROVE  /\ Head(left) \in T /\ Tail(left) \in Seq(T)
         /\ Elements(left) = {Head(left)} \cup Elements(Tail(left))
         /\ Head(left) = left[1] /\ 1 \in 1..Len(left)
         /\ \A k \in 1..Len(Tail(left)) : /\ k + 1 \in 1..Len(left) /\ 1 < k + 1
                                          /\ Tail(left)[k] = left[k + 1]
<1> DEFINE rest == Tail(left)
<1>1. Len(left) \in Nat /\ Len(left) > 0 /\ Head(left) = left[1] /\ 1 \in 1..Len(left)
  OBVIOUS
<1>2. rest \in Seq(T) /\ Len(rest) = Len(left) - 1 /\ Head(left) \in T
  BY <1>1
<1>3. ASSUME NEW k \in 1..Len(rest)
      PROVE  k + 1 \in 1..Len(left) /\ 1 < k + 1 /\ rest[k] = left[k + 1]
  BY <1>1, <1>2
<1>4. ASSUME NEW k \in 1..Len(left), k # 1 PROVE k - 1 \in 1..Len(rest) /\ rest[k - 1] = left[k]
  <2>1. k - 1 \in 1..Len(rest) /\ (k - 1) + 1 = k
    BY <1>1, <1>2, <1>4
  <2>2. QED
    BY <1>3, <2>1
<1> HIDE DEF rest
<1>5. ASSUME NEW x \in Elements(left) PROVE x = left[1] \/ x \in Elements(rest)
  BY <1>4 DEF Elements
<1>6. ASSUME NEW x \in Elements(rest) PROVE x \in Elements(left)
  BY <1>3 DEF Elements
<1>7. left[1] \in Elements(left)
  BY <1>1 DEF Elements
<1>8. Elements(left) = {left[1]} \cup Elements(rest)
  BY <1>5, <1>6, <1>7
<1>9. QED
  BY <1>1, <1>2, <1>3, <1>8 DEF rest

\* Two blocks, the first before the second.
Blocks(T, below) ==
  {pair \in T \X T : \A m \in below[pair[1]], n \in below[pair[2]] : Precedes(m, n)}

LEMMA Blockwise ==
  ASSUME NEW T, NEW below, NEW list \in Seq(T)
  PROVE  Ordered(list, Blocks(T, below)) <=>
           \A k, l \in 1..Len(list) : k < l =>
             \A m \in below[list[k]], n \in below[list[l]] : Precedes(m, n)
<1>1. ASSUME NEW k \in 1..Len(list), NEW l \in 1..Len(list)
      PROVE  <<list[k], list[l]>> \in Blocks(T, below) <=>
               \A m \in below[list[k]], n \in below[list[l]] : Precedes(m, n)
  <2>1. list[k] \in T /\ list[l] \in T
    OBVIOUS
  <2>2. QED
    BY <2>1 DEF Blocks
<1>2. QED
  BY <1>1 DEF Ordered

\* The first of what is left goes, if nothing is below it.
LEMMA SpreadSkip ==
  ASSUME NEW T, NEW taken, NEW left \in Seq(T), left # << >>, NEW below, NEW whole,
         Spread(taken, left, below, whole), below[Head(left)] = {}
  PROVE  Spread(taken, Tail(left), below, whole)
<1> DEFINE rest == Tail(left)
<1>1. /\ Elements(left) = {Head(left)} \cup Elements(rest) /\ rest \in Seq(T)
      /\ \A k \in 1..Len(rest) : k + 1 \in 1..Len(left) /\ rest[k] = left[k + 1]
  BY TailOf
<1> HIDE DEF rest
<1>2. ASSUME NEW k \in 1..Len(rest), NEW l \in 1..Len(rest), k < l,
             NEW m \in below[rest[k]], NEW n \in below[rest[l]]
      PROVE  Precedes(m, n)
  <2>1. k + 1 < l + 1 /\ k + 1 \in 1..Len(left) /\ l + 1 \in 1..Len(left)
    BY <1>1, <1>2
  <2>2. m \in below[left[k + 1]] /\ n \in below[left[l + 1]]
    BY <1>1, <1>2
  <2>3. QED
    BY <2>1, <2>2, Zenon DEF Spread
<1>3. \A m \in Elements(taken), x \in Elements(rest) : \A n \in below[x] : Precedes(m, n)
  BY <1>1 DEF Spread
<1>4. ASSUME NEW n
      PROVE  n \in whole <=> n \in Elements(taken) \/ \E x \in Elements(rest) : n \in below[x]
  BY <1>1 DEF Spread
<1>5. QED
  BY <1>2, <1>3, <1>4 DEF Spread, rest

\* The first of what is left is taken up, and what is below it is left, child by child.
LEMMA SpreadStep ==
  ASSUME NEW T, NEW S, NEW taken \in Seq(S), NEW left \in Seq(T), left # << >>,
         NEW below, NEW whole, Spread(taken, left, below, whole),
         NEW p, p = Head(left), p \in S, NEW kids \in Seq(T),
         \A n : n \in below[p] <=> n = p \/ \E c \in Elements(kids) : n \in below[c],
         \A c \in Elements(kids) : \A n \in below[c] : Precedes(p, n),
         Ordered(kids, Blocks(T, below))
  PROVE  Spread(Append(taken, p), kids \o Tail(left), below, whole)
<1> DEFINE rest == Tail(left)
           new == kids \o rest
           done == Append(taken, p)
<1>1. /\ Elements(left) = {p} \cup Elements(rest) /\ rest \in Seq(T)
      /\ p = left[1] /\ 1 \in 1..Len(left)
      /\ \A k \in 1..Len(rest) : /\ k + 1 \in 1..Len(left) /\ 1 < k + 1
                                 /\ rest[k] = left[k + 1]
  BY TailOf
<1> HIDE DEF rest
<1>2. Ordered(rest, Blocks(T, below))
  <2>1. ASSUME NEW k \in 1..Len(rest), NEW l \in 1..Len(rest), k < l,
               NEW m \in below[rest[k]], NEW n \in below[rest[l]]
        PROVE  Precedes(m, n)
    <3>1. k + 1 < l + 1 /\ k + 1 \in 1..Len(left) /\ l + 1 \in 1..Len(left)
      BY <1>1, <2>1
    <3>2. m \in below[left[k + 1]] /\ n \in below[left[l + 1]]
      BY <1>1, <2>1
    <3>3. QED
      BY <3>1, <3>2, Zenon DEF Spread
  <2>2. QED
    BY <1>1, <2>1, Blockwise
<1>3. \A y \in Elements(rest) : \A m \in below[p], n \in below[y] : Precedes(m, n)
  <2>1. ASSUME NEW k \in 1..Len(rest), NEW m \in below[p], NEW n \in below[rest[k]]
        PROVE  Precedes(m, n)
    BY <1>1 DEF Spread
  <2>2. QED
    BY <2>1 DEF Elements
<1>4. ASSUME NEW x \in Elements(kids), NEW y \in Elements(rest)
      PROVE  <<x, y>> \in Blocks(T, below)
  <2>1. x \in T /\ y \in T
    BY <1>1 DEF Elements
  <2>2. \A m \in below[x] : m \in below[p]
    OBVIOUS
  <2>3. \A m \in below[x], n \in below[y] : Precedes(m, n)
    BY <1>3, <2>2
  <2>4. QED
    BY <2>1, <2>3 DEF Blocks
<1>5. /\ new \in Seq(T) /\ Elements(new) = Elements(kids) \cup Elements(rest)
      /\ Ordered(new, Blocks(T, below))
  BY <1>1, <1>2, <1>4, Joined
<1>6. /\ Elements(done) = Elements(taken) \cup {p}
      /\ Len(done) = Len(taken) + 1 /\ done[Len(taken) + 1] = p
      /\ \A k \in 1..Len(taken) : done[k] = taken[k]
  <2>1. /\ Len(done) = Len(taken) + 1 /\ done[Len(taken) + 1] = p /\ Len(taken) \in Nat
        /\ \A k \in 1..Len(taken) : done[k] = taken[k]
    OBVIOUS
  <2>2. 1..(Len(taken) + 1) = 1..Len(taken) \cup {Len(taken) + 1}
    BY <2>1
  <2>3. Elements(done) = Elements(taken) \cup {p}
    <3> HIDE DEF done
    <3>1. \A n : n \in Elements(done) <=> \E k \in 1..Len(taken) \cup {Len(taken) + 1} : n = done[k]
      BY <2>1, <2>2, Zenon DEF Elements
    <3>2. \A n : n \in Elements(taken) <=> \E k \in 1..Len(taken) : n = done[k]
      <4>1. \A n : n \in Elements(taken) <=> \E k \in 1..Len(taken) : n = taken[k]
        BY DEF Elements
      <4>2. QED
        BY <2>1, <4>1
    <3>3. QED
      BY <2>1, <3>1, <3>2
  <2>4. QED
    BY <2>1, <2>3
<1> HIDE DEF done, new
<1>7. p \in below[p]
  OBVIOUS
<1>8. \A m \in Elements(taken) : Precedes(m, p)
  BY <1>1, <1>7 DEF Spread
<1>9. InPreOrder(done)
  <2>1. ASSUME NEW k \in 1..Len(done), NEW l \in 1..Len(done), k < l
        PROVE  Precedes(done[k], done[l])
    <3>1. Len(taken) \in Nat /\ k \in 1..Len(taken)
      BY <1>6, <2>1
    <3>2. CASE l = Len(taken) + 1
      <4>1. done[k] \in Elements(taken) /\ done[l] = p
        BY <1>6, <3>1, <3>2 DEF Elements
      <4>2. QED
        BY <1>8, <4>1
    <3>3. CASE l # Len(taken) + 1
      <4>1. l \in 1..Len(taken)
        <5>1. l \in 1..(Len(taken) + 1)
          BY <1>6, Zenon
        <5>2. ASSUME NEW length \in Nat, NEW i \in 1..(length + 1), i # length + 1
              PROVE  i \in 1..length
          BY <5>2
        <5>3. QED
          BY <3>1, <3>3, <5>1, <5>2, Zenon
      <4>2. Precedes(taken[k], taken[l])
        BY <2>1, <3>1, <4>1, Zenon DEF Spread, InPreOrder
      <4>3. QED
        BY <1>6, <3>1, <4>1, <4>2
    <3>4. QED
      BY <3>2, <3>3
  <2>2. QED
    BY <2>1 DEF InPreOrder
<1>10. ASSUME NEW m \in Elements(done), NEW x \in Elements(new), NEW n \in below[x]
       PROVE  Precedes(m, n)
  <2>1. CASE m \in Elements(taken)
    <3>1. n \in below[p] \/ (x \in Elements(rest) /\ n \in below[x])
      BY <1>5
    <3>2. QED
      BY <1>1, <2>1, <3>1 DEF Spread
  <2>2. CASE m = p
    BY <1>3, <1>5, <1>7, <2>2
  <2>3. QED
    BY <1>6, <2>1, <2>2
<1>11. ASSUME NEW n
       PROVE  n \in whole <=> n \in Elements(done) \/ \E x \in Elements(new) : n \in below[x]
  <2>1. n \in whole <=> n \in Elements(taken) \/ n \in below[p] \/ \E x \in Elements(rest) : n \in below[x]
    BY <1>1 DEF Spread
  <2>2. n \in below[p] <=> n = p \/ \E c \in Elements(kids) : n \in below[c]
    OBVIOUS
  <2>3. QED
    BY <1>5, <1>6, <2>1, <2>2
<1>12. \A k, l \in 1..Len(new) : k < l => \A m \in below[new[k]], n \in below[new[l]] : Precedes(m, n)
  BY <1>5, Blockwise
<1>13. QED
  BY <1>9, <1>10, <1>11, <1>12 DEF Spread, done, new, rest

-----------------------------------------------------------------------------
(* The fields of a node.                                                   *)

\* A field is found by its name, and it is there when something is in it.
LEMMA FieldAt ==
  ASSUME TextOK, NEW n \in Ids, messages[n].kind # "Empty", NEW name
  PROVE  LET node == convertMessage(n)
             there == InField(n, name)
         IN  /\ HasField(node, name) <=> there # {}
             /\ there # {} => FieldOf(node, name) = convertValue(n, name)
<1> DEFINE names == Fields[messages[n].kind]
           node == convertMessage(n)
           there == InField(n, name)
<1>1. /\ n \in Nat /\ n # 0 /\ Len(names) \in Nat
      /\ \A k, l \in 1..Len(names) : names[k] = names[l] => k = l
  <2>1. n \in Nat /\ n > 0 /\ messages[n].kind \in Kinds
    BY Earlier
  <2>3. Len(names) \in 0..4 /\ \A k, l \in 1..Len(names) : names[k] = names[l] => k = l
    BY <2>1, FieldNames
  <2> HIDE DEF names
  <2>4. QED
    BY <2>1, <2>3
<1>2. node.fields = [k \in 1..Len(names) |->
                       [name |-> names[k], value |-> convertValue(n, names[k])]]
  BY DEF convertMessage
<1>3. ASSUME there # {} PROVE \E k \in 1..Len(names) : names[k] = name
  <2>1. PICK m \in Ids : messages[m].parent = n /\ messages[m].field = name
    BY <1>3 DEF InField
  <2>2. Standing(messages, m)
    BY TextFacts
  <2>3. QED
    BY <1>1, <2>1, <2>2 DEF Standing
<1>4. ASSUME NEW k \in 1..Len(names)
      PROVE  /\ node.fields[k].name = names[k]
             /\ node.fields[k].value = convertValue(n, names[k])
             /\ node.fields[k].value.nodes = InOrder(InField(n, names[k]))
  <2> HIDE DEF node, names
  <2>1. node.fields[k] = [name |-> names[k], value |-> convertValue(n, names[k])]
    BY <1>2, Zenon
  <2>2. convertValue(n, names[k]).nodes = InOrder(InField(n, names[k]))
    BY DEF convertValue
  <2>3. QED
    BY <2>1, <2>2
<1>5. Len(node.fields) = Len(names)
  BY <1>1, <1>2
<1>6. (InOrder(there) # << >>) <=> there # {}
  <2>1. there \in SUBSET Ids
    BY DEF InField
  <2>2. InOrder(there) \in Seq(Ids) /\ Elements(InOrder(there)) = there
    BY <2>1, SomeIds
  <2>3. InOrder(there) = << >> <=> Elements(InOrder(there)) = {}
    <3> DEFINE list == InOrder(there)
    <3>1. CASE list = << >>
      BY <3>1 DEF Elements
    <3>2. CASE list # << >>
      <4>1. list \in Seq(Ids)
        BY <2>2
      <4> HIDE DEF list
      <4>2. 1 \in 1..Len(list)
        BY <3>2, <4>1
      <4>3. list[1] \in Elements(list)
        BY <4>2 DEF Elements
      <4>4. QED
        BY <3>2, <4>3 DEF list
    <3>3. QED
      BY <3>1, <3>2
  <2>4. QED
    BY <2>2, <2>3
<1> HIDE DEF names, node
<1>7. HasField(node, name) <=> there # {}
  BY <1>3, <1>4, <1>5, <1>6 DEF HasField
<1>8. ASSUME there # {} PROVE FieldOf(node, name) = convertValue(n, name)
  <2> DEFINE k == CHOOSE l \in 1..Len(node.fields) : node.fields[l].name = name
  <2>1. k \in 1..Len(names) /\ node.fields[k].name = name
    BY <1>3, <1>4, <1>5, <1>8
  <2> HIDE DEF k
  <2>2. names[k] = name /\ node.fields[k].value = convertValue(n, names[k])
    BY <1>4, <2>1
  <2>3. FieldOf(node, name) = node.fields[k].value
    BY DEF FieldOf, k
  <2>4. QED
    BY <2>2, <2>3
<1>9. QED
  BY <1>7, <1>8 DEF node

\* What nodeField finds in a field that does not repeat: the one message in it, or nil.
LEMMA SingleField ==
  ASSUME TextOK, NEW n \in Ids, messages[n].kind # "Empty", NEW name, ~IsList(name)
  PROVE  LET c == nodeField(convertMessage(n), name)
         IN  \/ c = 0 /\ InField(n, name) = {}
             \/ c \in Ids /\ InField(n, name) = {c}
<1> DEFINE node == convertMessage(n)
           there == InField(n, name)
           c == nodeField(node, name)
<1>1. /\ HasField(node, name) <=> there # {}
      /\ there # {} => FieldOf(node, name) = convertValue(n, name)
  BY FieldAt
<1> HIDE DEF node
<1>2. CASE there = {}
  BY <1>1, <1>2 DEF nodeField, node
<1>3. CASE there # {}
  <2> DEFINE list == InOrder(there)
  <2>1. c = list[1]
    BY <1>1, <1>3 DEF nodeField, convertValue
  <2>2. there \in SUBSET Ids
    BY DEF InField
  <2>3. list \in Seq(Ids) /\ Elements(list) = there
    BY <2>2, SomeIds
  <2> HIDE DEF list
  <2>4. list # << >>
    BY <1>3, <2>3 DEF Elements
  <2>5. 1 \in 1..Len(list)
    BY <2>3, <2>4
  <2>6. c \in there
    BY <2>1, <2>3, <2>5 DEF Elements
  <2>7. ASSUME NEW m \in there PROVE m = c
    <3>1. Alone(messages, m, c) /\ n # 0
      BY <2>2, <2>6, Earlier, TextFacts
    <3>2. QED
      BY <2>6, <3>1 DEF InField, Alone
  <2>8. c \in Ids /\ there = {c}
    BY <2>2, <2>6, <2>7
  <2>9. QED
    BY <2>8 DEF node
<1>4. QED
  BY <1>2, <1>3

-----------------------------------------------------------------------------
(* The statements a statement declares.                                    *)

\* q is the statement of the CTE c in the WITH clause w of p.
Declares(p, w, c, q) ==
  /\ w \in InField(p, "with_clause") /\ c \in InField(w, "ctes") /\ q \in InField(c, "ctequery")

LEMMA DeclaredParts ==
  ASSUME TextOK, NEW p \in Ids, NEW w, NEW c, NEW q, Declares(p, w, c, q)
  PROVE  /\ w \in Ids /\ c \in Ids /\ q \in Ids
         /\ Parent(w) = p /\ Parent(c) = w /\ Parent(q) = c
         /\ messages[w].kind = "WithClause" /\ messages[c].kind = "CommonTableExpr"
         /\ messages[q].kind \in StatementKinds
<1>1. /\ w \in Ids /\ c \in Ids /\ q \in Ids
      /\ Parent(w) = p /\ Parent(c) = w /\ Parent(q) = c
      /\ messages[w].field = "with_clause" /\ messages[c].field = "ctes"
      /\ messages[q].field = "ctequery"
  BY DEF Declares, InField, Parent
<1>2. Standing(messages, w) /\ Standing(messages, c) /\ Standing(messages, q)
  BY <1>1, TextFacts
<1>3. QED
  BY <1>1, <1>2 DEF Standing

\* What a declared statement declares is declared, and it is below it.
LEMMA DeclaredDown ==
  ASSUME TextOK, NEW p \in Declared, NEW w, NEW c, NEW q, Declares(p, w, c, q)
  PROVE  /\ q \in Declared
         /\ \A m \in Within(q) : m \in Within(c) /\ m \in Within(p) /\ m # p /\ Precedes(p, m)
<1>1. p \in Ids /\ p # 0
  BY Earlier DEF Declared, StatementIds
<1>2. /\ w \in Ids /\ c \in Ids /\ q \in Ids
      /\ Parent(w) = p /\ Parent(c) = w /\ Parent(q) = c
      /\ messages[w].kind = "WithClause" /\ messages[c].kind = "CommonTableExpr"
      /\ messages[q].kind \in StatementKinds
  BY <1>1, DeclaredParts
<1>3. w # 0 /\ c # 0
  BY <1>2, Earlier
<1>4. /\ Enclosing[w] = {w} \cup Enclosing[p] /\ Enclosing[c] = {c} \cup Enclosing[w]
      /\ Enclosing[q] = {q} \cup Enclosing[c]
  BY <1>1, <1>2, <1>3, EnclosingEquation
<1>5. q \in Declared
  <2>1. ASSUME NEW m \in Enclosing[q]
        PROVE  messages[m].field \in {"stmts", "with_clause", "ctes", "ctequery"}
    <3>1. m \in Enclosing[p] \/ m = w \/ m = c \/ m = q
      BY <1>4
    <3>2. QED
      BY <3>1 DEF Declared, Declares, InField
  <2>2. QED
    BY <1>2, <2>1 DEF Declared, StatementIds
<1>6. ASSUME NEW m \in Within(q)
      PROVE  m \in Within(c) /\ m \in Within(p) /\ m # p /\ Precedes(p, m)
  <2>1. m \in Within(c)
    BY <1>2, Branches
  <2>2. m \in Within(w)
    BY <1>2, <2>1, Branches
  <2>3. QED
    BY <1>1, <1>2, <2>1, <2>2, Branches
<1>7. QED
  BY <1>5, <1>6

\* The field of a statement that leads to a declared one is its WITH clause.
LEMMA OnlyWith ==
  ASSUME TextOK, NEW n \in Ids, NEW m \in Ids, Parent(m) = n,
         messages[m].field \in {"stmts", "with_clause", "ctes", "ctequery"}
  PROVE  /\ messages[n].kind \in StatementKinds => messages[m].field = "with_clause"
         /\ messages[n].kind = "WithClause" => messages[m].field = "ctes"
         /\ messages[n].kind = "CommonTableExpr" => messages[m].field = "ctequery"
<1> DEFINE names == Fields[messages[n].kind]
<1>1. n # 0 /\ messages[m].parent = n
  BY Earlier DEF Parent
<1>2. PICK k \in 1..Len(names) : names[k] = messages[m].field
  BY <1>1, TextFacts DEF Standing
<1>3. Fields["SelectStmt"] = <<"distinct_clause", "from_clause", "with_clause", "larg">>
  BY DEF Fields
<1>4. Fields["DeleteStmt"] = <<"with_clause">> /\ Fields["ExplainStmt"] = <<"query">>
      /\ Fields["WithClause"] = <<"ctes">> /\ Fields["CommonTableExpr"] = <<"ctequery">>
  BY DEF Fields
<1>5. CASE messages[n].kind = "SelectStmt"
  <2>1. names = <<"distinct_clause", "from_clause", "with_clause", "larg">>
    BY <1>3, <1>5
  <2> HIDE DEF names
  <2>2. k = 1 \/ k = 2 \/ k = 3 \/ k = 4
    BY <1>2, <2>1
  <2>3. names[1] = "distinct_clause" /\ names[2] = "from_clause" /\ names[3] = "with_clause"
        /\ names[4] = "larg"
    BY <2>1
  <2>4. messages[m].field = "with_clause"
    BY <1>2, <2>2, <2>3
  <2>5. QED
    BY <1>5, <2>4
<1>6. CASE messages[n].kind \in {"DeleteStmt", "ExplainStmt", "WithClause", "CommonTableExpr"}
  <2>1. Len(names) = 1
    BY <1>6, OneName
  <2>2. k = 1
    <3> HIDE DEF names
    <3>1. QED
      BY <1>2, <2>1
  <2>3. messages[m].field = names[1]
    BY <1>2, <2>2
  <2>4. /\ messages[n].kind = "DeleteStmt" => names[1] = "with_clause"
        /\ messages[n].kind = "ExplainStmt" => names[1] = "query"
        /\ messages[n].kind = "WithClause" => names[1] = "ctes"
        /\ messages[n].kind = "CommonTableExpr" => names[1] = "ctequery"
    BY <1>4
  <2> HIDE DEF names
  <2>5. QED
    BY <1>6, <2>3, <2>4 DEF StatementKinds
<1>7. QED
  BY <1>5, <1>6 DEF StatementKinds

\* What is declared below a declared statement is below one that it declares.
LEMMA DeclaredUp ==
  ASSUME TextOK, NEW p \in Declared, NEW m \in Within(p), m \in Declared, m # p
  PROVE  \E w, c, q \in Ids : Declares(p, w, c, q) /\ m \in Within(q)
<1>1. p \in Ids /\ messages[p].kind \in StatementKinds
      /\ m \in Ids /\ messages[m].kind \in StatementKinds
      /\ \A x \in Enclosing[m] :
           messages[x].field \in {"stmts", "with_clause", "ctes", "ctequery"}
  BY DEF Declared, StatementIds
<1>2. PICK w \in Ids : Parent(w) = p /\ m \in Within(w)
  BY <1>1, Branches
<1>3. messages[w].field = "with_clause"
  <2>1. w \in Enclosing[m]
    BY <1>2 DEF Within
  <2>2. QED
    BY <1>1, <1>2, <2>1, OnlyWith
<1>4. messages[w].kind = "WithClause" /\ m # w
  BY <1>1, <1>3, TextFacts DEF Standing, StatementKinds
<1>5. PICK c \in Ids : Parent(c) = w /\ m \in Within(c)
  BY <1>2, <1>4, Branches
<1>6. messages[c].field = "ctes"
  <2>1. c \in Enclosing[m]
    BY <1>5 DEF Within
  <2>2. QED
    BY <1>1, <1>4, <1>5, <2>1, OnlyWith
<1>7. messages[c].kind = "CommonTableExpr" /\ m # c
  BY <1>1, <1>6, TextFacts DEF Standing, StatementKinds
<1>8. PICK q \in Ids : Parent(q) = c /\ m \in Within(q)
  BY <1>5, <1>7, Branches
<1>9. messages[q].field = "ctequery"
  <2>1. q \in Enclosing[m]
    BY <1>8 DEF Within
  <2>2. QED
    BY <1>1, <1>7, <1>8, <2>1, OnlyWith
<1>10. Declares(p, w, c, q)
  BY <1>2, <1>3, <1>5, <1>6, <1>8, <1>9 DEF Declares, InField, Parent
<1>11. QED
  BY <1>8, <1>10

\* The tree is the conversion of the text.
TreeOK == tree = [n \in {0} \cup Ids |-> convertPGNode(n)]

LEMMA NodeAt ==
  ASSUME TextOK, TreeOK
  PROVE  /\ tree[0] = NilNode
         /\ \A n \in Ids : tree[n] = convertMessage(n)
         /\ \A n \in Ids : tree[n] = NilNode <=> messages[n].kind = "Empty"
<1>1. tree[0] = NilNode
  BY DEF TreeOK, convertPGNode
<1>2. ASSUME NEW n \in Ids PROVE tree[n] = convertMessage(n)
  <2>1. n # 0
    BY Earlier
  <2>2. QED
    BY <2>1 DEF TreeOK, convertPGNode
<1>3. ASSUME NEW n \in Ids, messages[n].kind # "Empty" PROVE convertMessage(n) # NilNode
  <2>1. messages[n].kind \in Kinds
    BY Earlier
  <2>2. messages[n].kind # ""
    BY <2>1 DEF Kinds
  <2>3. convertMessage(n).kind = messages[n].kind
    BY <1>3 DEF convertMessage
  <2>4. NilNode.kind = ""
    BY DEF NilNode
  <2>5. QED
    BY <2>2, <2>3, <2>4
<1>4. ASSUME NEW n \in Ids, messages[n].kind = "Empty" PROVE convertMessage(n) = NilNode
  BY <1>4 DEF convertMessage
<1>5. QED
  BY <1>1, <1>2, <1>3, <1>4

\* The CTEs of a WITH clause are the ones the text has, in order; nil has none.
LEMMA CTEsOf ==
  ASSUME TextOK, TreeOK, NEW w \in {0} \cup Ids, w # 0 => messages[w].kind = "WithClause"
  PROVE  LET ctes == CTEs(tree[w])
         IN  /\ ctes \in Seq(Ids) /\ \A k, l \in 1..Len(ctes) : k < l => ctes[k] < ctes[l]
             /\ Elements(ctes) = IF w = 0 THEN {} ELSE InField(w, "ctes")
<1>1. << >> \in Seq(Ids) /\ Len(<< >>) = 0 /\ Elements(<< >>) = {}
  BY DEF Elements
<1>2. CASE w = 0
  <2>1. tree[w] = NilNode
    BY <1>2, NodeAt
  <2>2. ~HasField(NilNode, "ctes")
    BY DEF HasField, NilNode
  <2>3. CTEs(tree[w]) = << >>
    BY <2>1, <2>2 DEF CTEs
  <2>4. QED
    BY <1>1, <1>2, <2>3
<1>3. CASE w # 0
  <2> DEFINE there == InField(w, "ctes")
             list == InOrder(there)
  <2>1. w \in Ids /\ tree[w] = convertMessage(w)
    BY <1>3, NodeAt
  <2>2. /\ HasField(tree[w], "ctes") <=> there # {}
        /\ there # {} => FieldOf(tree[w], "ctes") = convertValue(w, "ctes")
    BY <1>3, <2>1, FieldAt
  <2>3. there \in SUBSET Ids
    BY DEF InField
  <2>4. /\ list \in Seq(Ids) /\ Elements(list) = there
        /\ \A k, l \in 1..Len(list) : k < l => list[k] < list[l]
    BY <2>3, SomeIds
  <2>5. CASE there = {}
    <3>1. CTEs(tree[w]) = << >> /\ InField(w, "ctes") = {}
      BY <2>2, <2>5, Zenon DEF CTEs
    <3>2. Elements(CTEs(tree[w])) = InField(w, "ctes")
      BY <1>1, <3>1, Zenon
    <3>3. CTEs(tree[w]) \in Seq(Ids) /\ Len(CTEs(tree[w])) = 0
      BY <1>1, <3>1, Zenon
    <3>4. QED
      BY <1>3, <3>2, <3>3
  <2>6. CASE there # {}
    <3>1. FieldOf(tree[w], "ctes") = [list |-> IsList("ctes"), nodes |-> list] /\ IsList("ctes")
      BY <2>2, <2>6 DEF convertValue, IsList
    <3> HIDE DEF list, there
    <3>2. FieldOf(tree[w], "ctes").list /\ FieldOf(tree[w], "ctes").nodes = list
      BY <3>1
    <3>3. HasField(tree[w], "ctes")
      BY <2>2, <2>6
    <3>4. CTEs(tree[w]) = list
      BY <3>2, <3>3 DEF CTEs
    <3>5. QED
      BY <1>3, <2>4, <3>4 DEF there
  <2>7. QED
    BY <2>5, <2>6
<1>4. QED
  BY <1>2, <1>3

\* Declarations gives the statement of each CTE, in order.
LEMMA DeclarationsOf ==
  ASSUME TextOK, TreeOK, NEW p \in Declared
  PROVE  LET kids == Declarations(p)
         IN  \E w \in {0} \cup Ids, ctes \in Seq(Ids) :
               /\ InField(p, "with_clause") = IF w = 0 THEN {} ELSE {w}
               /\ Elements(ctes) = IF w = 0 THEN {} ELSE InField(w, "ctes")
               /\ \A k, l \in 1..Len(ctes) : k < l => ctes[k] < ctes[l]
               /\ kids \in Seq({0} \cup Ids) /\ Len(kids) = Len(ctes)
               /\ \A k \in 1..Len(ctes) :
                    InField(ctes[k], "ctequery") = IF kids[k] = 0 THEN {} ELSE {kids[k]}
<1> DEFINE w == nodeField(tree[p], "with_clause")
           ctes == CTEs(tree[w])
           query(c) == nodeField(tree[c], "ctequery")
           kids == Declarations(p)
<1>1. p \in Ids /\ messages[p].kind # "Empty" /\ tree[p] = convertMessage(p)
  BY NodeAt DEF Declared, StatementIds, StatementKinds
<1>2. ~IsList("with_clause") /\ ~IsList("ctequery")
  BY DEF IsList
<1>3. \A n \in Ids : n # 0
  BY Earlier
<1>4. w \in {0} \cup Ids /\ InField(p, "with_clause") = IF w = 0 THEN {} ELSE {w}
  <2>1. \/ w = 0 /\ InField(p, "with_clause") = {}
        \/ w \in Ids /\ InField(p, "with_clause") = {w}
    BY <1>1, <1>2, SingleField
  <2>2. QED
    BY <1>3, <2>1
<1> HIDE DEF w
<1>5. w # 0 => messages[w].kind = "WithClause"
  <2>1. ASSUME w # 0 PROVE messages[w].kind = "WithClause"
    <3>1. w \in Ids /\ messages[w].field = "with_clause"
      BY <1>4, <2>1 DEF InField
    <3>2. QED
      BY <3>1, TextFacts DEF Standing
  <2>2. QED
    BY <2>1
<1>6. /\ ctes \in Seq(Ids) /\ \A k, l \in 1..Len(ctes) : k < l => ctes[k] < ctes[l]
      /\ Elements(ctes) = IF w = 0 THEN {} ELSE InField(w, "ctes")
  BY <1>4, <1>5, CTEsOf
<1>7. kids = [k \in 1..Len(ctes) |-> query(ctes[k])]
  BY DEF Declarations, w
<1> HIDE DEF ctes
<1>8. ASSUME NEW k \in 1..Len(ctes)
      PROVE  /\ query(ctes[k]) \in {0} \cup Ids
             /\ InField(ctes[k], "ctequery") = IF query(ctes[k]) = 0 THEN {} ELSE {query(ctes[k])}
  <2> DEFINE c == ctes[k]
  <2>1. c \in Ids /\ c \in InField(w, "ctes")
    <3>1. c \in Elements(ctes) /\ c \in Ids
      BY <1>6 DEF Elements
    <3>2. QED
      BY <1>6, <3>1
  <2>2. messages[c].kind = "CommonTableExpr"
    BY <2>1, TextFacts DEF InField, Standing
  <2>3. tree[c] = convertMessage(c)
    BY <2>1, NodeAt
  <2> HIDE DEF c
  <2>4. \/ query(c) = 0 /\ InField(c, "ctequery") = {}
        \/ query(c) \in Ids /\ InField(c, "ctequery") = {query(c)}
    BY <1>2, <2>1, <2>2, <2>3, SingleField
  <2>5. query(c) \in {0} \cup Ids
        /\ InField(c, "ctequery") = IF query(c) = 0 THEN {} ELSE {query(c)}
    BY <1>3, <2>4
  <2>6. QED
    BY <2>5 DEF c
<1> HIDE DEF query, kids
<1>9. kids \in Seq({0} \cup Ids) /\ Len(kids) = Len(ctes)
  <2>1. kids \in [1..Len(ctes) -> {0} \cup Ids]
    BY <1>7, <1>8, Zenon
  <2> HIDE DEF ctes
  <2>2. ASSUME NEW S, NEW n \in Nat, NEW f \in [1..n -> S] PROVE f \in Seq(S) /\ Len(f) = n
    OBVIOUS
  <2>3. Len(ctes) \in Nat
    BY <1>6
  <2>4. QED
    BY <2>1, <2>2, <2>3, Zenon
<1>10. \A k \in 1..Len(ctes) :
         InField(ctes[k], "ctequery") = IF kids[k] = 0 THEN {} ELSE {kids[k]}
  BY <1>7, <1>8
<1>11. QED
  BY <1>4, <1>6, <1>9, <1>10 DEF kids

\* Messages of one field come one before the other as they do in the text.
LEMMA SameField ==
  ASSUME TextOK, NEW n, NEW field, NEW x \in InField(n, field), NEW y \in InField(n, field), x < y
  PROVE  Before(x, y)
<1>1. x \in Ids /\ y \in Ids /\ Parent(x) = n /\ Parent(y) = n
      /\ messages[x].field = field /\ messages[y].field = field
  BY DEF InField, Parent
<1>2. Place(x) = Place(y)
  <2>1. CASE n = 0
    BY <1>1, <2>1 DEF Place, Parent
  <2>2. CASE n # 0
    <3> DEFINE names == Fields[messages[n].kind]
    <3>1. Place(y) \in 1..Len(names) /\ names[Place(y)] = field
      BY <1>1, <2>2, Placed
    <3>2. \A k \in 1..Len(names) : names[k] = field => Place(x) = k
      BY <1>1, <2>2, Placed
    <3> HIDE DEF names
    <3>3. QED
      BY <3>1, <3>2
  <2>3. QED
    BY <2>1, <2>2
<1>3. QED
  BY <1>1, <1>2 DEF Before, Parent

LEMMA DeclaredIds ==
  ASSUME TextOK
  PROVE  /\ DeclaredBelow[0] = {}
         /\ \A n \in Declared : n \in Ids /\ n # 0 /\ DeclaredBelow[n] = Within(n) \cap Declared
<1>1. DeclaredBelow[0] = {}
  BY DEF DeclaredBelow
<1>2. ASSUME NEW n \in Declared
      PROVE  n \in Ids /\ n # 0 /\ DeclaredBelow[n] = Within(n) \cap Declared
  <2>1. n \in Ids
    BY DEF Declared, StatementIds
  <2>2. n # 0
    BY <2>1, Earlier
  <2>3. QED
    BY <2>1, <2>2 DEF DeclaredBelow
<1>3. QED
  BY <1>1, <1>2

\* A declared statement's declarations are what SpreadStep asks for.
LEMMA DeclaredKids ==
  ASSUME TextOK, TreeOK, NEW p \in Declared
  PROVE  LET kids == Declarations(p)
             T == {0} \cup Declared
         IN  /\ kids \in Seq(T) /\ Ordered(kids, Blocks(T, DeclaredBelow))
             /\ \A n : n \in DeclaredBelow[p]
                         <=> n = p \/ \E c \in Elements(kids) : n \in DeclaredBelow[c]
             /\ \A c \in Elements(kids) : \A n \in DeclaredBelow[c] : Precedes(p, n)
<1> DEFINE kids == Declarations(p)
           T == {0} \cup Declared
<1>1. PICK w \in {0} \cup Ids, ctes \in Seq(Ids) :
        /\ InField(p, "with_clause") = IF w = 0 THEN {} ELSE {w}
        /\ Elements(ctes) = IF w = 0 THEN {} ELSE InField(w, "ctes")
        /\ \A k, l \in 1..Len(ctes) : k < l => ctes[k] < ctes[l]
        /\ kids \in Seq({0} \cup Ids) /\ Len(kids) = Len(ctes)
        /\ \A k \in 1..Len(ctes) :
             InField(ctes[k], "ctequery") = IF kids[k] = 0 THEN {} ELSE {kids[k]}
  BY DeclarationsOf
<1> HIDE DEF kids
<1>2. p \in Ids /\ DeclaredBelow[p] = Within(p) \cap Declared /\ DeclaredBelow[0] = {}
  BY DeclaredIds
<1>3. ASSUME NEW k \in 1..Len(kids)
      PROVE  w # 0 /\ ctes[k] \in InField(w, "ctes") /\ w \in InField(p, "with_clause")
  <2>1. ctes[k] \in Elements(ctes)
    BY <1>1 DEF Elements
  <2>2. w # 0
    BY <1>1, <2>1
  <2>3. QED
    BY <1>1, <2>1, <2>2
<1>4. ASSUME NEW k \in 1..Len(kids), kids[k] # 0 PROVE Declares(p, w, ctes[k], kids[k])
  <2>1. kids[k] \in InField(ctes[k], "ctequery")
    BY <1>1, <1>4
  <2>2. QED
    BY <1>3, <2>1 DEF Declares
<1>5. ASSUME NEW k \in 1..Len(kids), kids[k] # 0
      PROVE  /\ kids[k] \in Declared
             /\ DeclaredBelow[kids[k]] = Within(kids[k]) \cap Declared
             /\ \A m \in Within(kids[k]) :
                  m \in Within(ctes[k]) /\ m \in Within(p) /\ Precedes(p, m)
  BY <1>4, <1>5, DeclaredDown, DeclaredIds
<1>6. kids \in Seq(T)
  <2>1. ASSUME NEW k \in 1..Len(kids) PROVE kids[k] \in T
    BY <1>5
  <2> HIDE DEF T
  <2>2. QED
    BY <1>1, <2>1
<1>7. ASSUME NEW k \in 1..Len(kids), NEW n \in DeclaredBelow[kids[k]]
      PROVE  /\ kids[k] # 0 /\ n \in Within(ctes[k]) /\ n \in DeclaredBelow[p] /\ Precedes(p, n)
  <2>1. kids[k] # 0
    BY <1>2, <1>7
  <2>2. n \in Within(kids[k]) /\ n \in Declared
    BY <1>5, <1>7, <2>1
  <2>3. QED
    BY <1>2, <1>5, <2>1, <2>2
<1>8. Ordered(kids, Blocks(T, DeclaredBelow))
  <2>1. ASSUME NEW k \in 1..Len(kids), NEW l \in 1..Len(kids), k < l,
               NEW m \in DeclaredBelow[kids[k]], NEW n \in DeclaredBelow[kids[l]]
        PROVE  Precedes(m, n)
    <3>1. m \in Within(ctes[k]) /\ n \in Within(ctes[l])
      BY <1>7
    <3>2. ctes[k] \in InField(w, "ctes") /\ ctes[l] \in InField(w, "ctes") /\ ctes[k] < ctes[l]
      BY <1>1, <1>3, <2>1
    <3>3. Before(ctes[k], ctes[l])
      BY <3>2, SameField
    <3>4. QED
      BY <3>1, <3>3, Siblings
  <2>2. QED
    BY <1>6, <2>1, Blockwise
<1>9. ASSUME NEW n \in DeclaredBelow[p], n # p
      PROVE  \E c \in Elements(kids) : n \in DeclaredBelow[c]
  <2>1. n \in Within(p) /\ n \in Declared
    BY <1>2
  <2>2. PICK v, c, q \in Ids : Declares(p, v, c, q) /\ n \in Within(q)
    BY <1>9, <2>1, DeclaredUp
  <2>3. v = w /\ w # 0
    BY <1>1, <2>2 DEF Declares
  <2>4. c \in Elements(ctes)
    BY <1>1, <2>2, <2>3 DEF Declares
  <2>5. PICK k \in 1..Len(ctes) : c = ctes[k]
    BY <2>4 DEF Elements
  <2>6. q = kids[k] /\ kids[k] # 0
    BY <1>1, <2>2, <2>5 DEF Declares
  <2>7. n \in DeclaredBelow[kids[k]] /\ k \in 1..Len(kids)
    BY <1>1, <1>5, <2>1, <2>2, <2>6
  <2>8. QED
    BY <2>7 DEF Elements
<1>10. p \in DeclaredBelow[p]
  BY <1>2, Belows
<1>11. \A c \in Elements(kids) : \A n \in DeclaredBelow[c] : n \in DeclaredBelow[p] /\ Precedes(p, n)
  BY <1>7 DEF Elements
<1>12. QED
  BY <1>6, <1>8, <1>9, <1>10, <1>11 DEF kids

-----------------------------------------------------------------------------
(* Where the traversals begin.                                             *)

\* The roots come in the order of the text, and every declared statement is below one.
LEMMA RootsSpread ==
  ASSUME TextOK
  PROVE  /\ InOrder(Roots) \in Seq({0} \cup Declared)
         /\ Spread(<< >>, InOrder(Roots), DeclaredBelow, Declared)
<1> DEFINE T == {0} \cup Declared
           roots == InOrder(Roots)
<1>1. Roots = InField(0, "stmts") /\ Roots \in SUBSET Ids
  BY TextFacts DEF Roots, InField, Standing
<1>2. ASSUME NEW r \in Roots PROVE r \in Declared
  <2>1. r \in Ids /\ Parent(r) = 0 /\ messages[r].field = "stmts" /\ messages[r].kind \in StatementKinds
    BY <1>1, TextFacts DEF Roots, Parent, Standing
  <2>2. Enclosing[r] = {r}
    BY <2>1, EnclosingEquation
  <2>3. QED
    BY <2>1, <2>2 DEF Declared, StatementIds
<1>3. /\ roots \in Seq(Ids) /\ Elements(roots) = Roots
      /\ \A k, l \in 1..Len(roots) : k < l => roots[k] < roots[l]
  BY <1>1, SomeIds
<1> HIDE DEF roots
<1>4. ASSUME NEW k \in 1..Len(roots) PROVE roots[k] \in Roots
  BY <1>3 DEF Elements
<1>5. roots \in Seq(T)
  <2>1. ASSUME NEW k \in 1..Len(roots) PROVE roots[k] \in T
    BY <1>2, <1>4
  <2> HIDE DEF T
  <2>2. QED
    BY <1>3, <2>1
<1>6. ASSUME NEW k \in 1..Len(roots), NEW l \in 1..Len(roots), k < l,
             NEW m \in DeclaredBelow[roots[k]], NEW n \in DeclaredBelow[roots[l]]
      PROVE  Precedes(m, n)
  <2>1. m \in Within(roots[k]) /\ n \in Within(roots[l])
    BY <1>2, <1>4, DeclaredIds
  <2>2. Before(roots[k], roots[l])
    BY <1>1, <1>3, <1>4, <1>6, SameField
  <2>3. QED
    BY <2>1, <2>2, Siblings
<1>7. ASSUME NEW n \in Declared PROVE \E x \in Elements(roots) : n \in DeclaredBelow[x]
  <2>1. n \in Ids
    BY DeclaredIds
  <2>2. PICK r \in Enclosing[n] : Parent(r) = 0
    BY <2>1, Chains DEF Chain
  <2>3. r \in Ids
    BY <2>1, Chains DEF Chain
  <2>4. r \in Roots /\ n \in Within(r)
    BY <2>1, <2>2, <2>3 DEF Roots, Parent, Within
  <2>5. n \in DeclaredBelow[r]
    BY <1>2, <2>4, DeclaredIds
  <2>6. QED
    BY <1>3, <2>4, <2>5
<1>8. ASSUME NEW x \in Elements(roots), NEW n \in DeclaredBelow[x] PROVE n \in Declared
  BY <1>2, <1>3, DeclaredIds
<1>9. Len(<< >>) = 0 /\ 1..0 = {} /\ Elements(<< >>) = {}
  BY DEF Elements
<1>10. InPreOrder(<< >>)
  BY <1>9 DEF InPreOrder
<1>11. Spread(<< >>, roots, DeclaredBelow, Declared)
  BY <1>6, <1>7, <1>8, <1>9, <1>10 DEF Spread
<1>12. QED
  BY <1>5, <1>11 DEF roots

\* A walk begins at its root.
LEMMA WalkSpread ==
  ASSUME NEW n \in Ids PROVE Spread(<< >>, <<n>>, Below, Within(n))
<1>1. Len(<< >>) = 0 /\ 1..0 = {} /\ Elements(<< >>) = {}
  BY DEF Elements
<1>2. Len(<<n>>) = 1 /\ 1..1 = {1} /\ Elements(<<n>>) = {n}
  BY DEF Elements
<1>3. InPreOrder(<< >>)
  BY <1>1 DEF InPreOrder
<1>4. Below[n] = Within(n)
  BY DEF Below
<1>5. QED
  BY <1>1, <1>2, <1>3, <1>4 DEF Spread

\* A node's child values are what SpreadStep asks for.
LEMMA WalkKids ==
  ASSUME TextOK, NEW p \in Ids, messages[p].kind # "Empty"
  PROVE  LET kids == ChildValues(convertMessage(p))
         IN  /\ kids \in Seq(Ids) /\ Ordered(kids, Blocks(Ids, Below))
             /\ \A n : n \in Below[p] <=> n = p \/ \E c \in Elements(kids) : n \in Below[c]
             /\ \A c \in Elements(kids) : \A n \in Below[c] : Precedes(p, n)
<1> DEFINE kids == ChildValues(convertMessage(p))
<1>1. kids \in Seq(Ids) /\ Ordered(kids, SiblingOrder)
      /\ Elements(kids) = {m \in Ids : Parent(m) = p}
  BY Children
<1> HIDE DEF kids
<1>2. \A n \in Ids : Below[n] = Within(n)
  BY DEF Below
<1>3. Ordered(kids, Blocks(Ids, Below))
  <2>1. ASSUME NEW k \in 1..Len(kids), NEW l \in 1..Len(kids), k < l,
               NEW m \in Below[kids[k]], NEW n \in Below[kids[l]]
        PROVE  Precedes(m, n)
    <3>1. kids[k] \in Ids /\ kids[l] \in Ids
      BY <1>1
    <3>2. <<kids[k], kids[l]>> \in SiblingOrder
      BY <1>1, <2>1 DEF Ordered
    <3>3. Before(kids[k], kids[l])
      BY <3>2 DEF SiblingOrder
    <3>4. QED
      BY <1>2, <3>1, <3>3, Siblings
  <2>2. QED
    BY <1>1, <2>1, Blockwise
<1>4. ASSUME NEW n \in Below[p], n # p PROVE \E c \in Elements(kids) : n \in Below[c]
  BY <1>1, <1>2, <1>4, Branches
<1>5. p \in Below[p]
  BY <1>2, Belows
<1>6. \A c \in Elements(kids) : \A n \in Below[c] : n \in Below[p] /\ Precedes(p, n)
  BY <1>1, <1>2, Branches
<1>7. QED
  BY <1>1, <1>3, <1>4, <1>5, <1>6 DEF kids

\* Nothing stands in an empty message.
LEMMA EmptyBelow ==
  ASSUME TextOK, NEW e \in Ids, messages[e].kind = "Empty" PROVE Within(e) = {e}
<1>1. Fields["Empty"] = << >> /\ Len(<< >>) = 0 /\ 1..0 = {}
  BY DEF Fields
<1>2. ASSUME NEW c \in Ids, Parent(c) = e PROVE FALSE
  <2>1. e # 0
    BY Earlier
  <2>2. \E k \in 1..Len(Fields[messages[e].kind]) : TRUE
    BY <1>2, <2>1, TextFacts DEF Standing, Parent
  <2>3. QED
    BY <1>1, <2>2
<1>3. \A m \in Within(e) : m = e
  BY <1>2, Branches
<1>4. QED
  BY <1>3, Belows


-----------------------------------------------------------------------------
(* What a step that leaves the text alone leaves alone.                    *)

LEMMA SameText ==
  ASSUME messages' = messages
  PROVE  Enclosing' = Enclosing /\ Ids' = Ids /\ (TextOK' <=> TextOK)
         /\ \A m, n : Precedes(m, n)' <=> Precedes(m, n)
<1>1. Enclosing' = Enclosing /\ Ids' = Ids
  BY DEF Enclosing, Ids
<1>2. TextOK' <=> TextOK
  BY DEF TextOK, WellFormed
<1>3. ASSUME NEW m, NEW n PROVE Precedes(m, n)' <=> Precedes(m, n)
  BY <1>1 DEF Precedes, Place
<1>4. QED
  BY <1>1, <1>2, <1>3

\* What WalkOK and WalkIsPreOrder say, of w instead of walk.
Going(w) ==
  /\ w \in [root : Nat, left : Seq(Ids), seen : Seq(Ids), stopped : Nat]
  /\ w.root = 0 => w.left = << >> /\ w.seen = << >>
  /\ w.root # 0 => w.root \in Ids
  /\ w.left # << >> =>
       /\ w.stopped = 0
       /\ Spread(w.seen, w.left, Below, Within(w.root))
       /\ \A n \in Elements(w.seen) : messages[n].kind # "Empty"

Visits(w) ==
  LET unvisited == Body(w.root) \ Elements(w.seen)
  IN  w.root # 0 =>
        /\ Elements(w.seen) \subseteq Body(w.root)
        /\ InPreOrder(w.seen)
        /\ w.stopped # 0 => w.seen[Len(w.seen)] = w.stopped
        /\ \A m \in Elements(w.seen), n \in unvisited : Precedes(m, n)
        /\ \/ w.left # << >> \/ unvisited = {} \/ w.stopped # 0
           \/ \E e \in Within(w.root) :
                /\ messages[e].kind = "Empty"
                /\ \A m \in Elements(w.seen) : Precedes(m, e)
                /\ \A n \in unvisited : Precedes(e, n)

LEMMA WalkNow == (WalkOK <=> Going(walk)) /\ (WalkIsPreOrder <=> Visits(walk))
<1>1. WalkOK <=> Going(walk)
  BY DEF WalkOK, Going, Walking
<1>2. WalkIsPreOrder <=> Visits(walk)
  BY DEF WalkIsPreOrder, Visits, Walking, Unvisited
<1>3. QED
  BY <1>1, <1>2

LEMMA WalkNext ==
  ASSUME messages' = messages, NEW w, walk' = w, Going(w), Visits(w)
  PROVE  WalkOK' /\ WalkIsPreOrder'
<1>1. Enclosing' = Enclosing /\ Ids' = Ids /\ \A m, n : Precedes(m, n)' <=> Precedes(m, n)
  BY SameText
<1>2. WalkOK'
  <2>1. Below' = Below
    BY <1>1 DEF Below, Within
  <2>2. Spread(w.seen, w.left, Below, Within(w.root))
           => Spread(walk.seen, walk.left, Below, Within(walk.root))'
    <3>1. ASSUME Spread(w.seen, w.left, Below, Within(w.root))
          PROVE  InPreOrder(walk.seen)'
      BY <1>1, <3>1 DEF Spread, InPreOrder
    <3>2. ASSUME Spread(w.seen, w.left, Below, Within(w.root))
          PROVE  (\A m \in Elements(walk.seen), x \in Elements(walk.left) :
                    \A n \in Below[x] : Precedes(m, n))'
      <4>1. Elements(walk.seen)' = Elements(w.seen) /\ Elements(walk.left)' = Elements(w.left)
        BY DEF Elements
      <4>2. ASSUME NEW m \in Elements(w.seen), NEW x \in Elements(w.left), NEW n \in Below[x]
            PROVE  Precedes(m, n)'
        BY <1>1, <3>2 DEF Spread
      <4>3. QED
        BY <2>1, <4>1, <4>2
    <3>3. ASSUME Spread(w.seen, w.left, Below, Within(w.root))
          PROVE  (\A k, l \in 1..Len(walk.left) : k < l =>
                    \A m \in Below[walk.left[k]], n \in Below[walk.left[l]] : Precedes(m, n))'
      BY <1>1, <2>1, <3>3 DEF Spread
    <3>4. ASSUME Spread(w.seen, w.left, Below, Within(w.root))
          PROVE  (\A n : n \in Within(walk.root) <=>
                    n \in Elements(walk.seen) \/ \E x \in Elements(walk.left) : n \in Below[x])'
      BY <1>1, <2>1, <3>4 DEF Spread, Elements, Within
    <3>5. QED
      BY <3>1, <3>2, <3>3, <3>4 DEF Spread
  <2>3. (\A n \in Elements(w.seen) : messages[n].kind # "Empty")
           => (\A n \in Elements(walk.seen) : messages[n].kind # "Empty")'
    BY DEF Elements
  <2>4. QED
    BY <1>1, <2>2, <2>3 DEF WalkOK, Going, Walking
<1>3. WalkIsPreOrder'
  BY <1>1 DEF WalkIsPreOrder, Visits, Walking, Unvisited, Body, InPreOrder, Within, Elements
<1>4. QED
  BY <1>2, <1>3

-----------------------------------------------------------------------------
(* Node.Walk.                                                              *)

\* What Spread says of a walk.
LEMMA Visiting ==
  ASSUME TextOK, NEW root \in Ids, NEW seen \in Seq(Ids), NEW left \in Seq(Ids),
         Spread(seen, left, Below, Within(root)),
         \A n \in Elements(seen) : messages[n].kind # "Empty"
  PROVE  LET unvisited == Body(root) \ Elements(seen)
         IN  /\ Elements(seen) \subseteq Body(root) /\ InPreOrder(seen)
             /\ \A m \in Elements(seen), n \in unvisited : Precedes(m, n)
             /\ left = << >> => unvisited = {}
<1>1. Elements(seen) \subseteq Body(root) /\ InPreOrder(seen)
  BY DEF Spread, Body
<1>2. ASSUME NEW n \in Body(root), n \notin Elements(seen)
      PROVE  \E x \in Elements(left) : n \in Below[x]
  BY <1>2 DEF Spread, Body
<1>3. ASSUME NEW m \in Elements(seen), NEW n \in Body(root), n \notin Elements(seen)
      PROVE  Precedes(m, n)
  BY <1>2, <1>3 DEF Spread
<1>4. left = << >> => Elements(left) = {}
  BY DEF Elements
<1>5. QED
  BY <1>1, <1>2, <1>3, <1>4

\* A walk of which some fields are replaced.
LEMMA Updated ==
  ASSUME NEW N, NEW S, NEW w \in [root : N, left : S, seen : S, stopped : N],
         NEW left \in S, NEW seen \in S, NEW stopped \in N
  PROVE  LET new == [w EXCEPT !.seen = seen, !.stopped = stopped, !.left = left]
         IN  /\ new \in [root : N, left : S, seen : S, stopped : N]
             /\ new.root = w.root /\ new.left = left /\ new.seen = seen /\ new.stopped = stopped
  BY Zenon

LEMMA Ended ==
  ASSUME NEW N, NEW S, NEW w \in [root : N, left : S, seen : S, stopped : N], NEW left \in S
  PROVE  LET new == [w EXCEPT !.left = left]
         IN  /\ new \in [root : N, left : S, seen : S, stopped : N]
             /\ new.root = w.root /\ new.left = left /\ new.seen = w.seen
             /\ new.stopped = w.stopped
  BY Zenon

\* One node more is visited.
LEMMA VisitNode ==
  ASSUME TextOK, NEW w, Going(w), w.left # << >>, NEW p, p = Head(w.left),
         messages[p].kind # "Empty", NEW kids, kids = ChildValues(convertMessage(p)), NEW more \in BOOLEAN
  PROVE  LET new == [w EXCEPT !.seen = Append(@, p), !.stopped = IF more THEN @ ELSE p,
                              !.left = IF more THEN kids \o Tail(@) ELSE << >>]
         IN  Going(new) /\ Visits(new)
<1> DEFINE seen == Append(w.seen, p)
           left == kids \o Tail(w.left)
           new == [w EXCEPT !.seen = Append(@, p), !.stopped = IF more THEN @ ELSE p,
                            !.left = IF more THEN kids \o Tail(@) ELSE << >>]
<1>1. /\ w \in [root : Nat, left : Seq(Ids), seen : Seq(Ids), stopped : Nat]
      /\ w.root \in Ids /\ w.root # 0 /\ w.stopped = 0
      /\ Spread(w.seen, w.left, Below, Within(w.root))
      /\ \A n \in Elements(w.seen) : messages[n].kind # "Empty"
  BY DEF Going
<1>2. w.left \in Seq(Ids) /\ w.seen \in Seq(Ids)
  BY <1>1
<1>3. p \in Ids /\ Tail(w.left) \in Seq(Ids)
  BY <1>2, TailOf
<1>4. /\ kids \in Seq(Ids) /\ Ordered(kids, Blocks(Ids, Below))
      /\ \A n : n \in Below[p] <=> n = p \/ \E c \in Elements(kids) : n \in Below[c]
      /\ \A c \in Elements(kids) : \A n \in Below[c] : Precedes(p, n)
  BY <1>3, WalkKids
<1>5. Spread(seen, left, Below, Within(w.root))
  BY <1>1, <1>2, <1>3, <1>4, SpreadStep
<1>6. seen \in Seq(Ids) /\ left \in Seq(Ids) /\ seen[Len(seen)] = p
      /\ Elements(seen) = Elements(w.seen) \cup {p}
  <2>1. seen \in Seq(Ids) /\ left \in Seq(Ids)
    BY <1>2, <1>3, <1>4
  <2>2. Len(w.seen) \in Nat /\ Len(seen) = Len(w.seen) + 1 /\ seen[Len(w.seen) + 1] = p
        /\ \A k \in 1..Len(w.seen) : seen[k] = w.seen[k]
    BY <1>2, <1>3
  <2>3. 1..(Len(w.seen) + 1) = 1..Len(w.seen) \cup {Len(w.seen) + 1}
    BY <2>2
  <2> HIDE DEF seen, left
  <2>4. Elements(seen) = Elements(w.seen) \cup {p}
    BY <2>2, <2>3 DEF Elements
  <2>5. QED
    BY <2>1, <2>2, <2>4
<1>7. \A n \in Elements(seen) : messages[n].kind # "Empty"
  BY <1>1, <1>6
<1>8. p \in Nat /\ p # 0
  BY <1>3, Earlier
<1> DEFINE stop == IF more THEN 0 ELSE p
           rest == IF more THEN left ELSE << >>
<1>9. /\ new \in [root : Nat, left : Seq(Ids), seen : Seq(Ids), stopped : Nat]
      /\ new.root = w.root /\ new.left = rest /\ new.seen = seen /\ new.stopped = stop
  <2>1. << >> \in Seq(Ids)
    OBVIOUS
  <2>2. rest \in Seq(Ids) /\ stop \in Nat
    BY <1>6, <1>8, <2>1
  <2>3. new = [w EXCEPT !.seen = seen, !.stopped = stop, !.left = rest]
    BY <1>1, Zenon
  <2> HIDE DEF seen, left, stop, rest, new
  <2>4. QED
    BY <1>1, <1>6, <2>2, <2>3, Updated, Zenon
<1> HIDE DEF seen, left, new
<1>10. Going(new)
  BY <1>1, <1>5, <1>7, <1>9 DEF Going
<1>11. Visits(new)
  <2> DEFINE unvisited == Body(w.root) \ Elements(seen)
  <2>1. /\ Elements(seen) \subseteq Body(w.root) /\ InPreOrder(seen)
        /\ \A m \in Elements(seen), n \in unvisited : Precedes(m, n)
        /\ left = << >> => unvisited = {}
    BY <1>1, <1>5, <1>6, <1>7, Visiting
  <2>2. new.stopped # 0 => new.seen[Len(new.seen)] = new.stopped
    BY <1>6, <1>9
  <2>3. new.left # << >> \/ unvisited = {} \/ new.stopped # 0
    BY <1>8, <1>9, <2>1
  <2>4. QED
    BY <1>9, <2>1, <2>2, <2>3 DEF Visits
<1>12. QED
  BY <1>10, <1>11 DEF new

\* The walk meets an empty list element.
LEMMA VisitNil ==
  ASSUME TextOK, NEW w, Going(w), w.left # << >>, NEW p, p = Head(w.left),
         messages[p].kind = "Empty"
  PROVE  LET new == [w EXCEPT !.left = << >>] IN Going(new) /\ Visits(new)
<1> DEFINE new == [w EXCEPT !.left = << >>]
           unvisited == Body(w.root) \ Elements(w.seen)
<1>1. /\ w \in [root : Nat, left : Seq(Ids), seen : Seq(Ids), stopped : Nat]
      /\ w.root \in Ids /\ w.root # 0 /\ w.stopped = 0
      /\ Spread(w.seen, w.left, Below, Within(w.root))
      /\ \A n \in Elements(w.seen) : messages[n].kind # "Empty"
  BY DEF Going
<1>2. w.left \in Seq(Ids) /\ w.seen \in Seq(Ids)
  BY <1>1
<1>3. /\ new.root = w.root /\ new.seen = w.seen /\ new.stopped = 0 /\ new.left = << >>
      /\ new \in [root : Nat, left : Seq(Ids), seen : Seq(Ids), stopped : Nat]
  <2>1. << >> \in Seq(Ids)
    OBVIOUS
  <2>2. QED
    BY <1>1, <2>1, Ended, Zenon
<1>4. /\ p \in Ids /\ p = w.left[1] /\ 1 \in 1..Len(w.left)
      /\ Elements(w.left) = {p} \cup Elements(Tail(w.left))
      /\ \A k \in 1..Len(Tail(w.left)) :
           k + 1 \in 1..Len(w.left) /\ 1 < k + 1 /\ Tail(w.left)[k] = w.left[k + 1]
  BY <1>2, TailOf
<1>5. Below[p] = {p}
  BY <1>4, EmptyBelow DEF Below
<1> HIDE DEF new
<1>6. p \in Within(w.root) /\ \A m \in Elements(w.seen) : Precedes(m, p)
  BY <1>1, <1>4, <1>5 DEF Spread
<1>7. ASSUME NEW n \in unvisited PROVE Precedes(p, n)
  <2>1. PICK x \in Elements(w.left) : n \in Below[x]
    BY <1>1 DEF Spread, Body
  <2>2. n # p
    BY DEF Body
  <2>3. x \in Elements(Tail(w.left))
    BY <1>4, <1>5, <2>1, <2>2
  <2>4. PICK k \in 1..Len(Tail(w.left)) : x = Tail(w.left)[k]
    BY <2>3 DEF Elements
  <2>5. k + 1 \in 1..Len(w.left) /\ 1 < k + 1 /\ x = w.left[k + 1]
    BY <1>4, <2>4
  <2>6. p \in Below[w.left[1]] /\ n \in Below[w.left[k + 1]]
    BY <1>4, <1>5, <2>1, <2>5
  <2>7. QED
    BY <1>1, <1>4, <2>5, <2>6, Zenon DEF Spread
<1>8. /\ Elements(w.seen) \subseteq Body(w.root) /\ InPreOrder(w.seen)
      /\ \A m \in Elements(w.seen), n \in unvisited : Precedes(m, n)
  BY <1>1, <1>2, Visiting
<1>9. Visits(new)
  BY <1>3, <1>6, <1>7, <1>8 DEF Visits
<1>10. Going(new)
  BY <1>1, <1>3 DEF Going
<1>11. QED
  BY <1>9, <1>10 DEF new

\* A walk begins.
LEMMA VisitRoot ==
  ASSUME TextOK, NEW n \in Ids
  PROVE  LET new == [root |-> n, left |-> <<n>>, seen |-> << >>, stopped |-> 0]
         IN  Going(new) /\ Visits(new)
<1> DEFINE new == [root |-> n, left |-> <<n>>, seen |-> << >>, stopped |-> 0]
<1>1. Spread(<< >>, <<n>>, Below, Within(n)) /\ n \in Nat /\ n # 0
  BY WalkSpread, Earlier
<1>2. new.root = n /\ new.left = <<n>> /\ new.seen = << >> /\ new.stopped = 0
      /\ new \in [root : Nat, left : Seq(Ids), seen : Seq(Ids), stopped : Nat]
  BY <1>1
<1>3. Elements(<< >>) = {} /\ <<n>> # << >> /\ InPreOrder(<< >>)
  BY <1>1 DEF Elements, Spread
<1> HIDE DEF new
<1>4. Going(new)
  BY <1>1, <1>2, <1>3 DEF Going
<1>5. Visits(new)
  BY <1>2, <1>3 DEF Visits
<1>6. QED
  BY <1>4, <1>5 DEF new

-----------------------------------------------------------------------------
(* The text as it is written.                                              *)

\* Where x may be appended to a text.
Joins(text, x) ==
  /\ x \in Messages /\ x.parent \in 0..Len(text)
  /\ IF x.parent = 0 THEN x.field = "stmts" /\ x.kind \in StatementKinds
     ELSE LET names == Fields[text[x.parent].kind]
          IN  \E k \in 1..Len(names) : names[k] = x.field
  /\ x.field = "with_clause" => x.kind = "WithClause"
  /\ x.field = "ctes" => x.kind = "CommonTableExpr"
  /\ x.field = "ctequery" => x.kind \in StatementKinds
  /\ \A m \in 1..Len(text) : text[m].parent = x.parent /\ text[m].field = x.field
       => x.parent = 0 \/ IsList(x.field)

LEMMA OneMore ==
  ASSUME NEW text, WellFormed(text), NEW x, Joins(text, x)
  PROVE  LET new == Append(text, x)
         IN  /\ WellFormed(new) /\ Len(new) = Len(text) + 1 /\ Len(text) \in Nat
             /\ new[Len(new)] = x /\ \A m \in 1..Len(text) : new[m] = text[m]
             /\ \A m \in 1..Len(new) : new[m].parent # Len(new)
<1> DEFINE new == Append(text, x)
           last == Len(text) + 1
<1>1. text \in Seq(Messages) /\ x \in Messages /\ x.parent \in 0..Len(text)
  BY DEF WellFormed, Joins
<1>2. /\ new \in Seq(Messages) /\ Len(new) = last /\ Len(text) \in Nat
      /\ new[last] = x /\ \A m \in 1..Len(text) : new[m] = text[m]
  <2> HIDE DEF Messages
  <2>1. QED
    BY <1>1
<1>3. 1..last = 1..Len(text) \cup {last}
  BY <1>2
<1> HIDE DEF new
<1>4. ASSUME NEW m \in 1..Len(text)
      PROVE  Standing(text, m) /\ text[m].parent \in Nat /\ text[m].parent < m
  <2>1. text[m] \in Messages /\ Standing(text, m)
    BY <1>1 DEF WellFormed
  <2>2. QED
    BY <2>1 DEF Standing, Messages
<1>5. ASSUME NEW m \in 1..Len(text) PROVE Standing(new, m)
  <2>1. new[m] = text[m]
    BY <1>2
  <2>2. text[m].parent # 0 => new[text[m].parent] = text[text[m].parent]
    <3>1. text[m].parent # 0 => text[m].parent \in 1..Len(text)
      BY <1>2, <1>4
    <3>2. QED
      BY <1>2, <3>1
  <2>3. QED
    BY <1>4, <2>1, <2>2 DEF Standing
<1>6. Standing(new, last)
  <2>1. x.parent < last /\ (x.parent # 0 => new[x.parent] = text[x.parent])
    <3>1. x.parent < last /\ (x.parent # 0 => x.parent \in 1..Len(text))
      BY <1>1, <1>2
    <3>2. QED
      BY <1>2, <3>1
  <2>2. QED
    BY <1>2, <2>1 DEF Standing, Joins
<1>7. ASSUME NEW m \in 1..last PROVE Standing(new, m)
  BY <1>3, <1>5, <1>6
<1>8. ASSUME NEW m \in 1..last, NEW n \in 1..last PROVE Alone(new, m, n)
  <2>1. CASE m \in 1..Len(text) /\ n \in 1..Len(text)
    BY <1>2, <2>1 DEF WellFormed, Alone
  <2>2. CASE m \in 1..Len(text) /\ n = last
    BY <1>2, <2>2 DEF Alone, Joins
  <2>3. CASE m = last /\ n \in 1..Len(text)
    BY <1>2, <2>3 DEF Alone, Joins
  <2>4. CASE m = last /\ n = last
    BY <2>4 DEF Alone
  <2>5. QED
    BY <1>3, <2>1, <2>2, <2>3, <2>4
<1>9. WellFormed(new)
  BY <1>2, <1>7, <1>8 DEF WellFormed
<1>10. ASSUME NEW m \in 1..last PROVE new[m].parent # last
  <2>1. CASE m = last
    <3>1. x.parent # last
      BY <1>1, <1>2
    <3>2. QED
      BY <1>2, <2>1, <3>1
  <2>2. CASE m \in 1..Len(text)
    <3>1. text[m].parent # last
      BY <1>2, <1>4, <2>2
    <3>2. QED
      BY <1>2, <2>2, <3>1
  <2>3. QED
    BY <1>3, <2>1, <2>2
<1>11. QED
  BY <1>2, <1>9, <1>10 DEF new

LEMMA AppendSeveral ==
  ASSUME NEW S, NEW s \in Seq(S), NEW a \in S, NEW b \in S, NEW c \in S
  PROVE  /\ s \o <<a>> = Append(s, a)
         /\ s \o <<a, b>> = Append(Append(s, a), b)
         /\ s \o <<a, b, c>> = Append(Append(Append(s, a), b), c)
<1>1. s \o <<a>> = Append(s, a)
  OBVIOUS
<1>2. s \o <<a, b>> = Append(Append(s, a), b)
  OBVIOUS
<1>3. s \o <<a, b, c>> = Append(Append(Append(s, a), b), c)
  OBVIOUS
<1>4. QED
  BY <1>1, <1>2, <1>3

HasName(kind, field) == \E k \in 1..Len(Fields[kind]) : Fields[kind][k] = field

LEMMA Names ==
  /\ \A field \in {"distinct_clause", "from_clause", "with_clause", "larg"} :
       HasName("SelectStmt", field)
  /\ HasName("DeleteStmt", "with_clause") /\ HasName("ExplainStmt", "query")
  /\ HasName("WithClause", "ctes") /\ HasName("CommonTableExpr", "ctequery")
<1>1. Fields["SelectStmt"] = <<"distinct_clause", "from_clause", "with_clause", "larg">>
  BY DEF Fields
<1>2. Fields["DeleteStmt"] = <<"with_clause">> /\ Fields["ExplainStmt"] = <<"query">>
      /\ Fields["WithClause"] = <<"ctes">> /\ Fields["CommonTableExpr"] = <<"ctequery">>
  BY DEF Fields
<1>3. HasName("SelectStmt", "distinct_clause") /\ HasName("SelectStmt", "from_clause")
      /\ HasName("SelectStmt", "with_clause") /\ HasName("SelectStmt", "larg")
  <2> DEFINE names == Fields["SelectStmt"]
  <2>1. Len(names) = 4 /\ names[1] = "distinct_clause" /\ names[2] = "from_clause"
        /\ names[3] = "with_clause" /\ names[4] = "larg"
    BY <1>1
  <2>2. 1 \in 1..4 /\ 2 \in 1..4 /\ 3 \in 1..4 /\ 4 \in 1..4
    OBVIOUS
  <2>3. QED
    BY <2>1, <2>2 DEF HasName
<1>4. HasName("DeleteStmt", "with_clause") /\ HasName("ExplainStmt", "query")
  <2>1. 1 \in 1..Len(Fields["DeleteStmt"]) /\ Fields["DeleteStmt"][1] = "with_clause"
    BY <1>2
  <2>2. 1 \in 1..Len(Fields["ExplainStmt"]) /\ Fields["ExplainStmt"][1] = "query"
    BY <1>2
  <2>3. QED
    BY <2>1, <2>2 DEF HasName
<1>5. HasName("WithClause", "ctes") /\ HasName("CommonTableExpr", "ctequery")
  <2>1. 1 \in 1..Len(Fields["WithClause"]) /\ Fields["WithClause"][1] = "ctes"
    BY <1>2
  <2>2. 1 \in 1..Len(Fields["CommonTableExpr"]) /\ Fields["CommonTableExpr"][1] = "ctequery"
    BY <1>2
  <2>3. QED
    BY <2>1, <2>2 DEF HasName
<1>6. ASSUME NEW field \in {"distinct_clause", "from_clause", "with_clause", "larg"}
      PROVE  HasName("SelectStmt", field)
  BY <1>3
<1>7. QED
  BY <1>4, <1>5, <1>6

\* The three ways in which a message joins a text: as a statement of its own; in a field
\* that repeats or holds nothing yet; in the message before it.
LEMMA JoinsTop ==
  ASSUME NEW text, WellFormed(text), NEW kind \in StatementKinds
  PROVE  Joins(text, Message(kind, 0, "stmts"))
<1>1. Message(kind, 0, "stmts") \in Messages
  <2>1. kind \in Kinds /\ "stmts" \in AllFields
    BY DEF StatementKinds, Kinds, AllFields
  <2>2. QED
    BY <2>1 DEF Message, Messages
<1>2. Len(text) \in Nat
  BY DEF WellFormed
<1>3. QED
  BY <1>1, <1>2 DEF Joins, Message

LEMMA JoinsField ==
  ASSUME NEW text, WellFormed(text), NEW n \in 1..Len(text), NEW kind \in Kinds, NEW field \in AllFields,
         HasName(text[n].kind, field),
         field = "with_clause" => kind = "WithClause",
         field = "ctes" => kind = "CommonTableExpr",
         field = "ctequery" => kind \in StatementKinds,
         IsList(field) \/ \A m \in 1..Len(text) : ~(text[m].parent = n /\ text[m].field = field)
  PROVE  Joins(text, Message(kind, n, field))
<1> DEFINE x == Message(kind, n, field)
<1>1. Len(text) \in Nat
  BY DEF WellFormed
<1>2. n \in Nat /\ n # 0 /\ n \in 0..Len(text)
  BY <1>1
<1>3. x \in Messages /\ x.parent = n /\ x.kind = kind /\ x.field = field
  BY <1>2 DEF Message, Messages
<1> HIDE DEF x
<1>4. QED
  BY <1>2, <1>3 DEF Joins, HasName, x

LEMMA JoinsLast ==
  ASSUME NEW text, WellFormed(text), NEW x, Joins(text, x), NEW next, next = Len(text) + 1,
         NEW kind \in Kinds, NEW field \in AllFields, HasName(x.kind, field),
         field = "with_clause" => kind = "WithClause",
         field = "ctes" => kind = "CommonTableExpr",
         field = "ctequery" => kind \in StatementKinds
  PROVE  /\ WellFormed(Append(text, x)) /\ Joins(Append(text, x), Message(kind, next, field))
         /\ Len(Append(text, x)) = next
<1> DEFINE new == Append(text, x)
<1>1. /\ WellFormed(new) /\ Len(new) = next /\ Len(text) \in Nat
      /\ new[next] = x /\ \A m \in 1..Len(new) : new[m].parent # next
  BY OneMore
<1> HIDE DEF new
<1>2. next \in 1..Len(new)
  BY <1>1
<1>3. Joins(new, Message(kind, next, field))
  BY <1>1, <1>2, JoinsField
<1>4. QED
  BY <1>1, <1>3 DEF new

\* Every clause that is written leaves a well-formed text.
LEMMA WriteKeepsText ==
  ASSUME NEW new, NEW a, NEW b, NEW c, Write(new), TextOK, Joins(messages, a),
         \/ new = <<a>>
         \/ new = <<a, b>> /\ Joins(Append(messages, a), b)
         \/ /\ new = <<a, b, c>> /\ Joins(Append(messages, a), b)
            /\ Joins(Append(Append(messages, a), b), c)
  PROVE  TextOK'
<1>1. messages' = messages \o new
  BY DEF Write
<1>2. WellFormed(messages) /\ messages \in Seq(Messages) /\ a \in Messages
  BY DEF TextOK, WellFormed, Joins
<1>3. WellFormed(Append(messages, a))
  BY <1>2, OneMore
<1>4. CASE new = <<a>>
  <2>1. messages' = Append(messages, a)
    BY <1>1, <1>2, <1>4, AppendSeveral
  <2>2. QED
    BY <1>3, <2>1 DEF TextOK
<1>5. ASSUME Joins(Append(messages, a), b)
      PROVE  WellFormed(Append(Append(messages, a), b)) /\ b \in Messages
  BY <1>3, <1>5, OneMore DEF Joins
<1>6. CASE new = <<a, b>> /\ Joins(Append(messages, a), b)
  <2>1. messages' = Append(Append(messages, a), b)
    BY <1>1, <1>2, <1>5, <1>6, AppendSeveral
  <2>2. QED
    BY <1>5, <1>6, <2>1 DEF TextOK
<1>7. CASE /\ new = <<a, b, c>> /\ Joins(Append(messages, a), b)
           /\ Joins(Append(Append(messages, a), b), c)
  <2>1. WellFormed(Append(Append(Append(messages, a), b), c)) /\ c \in Messages
    BY <1>5, <1>7, OneMore DEF Joins
  <2>2. messages' = Append(Append(Append(messages, a), b), c)
    BY <1>1, <1>2, <1>5, <1>7, <2>1, AppendSeveral
  <2>3. QED
    BY <2>1, <2>2 DEF TextOK
<1>8. QED
  BY <1>4, <1>6, <1>7

LEMMA StatementKeepsText == ASSUME TextOK, WriteStatement PROVE TextOK'
<1>1. WellFormed(messages)
  BY DEF TextOK
<1>2. ASSUME NEW kind \in {"SelectStmt", "DeleteStmt"}, Write(<<Message(kind, 0, "stmts")>>)
      PROVE  TextOK'
  <2>1. kind \in StatementKinds
    BY <1>2 DEF StatementKinds
  <2>2. Joins(messages, Message(kind, 0, "stmts"))
    BY <1>1, <2>1, JoinsTop
  <2>3. QED
    BY <1>2, <2>2, WriteKeepsText
<1>3. ASSUME Write(<<Message("ExplainStmt", 0, "stmts"),
                     Message("DeleteStmt", Len(messages) + 1, "query")>>)
      PROVE  TextOK'
  <2> DEFINE a == Message("ExplainStmt", 0, "stmts")
             b == Message("DeleteStmt", Len(messages) + 1, "query")
  <2>1. Joins(messages, a)
    BY <1>1, JoinsTop DEF StatementKinds
  <2>2. a.kind = "ExplainStmt" /\ HasName("ExplainStmt", "query")
        /\ "DeleteStmt" \in Kinds /\ "query" \in AllFields
    BY Names DEF Message, Kinds, AllFields
  <2> HIDE DEF a
  <2>3. Joins(Append(messages, a), b)
    BY <1>1, <2>1, <2>2, JoinsLast
  <2> HIDE DEF b
  <2>4. Write(<<a, b>>)
    BY <1>3 DEF a, b
  <2>5. QED
    BY <2>1, <2>3, <2>4, WriteKeepsText
<1>4. QED
  BY <1>2, <1>3 DEF WriteStatement

LEMMA SelectKeepsText ==
  ASSUME TextOK, NEW n \in Ids, NEW field \in {"from_clause", "larg"}, WriteSelect(n, field)
  PROVE  TextOK'
<1>1. /\ WellFormed(messages) /\ n \in 1..Len(messages) /\ messages[n].kind = "SelectStmt"
      /\ IsList(field) \/ InField(n, field) = {}
      /\ Write(<<Message("SelectStmt", n, field)>>)
  BY DEF TextOK, Ids, WriteSelect
<1>2. HasName("SelectStmt", field) /\ "SelectStmt" \in Kinds /\ field \in AllFields
      /\ field # "with_clause" /\ field # "ctes" /\ field # "ctequery"
  BY Names DEF Kinds, AllFields
<1>3. IsList(field) \/ \A m \in 1..Len(messages) : ~(messages[m].parent = n /\ messages[m].field = field)
  BY <1>1 DEF InField, Ids
<1>4. Joins(messages, Message("SelectStmt", n, field))
  BY <1>1, <1>2, <1>3, JoinsField
<1>5. QED
  BY <1>1, <1>4, WriteKeepsText

LEMMA DistinctKeepsText ==
  ASSUME TextOK, NEW n \in Ids, WriteDistinct(n) PROVE TextOK'
<1>1. /\ WellFormed(messages) /\ n \in 1..Len(messages) /\ messages[n].kind = "SelectStmt"
      /\ Write(<<Message("Empty", n, "distinct_clause")>>)
  BY DEF TextOK, Ids, WriteDistinct
<1>2. HasName("SelectStmt", "distinct_clause") /\ "Empty" \in Kinds /\ "distinct_clause" \in AllFields
      /\ IsList("distinct_clause")
  BY Names DEF Kinds, IsList, AllFields
<1>3. Joins(messages, Message("Empty", n, "distinct_clause"))
  BY <1>1, <1>2, JoinsField
<1>4. QED
  BY <1>1, <1>3, WriteKeepsText

LEMMA CTEKeepsText ==
  ASSUME TextOK, NEW n \in Ids, NEW kind \in {"SelectStmt", "DeleteStmt"}, WriteCTE(n, kind)
  PROVE  TextOK'
<1> DEFINE next == Len(messages) + 1
           there == InField(n, "with_clause")
<1>1. /\ WellFormed(messages) /\ n \in 1..Len(messages)
      /\ messages[n].kind \in {"SelectStmt", "DeleteStmt"}
  BY DEF TextOK, Ids, WriteCTE
<1>2. kind \in Kinds /\ kind \in StatementKinds /\ "WithClause" \in Kinds /\ "CommonTableExpr" \in Kinds
      /\ "with_clause" \in AllFields /\ "ctes" \in AllFields /\ "ctequery" \in AllFields
  BY DEF Kinds, StatementKinds, AllFields
<1>3. /\ HasName(messages[n].kind, "with_clause") /\ HasName("WithClause", "ctes")
      /\ HasName("CommonTableExpr", "ctequery")
  BY <1>1, Names
<1>4. CASE there = {}
  <2> DEFINE a == Message("WithClause", n, "with_clause")
             b == Message("CommonTableExpr", next, "ctes")
             c == Message(kind, next + 1, "ctequery")
  <2>1. Write(<<a, b, c>>)
    BY <1>4 DEF WriteCTE
  <2>2. a.kind = "WithClause" /\ b.kind = "CommonTableExpr"
    BY DEF Message
  <2>3. \A m \in 1..Len(messages) : ~(messages[m].parent = n /\ messages[m].field = "with_clause")
    BY <1>4 DEF InField, Ids
  <2>4. Joins(messages, a)
    BY <1>1, <1>2, <1>3, <2>3, JoinsField
  <2> HIDE DEF a
  <2>5. WellFormed(Append(messages, a)) /\ Joins(Append(messages, a), b)
        /\ Len(Append(messages, a)) = next
    BY <1>1, <1>2, <1>3, <2>2, <2>4, JoinsLast
  <2> HIDE DEF b
  <2>6. Joins(Append(Append(messages, a), b), c)
    <3> DEFINE text == Append(messages, a)
               after == next + 1
    <3>1. WellFormed(text) /\ Joins(text, b) /\ after = Len(text) + 1
      BY <2>5
    <3> HIDE DEF text, after
    <3>2. Joins(Append(text, b), Message(kind, after, "ctequery"))
      BY <1>2, <1>3, <2>2, <3>1, JoinsLast
    <3>3. QED
      BY <3>2 DEF text, after
  <2> HIDE DEF c
  <2>7. QED
    BY <2>1, <2>4, <2>5, <2>6, WriteKeepsText
<1>5. CASE there # {}
  <2> DEFINE w == CHOOSE m \in there : TRUE
             a == Message("CommonTableExpr", w, "ctes")
             b == Message(kind, next, "ctequery")
  <2>1. Write(<<a, b>>)
    BY <1>5 DEF WriteCTE
  <2>2. w \in there
    BY <1>5
  <2> HIDE DEF w
  <2>3. w \in Ids /\ messages[w].kind = "WithClause"
    BY <2>2, TextFacts DEF InField, Standing
  <2>4. w \in 1..Len(messages) /\ IsList("ctes") /\ a.kind = "CommonTableExpr"
    BY <2>3 DEF Ids, IsList, Message
  <2>5. Joins(messages, a)
    BY <1>1, <1>2, <1>3, <2>3, <2>4, JoinsField
  <2> HIDE DEF a
  <2>6. Joins(Append(messages, a), b)
    BY <1>1, <1>2, <1>3, <2>4, <2>5, JoinsLast
  <2> HIDE DEF b
  <2>7. QED
    BY <2>1, <2>5, <2>6, WriteKeepsText
<1>6. QED
  BY <1>4, <1>5

\* Writing leaves what comes after parsing as it was: not begun.
LEMMA WriteKeeps == ASSUME IInv, NEW new, Write(new), TextOK' PROVE IInv'
<1>1. /\ phase = "text" /\ phase' = "text" /\ walk' = walk
      /\ sequence' = sequence /\ pending' = pending
  BY DEF Write, parseVars
<1>2. /\ sequence = << >> /\ pending = << >> /\ walk.root = 0 /\ walk.left = << >> /\ walk.seen = << >>
      /\ walk \in [root : Nat, left : Seq(Ids), seen : Seq(Ids), stopped : Nat]
  BY <1>1 DEF IInv, SequenceOK, WalkOK, Walking
<1>3. ParsedOK' /\ SequenceOK'
  BY <1>1, <1>2 DEF ParsedOK, SequenceOK
<1>4. walk \in [root : Nat, left : Seq(Ids'), seen : Seq(Ids'), stopped : Nat]
  <2>1. << >> \in Seq(Ids')
    OBVIOUS
  <2>2. walk.left \in Seq(Ids') /\ walk.seen \in Seq(Ids')
    BY <1>2, <2>1
  <2>3. QED
    BY <1>2, <2>2
<1>5. WalkOK' /\ WalkIsPreOrder'
  BY <1>1, <1>2, <1>4 DEF WalkOK, Walking, WalkIsPreOrder
<1>6. QED
  BY <1>3, <1>5 DEF IInv

-----------------------------------------------------------------------------
(* Parse and the statement sequence.                                       *)

LEMMA SameParse ==
  ASSUME messages' = messages
  PROVE  /\ Roots' = Roots /\ InOrder(Roots)' = InOrder(Roots)
         /\ \A n : convertPGNode(n)' = convertPGNode(n)
<1>1. Ids' = Ids
  BY DEF Ids
<1>2. Roots' = Roots
  BY <1>1 DEF Roots
<1>3. InOrder(Roots)' = InOrder(Roots)
  BY <1>2 DEF InOrder
<1>4. ASSUME NEW n PROVE convertPGNode(n)' = convertPGNode(n)
  BY <1>1 DEF convertPGNode, convertMessage, convertValue, InField, InOrder
<1>5. QED
  BY <1>2, <1>3, <1>4

LEMMA ParsedKept ==
  ASSUME ParsedOK, messages' = messages, broken' = broken, tree' = tree, result' = result,
         phase' \in {"parsed", "sequencing"} => phase \in {"parsed", "sequencing"}
  PROVE  ParsedOK'
<1>1. /\ Ids' = Ids /\ InOrder(Roots)' = InOrder(Roots)
      /\ \A n : convertPGNode(n)' = convertPGNode(n)
  BY SameParse, SameText
<1>2. QED
  BY <1>1 DEF ParsedOK

\* Nothing of the text is hidden from the backend, and no statement of it is nil.
LEMMA AllStatements == ASSUME TextOK, ~rejectsNUL PROVE NonNil(Stmts) = InOrder(Roots)
<1> DEFINE roots == InOrder(Roots)
<1>1. Stmts = roots
  <2>1. Roots \cap Seen = Roots
    BY DEF rejectsNUL, Seen, Roots
  <2>2. QED
    BY <2>1 DEF Stmts
<1>2. Roots \in SUBSET Ids
  BY DEF Roots
<1>3. roots \in Seq(Ids) /\ Elements(roots) = Roots
  BY <1>2, SomeIds
<1> HIDE DEF roots
<1>4. ASSUME NEW k \in 1..Len(roots) PROVE convertPGNode(roots[k]) # NilNode
  <2>1. roots[k] \in Roots /\ roots[k] \in Ids
    BY <1>3 DEF Elements
  <2>2. messages[roots[k]].kind \in StatementKinds /\ roots[k] # 0
    BY <2>1, Earlier, TextFacts DEF Roots, Standing
  <2>3. convertPGNode(roots[k]).kind = messages[roots[k]].kind
    BY <2>2 DEF convertPGNode, convertMessage, StatementKinds
  <2>4. NilNode.kind = ""
    BY DEF NilNode
  <2>5. QED
    BY <2>2, <2>3, <2>4 DEF StatementKinds
<1>5. {k \in 1..Len(roots) : convertPGNode(roots[k]) # NilNode} = 1..Len(roots) /\ Len(roots) \in Nat
  BY <1>3, <1>4
<1>6. InOrder(1..Len(roots)) = [k \in 1..Len(roots) |-> k]
  BY <1>5, ListedPlaces
<1>7. NonNil(roots) = roots
  <2> DEFINE kept == InOrder({k \in 1..Len(roots) : convertPGNode(roots[k]) # NilNode})
  <2>1. kept = [k \in 1..Len(roots) |-> k]
    BY <1>5, <1>6
  <2>2. NonNil(roots) = [k \in 1..Len(kept) |-> roots[kept[k]]]
    BY DEF NonNil
  <2> HIDE DEF kept
  <2>3. Len(kept) = Len(roots) /\ \A k \in 1..Len(roots) : kept[k] = k
    BY <1>5, <2>1
  <2>4. NonNil(roots) = [k \in 1..Len(roots) |-> roots[k]]
    BY <2>2, <2>3
  <2>5. QED
    BY <1>3, <2>4
<1>8. QED
  BY <1>1, <1>7 DEF roots

LEMMA SequenceNext ==
  ASSUME messages' = messages, phase' = "sequencing",
         NEW s, NEW t, sequence' = s, pending' = t, s \in Seq(Ids), t \in Seq({0} \cup Declared),
         Spread(s, t, DeclaredBelow, Declared)
  PROVE  SequenceOK'
<1>1. Enclosing' = Enclosing /\ Ids' = Ids /\ \A m, n : Precedes(m, n)' <=> Precedes(m, n)
  BY SameText
<1>2. Declared' = Declared
  BY <1>1 DEF Declared, StatementIds
<1>3. DeclaredBelow' = DeclaredBelow
  BY <1>1, <1>2 DEF DeclaredBelow, Within
<1>4. Elements(sequence)' = Elements(s) /\ Elements(pending)' = Elements(t)
  BY DEF Elements
<1>5. InPreOrder(sequence)'
  BY <1>1 DEF Spread, InPreOrder
<1>6. ASSUME NEW m \in Elements(s), NEW x \in Elements(t), NEW n \in DeclaredBelow[x]
      PROVE  Precedes(m, n)'
  BY <1>1 DEF Spread
<1>7. ASSUME NEW k \in 1..Len(t), NEW l \in 1..Len(t), k < l,
             NEW m \in DeclaredBelow[t[k]], NEW n \in DeclaredBelow[t[l]]
      PROVE  Precedes(m, n)'
  BY <1>1, <1>7 DEF Spread
<1>8. \A n : n \in Declared <=> n \in Elements(s) \/ \E x \in Elements(t) : n \in DeclaredBelow[x]
  BY DEF Spread
<1>9. Spread(sequence, pending, DeclaredBelow, Declared)'
  BY <1>2, <1>3, <1>4, <1>5, <1>6, <1>7, <1>8 DEF Spread
<1>10. QED
  BY <1>1, <1>2, <1>9 DEF SequenceOK

LEMMA WalkKept ==
  ASSUME WalkOK, WalkIsPreOrder, messages' = messages, walk' = walk
  PROVE  WalkOK' /\ WalkIsPreOrder'
<1>1. Going(walk) /\ Visits(walk)
  BY WalkNow
<1>2. QED
  BY <1>1, WalkNext

LEMMA ParseKeeps == ASSUME IInv, Parse PROVE IInv'
<1>1. /\ phase = "text" /\ messages' = messages /\ broken' = broken
      /\ pending' = pending /\ sequence' = sequence /\ walk' = walk
  BY DEF Parse, textVars
<1>2. TextOK' /\ TextOK
  BY <1>1, SameText DEF IInv
<1>3. WalkOK' /\ WalkIsPreOrder'
  BY <1>1, WalkKept DEF IInv
<1>4. phase' # "sequencing" /\ SequenceOK'
  BY <1>1 DEF Parse, IInv, SequenceOK
<1>5. ParsedOK'
  <2>1. CASE phase' = "failed"
    BY <2>1 DEF ParsedOK
  <2>2. CASE /\ ~(rejectsNUL \/ BackendFails)
             /\ tree' = [n \in {0} \cup Ids |-> convertPGNode(n)] /\ result' = NonNil(Stmts)
    <3>1. result' = InOrder(Roots) /\ ~broken
      BY <1>2, <2>2, AllStatements DEF rejectsNUL, BackendFails
    <3>2. /\ Ids' = Ids /\ InOrder(Roots)' = InOrder(Roots)
          /\ \A n : convertPGNode(n)' = convertPGNode(n)
      BY <1>1, SameParse, SameText
    <3>3. QED
      BY <1>1, <2>2, <3>1, <3>2 DEF ParsedOK
  <2>3. QED
    BY <2>1, <2>2 DEF Parse
<1>6. QED
  BY <1>2, <1>3, <1>4, <1>5 DEF IInv

LEMMA SequenceKeeps == ASSUME IInv, StatementSequence PROVE IInv'
<1>1. /\ phase = "parsed" /\ phase' = "sequencing" /\ messages' = messages /\ broken' = broken
      /\ tree' = tree /\ result' = result /\ pending' = result /\ sequence' = sequence /\ walk' = walk
  BY DEF StatementSequence, Statements, textVars
<1>2. TextOK' /\ TextOK /\ WalkOK' /\ WalkIsPreOrder'
  BY <1>1, SameText, WalkKept DEF IInv
<1>3. ParsedOK'
  BY <1>1, ParsedKept DEF IInv
<1>4. sequence' = << >> /\ pending' = InOrder(Roots)
  BY <1>1 DEF IInv, SequenceOK, ParsedOK
<1>5. << >> \in Seq(Ids) /\ InOrder(Roots) \in Seq({0} \cup Declared)
      /\ Spread(<< >>, InOrder(Roots), DeclaredBelow, Declared)
  BY <1>2, RootsSpread
<1>6. SequenceOK'
  BY <1>1, <1>4, <1>5, SequenceNext
<1>7. QED
  BY <1>2, <1>3, <1>6 DEF IInv

LEMMA AppendKeeps == ASSUME IInv, appendStatement PROVE IInv'
<1> DEFINE p == Head(pending)
           T == {0} \cup Declared
<1>1. /\ phase = "sequencing" /\ phase' = phase /\ messages' = messages /\ broken' = broken
      /\ tree' = tree /\ result' = result /\ walk' = walk /\ pending # << >>
  BY DEF appendStatement, textVars, parseVars
<1>2. TextOK' /\ TextOK /\ WalkOK' /\ WalkIsPreOrder'
  BY <1>1, SameText, WalkKept DEF IInv
<1>3. ParsedOK'
  BY <1>1, ParsedKept DEF IInv
<1>4. TreeOK
  BY <1>1 DEF IInv, ParsedOK, TreeOK
<1>5. sequence \in Seq(Ids) /\ pending \in Seq(T) /\ Spread(sequence, pending, DeclaredBelow, Declared)
  BY <1>1 DEF IInv, SequenceOK
<1>6. p \in T /\ Tail(pending) \in Seq(T)
  BY <1>1, <1>5, TailOf
<1>7. ASSUME NEW n \in Declared PROVE n \in Ids /\ tree[n] # NilNode
  <2>1. n \in Ids /\ messages[n].kind # "Empty"
    BY DEF Declared, StatementIds, StatementKinds
  <2>2. QED
    BY <1>2, <1>4, <2>1, NodeAt
<1>8. SequenceOK'
  <2>1. CASE tree[p] = NilNode
    <3>1. p = 0
      BY <1>6, <1>7, <2>1
    <3>2. DeclaredBelow[p] = {}
      BY <1>2, <3>1, DeclaredIds
    <3>3. Spread(sequence, Tail(pending), DeclaredBelow, Declared)
      BY <1>1, <1>5, <3>2, SpreadSkip
    <3>4. pending' = Tail(pending) /\ sequence' = sequence
      BY <2>1 DEF appendStatement
    <3>5. QED
      BY <1>1, <1>5, <1>6, <3>3, <3>4, SequenceNext
  <2>2. CASE tree[p] # NilNode
    <3> DEFINE kids == Declarations(p)
    <3>1. sequence' = Append(sequence, p) /\ pending' = kids \o Tail(pending)
      BY <2>2 DEF appendStatement
    <3>2. p \in Declared /\ p \in Ids
      BY <1>2, <1>4, <1>6, <1>7, <2>2, NodeAt
    <3>3. /\ kids \in Seq(T) /\ Ordered(kids, Blocks(T, DeclaredBelow))
          /\ \A n : n \in DeclaredBelow[p]
                      <=> n = p \/ \E c \in Elements(kids) : n \in DeclaredBelow[c]
          /\ \A c \in Elements(kids) : \A n \in DeclaredBelow[c] : Precedes(p, n)
      BY <1>2, <1>4, <3>2, DeclaredKids
    <3> HIDE DEF kids, T
    <3>4. Spread(Append(sequence, p), kids \o Tail(pending), DeclaredBelow, Declared)
      BY <1>1, <1>5, <3>2, <3>3, SpreadStep
    <3>5. Append(sequence, p) \in Seq(Ids) /\ kids \o Tail(pending) \in Seq(T)
      BY <1>5, <1>6, <3>2, <3>3
    <3>6. QED
      BY <1>1, <3>1, <3>4, <3>5, SequenceNext DEF T
  <2>3. QED
    BY <2>1, <2>2
<1>9. QED
  BY <1>2, <1>3, <1>8 DEF IInv

\* A step of a walk leaves the parse and the sequence alone.
LEMMA WalkKeeps ==
  ASSUME IInv, phase = "sequencing", UNCHANGED <<textVars, parseVars, pending, sequence>>,
         NEW w, walk' = w, Going(w), Visits(w)
  PROVE  IInv'
<1>1. /\ phase' = phase /\ messages' = messages /\ broken' = broken
      /\ tree' = tree /\ result' = result /\ pending' = pending /\ sequence' = sequence
  BY DEF textVars, parseVars
<1>2. TextOK' /\ ParsedOK'
  BY <1>1, SameText, ParsedKept DEF IInv
<1>3. sequence \in Seq(Ids) /\ pending \in Seq({0} \cup Declared)
      /\ Spread(sequence, pending, DeclaredBelow, Declared)
  BY DEF IInv, SequenceOK
<1>4. SequenceOK'
  BY <1>1, <1>3, SequenceNext
<1>5. WalkOK' /\ WalkIsPreOrder'
  BY <1>1, WalkNext
<1>6. QED
  BY <1>2, <1>4, <1>5 DEF IInv

LEMMA StartKeeps == ASSUME IInv, WalkStatement PROVE IInv'
<1>1. PICK k \in 1..Len(sequence) : Walk(sequence[k])
  BY DEF WalkStatement
<1>2. phase = "sequencing"
  BY DEF WalkStatement, Presented
<1>3. sequence \in Seq(Ids) /\ TextOK
  BY <1>2 DEF IInv, SequenceOK
<1>4. sequence[k] \in Ids
  BY <1>3
<1> DEFINE new == [root |-> sequence[k], left |-> <<sequence[k]>>, seen |-> << >>, stopped |-> 0]
<1>5. Going(new) /\ Visits(new)
  BY <1>3, <1>4, VisitRoot
<1>6. walk' = new /\ UNCHANGED <<textVars, parseVars, pending, sequence>>
  BY <1>1 DEF Walk
<1> HIDE DEF new
<1>7. QED
  BY <1>2, <1>5, <1>6, WalkKeeps

LEMMA NodeKeeps == ASSUME IInv, NEW more \in BOOLEAN, walkNode(more) PROVE IInv'
<1> DEFINE p == Head(walk.left)
<1>1. walk.left # << >> /\ UNCHANGED <<textVars, parseVars, pending, sequence>>
  BY DEF walkNode, Walking
<1>2. Going(walk) /\ TextOK
  BY WalkNow DEF IInv
<1>3. phase = "sequencing"
  <2>1. walk.root # 0
    BY <1>1, <1>2 DEF Going
  <2>2. QED
    BY <2>1 DEF IInv, SequenceOK
<1>4. TreeOK
  BY <1>3 DEF IInv, ParsedOK, TreeOK
<1>5. p \in Ids
  <2>1. walk.left \in Seq(Ids)
    BY <1>2 DEF Going
  <2>2. QED
    BY <1>1, <2>1, TailOf
<1>6. CASE tree[p] = NilNode
  <2> DEFINE new == [walk EXCEPT !.left = << >>]
  <2>1. messages[p].kind = "Empty"
    BY <1>2, <1>4, <1>5, <1>6, NodeAt
  <2>2. Going(new) /\ Visits(new)
    BY <1>1, <1>2, <2>1, VisitNil, Zenon
  <2>3. walk' = new
    BY <1>6, Zenon DEF walkNode
  <2> HIDE DEF new
  <2>4. QED
    BY <1>1, <1>3, <2>2, <2>3, WalkKeeps
<1>7. CASE tree[p] # NilNode
  <2> DEFINE kids == ChildValues(convertMessage(p))
             new == [walk EXCEPT !.seen = Append(@, p), !.stopped = IF more THEN @ ELSE p,
                                 !.left = IF more THEN kids \o Tail(@) ELSE << >>]
  <2>1. messages[p].kind # "Empty" /\ tree[p] = convertMessage(p)
    BY <1>2, <1>4, <1>5, <1>7, NodeAt
  <2>2. Going(new) /\ Visits(new)
    BY <1>1, <1>2, <2>1, VisitNode, Zenon
  <2>3. walk' = new
    BY <1>7, <2>1, Zenon DEF walkNode
  <2> HIDE DEF new
  <2>4. QED
    BY <1>1, <1>3, <2>2, <2>3, WalkKeeps
<1>8. QED
  BY <1>6, <1>7

-----------------------------------------------------------------------------
(* The theorems.                                                           *)

LEMMA InitIInv == ASSUME Init PROVE IInv
<1>1. messages = << >> /\ phase = "text" /\ sequence = << >> /\ pending = << >>
      /\ walk = [root |-> 0, left |-> << >>, seen |-> << >>, stopped |-> 0]
  BY DEF Init
<1>2. TextOK
  <2>1. messages \in Seq(Messages) /\ Len(messages) = 0 /\ 1..0 = {}
    BY <1>1
  <2>2. QED
    BY <2>1 DEF TextOK, WellFormed
<1>3. walk.root = 0 /\ walk.left = << >> /\ walk.seen = << >>
      /\ walk \in [root : Nat, left : Seq(Ids), seen : Seq(Ids), stopped : Nat]
  BY <1>1
<1>4. ParsedOK /\ SequenceOK /\ WalkOK /\ WalkIsPreOrder
  BY <1>1, <1>3 DEF ParsedOK, SequenceOK, WalkOK, Walking, WalkIsPreOrder
<1>5. QED
  BY <1>2, <1>4 DEF IInv

LEMMA NextIInv == ASSUME IInv, [Next]_vars PROVE IInv'
<1>0. TextOK
  BY DEF IInv
<1>1. ASSUME WriteStatement PROVE IInv'
  <2>1. TextOK' /\ \E new : Write(new)
    BY <1>0, <1>1, StatementKeepsText DEF WriteStatement
  <2>2. QED
    BY <2>1, WriteKeeps
<1>2. ASSUME NEW n \in Ids, NEW kind \in {"SelectStmt", "DeleteStmt"}, WriteCTE(n, kind) PROVE IInv'
  <2>1. TextOK' /\ \E new : Write(new)
    BY <1>0, <1>2, CTEKeepsText DEF WriteCTE
  <2>2. QED
    BY <2>1, WriteKeeps
<1>3. ASSUME NEW n \in Ids, NEW field \in {"from_clause", "larg"}, WriteSelect(n, field) PROVE IInv'
  <2>1. TextOK' /\ \E new : Write(new)
    BY <1>0, <1>3, SelectKeepsText DEF WriteSelect
  <2>2. QED
    BY <2>1, WriteKeeps
<1>4. ASSUME NEW n \in Ids, WriteDistinct(n) PROVE IInv'
  <2>1. TextOK' /\ \E new : Write(new)
    BY <1>0, <1>4, DistinctKeepsText DEF WriteDistinct
  <2>2. QED
    BY <2>1, WriteKeeps
<1>5. ASSUME WriteNUL \/ WriteError PROVE IInv'
  <2>1. /\ phase = "text" /\ messages' = messages /\ phase' = phase
        /\ sequence' = sequence /\ pending' = pending /\ walk' = walk
    BY <1>5 DEF WriteNUL, WriteError, parseVars
  <2>2. TextOK' /\ WalkOK' /\ WalkIsPreOrder'
    BY <1>0, <2>1, SameText, WalkKept DEF IInv
  <2>3. ParsedOK' /\ SequenceOK'
    BY <2>1 DEF IInv, ParsedOK, SequenceOK
  <2>4. QED
    BY <2>2, <2>3 DEF IInv
<1>6. ASSUME Parse PROVE IInv'
  BY <1>6, ParseKeeps
<1>7. ASSUME StatementSequence PROVE IInv'
  BY <1>7, SequenceKeeps
<1>8. ASSUME appendStatement PROVE IInv'
  BY <1>8, AppendKeeps
<1>9. ASSUME WalkStatement PROVE IInv'
  BY <1>9, StartKeeps
<1>10. ASSUME NEW more \in BOOLEAN, walkNode(more) PROVE IInv'
  BY <1>10, NodeKeeps
<1>11. ASSUME UNCHANGED vars PROVE IInv'
  <2>1. UNCHANGED <<messages, broken, phase, tree, result, pending, sequence, walk>>
    BY <1>11 DEF vars, textVars, parseVars
  <2>2. TextOK' /\ ParsedOK' /\ WalkOK' /\ WalkIsPreOrder'
    BY <1>0, <2>1, SameText, ParsedKept, WalkKept DEF IInv
  <2>3. CASE phase = "sequencing"
    <3>1. sequence \in Seq(Ids) /\ pending \in Seq({0} \cup Declared)
          /\ Spread(sequence, pending, DeclaredBelow, Declared)
      BY <2>3 DEF IInv, SequenceOK
    <3>2. QED
      BY <2>1, <2>2, <2>3, <3>1, SequenceNext DEF IInv
  <2>4. CASE phase # "sequencing"
    <3>1. SequenceOK'
      BY <2>1, <2>4 DEF IInv, SequenceOK
    <3>2. QED
      BY <2>2, <3>1 DEF IInv
  <2>5. QED
    BY <2>3, <2>4
<1>12. QED
  BY <1>1, <1>2, <1>3, <1>4, <1>5, <1>6, <1>7, <1>8, <1>9, <1>10, <1>11 DEF Next

\* The invariant: the text's messages form a tree, what is parsed is its conversion, and
\* both traversals have theirs spread out before them.
THEOREM Correct == Spec => []IInv
<1>1. Init => IInv
  BY InitIInv
<1>2. IInv /\ [Next]_vars => IInv'
  BY NextIInv
<1>3. QED
  BY <1>1, <1>2, PTL DEF Spec

\* For every text: what Parse returns is all of the text's statements in their order, and
\* no well-formed beginning before a NUL byte passes for the whole.
THEOREM ParseTakesAll == Spec => []ParsedIsWhole
<1>1. IInv => ParsedIsWhole
  BY DEF IInv, ParsedOK, ParsedIsWhole
<1>2. QED
  BY <1>1, Correct, PTL

\* For every text, however deep its CTEs are nested: StatementSequence presents exactly the
\* statements reached through declarations, in declaration order.
THEOREM SequencePresentsAll == Spec => []SequenceIsDeclarationOrder
<1>1. IInv => SequenceIsDeclarationOrder
  <2>1. SUFFICES ASSUME IInv, Presented PROVE Elements(sequence) = Declared /\ InPreOrder(sequence)
    BY DEF SequenceIsDeclarationOrder
  <2>2. Spread(sequence, pending, DeclaredBelow, Declared) /\ pending = << >>
    BY <2>1 DEF IInv, SequenceOK, Presented
  <2>3. Elements(pending) = {}
    BY <2>2 DEF Elements
  <2>4. QED
    BY <2>2, <2>3 DEF Spread
<1>2. QED
  BY <1>1, Correct, PTL

\* For every statement and every visitor: Walk goes through the nodes in pre-order without a
\* gap, and only a false from the visitor or an empty list element ends it early.
THEOREM WalksKeepOrder == Spec => []WalkIsPreOrder
<1>1. IInv => WalkIsPreOrder
  BY DEF IInv
<1>2. QED
  BY <1>1, Correct, PTL

-----------------------------------------------------------------------------
(* The order is strict, so that nothing comes twice.                       *)

\* Of two messages that enclose a third, one encloses the other.
LEMMA OneChain ==
  ASSUME TextOK, NEW m \in Ids, NEW x \in Enclosing[m], NEW y \in Enclosing[m]
  PROVE  x \in Enclosing[y] \/ y \in Enclosing[x]
<1> DEFINE Linear(n) == \A a, b \in Enclosing[n] : a \in Enclosing[b] \/ b \in Enclosing[a]
           T == {n \in Ids : ~Linear(n)}
<1>1. SUFFICES ASSUME T # {} PROVE FALSE
  OBVIOUS
<1>2. T \in SUBSET Nat
  BY Earlier
<1>3. PICK n \in T : \A k \in T : n <= k
  BY <1>1, <1>2, FirstOne
<1>4. n \in Ids /\ n \in Nat /\ Parent(n) \in Nat /\ Parent(n) < n /\ (Parent(n) # 0 => Parent(n) \in Ids)
  BY <1>3, Earlier
<1>5. Enclosing[n] = {n} \cup IF Parent(n) = 0 THEN {} ELSE Enclosing[Parent(n)]
  BY <1>4, EnclosingEquation
<1>6. Parent(n) # 0 => Linear(Parent(n))
  BY <1>3, <1>4
<1>7. Linear(n)
  BY <1>5, <1>6
<1>8. QED
  BY <1>7

\* No two of them stand in the same message.
LEMMA OneBranch ==
  ASSUME TextOK, NEW m \in Ids, NEW x \in Enclosing[m], NEW y \in Enclosing[m], Parent(x) = Parent(y)
  PROVE  x = y
<1>1. ASSUME NEW a \in Ids, NEW b \in Ids, a \in Enclosing[b], Parent(a) = Parent(b), a # b PROVE FALSE
  <2>1. Enclosing[b] = {b} \cup IF Parent(b) = 0 THEN {} ELSE Enclosing[Parent(b)]
    BY EnclosingEquation
  <2>2. Parent(b) # 0 /\ a \in Enclosing[Parent(b)]
    BY <1>1, <2>1
  <2>3. Parent(b) \in Ids
    BY <2>2, Earlier
  <2>4. a <= Parent(b)
    BY <2>2, <2>3, Chains DEF Chain
  <2>5. a \in Nat /\ Parent(a) \in Nat /\ Parent(a) < a
    BY Earlier
  <2>6. QED
    BY <1>1, <2>4, <2>5
<1>2. x \in Ids /\ y \in Ids
  BY Chains DEF Chain
<1>3. QED
  BY <1>1, <1>2, OneChain

\* Nothing comes before itself or before what comes before it.
LEMMA Strict ==
  ASSUME TextOK, NEW m \in Ids, NEW n \in Ids, Precedes(m, n), Precedes(n, m)
  PROVE  FALSE
<1>1. ASSUME NEW x \in Ids, NEW y \in Ids, Before(x, y) PROVE ~Before(y, x) /\ x # y
  <2>1. \A k \in Ids : Place(k) \in Nat /\ k \in Nat
    <3>1. ASSUME NEW k \in Ids PROVE Place(k) \in Nat
      <4>1. CASE Parent(k) = 0
        BY <4>1 DEF Place, Parent
      <4>2. CASE Parent(k) # 0
        BY <4>2, Placed
      <4>3. QED
        BY <4>1, <4>2
    <3>2. QED
      BY <3>1, Earlier
  <2>2. Place(x) \in Nat /\ Place(y) \in Nat /\ x \in Nat /\ y \in Nat
    BY <2>1
  <2>3. QED
    BY <1>1, <2>2 DEF Before
<1>2. ASSUME NEW a \in Ids, NEW b \in Ids, Precedes(a, b)
      PROVE  \/ a # b /\ a \in Enclosing[b]
             \/ \E x \in Enclosing[a], y \in Enclosing[b] : x \in Ids /\ y \in Ids /\ Before(x, y)
  BY <1>2, Chains DEF Precedes, Before, Chain
<1>3. ASSUME NEW a \in Ids, NEW b \in Ids, a # b, a \in Enclosing[b], b \in Enclosing[a] PROVE FALSE
  <2>1. a <= b /\ b <= a /\ a \in Nat /\ b \in Nat
    BY <1>3, Chains, Earlier DEF Chain
  <2>2. QED
    BY <1>3, <2>1
<1>4. ASSUME NEW a \in Ids, NEW b \in Ids, a \in Enclosing[b],
             NEW x \in Enclosing[a], NEW y \in Enclosing[b], x \in Ids, y \in Ids,
             Before(x, y) \/ Before(y, x)
      PROVE  FALSE
  <2>1. x \in Enclosing[b]
    BY <1>4, Chains DEF Chain
  <2>2. x = y
    BY <1>4, <2>1, OneBranch DEF Before, Parent
  <2>3. QED
    BY <1>1, <1>4, <2>2
<1>5. ASSUME NEW x \in Enclosing[m], NEW y \in Enclosing[n], x \in Ids, y \in Ids, Before(x, y),
             NEW u \in Enclosing[n], NEW v \in Enclosing[m], u \in Ids, v \in Ids, Before(u, v)
      PROVE  FALSE
  <2>1. Parent(x) = Parent(y) /\ Parent(u) = Parent(v)
    BY <1>5 DEF Before, Parent
  <2>2. x # v
    <3>1. ASSUME x = v PROVE y = u
      BY <2>1, <3>1, OneBranch
    <3>2. QED
      BY <1>1, <1>5, <3>1
  <2>3. ASSUME NEW a \in Ids, NEW b \in Ids, NEW c \in Ids, a # b, a \in Enclosing[b],
               Parent(b) = Parent(c)
        PROVE  a \in Enclosing[c]
    BY <2>3, EnclosingEquation
  <2>4. CASE x \in Enclosing[v]
    <3>1. x \in Enclosing[u]
      BY <1>5, <2>1, <2>2, <2>3, <2>4
    <3>2. x \in Enclosing[n]
      BY <3>1, <1>5, Chains DEF Chain
    <3>3. x = y
      BY <2>1, <3>2, OneBranch
    <3>4. QED
      BY <1>1, <1>5, <3>3
  <2>5. CASE v \in Enclosing[x]
    <3>1. v \in Enclosing[y]
      BY <1>5, <2>1, <2>2, <2>3, <2>5
    <3>2. v \in Enclosing[n]
      BY <3>1, <1>5, Chains DEF Chain
    <3>3. v = u
      BY <2>1, <3>2, OneBranch
    <3>4. QED
      BY <1>1, <1>5, <3>3
  <2>6. QED
    BY <2>4, <2>5, OneChain
<1>6. CASE m # n /\ m \in Enclosing[n]
  BY <1>2, <1>3, <1>4, <1>6
<1>7. CASE n # m /\ n \in Enclosing[m]
  BY <1>2, <1>3, <1>4, <1>7
<1>8. QED
  BY <1>2, <1>5, <1>6, <1>7

LEMMA OrderedOnce ==
  ASSUME TextOK, NEW ids \in Seq(Ids), InPreOrder(ids), NEW k \in 1..Len(ids), NEW l \in 1..Len(ids),
         ids[k] = ids[l]
  PROVE  k = l
<1>1. ASSUME NEW i \in 1..Len(ids), NEW j \in 1..Len(ids), i < j, ids[i] = ids[j] PROVE FALSE
  <2>1. ids[i] \in Ids /\ Precedes(ids[i], ids[i])
    BY <1>1 DEF InPreOrder
  <2>2. QED
    BY <2>1, Strict
<1>2. k \in Nat /\ l \in Nat
  OBVIOUS
<1>3. k < l \/ l < k \/ k = l
  BY <1>2
<1>4. QED
  BY <1>1, <1>3

\* StatementSequence presents no statement twice to the rules, and Walk calls the visitor at
\* most once for each node.
THEOREM NothingTwice ==
  Spec => [](/\ \A k, l \in 1..Len(sequence) : sequence[k] = sequence[l] => k = l
             /\ \A k, l \in 1..Len(walk.seen) : walk.seen[k] = walk.seen[l] => k = l)
<1>1. IInv => /\ \A k, l \in 1..Len(sequence) : sequence[k] = sequence[l] => k = l
              /\ \A k, l \in 1..Len(walk.seen) : walk.seen[k] = walk.seen[l] => k = l
  <2>1. SUFFICES ASSUME IInv
                 PROVE  /\ \A k, l \in 1..Len(sequence) : sequence[k] = sequence[l] => k = l
                        /\ \A k, l \in 1..Len(walk.seen) : walk.seen[k] = walk.seen[l] => k = l
    OBVIOUS
  <2>2. TextOK
    BY <2>1 DEF IInv
  <2>3. sequence \in Seq(Ids) /\ InPreOrder(sequence)
    <3>1. CASE phase = "sequencing"
      BY <2>1, <3>1 DEF IInv, SequenceOK, Spread
    <3>2. CASE phase # "sequencing"
      BY <2>1, <3>2 DEF IInv, SequenceOK, InPreOrder
    <3>3. QED
      BY <3>1, <3>2
  <2>4. walk.seen \in Seq(Ids) /\ InPreOrder(walk.seen)
    <3>1. walk.seen \in Seq(Ids) /\ (walk.root = 0 => walk.seen = << >>)
      BY <2>1 DEF IInv, WalkOK
    <3>2. walk.root # 0 => InPreOrder(walk.seen)
      BY <2>1 DEF IInv, WalkIsPreOrder
    <3>3. walk.seen = << >> => InPreOrder(walk.seen)
      BY DEF InPreOrder
    <3>4. QED
      BY <3>1, <3>2, <3>3
  <2>5. QED
    BY <2>2, <2>3, <2>4, OrderedOnce
<1>2. QED
  BY <1>1, Correct, PTL
=============================================================================
