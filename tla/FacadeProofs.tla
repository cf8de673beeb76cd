---------------------------- MODULE FacadeProofs ----------------------------
(***************************************************************************)
(* Proofs about Facade, for every length of a list and every number of     *)
(* questions: what rules ask and write cannot change what the tree says.   *)
(*                                                                         *)
(* The invariant splits the heap in two.  The first slices are the tree's  *)
(* own copies; every slice a rule was given lies behind them.              *)
(***************************************************************************)
EXTENDS Facade, FiniteSetTheorems, TLAPS

\* How many slices the tree refers to.
OwnSlices ==
  IF parsed /\ field.family = "bytes" /\ Has(field) THEN Len(field.holds) ELSE 0

\* What the field of a message may be.
FieldOK ==
  /\ field.family \in Families /\ field.repeated \in BOOLEAN
  /\ field.holds \in Seq(Numbers)
  /\ ~field.repeated => Len(field.holds) <= 1

\* The tree is the conversion of the field and stays so.
TreeOK ==
  /\ parsed \in BOOLEAN
  /\ tree = IF parsed /\ Has(field) THEN convertValue(field) ELSE Absent

\* Rules hold no slice of the tree's, and its slices are what was copied.
HeapOK ==
  /\ heap \in Seq(Nat)
  /\ OwnSlices <= Len(heap)
  /\ \A k \in 1..OwnSlices : heap[k] = field.holds[k]
  /\ held \subseteq 1..Len(heap)
  /\ \A a \in held : a > OwnSlices

\* One answer is about the statement as it was parsed.
Correct(question) ==
  /\ question.answer.ok <=> Matching(question.accessor)
  /\ question.answer.ok => question.answer.numbers = Expected(question.accessor)

Questions == [accessor : Accessors, answer : [ok : BOOLEAN, numbers : Seq(Nat)]]

AskedOK == asked \in Seq(Questions) /\ \A k \in 1..Len(asked) : Correct(asked[k])

Unparsed == ~parsed => heap = << >> /\ held = {} /\ asked = << >>

IInv == FieldOK /\ TreeOK /\ HeapOK /\ Unparsed /\ AskedOK

-----------------------------------------------------------------------------
(* Children's filter.                                                      *)

\* How many numbers there are up to n.
LEMMA CountTo == ASSUME NEW n \in Nat PROVE Cardinality(1..n) = n
<1>1. Cardinality(1..n) = IF 1 > n THEN 0 ELSE n - 1 + 1
  BY FS_Interval
<1>2. QED
  BY <1>1

\* A length that is positive and at most one.
LEMMA JustOne == ASSUME NEW n \in Nat, n > 0, n <= 1 PROVE n = 1 /\ 1 \in 1..n
  OBVIOUS

\* A list of nodes passes it whole.
LEMMA AllNodes ==
  ASSUME NEW S, NEW values \in Seq(S), \A k \in 1..Len(values) : values[k].kind = "node"
  PROVE  Nodes(values) = values
<1> DEFINE n == Len(values)
           places == {k \in 1..n : values[k].kind = "node"}
           Rank(k) == Cardinality({l \in places : l <= k})
<1>1. n \in Nat /\ places = 1..n
  OBVIOUS
<1>2. Cardinality(places) = n
  <2>1. Cardinality(1..n) = n
    BY <1>1, CountTo
  <2>2. QED
    BY <1>1, <2>1
<1>3. ASSUME NEW k \in 1..n PROVE Rank(k) = k
  <2>1. {l \in places : l <= k} = 1..k
    BY <1>1
  <2>2. Cardinality(1..k) = k
    BY <1>1, CountTo
  <2>3. QED
    BY <2>1, <2>2
<1>4. Nodes(values) = [m \in 1..Cardinality(places) |-> values[CHOOSE k \in places : Rank(k) = m]]
  BY DEF Nodes
<1> HIDE DEF places, Rank
<1>5. ASSUME NEW m \in 1..n PROVE (CHOOSE k \in places : Rank(k) = m) = m
  BY <1>1, <1>3
<1>6. Nodes(values) = [m \in 1..n |-> values[m]]
  BY <1>2, <1>4, <1>5
<1>7. QED
  BY <1>6

\* A list without nodes passes nothing.
LEMMA NoNodes ==
  ASSUME NEW S, NEW values \in Seq(S), \A k \in 1..Len(values) : values[k].kind # "node"
  PROVE  Nodes(values) = << >>
<1>1. {k \in 1..Len(values) : values[k].kind = "node"} = {}
  OBVIOUS
<1>2. Cardinality({k \in 1..Len(values) : values[k].kind = "node"}) = 0
  BY <1>1, FS_EmptySet
<1>3. 1..0 = {}
  OBVIOUS
<1>4. Nodes(values) \in [1..0 -> S]
  BY <1>2, <1>3 DEF Nodes
<1>5. QED
  BY <1>3, <1>4

-----------------------------------------------------------------------------
(* The conversion.                                                         *)

Values == [kind : Scalars \cup {"node"}, number : Nat, at : Nat]

\* What convertValue makes of a field that is there.
LEMMA Converted ==
  ASSUME FieldOK, Has(field)
  PROVE  LET t == convertValue(field)
         IN  /\ t # Absent /\ t.list = field.repeated
             /\ t.values \in Seq(Values) /\ Len(t.values) = Len(field.holds)
             /\ Len(field.holds) > 0
             /\ \A k \in 1..Len(field.holds) :
                  /\ t.values[k] = convertSingularValue(field, k)
                  /\ t.values[k].kind = IF field.family = "message" THEN "node" ELSE field.family
<1> DEFINE n == Len(field.holds)
           v == [k \in 1..n |-> convertSingularValue(field, k)]
<1>1. n \in Nat /\ n > 0
  BY DEF FieldOK, Has
<1>2. ASSUME NEW k \in 1..n
      PROVE  /\ convertSingularValue(field, k) \in Values
             /\ convertSingularValue(field, k).kind =
                  IF field.family = "message" THEN "node" ELSE field.family
  <2>1. field.holds[k] \in Nat /\ EnumName(field.holds[k]) \in Nat /\ k \in Nat
    BY BoundsAssumption DEF FieldOK, Numbers, EnumName
  <2>2. QED
    BY <2>1 DEF FieldOK, convertSingularValue, Value, Values, Families, Scalars
<1>3. v \in Seq(Values) /\ Len(v) = n
  <2>1. v \in [1..n -> Values]
    BY <1>2
  <2>2. QED
    BY <1>1, <2>1
<1>4. convertValue(field) = [list |-> field.repeated, values |-> v]
  BY DEF convertValue
<1>5. \A k \in 1..n : v[k] = convertSingularValue(field, k)
  OBVIOUS
<1> HIDE DEF v
<1>6. v # << >>
  BY <1>1, <1>3
<1>7. QED
  BY <1>1, <1>2, <1>3, <1>4, <1>5, <1>6 DEF Absent

-----------------------------------------------------------------------------
(* The answers.                                                            *)

Answers == [ok : BOOLEAN, numbers : Seq(Nat)]

\* An answer is its two parts.
LEMMA AnswerParts ==
  ASSUME NEW b \in BOOLEAN, NEW s \in Seq(Nat), NEW a, a = [ok |-> b, numbers |-> s]
  PROVE  a \in Answers /\ a.ok = b /\ a.numbers = s
  BY DEF Answers

\* Children answers for a list, with its nodes.
LEMMA ChildrenAnswer ==
  ASSUME FieldOK, TreeOK, parsed
  PROVE  /\ Answer("Children") \in Answers
         /\ Answer("Children").ok <=> Matching("Children")
         /\ Answer("Children").ok => Answer("Children").numbers = Expected("Children")
<1> DEFINE n == Len(field.holds)
           listed == [k \in 1..Len(Nodes(tree.values)) |-> Nodes(tree.values)[k].number]
<1>1. Answer("Children") = [ok |-> tree.list, numbers |-> IF tree.list THEN listed ELSE << >>]
  BY DEF Answer
<1>0. << >> \in Seq(Nat)
  OBVIOUS
<1>2. CASE ~Has(field)
  <2>1. tree.list = FALSE
    BY <1>2 DEF TreeOK, Absent
  <2>2. QED
    BY <1>0, <1>1, <1>2, <2>1, AnswerParts DEF Matching
<1>3. CASE Has(field) /\ ~field.repeated
  <2>1. tree.list = FALSE
    BY <1>3, Converted DEF TreeOK
  <2>2. QED
    BY <1>0, <1>1, <1>3, <2>1, AnswerParts DEF Matching
<1>4. CASE Has(field) /\ field.repeated
  <2>0. /\ n \in Nat /\ field.holds \in Seq(Nat)
    BY BoundsAssumption DEF FieldOK, Numbers
  <2>1. /\ tree = convertValue(field) /\ tree.list = TRUE
        /\ tree.values \in Seq(Values) /\ Len(tree.values) = n
        /\ \A k \in 1..n :
             /\ tree.values[k] = convertSingularValue(field, k)
             /\ tree.values[k].kind = IF field.family = "message" THEN "node" ELSE field.family
    BY <1>4, Converted DEF TreeOK, FieldOK
  <2>2. CASE field.family = "message"
    <3>1. Nodes(tree.values) = tree.values
      BY <2>1, <2>2, AllNodes
    <3>2. ASSUME NEW k \in 1..n PROVE tree.values[k].number = field.holds[k]
      <4>1. tree.values[k] = Value("node", field.holds[k], 0)
        BY <2>1, <2>2 DEF convertSingularValue
      <4>2. QED
        BY <4>1 DEF Value
    <3>3. listed = field.holds
      <4>1. Len(tree.values) = n
        BY <2>1
      <4>2. listed = [k \in 1..n |-> tree.values[k].number]
        BY <3>1, <4>1
      <4>3. listed = [k \in 1..n |-> field.holds[k]]
        BY <3>2, <4>2
      <4>4. field.holds = [k \in 1..n |-> field.holds[k]]
        BY <2>0
      <4> HIDE DEF listed
      <4>5. QED
        BY <4>3, <4>4
    <3>4. Expected("Children") = field.holds
      BY <2>2 DEF Expected
    <3> HIDE DEF listed
    <3>5. QED
      BY <1>1, <1>4, <2>0, <2>1, <3>3, <3>4, AnswerParts DEF Matching
  <2>3. CASE field.family # "message"
    <3>1. \A k \in 1..n : tree.values[k].kind # "node"
      BY <2>1, <2>3 DEF FieldOK, Families, Scalars
    <3>2. Nodes(tree.values) = << >>
      BY <2>1, <3>1, NoNodes
    <3>3. listed = << >>
      BY <3>2
    <3>4. Expected("Children") = << >>
      BY <2>3 DEF Expected
    <3> HIDE DEF listed
    <3>5. QED
      BY <1>0, <1>1, <1>4, <2>1, <3>3, <3>4, AnswerParts DEF Matching
  <2>4. QED
    BY <2>2, <2>3
<1>5. QED
  BY <1>2, <1>3, <1>4

\* Every other accessor answers for a single value of its own type; for bytes,
\* with a slice that no rule can have written to.
LEMMA SingularAnswer ==
  ASSUME FieldOK, TreeOK, HeapOK, parsed, NEW accessor \in Accessors \ {"Children"}
  PROVE  /\ Answer(accessor) \in Answers
         /\ Answer(accessor).ok <=> Matching(accessor)
         /\ Answer(accessor).ok => Answer(accessor).numbers = Expected(accessor)
<1> DEFINE v == tree.values[1]
<1>1. Answer(accessor) = IF tree # Absent /\ ~tree.list /\ Holds(v, accessor)
                         THEN [ok |-> TRUE, numbers |-> <<Reading(v)>>] ELSE NoAnswer
  BY DEF Answer
<1>2. CASE ~Has(field)
  <2>1. Answer(accessor) = NoAnswer
    BY <1>1, <1>2 DEF TreeOK
  <2>2. QED
    BY <1>2, <2>1 DEF NoAnswer, Matching, Answers
<1>3. CASE Has(field) /\ field.repeated
  <2>1. Answer(accessor) = NoAnswer
    BY <1>1, <1>3, Converted DEF TreeOK
  <2>2. QED
    BY <1>3, <2>1 DEF NoAnswer, Matching, Answers
<1>4. CASE Has(field) /\ ~field.repeated
  <2>0. tree = convertValue(field) /\ tree # Absent /\ tree.list = field.repeated
    BY <1>4, Converted DEF TreeOK
  <2>1. /\ tree # Absent /\ tree.list = FALSE
        /\ Len(field.holds) = 1
        /\ v = convertSingularValue(field, 1)
        /\ v.kind = IF field.family = "message" THEN "node" ELSE field.family
    <3>0. Len(field.holds) > 0
      BY <1>4, Converted
    <3>1. Len(field.holds) = 1 /\ 1 \in 1..Len(field.holds)
      <4>1. Len(field.holds) \in Nat
        BY DEF FieldOK
      <4>2. Len(field.holds) <= 1
        BY <1>4 DEF FieldOK
      <4>3. QED
        BY <3>0, <4>1, <4>2, JustOne
    <3>2. QED
      <4>1. /\ v = convertSingularValue(field, 1)
            /\ v.kind = IF field.family = "message" THEN "node" ELSE field.family
        BY <1>4, <2>0, <3>1, Converted
      <4>2. tree.list = FALSE
        BY <1>4, <2>0 DEF FieldOK
      <4>3. QED
        BY <2>0, <3>1, <4>1, <4>2
  <2>2. /\ field.holds[1] \in Nat /\ field.holds = <<field.holds[1]>>
        /\ field.family \in Families
    BY <2>1, BoundsAssumption DEF FieldOK, Numbers
  <2>3. Holds(v, accessor) <=> Matching(accessor)
    <3>1. v.kind = (IF accessor = "Child" THEN "node" ELSE accessor)
            <=> field.family = (IF accessor = "Child" THEN "message" ELSE accessor)
      BY <2>1, <2>2 DEF Families, Scalars, Accessors
    <3>2. QED
      BY <1>4, <3>1 DEF Holds, Matching
  <2>4. CASE ~Matching(accessor)
    <3>1. Answer(accessor) = NoAnswer
      BY <1>1, <2>3, <2>4
    <3>2. QED
      BY <2>4, <3>1 DEF NoAnswer, Answers
  <2>5. CASE Matching(accessor)
    <3>1. Answer(accessor) = [ok |-> TRUE, numbers |-> <<Reading(v)>>]
      BY <1>1, <2>1, <2>3, <2>5
    <3>2. <<Reading(v)>> = Expected(accessor) /\ Reading(v) \in Nat
      <4>1. CASE field.family = "enum"
        <5>1. accessor = "enum"
          BY <2>5, <4>1 DEF Matching
        <5>2. v.kind = "enum" /\ v.number = EnumName(field.holds[1])
          BY <2>1, <4>1 DEF convertSingularValue, Value
        <5>3. QED
          BY <2>2, <5>1, <5>2 DEF Reading, Expected, EnumName
      <4>2. CASE field.family = "bytes"
        <5>1. accessor = "bytes"
          BY <2>5, <4>2 DEF Matching
        <5>2. v.kind = "bytes" /\ v.at = 1
          BY <2>1, <4>2 DEF convertSingularValue, Value
        <5>3. heap[1] = field.holds[1]
          BY <1>4, <2>1, <4>2 DEF HeapOK, OwnSlices
        <5>4. QED
          BY <2>2, <5>1, <5>2, <5>3 DEF Reading, Expected
      <4>3. CASE field.family \notin {"enum", "bytes"}
        <5>1. accessor # "enum" /\ v.kind # "bytes" /\ v.number = field.holds[1]
          BY <2>1, <2>5, <4>3 DEF Matching, convertSingularValue, Value
        <5>2. QED
          BY <2>2, <5>1 DEF Reading, Expected
      <4>4. QED
        BY <4>1, <4>2, <4>3
    <3>3. <<Reading(v)>> \in Seq(Nat)
      BY <3>2
    <3>4. QED
      BY <2>5, <3>1, <3>2, <3>3 DEF Answers
  <2>6. QED
    BY <2>4, <2>5
<1>5. QED
  BY <1>2, <1>3, <1>4

\* Whatever is asked, now, is answered by the statement as it was parsed.
LEMMA AnswerIsCorrect ==
  ASSUME FieldOK, TreeOK, HeapOK, parsed, NEW accessor \in Accessors
  PROVE  /\ Answer(accessor) \in Answers
         /\ Answer(accessor).ok <=> Matching(accessor)
         /\ Answer(accessor).ok => Answer(accessor).numbers = Expected(accessor)
  BY ChildrenAnswer, SingularAnswer

-----------------------------------------------------------------------------
(* The invariant.                                                          *)

\* The slices of the tree stay what they are when a slice is added behind them or
\* one that lies behind them is written to.
LEMMA HeapGrows ==
  ASSUME HeapOK, OwnSlices \in Nat, NEW x \in Nat, heap' = Append(heap, x),
         held' = held \cup {Len(heap) + 1}, UNCHANGED <<field, parsed>>
  PROVE  HeapOK'
<1>0. OwnSlices' = OwnSlices
  BY DEF OwnSlices, Has
<1>1. /\ heap' \in Seq(Nat) /\ Len(heap') = Len(heap) + 1 /\ Len(heap) \in Nat
      /\ \A k \in 1..Len(heap) : heap'[k] = heap[k]
  BY DEF HeapOK
<1>2. \A k \in 1..OwnSlices : k \in 1..Len(heap) /\ heap[k] = field.holds[k]
  BY <1>1 DEF HeapOK
<1>3. \A k \in 1..OwnSlices' : heap'[k] = field'.holds[k]
  BY <1>0, <1>1, <1>2
<1>4. \A a \in held' : a \in 1..Len(heap') /\ a > OwnSlices'
  BY <1>0, <1>1 DEF HeapOK
<1>5. OwnSlices' <= Len(heap')
  BY <1>0, <1>1 DEF HeapOK
<1>6. QED
  BY <1>1, <1>3, <1>4, <1>5 DEF HeapOK

\* The invariant is inductive.
LEMMA IInvInductive == IInv /\ [Next]_vars => IInv'
<1> SUFFICES ASSUME IInv, [Next]_vars PROVE IInv'
  OBVIOUS
<1>0. UNCHANGED field /\ FieldOK /\ FieldOK'
  <2>1. UNCHANGED field
    BY DEF Next, Parse, Ask, Write, vars
  <2>2. QED
    BY <2>1 DEF IInv, FieldOK
<1>a. field.holds \in Seq(Nat) /\ Len(field.holds) \in Nat
  BY BoundsAssumption DEF IInv, FieldOK, Numbers
<1>b. OwnSlices \in Nat
  <2>1. OwnSlices = Len(field.holds) \/ OwnSlices = 0
    BY DEF OwnSlices
  <2>2. QED
    BY <1>a, <2>1
<1>1. CASE Parse
  <2>1. TreeOK'
    BY <1>0, <1>1 DEF Parse, TreeOK, Has
  <2>2. held' = {} /\ asked' = << >> /\ parsed' = TRUE
    BY <1>1 DEF Parse, IInv, Unparsed
  <2>3. HeapOK'
    <3>1. CASE field.family = "bytes" /\ Has(field)
      <4>1. heap' = [k \in 1..Len(field.holds) |-> field.holds[k]]
        BY <1>1, <3>1 DEF Parse
      <4>2. heap' = field.holds
        <5>1. field.holds = [k \in 1..Len(field.holds) |-> field.holds[k]]
          BY <1>a
        <5>2. QED
          BY <4>1, <5>1
      <4>3. OwnSlices' = Len(field.holds)
        BY <1>0, <2>2, <3>1 DEF OwnSlices, Has
      <4>4. QED
        BY <1>0, <1>a, <2>2, <4>2, <4>3 DEF HeapOK
    <3>2. CASE ~(field.family = "bytes" /\ Has(field))
      <4>1. heap' = << >>
        BY <1>1, <3>2 DEF Parse
      <4>2. OwnSlices' = 0
        BY <1>0, <3>2 DEF OwnSlices, Has
      <4>3. QED
        BY <2>2, <4>1, <4>2 DEF HeapOK
    <3>3. QED
      BY <3>1, <3>2
  <2>4. AskedOK' /\ Unparsed'
    BY <2>2 DEF AskedOK, Unparsed
  <2>5. QED
    BY <1>0, <2>1, <2>3, <2>4 DEF IInv
<1>2. ASSUME NEW accessor \in Accessors, Ask(accessor) PROVE IInv'
  <2>0. parsed /\ UNCHANGED <<field, parsed, tree>> /\ TreeOK' /\ Unparsed'
    BY <1>2 DEF Ask, IInv, TreeOK, Has, Unparsed
  <2>1. /\ Answer(accessor) \in Answers
        /\ Answer(accessor).ok <=> Matching(accessor)
        /\ Answer(accessor).ok => Answer(accessor).numbers = Expected(accessor)
    BY <1>0, <2>0, AnswerIsCorrect DEF IInv
  <2>2. AskedOK'
    <3> DEFINE q == [accessor |-> accessor, answer |-> Answer(accessor)]
    <3>1. q.accessor = accessor /\ q.answer = Answer(accessor)
      OBVIOUS
    <3>2. q \in Questions
      BY <2>1 DEF Questions, Answers
    <3>3. asked' = Append(asked, q)
      BY <1>2 DEF Ask
    <3> HIDE DEF q
    <3>4. Correct(q)
      BY <2>1, <3>1 DEF Correct
    <3>5. asked \in Seq(Questions) /\ \A k \in 1..Len(asked) : Correct(asked[k])
      BY DEF IInv, AskedOK
    <3>6. /\ asked' \in Seq(Questions) /\ Len(asked') = Len(asked) + 1
          /\ \A k \in 1..Len(asked') : asked'[k] = q \/ (k \in 1..Len(asked) /\ asked'[k] = asked[k])
      BY <3>2, <3>3, <3>5
    <3>7. \A k \in 1..Len(asked') : Correct(asked'[k])
      BY <3>4, <3>5, <3>6
    <3>8. QED
      BY <1>0, <3>6, <3>7 DEF AskedOK, Correct, Matching, Expected, Has
  <2>3. HeapOK'
    <3>1. CASE accessor = "bytes" /\ Answer(accessor).ok
      <4>1. field.family = "bytes" /\ Has(field) /\ ~field.repeated
        BY <2>1, <3>1 DEF Matching
      <4>2. tree.values[1].at \in 1..Len(heap)
        <5>1. /\ Len(field.holds) > 0 /\ tree = convertValue(field)
              /\ tree.values[1] = convertSingularValue(field, 1)
          BY <1>0, <1>a, <2>0, <4>1, Converted DEF IInv, TreeOK
        <5>2. tree.values[1].at = 1
          BY <4>1, <5>1 DEF convertSingularValue, Value
        <5>3. OwnSlices = Len(field.holds)
          BY <2>0, <4>1 DEF OwnSlices
        <5>4. QED
          BY <1>a, <5>1, <5>2, <5>3 DEF IInv, HeapOK
      <4>3. heap[tree.values[1].at] \in Nat
        BY <4>2 DEF IInv, HeapOK
      <4>4. Bytes(tree.values[1])
        BY <1>2, <3>1 DEF Ask
      <4>5. QED
        BY <1>b, <2>0, <4>3, <4>4, HeapGrows DEF Bytes, IInv
    <3>2. CASE ~(accessor = "bytes" /\ Answer(accessor).ok)
      <4>1. UNCHANGED <<field, parsed, heap, held>>
        BY <1>2, <2>0, <3>2 DEF Ask
      <4>2. QED
        BY <4>1 DEF IInv, HeapOK, OwnSlices, Has
    <3>3. QED
      BY <3>1, <3>2
  <2>4. QED
    BY <1>0, <2>0, <2>2, <2>3 DEF IInv
<1>3. ASSUME NEW a \in held, Write(a) PROVE IInv'
  <2>1. /\ heap' = [heap EXCEPT ![a] = Scribble]
        /\ UNCHANGED <<field, parsed, tree, held, asked>>
    BY <1>3 DEF Write
  <2>2. HeapOK'
    <3>1. OwnSlices' = OwnSlices
      BY <2>1 DEF OwnSlices, Has
    <3>2. Scribble \in Nat
      BY BoundsAssumption DEF Scribble
    <3>3. a \in 1..Len(heap) /\ a > OwnSlices /\ heap \in Seq(Nat)
      BY DEF IInv, HeapOK
    <3>4. /\ heap' \in Seq(Nat) /\ Len(heap') = Len(heap)
          /\ \A k \in 1..Len(heap) : k # a => heap'[k] = heap[k]
      BY <2>1, <3>2, <3>3
    <3>5. QED
      BY <1>b, <2>1, <3>1, <3>3, <3>4 DEF IInv, HeapOK
  <2>3. TreeOK' /\ AskedOK'
    BY <2>1 DEF IInv, TreeOK, AskedOK, Correct, Matching, Expected, Has
  <2>4. Unparsed'
    BY <2>1 DEF IInv, Unparsed
  <2>5. QED
    BY <1>0, <2>2, <2>3, <2>4 DEF IInv
<1>4. CASE UNCHANGED vars
  BY <1>0, <1>4 DEF vars, IInv, TreeOK, HeapOK, OwnSlices, Unparsed, AskedOK, Correct,
     Matching, Expected, Has
<1>5. QED
  BY <1>1, <1>2, <1>3, <1>4 DEF Next

\* Any field of a message satisfies it before the message is converted.
LEMMA IInvInitially == Init => IInv
<1> SUFFICES ASSUME Init PROVE IInv
  OBVIOUS
<1> DEFINE Lists(n) == [family : Families, repeated : {TRUE}, holds : [1..n -> Numbers]]
           Singles(n) == [family : Families, repeated : {FALSE}, holds : [1..n -> Numbers]]
<1>1. FieldOK
  <2>1. ASSUME NEW n \in 0..MaxItems, field \in Lists(n) PROVE FieldOK
    <3>1. n \in Nat
      BY BoundsAssumption
    <3>2. field.holds \in Seq(Numbers)
      BY <2>1, <3>1
    <3>3. QED
      BY <2>1, <3>2 DEF FieldOK
  <2>2. ASSUME NEW n \in 0..1, field \in Singles(n) PROVE FieldOK
    <3>1. field.holds \in Seq(Numbers) /\ Len(field.holds) <= 1
      BY <2>2
    <3>2. QED
      BY <2>2, <3>1 DEF FieldOK
  <2>3. \/ \E n \in 0..MaxItems : field \in Lists(n)
        \/ \E n \in 0..1 : field \in Singles(n)
    BY DEF Init, Backend
  <2> HIDE DEF Lists, Singles
  <2>4. CASE \E n \in 0..MaxItems : field \in Lists(n)
    BY <2>1, <2>4
  <2>5. CASE \E n \in 0..1 : field \in Singles(n)
    BY <2>2, <2>5
  <2>6. QED
    BY <2>3, <2>4, <2>5
<1>2. TreeOK /\ Unparsed /\ AskedOK
  <2>1. parsed = FALSE /\ tree = Absent /\ heap = << >> /\ held = {} /\ asked = << >>
    BY DEF Init
  <2>2. TreeOK
    BY <2>1 DEF TreeOK
  <2>3. QED
    <3>1. asked \in Seq(Questions) /\ Len(asked) = 0
      BY <2>1
    <3>2. QED
      BY <2>1, <2>2, <3>1 DEF Unparsed, AskedOK
<1>3. HeapOK
  BY DEF Init, HeapOK, OwnSlices
<1>4. QED
  BY <1>1, <1>2, <1>3 DEF IInv

\* So the invariant always holds.
LEMMA AlwaysIInv == Spec => []IInv
  BY IInvInitially, IInvInductive, PTL DEF Spec

-----------------------------------------------------------------------------
(* The theorems.                                                           *)

\* Rules of any number of validations may ask what they like, in any order, and
\* write to every slice they get: each answer is what the statement's text said.
THEOREM AnswersStayTrue == Spec => []AnswersAreTheStatement
<1>1. IInv => AnswersAreTheStatement
  BY DEF IInv, AskedOK, Correct, AnswersAreTheStatement
<1>2. QED
  BY <1>1, AlwaysIInv, PTL

\* No write of a rule reaches a slice of the tree: Value.Bytes hands out copies.
THEOREM TreeStaysImmutable == Spec => []TreeIsImmutable
<1>1. IInv => TreeIsImmutable
  <2> SUFFICES ASSUME IInv, tree # Absent, field.family = "bytes"
               PROVE  [k \in 1..Len(tree.values) |-> Reading(tree.values[k])] = field.holds
    BY DEF TreeIsImmutable
  <2>1. parsed /\ Has(field) /\ tree = convertValue(field)
    BY DEF IInv, TreeOK
  <2>2. FieldOK /\ HeapOK /\ OwnSlices = Len(field.holds)
    BY <2>1 DEF IInv, OwnSlices
  <2>3. Len(tree.values) = Len(field.holds)
    BY <2>1, <2>2, Converted
  <2>4. ASSUME NEW k \in 1..Len(field.holds) PROVE Reading(tree.values[k]) = field.holds[k]
    <3>1. tree.values[k] = Value("bytes", 0, k)
      BY <2>1, <2>2, Converted DEF convertSingularValue
    <3>2. Reading(tree.values[k]) = heap[k]
      BY <3>1 DEF Reading, Value
    <3>3. QED
      BY <2>2, <3>2 DEF HeapOK
  <2>5. field.holds = [k \in 1..Len(field.holds) |-> field.holds[k]]
    BY <2>2 DEF FieldOK
  <2>6. QED
    BY <2>3, <2>4, <2>5
<1>2. QED
  BY <1>1, AlwaysIInv, PTL
=============================================================================
