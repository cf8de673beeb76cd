------------------------------- MODULE Facade -------------------------------
(***************************************************************************)
(* The values of a parsed tree and the accessors through which rules read  *)
(* them: convertValue copies one field of a backend message, Node's typed  *)
(* accessors answer about it. Any rule of any concurrent validation may    *)
(* ask again and again, and may write to the slices it was given; the      *)
(* slices of bytes are kept in a heap, so that a write is seen by all who  *)
(* share one.                                                              *)
(*                                                                         *)
(* A field of the message has a family and is repeated or not; what it     *)
(* holds is abstracted to numbers, 0 being the family's zero value, and    *)
(* for an enum a number above MaxEnum has no name. A message is 0 when it  *)
(* is an empty wrapper.                                                    *)
(***************************************************************************)
EXTENDS Naturals, Sequences, FiniteSets

CONSTANTS
  MaxItems,   \* bound on the elements of a repeated field
  MaxNumber,  \* bound on the numbers
  MaxEnum,    \* numbers of an enum that have a name
  MaxAsked    \* bound on the questions asked

ASSUME BoundsAssumption ==
  MaxItems \in Nat /\ MaxNumber \in Nat /\ MaxEnum \in 0..MaxNumber /\ MaxAsked \in Nat

VARIABLES
  field,   \* the backend's field: family, whether it is repeated, what it holds
  parsed,  \* whether the message was converted
  tree,    \* the field's values in the package-owned node
  heap,    \* slices of bytes by address
  held,    \* addresses of slices that rules were given
  asked    \* the answers rules got

vars == <<field, parsed, tree, heap, held, asked>>

Scalars == {"bool", "int", "uint", "float", "string", "bytes", "enum"}
Families == Scalars \cup {"message"}
Numbers == 0..MaxNumber
Scribble == MaxNumber + 1

Backend ==
  (UNION {[family : Families, repeated : {TRUE}, holds : [1..n -> Numbers]] : n \in 0..MaxItems})
    \cup (UNION {[family : Families, repeated : {FALSE}, holds : [1..n -> Numbers]] : n \in 0..1})

-----------------------------------------------------------------------------
(* Conversion.                                                             *)

\* source.Has: a scalar without presence is there unless it is zero.
Has(f) ==
  /\ f.holds # << >>
  /\ f.repeated \/ f.family = "message" \/ f.holds[1] # 0

\* A Value: its kind, its number and, for bytes, the address of its slice.
Value(kind, number, address) == [kind |-> kind, number |-> number, at |-> address]

\* The name of an enum number, or the empty one.
EnumName(n) == IF n <= MaxEnum THEN n ELSE 0

\* Element k of the field; its bytes are copied to slice k.
convertSingularValue(f, k) ==
  IF f.family = "enum" THEN Value("enum", EnumName(f.holds[k]), 0)
  ELSE IF f.family = "message" THEN Value("node", f.holds[k], 0)
  ELSE IF f.family = "bytes" THEN Value("bytes", 0, k)
  ELSE Value(f.family, f.holds[k], 0)

convertValue(f) ==
  [list |-> f.repeated, values |-> [k \in 1..Len(f.holds) |-> convertSingularValue(f, k)]]

Absent == [list |-> FALSE, values |-> << >>]

\* convertMessage leaves out what is not there.
Parse ==
  /\ ~parsed /\ parsed' = TRUE
  /\ tree' = IF Has(field) THEN convertValue(field) ELSE Absent
  /\ heap' = IF field.family = "bytes" /\ Has(field)
             THEN [k \in 1..Len(field.holds) |-> field.holds[k]] ELSE << >>
  /\ UNCHANGED <<field, held, asked>>

-----------------------------------------------------------------------------
(* The accessors.                                                          *)

Accessors == Scalars \cup {"Child", "Children"}

NoAnswer == [ok |-> FALSE, numbers |-> << >>]

\* Fault: a string is recognised by its storage, which enums share.
HoldsStorage(v, accessor) ==
  \/ v.kind = IF accessor = "Child" THEN "node" ELSE accessor
  \/ accessor = "string" /\ v.kind = "enum" /\ v.number # 0

\* The value's kind is the accessor's.
Holds(v, accessor) == v.kind = IF accessor = "Child" THEN "node" ELSE accessor

\* What a value says now.
Reading(v) == IF v.kind = "bytes" THEN heap[v.at] ELSE v.number

\* The values that are nodes, in their order in the list.
Nodes(values) ==
  LET places == {k \in 1..Len(values) : values[k].kind = "node"}
      Rank(k) == Cardinality({l \in places : l <= k})
  IN  [n \in 1..Cardinality(places) |-> values[CHOOSE k \in places : Rank(k) = n]]

\* What an accessor answers about the field.  Nothing is answered about a field
\* that is not there; Children has no second result, but nil is one.
Answer(accessor) ==
  IF accessor = "Children"
  THEN [ok |-> tree.list,
        numbers |-> IF tree.list
                    THEN [k \in 1..Len(Nodes(tree.values)) |-> Nodes(tree.values)[k].number]
                    ELSE << >>]
  ELSE IF tree # Absent /\ ~tree.list /\ Holds(tree.values[1], accessor)
  THEN [ok |-> TRUE, numbers |-> <<Reading(tree.values[1])>>]
  ELSE NoAnswer

\* Fault: the slice of the tree itself is handed out.
BytesShared(v) == heap' = heap /\ held' = held \cup {v.at}

\* Bytes gives a snapshot of the slice.
Bytes(v) == heap' = Append(heap, heap[v.at]) /\ held' = held \cup {Len(heap) + 1}

\* A rule asks about the field.  Children's slice is made for the answer and not
\* kept by the tree, like a snapshot of bytes, and is left out of the heap.
Ask(accessor) ==
  /\ parsed /\ Len(asked) < MaxAsked
  /\ asked' = Append(asked, [accessor |-> accessor, answer |-> Answer(accessor)])
  /\ \/ accessor = "bytes" /\ Answer(accessor).ok /\ Bytes(tree.values[1])
     \/ ~(accessor = "bytes" /\ Answer(accessor).ok) /\ UNCHANGED <<heap, held>>
  /\ UNCHANGED <<field, parsed, tree>>

\* It writes to a slice it was given.
Write(a) ==
  /\ heap' = [heap EXCEPT ![a] = Scribble]
  /\ UNCHANGED <<field, parsed, tree, held, asked>>

Init ==
  /\ field \in Backend
  /\ parsed = FALSE /\ tree = Absent
  /\ heap = << >> /\ held = {} /\ asked = << >>

Next ==
  \/ Parse
  \/ \E accessor \in Accessors : Ask(accessor)
  \/ \E a \in held : Write(a)

Spec == Init /\ [][Next]_vars

-----------------------------------------------------------------------------
(* Properties.                                                             *)

\* Whether the field is there and of the accessor's type.
Matching(accessor) ==
  /\ Has(field)
  /\ field.repeated <=> accessor = "Children"
  /\ accessor # "Children" =>
       field.family = IF accessor = "Child" THEN "message" ELSE accessor

\* The numbers an accessor of the field's type must answer with; Children leaves
\* out what is not a node.
Expected(accessor) ==
  IF accessor = "enum" THEN <<EnumName(field.holds[1])>>
  ELSE IF accessor = "Children" /\ field.family # "message" THEN << >>
  ELSE field.holds

\* Every answer is about the statement as it was parsed: an accessor answers
\* exactly for a field of its own type, with what the text said, no matter what
\* rules did to the slices they were given before.
AnswersAreTheStatement ==
  \A k \in 1..Len(asked) :
    LET accessor == asked[k].accessor
        answer == asked[k].answer
    IN  /\ answer.ok <=> Matching(accessor)
        /\ answer.ok => answer.numbers = Expected(accessor)

\* The tree never changes once parsed: whatever rules write to, each slice that
\* the tree refers to still holds what was copied from the backend.
TreeIsImmutable ==
  tree # Absent /\ field.family = "bytes" =>
    [k \in 1..Len(tree.values) |-> Reading(tree.values[k])] = field.holds
=============================================================================
