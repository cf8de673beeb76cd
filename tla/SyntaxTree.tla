----------------------------- MODULE SyntaxTree -----------------------------
(***************************************************************************)
(* From SQL text to what rules see: Parse, the copy of the backend's       *)
(* protobuf messages into package-owned nodes, the statement sequence that *)
(* is presented to the rules, and Node.Walk.                               *)
(*                                                                         *)
(* Nodes are found by reference, 0 being the nil pointer: reference n      *)
(* stands for the *Node that convertMessage returned for message n. The    *)
(* recursive functions that go through the tree are loops over the list of *)
(* the references they still have to take up, in the order in which the    *)
(* recursion takes them up. Between two nodes of a walk the visitor runs,  *)
(* and it decides after each whether the walk goes on.                     *)
(*                                                                         *)
(* The text is built here one clause at a time, so that every text of at   *)
(* most MaxStatements statements is reached; the backend (external) sees   *)
(* it as messages with parents and fields. Only the fields that hold       *)
(* statements, CTEs or empty messages are kept. A subquery stands directly *)
(* in from_clause, without its RangeSubselect.                             *)
(***************************************************************************)
EXTENDS Naturals, Sequences, FiniteSets

CONSTANTS
  MaxStatements,   \* bound on the statements of a text
  MaxDistinct,     \* bound on its DISTINCT clauses
  MaxWalks         \* bound on the walks of its statements, at most one

ASSUME BoundAssumption ==
  MaxStatements \in Nat /\ MaxDistinct \in Nat /\ MaxWalks \in {0, 1}

VARIABLES
  messages,  \* backend messages: kind, parent (0 for the text), field of the parent
  nul,       \* {n} when a NUL byte follows the first n messages, else {}
  broken,    \* whether a syntax error follows the last statement
  phase,     \* "text", "failed", "parsed", "sequencing"
  tree,      \* reference -> package-owned node
  result,    \* the statements of the parse result
  pending,   \* what StatementSequence has still to append
  sequence,  \* what it has appended
  walk       \* Walk: its root, what is left, what was visited, where it was stopped

textVars == <<messages, nul, broken>>
parseVars == <<phase, tree, result>>
vars == <<textVars, parseVars, pending, sequence, walk>>

-----------------------------------------------------------------------------
(* The backend's messages.                                                 *)

Kinds == {"SelectStmt", "DeleteStmt", "ExplainStmt", "WithClause",
          "CommonTableExpr", "Empty"}
StatementKinds == {"SelectStmt", "DeleteStmt", "ExplainStmt"}

\* Fields in descriptor order, and the ones that repeat.
Fields ==
  [SelectStmt |-> <<"distinct_clause", "from_clause", "with_clause", "larg">>,
   DeleteStmt |-> <<"with_clause">>, ExplainStmt |-> <<"query">>,
   WithClause |-> <<"ctes">>, CommonTableExpr |-> <<"ctequery">>, Empty |-> << >>]
IsList(field) == field \in {"distinct_clause", "from_clause", "ctes"}

Ids == 1..Len(messages)
InField(n, field) == {m \in Ids : messages[m].parent = n /\ messages[m].field = field}
InOrder(S) ==
  [k \in 1..Cardinality(S) |-> CHOOSE n \in S : Cardinality({m \in S : m <= n}) = k]
StatementIds == {n \in Ids : messages[n].kind \in StatementKinds}

\* What a C-string interface lets the backend see of the text.
Seen == {n \in Ids : \A k \in nul : n <= k}
BackendFails == broken /\ nul = {}
Roots == {n \in Ids : messages[n].parent = 0}
Stmts == InOrder(Roots \cap Seen)

-----------------------------------------------------------------------------
(* Conversion to package-owned nodes.                                      *)

NilNode == [kind |-> "", fields |-> << >>]

\* A repeated field keeps its order; a message in it is a value even if nothing
\* is in the message.
convertValue(n, field) ==
  [list |-> IsList(field), nodes |-> InOrder(InField(n, field))]

\* An empty wrapper is no node; of any other message the fields are copied in
\* descriptor order.  A field that is not set stays as one with nothing in it.
convertMessage(n) ==
  LET names == Fields[messages[n].kind]
  IN  IF messages[n].kind = "Empty" THEN NilNode
      ELSE [kind |-> messages[n].kind,
            fields |-> [k \in 1..Len(names) |->
                          [name |-> names[k], value |-> convertValue(n, names[k])]]]

convertPGNode(n) == IF n = 0 THEN NilNode ELSE convertMessage(n)

\* Fault: the text is handed to the backend as it is.
rejectsNoNUL == FALSE

\* strings.IndexByte(sql, 0) >= 0
rejectsNUL == nul # {}

\* The references among refs that are no nil pointers, in their order.
NonNil(refs) ==
  LET kept == InOrder({k \in 1..Len(refs) : convertPGNode(refs[k]) # NilNode})
  IN  [k \in 1..Len(kept) |-> refs[kept[k]]]

Parse ==
  /\ phase = "text"
  /\ \/ /\ rejectsNUL \/ BackendFails
        /\ phase' = "failed"
        /\ UNCHANGED <<tree, result>>
     \/ /\ ~(rejectsNUL \/ BackendFails)
        /\ phase' = "parsed"
        /\ tree' = [n \in {0} \cup Ids |-> convertPGNode(n)]
        /\ result' = NonNil(Stmts)
  /\ UNCHANGED <<textVars, pending, sequence, walk>>

-----------------------------------------------------------------------------
(* The statement sequence.                                                 *)

HasField(node, name) ==
  \E k \in 1..Len(node.fields) : node.fields[k].name = name /\ node.fields[k].value.nodes # << >>
FieldOf(node, name) ==
  node.fields[CHOOSE k \in 1..Len(node.fields) : node.fields[k].name = name].value

\* A missing field and a field that holds no node are alike.
nodeField(node, name) ==
  IF HasField(node, name) /\ ~FieldOf(node, name).list THEN FieldOf(node, name).nodes[1] ELSE 0

CTEs(withClause) ==
  IF HasField(withClause, "ctes") /\ FieldOf(withClause, "ctes").list
  THEN FieldOf(withClause, "ctes").nodes ELSE << >>

\* The statements a statement declares.
Declarations(statement) ==
  LET ctes == CTEs(tree[nodeField(tree[statement], "with_clause")])
  IN  [k \in 1..Len(ctes) |-> nodeField(tree[ctes[k]], "ctequery")]

\* A snapshot, in input order.
Statements == result

StatementSequence ==
  /\ phase = "parsed"
  /\ phase' = "sequencing"
  /\ pending' = Statements
  /\ UNCHANGED <<textVars, tree, result, sequence, walk>>

\* Fault: the declarations are left for later, after the other statements.
appendStatementBreadth ==
  /\ phase = "sequencing" /\ pending # << >>
  /\ sequence' = Append(sequence, Head(pending))
  /\ pending' = Tail(pending) \o Declarations(Head(pending))
  /\ UNCHANGED <<textVars, parseVars, walk>>

\* The statement, then each of its CTE declarations with everything below it.
appendStatement ==
  /\ phase = "sequencing" /\ pending # << >>
  /\ IF tree[Head(pending)] = NilNode
     THEN /\ pending' = Tail(pending)
          /\ UNCHANGED sequence
     ELSE /\ sequence' = Append(sequence, Head(pending))
          /\ pending' = Declarations(Head(pending)) \o Tail(pending)
  /\ UNCHANGED <<textVars, parseVars, walk>>

\* StatementSequence has returned.
Presented == phase = "sequencing" /\ pending = << >>

-----------------------------------------------------------------------------
(* Node.Walk.                                                              *)

\* The node values of a node's fields, in field order; no kind has more than four.
ChildValues(node) ==
  LET nodes(k) == IF k <= Len(node.fields) THEN node.fields[k].value.nodes ELSE << >>
  IN  nodes(1) \o nodes(2) \o nodes(3) \o nodes(4)

Walking == walk.left # << >>

\* Fault: a visitor that returns false only skips the node's descendants.
walkNodeSkips(more) ==
  /\ Walking
  /\ LET node == Head(walk.left)
     IN  IF tree[node] = NilNode
         THEN walk' = [walk EXCEPT !.left = << >>]
         ELSE walk' = [walk EXCEPT
                !.seen = Append(@, node),
                !.stopped = IF more THEN @ ELSE node,
                !.left = IF more THEN ChildValues(tree[node]) \o Tail(@) ELSE Tail(@)]
  /\ UNCHANGED <<textVars, parseVars, pending, sequence>>

\* The visitor is called and answers more.  A false from it or from below, where
\* a nil node is one, ends the walk.
walkNode(more) ==
  /\ Walking
  /\ LET node == Head(walk.left)
     IN  IF tree[node] = NilNode
         THEN walk' = [walk EXCEPT !.left = << >>]
         ELSE walk' = [walk EXCEPT
                !.seen = Append(@, node),
                !.stopped = IF more THEN @ ELSE node,
                !.left = IF more THEN ChildValues(tree[node]) \o Tail(@) ELSE << >>]
  /\ UNCHANGED <<textVars, parseVars, pending, sequence>>

\* A walk of nothing or with no visitor returns at once and is not a step.
Walk(node) ==
  /\ walk' = [root |-> node, left |-> <<node>>, seen |-> << >>, stopped |-> 0]
  /\ UNCHANGED <<textVars, parseVars, pending, sequence>>

\* A rule walks one of the statements it is shown.
WalkStatement ==
  /\ Presented /\ walk.root = 0 /\ MaxWalks = 1
  /\ \E k \in 1..Len(sequence) : Walk(sequence[k])

-----------------------------------------------------------------------------
(* The text.                                                               *)

Message(kind, parent, field) == [kind |-> kind, parent |-> parent, field |-> field]

Write(new) ==
  /\ phase = "text" /\ ~broken
  /\ messages' = messages \o new
  /\ UNCHANGED <<nul, broken, parseVars, pending, sequence, walk>>

Room == Cardinality(StatementIds) < MaxStatements

WriteStatement ==
  /\ Room
  /\ \/ \E kind \in {"SelectStmt", "DeleteStmt"} : Write(<<Message(kind, 0, "stmts")>>)
     \/ Write(<<Message("ExplainStmt", 0, "stmts"),
                Message("DeleteStmt", Len(messages) + 1, "query")>>)

\* After a NUL byte only further statements are written: what is before it is
\* complete.
Open(n) == \A k \in nul : n > k

\* WITH name AS (statement): the first declaration brings the clause.
WriteCTE(n, kind) ==
  /\ Room /\ Open(n)
  /\ messages[n].kind \in {"SelectStmt", "DeleteStmt"}
  /\ LET next == Len(messages) + 1
         withClause == InField(n, "with_clause")
     IN  IF withClause = {}
         THEN Write(<<Message("WithClause", n, "with_clause"),
                      Message("CommonTableExpr", next, "ctes"),
                      Message(kind, next + 1, "ctequery")>>)
         ELSE Write(<<Message("CommonTableExpr", CHOOSE m \in withClause : TRUE, "ctes"),
                      Message(kind, next, "ctequery")>>)

\* A subquery in FROM or a leg of a set operation.
WriteSelect(n, field) ==
  /\ Room /\ Open(n)
  /\ messages[n].kind = "SelectStmt"
  /\ IsList(field) \/ InField(n, field) = {}
  /\ Write(<<Message("SelectStmt", n, field)>>)

\* SELECT DISTINCT: the backend marks it by a list of one empty message.
WriteDistinct(n) ==
  /\ Open(n)
  /\ Cardinality({m \in Ids : messages[m].kind = "Empty"}) < MaxDistinct
  /\ messages[n].kind = "SelectStmt" /\ InField(n, "distinct_clause") = {}
  /\ Write(<<Message("Empty", n, "distinct_clause")>>)

WriteNUL ==
  /\ phase = "text" /\ nul = {} /\ ~broken
  /\ nul' = {Len(messages)}
  /\ UNCHANGED <<messages, broken, parseVars, pending, sequence, walk>>

WriteError ==
  /\ phase = "text" /\ ~broken
  /\ broken' = TRUE
  /\ UNCHANGED <<messages, nul, parseVars, pending, sequence, walk>>

-----------------------------------------------------------------------------

Init ==
  /\ messages = << >>
  /\ nul = {}
  /\ broken = FALSE
  /\ phase = "text"
  /\ tree = [n \in {0} |-> NilNode]
  /\ result = << >> /\ pending = << >> /\ sequence = << >>
  /\ walk = [root |-> 0, left |-> << >>, seen |-> << >>, stopped |-> 0]

Next ==
  \/ WriteStatement
  \/ \E n \in Ids, kind \in {"SelectStmt", "DeleteStmt"} : WriteCTE(n, kind)
  \/ \E n \in Ids, field \in {"from_clause", "larg"} : WriteSelect(n, field)
  \/ \E n \in Ids : WriteDistinct(n)
  \/ WriteNUL \/ WriteError
  \/ Parse \/ StatementSequence \/ appendStatement
  \/ WalkStatement \/ \E more \in BOOLEAN : walkNode(more)

Spec == Init /\ [][Next]_vars

-----------------------------------------------------------------------------
(* Reference definitions, on the text.                                     *)

\* A message and everything it stands in.
Enclosing[n \in Ids] ==
  {n} \cup IF messages[n].parent = 0 THEN {} ELSE Enclosing[messages[n].parent]

Within(n) == {m \in Ids : n \in Enclosing[m]}

Place(n) == IF messages[n].parent = 0 THEN 1
            ELSE LET names == Fields[messages[messages[n].parent].kind]
                 IN  CHOOSE k \in 1..Len(names) : names[k] = messages[n].field

\* Structural pre-order: what encloses comes first, then descriptor order of
\* the fields, then order within a field.
Precedes(m, n) ==
  \/ m # n /\ m \in Enclosing[n]
  \/ \E x \in Enclosing[m], y \in Enclosing[n] :
       /\ messages[x].parent = messages[y].parent
       /\ Place(x) < Place(y) \/ (Place(x) = Place(y) /\ x < y)

InPreOrder(ids) == \A k, l \in 1..Len(ids) : k < l => Precedes(ids[k], ids[l])

\* Statements reached from the top through CTE declarations alone.
Declared ==
  {n \in StatementIds : \A m \in Enclosing[n] :
     messages[m].field \in {"stmts", "with_clause", "ctes", "ctequery"}}

-----------------------------------------------------------------------------
(* Properties.                                                             *)

Elements(refs) == {refs[k] : k \in 1..Len(refs)}

\* A parse that succeeds has taken in the complete text: all of it is well
\* formed and none of its statements is missing, also when a NUL byte would let
\* the backend see a well-formed beginning only.
ParsedIsWhole ==
  phase \in {"parsed", "sequencing"} => ~broken /\ result = InOrder(Roots)

\* The rules are shown every top-level statement and every statement declared
\* by a CTE of one that is shown, each once, a statement before its CTEs and
\* each CTE with what is below it before the next.
SequenceIsDeclarationOrder ==
  Presented => Elements(sequence) = Declared /\ InPreOrder(sequence)

Body(n) == {m \in Within(n) : messages[m].kind # "Empty"}
Unvisited == Body(walk.root) \ Elements(walk.seen)

\* Walk visits nodes in structural pre-order without a gap, and it ends early
\* only right after the node where the visitor returned false or right before
\* an empty list element.
WalkIsPreOrder ==
  walk.root # 0 =>
    /\ Elements(walk.seen) \subseteq Body(walk.root)
    /\ InPreOrder(walk.seen)
    /\ walk.stopped # 0 => walk.seen[Len(walk.seen)] = walk.stopped
    /\ \A m \in Elements(walk.seen), n \in Unvisited : Precedes(m, n)
    /\ \/ Walking \/ Unvisited = {} \/ walk.stopped # 0
       \/ \E e \in Within(walk.root) :
            /\ messages[e].kind = "Empty"
            /\ \A m \in Elements(walk.seen) : Precedes(m, e)
            /\ \A n \in Unvisited : Precedes(e, n)

\* What Walk's documentation says: the node and its descendants are visited
\* unless the visitor returns false.
WalkVisitsDescendants ==
  walk.root # 0 /\ ~Walking /\ walk.stopped = 0 => Unvisited = {}

\* What the engine's specification says: statement-bearing CTE entries at every
\* nesting depth are presented to the rules.
EveryCTEPresented ==
  Presented =>
    \A n \in StatementIds : messages[n].field = "ctequery" => n \in Elements(sequence)
=============================================================================
