------------------------- MODULE BuiltinRulesProofs -------------------------
(***************************************************************************)
(* The six rules decide every batch as their descriptions say, whichever   *)
(* of them are registered, in whichever order and however long the batch,  *)
(* but for ALTER TABLE ... RENAME and ... SET SCHEMA.                      *)
(*                                                                         *)
(* The core is that a rule, which sees only the structure the grammar made *)
(* of a command, rejects exactly the commands its policy forbids and it    *)
(* does not overlook. The loops of ValidatePrepared then keep an           *)
(* invariant: no pair of a statement and a rule before the one they are at *)
(* was to be refused.                                                      *)
(***************************************************************************)
EXTENDS BuiltinRules, TLAPS

-----------------------------------------------------------------------------
(* What each rule rejects.                                                 *)

\* A root has the field the grammar gave it, and no other.
LEMMA OneField ==
  ASSUME NEW name, NEW value, NEW root, root.fields = Field(name, value)
  PROVE  /\ \A n, t : Has(root, n, t) <=> n = name /\ value.type = t
         /\ Enum(root, name) = value.of
  BY DEF Field, Has, Enum

\* A root without fields has none, of any type.
LEMMA NoField ==
  ASSUME NEW root, root.fields = << >>
  PROVE  \A n, t : ~Has(root, n, t)
  BY DEF Has

\* The parts of a statement.
LEMMA Parts ==
  ASSUME NEW command
  PROVE  /\ Statement(command).kind = KindOf(command)
         /\ Statement(command).fields = FieldsOf(command)
  BY DEF Statement

\* What a command may be.
LEMMA CommandForms ==
  ASSUME NEW command \in Commands
  PROVE  \/ /\ command.verb \in {"UPDATE", "DELETE", "SELECT"}
            /\ command.clause \in {"none", "where", "current_of"}
         \/ /\ command.verb = "INSERT"
            /\ command.clause \in {"values", "query", "default", "columns_values",
                                   "columns_query"}
         \/ command.verb = "TRUNCATE"
         \/ command.verb = "DROP" /\ command.object \in Objects
         \/ /\ command.verb = "ALTER" /\ command.object \in Objects
            /\ command.clause \in {"subcommand", "all_in_tablespace", "rename", "set_schema"}
  BY DEF Commands, Objects

\* The kind of a root says what the verb was.
LEMMA KindSaysVerb ==
  ASSUME NEW command \in Commands
  PROVE  /\ KindOf(command) = "UpdateStmt" <=> command.verb = "UPDATE"
         /\ KindOf(command) = "DeleteStmt" <=> command.verb = "DELETE"
         /\ KindOf(command) = "InsertStmt" <=> command.verb = "INSERT"
         /\ KindOf(command) = "TruncateStmt" <=> command.verb = "TRUNCATE"
         /\ KindOf(command) = "DropStmt" <=> command.verb = "DROP"
         /\ KindOf(command) = "AlterTableStmt" <=>
              command.verb = "ALTER" /\ command.clause = "subcommand"
         /\ KindOf(command) = "AlterTableMoveAllStmt" <=>
              command.verb = "ALTER" /\ command.clause = "all_in_tablespace"
  BY CommandForms DEF KindOf, AlterKind

\* WHERE is the only clause of UPDATE and DELETE the rules ask for, and CURRENT OF
\* is one.
LEMMA WhereIsSeen ==
  ASSUME NEW command \in Commands, command.verb \in {"UPDATE", "DELETE"}
  PROVE  Child(Statement(command), "where_clause") <=> command.clause # "none"
<1> DEFINE root == Statement(command)
<1>1. /\ root.fields = Where(command.clause)
      /\ command.clause \in {"none", "where", "current_of"}
  BY Parts, CommandForms DEF FieldsOf
<1>2. NodeValue("A_Expr").type = "node" /\ NodeValue("CurrentOfExpr").type = "node"
  BY DEF NodeValue
<1>3. Child(root, "where_clause") <=> Has(root, "where_clause", "node")
  BY DEF Child
<1> HIDE DEF root
<1>4. CASE command.clause = "none"
  <2>1. root.fields = << >>
    BY <1>1, <1>4 DEF Where
  <2>2. QED
    BY <1>3, <1>4, <2>1, NoField DEF root
<1>5. CASE command.clause = "where"
  <2>1. root.fields = Field("where_clause", NodeValue("A_Expr"))
    BY <1>1, <1>5 DEF Where
  <2>2. Has(root, "where_clause", "node")
    BY <1>2, <2>1, OneField
  <2>3. QED
    BY <1>3, <1>5, <2>2 DEF root
<1>6. CASE command.clause = "current_of"
  <2>1. root.fields = Field("where_clause", NodeValue("CurrentOfExpr"))
    BY <1>1, <1>6 DEF Where
  <2>2. Has(root, "where_clause", "node")
    BY <1>2, <2>1, OneField
  <2>3. QED
    BY <1>3, <1>6, <2>2 DEF root
<1>7. QED
  BY <1>1, <1>4, <1>5, <1>6

\* An INSERT has target columns when it names them, wherever its rows come from.
LEMMA ColumnsAreSeen ==
  ASSUME NEW command \in Commands, command.verb = "INSERT"
  PROVE  Len(Children(Statement(command), "cols")) = 0
           <=> command.clause \in {"values", "query", "default"}
<1> DEFINE root == Statement(command)
<1>1. /\ root.fields = Columns(command.clause)
      /\ command.clause \in {"values", "query", "default", "columns_values", "columns_query"}
  BY Parts, CommandForms DEF FieldsOf
<1>2. ListValue("ResTarget").type = "list"
  BY DEF ListValue
<1>3. Children(root, "cols") =
        IF Has(root, "cols", "list") THEN <<root.fields["cols"].of>> ELSE << >>
  BY DEF Children
<1> HIDE DEF root
<1>4. CASE command.clause \in {"values", "query", "default"}
  <2>1. root.fields = << >>
    BY <1>1, <1>4 DEF Columns
  <2>2. Children(root, "cols") = << >>
    BY <1>3, <2>1, NoField
  <2>3. QED
    BY <1>4, <2>2 DEF root
<1>5. CASE command.clause \in {"columns_values", "columns_query"}
  <2>1. root.fields = Field("cols", ListValue("ResTarget"))
    BY <1>1, <1>5 DEF Columns
  <2>2. Has(root, "cols", "list")
    BY <1>2, <2>1, OneField
  <2>3. Len(Children(root, "cols")) = 1
    <3>1. \A x : Len(<<x>>) = 1
      OBVIOUS
    <3>2. QED
      BY <1>3, <2>2, <3>1
  <2>4. Len(Children(root, "cols")) # 0
    BY <2>3
  <2>5. command.clause \notin {"values", "query", "default"}
    BY <1>5
  <2>6. QED
    BY <2>4, <2>5 DEF root
<1>6. QED
  BY <1>1, <1>4, <1>5

\* What is dropped or altered is named by the field the rule asks for.
LEMMA ObjectIsSeen ==
  ASSUME NEW command \in Commands, command.verb \in {"DROP", "ALTER"}
  PROVE  OfTable(Statement(command), ObjectField[KindOf(command)])
           <=> command.object = "TABLE"
<1> DEFINE root == Statement(command)
           name == ObjectField[KindOf(command)]
<1>1. root.fields = Field(name, ObjectType(command.object)) /\ command.object \in Objects
  BY Parts, CommandForms DEF FieldsOf
<1>2. /\ ObjectType(command.object).type = "enum"
      /\ ObjectType(command.object).of = "OBJECT_TABLE" <=> command.object = "TABLE"
  BY <1>1 DEF ObjectType, EnumValue, Objects
<1> HIDE DEF root, name
<1>3. Has(root, name, "enum") /\ Enum(root, name) = ObjectType(command.object).of
  BY <1>1, <1>2, OneField
<1>4. OfTable(root, name) <=> command.object = "TABLE"
  BY <1>2, <1>3 DEF OfTable
<1>5. QED
  BY <1>4 DEF root, name

\* A rule rejects exactly what its policy forbids and it does not overlook.
LEMMA RuleIsPolicy ==
  ASSUME NEW rule \in RuleIDs, NEW command \in Commands
  PROVE  RejectsCommand(rule, command)
           <=> Forbids(rule, command) /\ ~Overlooked(rule, command)
<1> DEFINE root == Statement(command)
<1>0. root.kind = KindOf(command)
  BY Parts
<1>1. requireWhereClause(root, "UpdateStmt")
        <=> command.verb = "UPDATE" /\ command.clause = "none"
  BY <1>0, KindSaysVerb, WhereIsSeen DEF requireWhereClause
<1>2. requireWhereClause(root, "DeleteStmt")
        <=> command.verb = "DELETE" /\ command.clause = "none"
  BY <1>0, KindSaysVerb, WhereIsSeen DEF requireWhereClause
<1>3. insertRequiresColumns(root)
        <=> command.verb = "INSERT" /\ command.clause \in {"values", "query", "default"}
  BY <1>0, KindSaysVerb, ColumnsAreSeen DEF insertRequiresColumns
<1>4. denyTruncate(root) <=> command.verb = "TRUNCATE"
  BY <1>0, KindSaysVerb DEF denyTruncate
<1>5. denyDropTable(root) <=> command.verb = "DROP" /\ command.object = "TABLE"
  <2>1. KindOf(command) = "DropStmt" => ObjectField[KindOf(command)] = "remove_type"
    BY DEF ObjectField
  <2>2. QED
    BY <1>0, <2>1, KindSaysVerb, ObjectIsSeen DEF denyDropTable
<1>6. denyAlterTable(root)
        <=> IsAlterTable(command) /\ command.clause \in {"subcommand", "all_in_tablespace"}
  <2>1. KindOf(command) \in {"AlterTableStmt", "AlterTableMoveAllStmt"} =>
          ObjectField[KindOf(command)] = "objtype"
    BY DEF ObjectField
  <2>2. QED
    BY <1>0, <2>1, KindSaysVerb, ObjectIsSeen DEF denyAlterTable, IsAlterTable
<1> HIDE DEF root
<1>7. RejectsCommand(rule, command) <=> Rejects(rule, root)
  BY DEF RejectsCommand, root
<1>8. IsAlterTable(command) =>
        command.clause \in {"subcommand", "all_in_tablespace", "rename", "set_schema"}
  BY CommandForms DEF IsAlterTable
<1>9. QED
  BY <1>1, <1>2, <1>3, <1>4, <1>5, <1>6, <1>7, <1>8 DEF Rejects, Forbids, Overlooked

-----------------------------------------------------------------------------
(* The loops of ValidatePrepared.                                          *)

TypeOK ==
  /\ registered \in Seq(RuleIDs) /\ batch \in Seq(Commands)
  /\ i \in Nat /\ j \in Nat

\* No pair before the one the loops are at was to be refused.
LoopOK ==
  /\ i = 0 => verdict = << >>
  /\ InLoop => /\ j > 0
               /\ \A t \in 1..Len(batch), q \in 1..Len(registered) :
                    Before(t, q, i, j) => ~Refused(t, q)

IInv == TypeOK /\ LoopOK /\ VerdictIsPolicy

\* While the rules and the batch stay, what is to be refused does too.
LEMMA RefusedStays ==
  ASSUME UNCHANGED <<registered, batch>>
  PROVE  \A s, r : Refused(s, r)' <=> Refused(s, r)
  BY DEF Refused, Forbids, Overlooked, IsAlterTable

\* The rule at r rejects the statement at s if and only if it is to refuse it.
LEMMA RejectsRefused ==
  ASSUME TypeOK, NEW s \in 1..Len(batch), NEW r \in 1..Len(registered)
  PROVE  RejectsCommand(registered[r], batch[s]) <=> Refused(s, r)
<1>1. registered[r] \in RuleIDs /\ batch[s] \in Commands
  BY DEF TypeOK
<1>2. QED
  BY <1>1, RuleIsPolicy DEF Refused

\* A rule is none of the words that stand for the other outcomes.
LEMMA RuleNames ==
  ASSUME TypeOK, NEW r \in 1..Len(registered)
  PROVE  <<registered[r]>> \notin {<< >>, <<"allowed">>}
<1>1. registered[r] \in RuleIDs
  BY DEF TypeOK
<1>2. registered[r] # "allowed"
  BY <1>1 DEF RuleIDs
<1>3. QED
  BY <1>2

\* Nothing is decided before the loops, and they keep what was not refused.
LEMMA IInvInductive == IInv /\ [Next]_vars => IInv'
<1> SUFFICES ASSUME IInv, [Next]_vars PROVE IInv'
  OBVIOUS
<1>0. TypeOK /\ LoopOK /\ VerdictIsPolicy
  BY DEF IInv
<1>1. ASSUME NEW rule \in RuleIDs, Register(rule) PROVE IInv'
  BY <1>0, <1>1 DEF Register, IInv, TypeOK, LoopOK, InLoop, VerdictIsPolicy
<1>2. ASSUME NEW command \in Commands, Submit(command) PROVE IInv'
  BY <1>0, <1>2 DEF Submit, IInv, TypeOK, LoopOK, InLoop, VerdictIsPolicy
<1>3. CASE Validate
  <2>1. /\ i = 0 /\ i' = 1 /\ j' = 1 /\ verdict = << >> /\ verdict' = << >>
        /\ UNCHANGED <<registered, batch>>
    BY <1>0, <1>3 DEF Validate, LoopOK
  <2>2. TypeOK'
    BY <1>0, <2>1 DEF TypeOK
  <2>3. LoopOK'
    <3>1. \A t \in 1..Len(batch), q \in 1..Len(registered) : ~Before(t, q, 1, 1)
      BY <1>0 DEF Before, TypeOK
    <3>2. \A t, q : Before(t, q, i, j)' <=> Before(t, q, 1, 1)
      BY <2>1 DEF Before
    <3>3. QED
      BY <2>1, <3>1, <3>2 DEF LoopOK, InLoop
  <2>4. VerdictIsPolicy'
    BY <2>1 DEF VerdictIsPolicy
  <2>5. QED
    BY <2>2, <2>3, <2>4 DEF IInv
<1>4. CASE Evaluate
  <2>1. /\ InLoop /\ i \in 1..Len(batch) /\ j \in 1..Len(registered)
        /\ UNCHANGED <<registered, batch, i>>
    BY <1>0, <1>4 DEF Evaluate, InLoop, TypeOK, LoopOK
  <2>2. \A t \in 1..Len(batch), q \in 1..Len(registered) :
          Before(t, q, i, j) => ~Refused(t, q)
    BY <1>0, <2>1 DEF LoopOK
  <2>3. \A s, r : Refused(s, r)' <=> Refused(s, r)
    BY <2>1, RefusedStays
  <2>4. CASE RejectsCommand(registered[j], batch[i])
    <3>1. verdict' = <<registered[j]>> /\ j' = j
      BY <1>4, <2>4 DEF Evaluate
    <3>2. Refused(i, j)
      BY <1>0, <2>1, <2>4, RejectsRefused
    <3>3. verdict' \notin {<< >>, <<"allowed">>}
      BY <1>0, <2>1, <3>1, RuleNames
    <3>4. VerdictIsPolicy'
      <4>1. \A t, q : Before(t, q, i, j) => (t \in 1..Len(batch) /\ q \in 1..Len(registered)
                                               => ~Refused(t, q)')
        BY <2>2, <2>3
      <4>2. \E s \in 1..Len(batch), r \in 1..Len(registered) :
              /\ Refused(s, r)' /\ verdict' = <<registered[r]>>
              /\ \A t \in 1..Len(batch), q \in 1..Len(registered) :
                   Before(t, q, s, r) => ~Refused(t, q)'
        BY <2>1, <2>3, <3>1, <3>2, <4>1
      <4>3. QED
        BY <2>1, <3>3, <4>2 DEF VerdictIsPolicy, Before
    <3>5. LoopOK'
      BY <2>1, <3>3 DEF LoopOK, InLoop
    <3>6. TypeOK'
      BY <1>0, <2>1, <3>1 DEF TypeOK
    <3>7. QED
      BY <3>4, <3>5, <3>6 DEF IInv
  <2>5. CASE ~RejectsCommand(registered[j], batch[i])
    <3>1. verdict' = << >> /\ j' = j + 1
      BY <1>4, <2>1, <2>5 DEF Evaluate, InLoop
    <3>2. ~Refused(i, j)
      BY <1>0, <2>1, <2>5, RejectsRefused
    <3>3. ASSUME NEW t \in 1..Len(batch), NEW q \in 1..Len(registered), Before(t, q, i, j + 1)
          PROVE  ~Refused(t, q)
      <4>1. Before(t, q, i, j) \/ (t = i /\ q = j)
        BY <1>0, <2>1, <3>3 DEF Before, TypeOK
      <4>2. QED
        BY <2>2, <3>2, <4>1
    <3>4. LoopOK'
      <4>1. \A t, q : Before(t, q, i, j)' <=> Before(t, q, i, j + 1)
        BY <2>1, <3>1 DEF Before
      <4>2. j' > 0 /\ i' # 0
        BY <1>0, <2>1, <3>1 DEF TypeOK
      <4>3. QED
        BY <2>1, <2>3, <3>3, <4>1, <4>2 DEF LoopOK
    <3>5. TypeOK' /\ VerdictIsPolicy'
      BY <1>0, <2>1, <3>1 DEF TypeOK, VerdictIsPolicy
    <3>6. QED
      BY <3>4, <3>5 DEF IInv
  <2>6. QED
    BY <2>4, <2>5
<1>5. CASE NextStatement
  <2>1. /\ InLoop /\ i > 0 /\ j > Len(registered) /\ i' = i + 1 /\ j' = 1 /\ verdict' = << >>
        /\ UNCHANGED <<registered, batch>>
    BY <1>5 DEF NextStatement, InLoop
  <2>2. \A s, r : Refused(s, r)' <=> Refused(s, r)
    BY <2>1, RefusedStays
  <2>3. ASSUME NEW t \in 1..Len(batch), NEW q \in 1..Len(registered), Before(t, q, i + 1, 1)
        PROVE  ~Refused(t, q)
    <3>1. Before(t, q, i, j)
      BY <1>0, <2>1, <2>3 DEF Before, TypeOK
    <3>2. QED
      BY <1>0, <2>1, <3>1 DEF LoopOK
  <2>4. LoopOK'
    <3>1. \A t, q : Before(t, q, i, j)' <=> Before(t, q, i + 1, 1)
      BY <2>1 DEF Before
    <3>2. i' # 0
      BY <1>0, <2>1 DEF TypeOK
    <3>3. QED
      BY <2>1, <2>2, <2>3, <3>1, <3>2 DEF LoopOK
  <2>5. TypeOK' /\ VerdictIsPolicy'
    BY <1>0, <2>1 DEF TypeOK, VerdictIsPolicy
  <2>6. QED
    BY <2>4, <2>5 DEF IInv
<1>6. CASE AllowBatch
  <2>1. /\ InLoop /\ i > 0 /\ i > Len(batch) /\ verdict' = <<"allowed">>
        /\ UNCHANGED <<registered, batch, i, j>>
    BY <1>6 DEF AllowBatch, InLoop
  <2>2. \A s, r : Refused(s, r)' <=> Refused(s, r)
    BY <2>1, RefusedStays
  <2>3. ASSUME NEW s \in 1..Len(batch), NEW r \in 1..Len(registered)
        PROVE  ~Refused(s, r)
    <3>1. Before(s, r, i, j)
      BY <1>0, <2>1 DEF Before, TypeOK
    <3>2. QED
      BY <1>0, <2>1, <3>1 DEF LoopOK
  <2>4. VerdictIsPolicy'
    BY <2>1, <2>2, <2>3 DEF VerdictIsPolicy
  <2>5. LoopOK' /\ TypeOK'
    BY <1>0, <2>1 DEF LoopOK, InLoop, TypeOK
  <2>6. QED
    BY <2>4, <2>5 DEF IInv
<1>7. CASE UNCHANGED vars
  <2>1. UNCHANGED <<registered, batch, i, j, verdict>>
    BY <1>7 DEF vars
  <2>2. \A s, r : Refused(s, r)' <=> Refused(s, r)
    BY <2>1, RefusedStays
  <2>3. TypeOK' /\ LoopOK'
    BY <1>0, <2>1, <2>2 DEF TypeOK, LoopOK, InLoop, Before
  <2>4. VerdictIsPolicy'
    BY <1>0, <2>1, <2>2 DEF VerdictIsPolicy, Before
  <2>5. QED
    BY <2>3, <2>4 DEF IInv
<1>8. QED
  BY <1>1, <1>2, <1>3, <1>4, <1>5, <1>6, <1>7 DEF Next

\* Whatever is registered and submitted: a batch is refused in the name of the
\* first registered rule that forbids its first forbidden command, and allowed
\* when there is none, but for the ALTER TABLE forms deny_alter_table overlooks.
THEOREM VerdictsArePolicy == Spec => []VerdictIsPolicy
<1>1. Init => IInv
  BY DEF Init, IInv, TypeOK, LoopOK, InLoop, VerdictIsPolicy
<1>2. IInv => VerdictIsPolicy
  BY DEF IInv
<1>3. QED
  BY <1>1, <1>2, IInvInductive, PTL DEF Spec
=============================================================================
