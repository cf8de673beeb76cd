---------------------------- MODULE BuiltinRules ----------------------------
(***************************************************************************)
(* The six rules of pkg/rules, evaluated on the statements PostgreSQL's    *)
(* grammar makes of commands.  An application registers some of them in    *)
(* some order and validates a batch of commands, which ValidatePrepared    *)
(* walks statement by statement, rule by rule.  The commands declare no    *)
(* CTE, so that each is one statement, and the context does not end        *)
(* (modules SyntaxTree and Engine).                                        *)
(*                                                                         *)
(* A rule sees structure only.  Statement(command) is the part of the      *)
(* backend's tree that the rules can ask for (external): the kind of the   *)
(* root and the fields they name.                                          *)
(***************************************************************************)
EXTENDS Naturals, Sequences

CONSTANTS
  MaxBatch,   \* bound on the commands of a batch
  MaxRules    \* bound on the rules registered

ASSUME BoundAssumption == MaxBatch \in Nat /\ MaxRules \in Nat

VARIABLES
  registered,  \* rule identifiers in registration order
  batch,       \* the commands, in input order
  i,           \* statement of the outer loop, 0 before validation
  j,           \* rule of the inner loop
  verdict      \* << >> until decided, then <<identifier>> or <<"allowed">>

vars == <<registered, batch, i, j, verdict>>

RuleIDs == {"update_requires_where", "delete_requires_where",
            "insert_requires_columns", "deny_truncate", "deny_drop_table",
            "deny_alter_table"}

-----------------------------------------------------------------------------
(* Commands, and what the grammar makes of them.                           *)

Objects == {"TABLE", "VIEW", "INDEX"}

\* verb, object and clause; a WHERE clause may be a predicate or CURRENT OF, an
\* INSERT takes its rows from VALUES, a query or DEFAULT VALUES.
Commands ==
  [verb : {"UPDATE", "DELETE"}, object : {"TABLE"}, clause : {"none", "where", "current_of"}]
    \cup [verb : {"INSERT"}, object : {"TABLE"},
          clause : {"values", "query", "default", "columns_values", "columns_query"}]
    \cup [verb : {"TRUNCATE"}, object : {"TABLE"}, clause : {"none"}]
    \cup [verb : {"DROP"}, object : Objects, clause : {"none", "if_exists"}]
    \cup [verb : {"ALTER"}, object : Objects, clause : {"subcommand", "rename", "set_schema"}]
    \cup [verb : {"ALTER"}, object : {"TABLE", "INDEX"}, clause : {"all_in_tablespace"}]
    \cup [verb : {"SELECT"}, object : {"TABLE"}, clause : {"none", "where"}]

NodeValue(kind) == [type |-> "node", of |-> kind]
EnumValue(name) == [type |-> "enum", of |-> name]
ListValue(kind) == [type |-> "list", of |-> kind]

\* The fields of a node that has one the rules name; << >> when it has none.
Field(name, value) == [n \in {name} |-> value]

\* RENAME and SET SCHEMA are statement kinds of their own.
AlterKind ==
  [subcommand |-> "AlterTableStmt", all_in_tablespace |-> "AlterTableMoveAllStmt",
   rename |-> "RenameStmt", set_schema |-> "AlterObjectSchemaStmt"]

KindOf(command) ==
  IF command.verb = "ALTER" THEN AlterKind[command.clause]
  ELSE [UPDATE |-> "UpdateStmt", DELETE |-> "DeleteStmt", SELECT |-> "SelectStmt",
        INSERT |-> "InsertStmt", TRUNCATE |-> "TruncateStmt", DROP |-> "DropStmt"][command.verb]

\* The field that says what kind of object is dropped or altered.
ObjectField ==
  [DropStmt |-> "remove_type", AlterTableStmt |-> "objtype",
   AlterTableMoveAllStmt |-> "objtype", RenameStmt |-> "rename_type",
   AlterObjectSchemaStmt |-> "object_type"]

ObjectType(object) ==
  EnumValue([TABLE |-> "OBJECT_TABLE", VIEW |-> "OBJECT_VIEW", INDEX |-> "OBJECT_INDEX"][object])

Where(clause) ==
  IF clause = "where" THEN Field("where_clause", NodeValue("A_Expr"))
  ELSE IF clause = "current_of" THEN Field("where_clause", NodeValue("CurrentOfExpr"))
  ELSE << >>

Columns(clause) ==
  IF clause \in {"columns_values", "columns_query"}
  THEN Field("cols", ListValue("ResTarget")) ELSE << >>

FieldsOf(command) ==
  IF command.verb \in {"UPDATE", "DELETE", "SELECT"} THEN Where(command.clause)
  ELSE IF command.verb = "INSERT" THEN Columns(command.clause)
  ELSE IF command.verb = "TRUNCATE" THEN << >>
  ELSE Field(ObjectField[KindOf(command)], ObjectType(command.object))

Statement(command) == [kind |-> KindOf(command), fields |-> FieldsOf(command)]

-----------------------------------------------------------------------------
(* Statement accessors.                                                    *)

Has(root, name, type) == name \in DOMAIN root.fields /\ root.fields[name].type = type

Child(root, name) == Has(root, name, "node")
Children(root, name) == IF Has(root, name, "list") THEN <<root.fields[name].of>> ELSE << >>

Enum(root, name) == root.fields[name].of

-----------------------------------------------------------------------------
(* The rules.  Each is TRUE when Evaluate rejects.                         *)

requireWhereClause(root, kind) == root.kind = kind /\ ~Child(root, "where_clause")

insertRequiresColumns(root) ==
  root.kind = "InsertStmt" /\ Len(Children(root, "cols")) = 0

denyTruncate(root) == root.kind = "TruncateStmt"

\* Fault: what is dropped is not looked at.
denyDrop(root) == root.kind = "DropStmt"

\* A statement that does not say what it drops or alters counts as a table's.
OfTable(root, name) == ~Has(root, name, "enum") \/ Enum(root, name) = "OBJECT_TABLE"

denyDropTable(root) == root.kind = "DropStmt" /\ OfTable(root, "remove_type")

denyAlterTable(root) ==
  /\ root.kind \in {"AlterTableStmt", "AlterTableMoveAllStmt"}
  /\ OfTable(root, "objtype")

Rejects(rule, root) ==
  \/ rule = "update_requires_where" /\ requireWhereClause(root, "UpdateStmt")
  \/ rule = "delete_requires_where" /\ requireWhereClause(root, "DeleteStmt")
  \/ rule = "insert_requires_columns" /\ insertRequiresColumns(root)
  \/ rule = "deny_truncate" /\ denyTruncate(root)
  \/ rule = "deny_drop_table" /\ denyDropTable(root)
  \/ rule = "deny_alter_table" /\ denyAlterTable(root)

-----------------------------------------------------------------------------

\* The rules are fixed when NewEngine returns.
Register(rule) ==
  /\ i = 0 /\ batch = << >>
  /\ Len(registered) < MaxRules
  /\ \A k \in 1..Len(registered) : registered[k] # rule   \* NewEngine refuses it
  /\ registered' = Append(registered, rule)
  /\ UNCHANGED <<batch, i, j, verdict>>

Submit(command) ==
  /\ i = 0
  /\ Len(batch) < MaxBatch
  /\ batch' = Append(batch, command)
  /\ UNCHANGED <<registered, i, j, verdict>>

\* ValidatePrepared enters its loops.
Validate ==
  /\ i = 0
  /\ i' = 1 /\ j' = 1
  /\ UNCHANGED <<registered, batch, verdict>>

InLoop == i > 0 /\ verdict = << >>

RejectsCommand(rule, command) == Rejects(rule, Statement(command))

\* Fault: the loops are swapped, each rule walks the whole batch.
EvaluateRuleByRule ==
  /\ InLoop /\ i <= Len(batch) /\ j <= Len(registered)
  /\ \/ /\ RejectsCommand(registered[j], batch[i])
        /\ verdict' = <<registered[j]>> /\ UNCHANGED <<i, j>>
     \/ /\ ~RejectsCommand(registered[j], batch[i])
        /\ IF i = Len(batch) /\ j < Len(registered)
           THEN i' = 1 /\ j' = j + 1 ELSE i' = i + 1 /\ UNCHANGED j
        /\ UNCHANGED verdict
  /\ UNCHANGED <<registered, batch>>

\* The first rejection ends both loops with a Violation of the rule.
Evaluate ==
  /\ InLoop /\ i <= Len(batch) /\ j <= Len(registered)
  /\ IF RejectsCommand(registered[j], batch[i])
     THEN verdict' = <<registered[j]>> /\ UNCHANGED j
     ELSE j' = j + 1 /\ UNCHANGED verdict
  /\ UNCHANGED <<registered, batch, i>>

\* No rule is left for the statement.
NextStatement ==
  /\ InLoop /\ i <= Len(batch) /\ j > Len(registered)
  /\ i' = i + 1 /\ j' = 1
  /\ UNCHANGED <<registered, batch, verdict>>

\* No statement is left.
AllowBatch ==
  /\ InLoop /\ i > Len(batch)
  /\ verdict' = <<"allowed">>
  /\ UNCHANGED <<registered, batch, i, j>>

Init == registered = << >> /\ batch = << >> /\ i = 0 /\ j = 0 /\ verdict = << >>

Next ==
  \/ \E rule \in RuleIDs : Register(rule)
  \/ \E command \in Commands : Submit(command)
  \/ Validate \/ Evaluate \/ NextStatement \/ AllowBatch

Spec == Init /\ [][Next]_vars

-----------------------------------------------------------------------------
(* Properties.                                                             *)

IsAlterTable(command) == command.verb = "ALTER" /\ command.object = "TABLE"

\* The policies in terms of commands, as the rules' constructors describe them.
Forbids(rule, command) ==
  \/ /\ rule = "update_requires_where"
     /\ command.verb = "UPDATE" /\ command.clause = "none"
  \/ /\ rule = "delete_requires_where"
     /\ command.verb = "DELETE" /\ command.clause = "none"
  \/ /\ rule = "insert_requires_columns"
     /\ command.verb = "INSERT" /\ command.clause \in {"values", "query", "default"}
  \/ rule = "deny_truncate" /\ command.verb = "TRUNCATE"
  \/ rule = "deny_drop_table" /\ command.verb = "DROP" /\ command.object = "TABLE"
  \/ rule = "deny_alter_table" /\ IsAlterTable(command)

\* The one departure of the rules from the policies, which EveryAlterTableDenied
\* exhibits: deny_alter_table does not know the kinds of these statements.
Overlooked(rule, command) ==
  /\ rule = "deny_alter_table" /\ IsAlterTable(command)
  /\ command.clause \in {"rename", "set_schema"}

\* The rule registered as the r-th is to refuse the s-th command.
Refused(s, r) ==
  Forbids(registered[r], batch[s]) /\ ~Overlooked(registered[r], batch[s])

\* Statements come before rules.
Before(t, q, s, r) == t < s \/ (t = s /\ q < r)

\* Whatever rules are registered in whatever order: a batch that ValidatePrepared
\* allows holds no command that a registered rule's description forbids, and one
\* it refuses is refused in the name of the first registered rule that forbids the
\* first forbidden command.  ALTER TABLE ... RENAME and ... SET SCHEMA excepted:
\* deny_alter_table forbids them too and lets them pass.
VerdictIsPolicy ==
  /\ verdict = <<"allowed">> =>
       \A s \in 1..Len(batch), r \in 1..Len(registered) : ~Refused(s, r)
  /\ verdict \notin {<< >>, <<"allowed">>} =>
       \E s \in 1..Len(batch), r \in 1..Len(registered) :
         /\ Refused(s, r) /\ verdict = <<registered[r]>>
         /\ \A t \in 1..Len(batch), q \in 1..Len(registered) :
              Before(t, q, s, r) => ~Refused(t, q)

\* What the specification of the rules says: with deny_alter_table registered
\* every ALTER TABLE is refused, whatever the subcommand.
EveryAlterTableDenied ==
  verdict = <<"allowed">> /\ (\E k \in 1..Len(registered) : registered[k] = "deny_alter_table")
    => \A k \in 1..Len(batch) : ~IsAlterTable(batch[k])
=============================================================================
