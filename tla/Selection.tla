------------------------------ MODULE Selection ------------------------------
(* Statements over the rows of one table that satisfy a predicate, and the   *)
(* parts of a predicate that planners take (query/predicate.h, term.h,       *)
(* expression.h, constant.h, scan/select_scan.h, project_scan.h and          *)
(* query/planner/basic_update_planner.h). An expression is the name of a     *)
(* field or a constant. The scan below goes over the rows once, in order.    *)
EXTENDS Naturals, Sequences, FiniteSets, SequencesExt, FiniteSetsExt

CONSTANTS
    Names,          \* names of fields
    Ints, Strs,     \* constants of the two types
    ZeroInt,        \* the 0 of Ints
    Schemas,        \* functions from some of Names to Ints or to Strs
    Rows,           \* of each schema, sequences of rows
    Predicates,     \* sequences of terms [lhs, rhs]
    Targets         \* of statements: [kind, list, target, new_value]

Literals == Ints \cup Strs
Typed(schema) == {row \in [DOMAIN schema -> Literals] : \A f \in DOMAIN schema : row[f] \in schema[f]}

ASSUME SelectionAssumption ==
    /\ Ints \cap Strs = {} /\ Names \cap Literals = {} /\ ZeroInt \in Ints
    /\ {"none", "throw"} \cap (Names \cup Literals) = {}
    /\ \A schema \in Schemas :
          /\ DOMAIN schema \subseteq Names /\ schema \in [DOMAIN schema -> {Ints, Strs}]
          /\ \A table \in Rows[schema] : table \in Seq(Typed(schema))
    /\ \A terms \in Predicates : terms \in Seq([lhs : Names \cup Literals, rhs : Names \cup Literals])
    /\ \A target \in Targets :
          target \in [kind : {"select", "delete", "modify"}, list : Seq(Names), target : Names,
                     new_value : Names \cup Literals]

VARIABLES
    sch,        \* of the table
    pred,
    stmt,       \* "select" a list of fields, "delete", or "modify" a field to an expression
    rows,
    live,       \* rows whose flag is used
    row_at,     \* where the scan is
    ends,       \* what next or the statement's use of the row did: "row", "end" or "throw"
    selected,   \* what a select has returned
    before      \* ghost: rows before the statement

selectionVars == <<sch, pred, stmt, rows, live, row_at, ends, selected, before>>

Known(e) == e \in Names => e \in DOMAIN sch

evaluate(e, row) == IF e \in Names THEN row[e] ELSE e

\* Two constants of different types are not equal; a field that is not there throws.
TermHolds(t, row) ==
    IF ~(Known(t.lhs) /\ Known(t.rhs)) THEN "throw"
    ELSE IF evaluate(t.lhs, row) = evaluate(t.rhs, row) THEN "true" ELSE "false"

is_satisfied_last(row) == IF pred = <<>> THEN "true" ELSE TermHolds(Last(pred), row)

\* In order, up to the first term that is not true.
is_satisfied(row) ==
    LET others == {i \in DOMAIN pred : TermHolds(pred[i], row) # "true"}
    IN IF others = {} THEN "true" ELSE TermHolds(pred[Min(others)], row)

\* Two schemas, or two rows, as one; the first counts for a name of both.
Both(f, g) == [x \in DOMAIN f \cup DOMAIN g |-> IF x \in DOMAIN f THEN f[x] ELSE g[x]]

applies_to(t, schema) == {t.lhs, t.rhs} \cap Names \subseteq DOMAIN schema

\* Parts of the predicate, as the places of their terms, which stay in their order.
select_sub_pred(schema) == {i \in DOMAIN pred : applies_to(pred[i], schema)}

join_sub_pred(schema1, schema2) ==
    {i \in DOMAIN pred : /\ ~applies_to(pred[i], schema1) /\ ~applies_to(pred[i], schema2)
                         /\ applies_to(pred[i], Both(schema1, schema2))}

\* The constant or the field on the other side of a term.
Other(t, name, others) ==
    IF t.lhs = name /\ t.rhs \in others THEN t.rhs ELSE IF t.rhs = name /\ t.lhs \in others THEN t.lhs ELSE "none"

\* as_int and as_str are both asked of what the first term gives, 0 if nothing, unless it is
\* an integer that is not 0: no later term is ever looked at.
equates_with_constant(name) ==
    IF pred = <<>> THEN ZeroInt
    ELSE LET c == Other(pred[1], name, Literals) IN IF c \in Ints \ {ZeroInt} THEN c ELSE "throw"

equates_with_field(name) ==
    LET those == {i \in DOMAIN pred : Other(pred[i], name, Names) # "none"}
    IN IF those = {} THEN "none" ELSE Other(pred[Min(those)], name, Names)

-----------------------------------------------------------------------------

InitSelection ==
    /\ sch \in Schemas /\ pred \in Predicates /\ stmt \in Targets
    /\ before \in Rows[sch]
    /\ rows = before /\ live = DOMAIN rows
    /\ row_at = 0 /\ ends = "row" /\ selected = <<>>

\* select_scan::next: the next row for which the predicate is not false, 0 for none.
Hit == LET ahead == {i \in live : i > row_at /\ is_satisfied(rows[i]) # "false"} IN IF ahead = {} THEN 0 ELSE Min(ahead)

\* next does not return: it is at the end, or the predicate throws at a row.
next_ends ==
    /\ ends = "row"
    /\ Hit # 0 => is_satisfied(rows[Hit]) = "throw"
    /\ ends' = IF Hit = 0 THEN "end" ELSE "throw"
    /\ UNCHANGED <<sch, pred, stmt, rows, live, row_at, selected, before>>

At_next(kind) == stmt.kind = kind /\ ends = "row" /\ Hit # 0 /\ is_satisfied(rows[Hit]) = "true" /\ row_at' = Hit

\* The fields of the list are read through project_scan, which throws for those of no table.
select_next ==
    /\ At_next("select")
    /\ IF ToSet(stmt.list) \subseteq DOMAIN sch
       THEN /\ selected' = Append(selected, [f \in ToSet(stmt.list) |-> rows[Hit][f]])
            /\ UNCHANGED ends
       ELSE ends' = "throw" /\ UNCHANGED selected
    /\ UNCHANGED <<sch, pred, stmt, rows, live, before>>

delete_next ==
    /\ At_next("delete")
    /\ live' = live \ {Hit}
    /\ UNCHANGED <<sch, pred, stmt, rows, ends, selected, before>>

\* The value is of the row as it is; set_val throws for a value of another type.
modify_next ==
    /\ At_next("modify")
    /\ IF Known(stmt.new_value) /\ stmt.target \in DOMAIN sch /\ evaluate(stmt.new_value, rows[Hit]) \in sch[stmt.target]
       THEN rows' = [rows EXCEPT ![Hit][stmt.target] = evaluate(stmt.new_value, rows[Hit])] /\ UNCHANGED ends
       ELSE ends' = "throw" /\ UNCHANGED rows
    /\ UNCHANGED <<sch, pred, stmt, live, selected, before>>

NextSelection == next_ends \/ select_next \/ delete_next \/ modify_next

SelectionSpec == InitSelection /\ [][NextSelection]_selectionVars

-----------------------------------------------------------------------------

\* The variables have their types.
SelectionTypeOK ==
    /\ sch \in Schemas /\ pred \in Predicates /\ stmt \in Targets
    /\ before \in Rows[sch] /\ rows \in [DOMAIN before -> Typed(sch)]
    /\ live \subseteq DOMAIN before /\ row_at \in {0} \cup DOMAIN before
    /\ ends \in {"row", "end", "throw"}
    /\ selected \in Seq(UNION {[list -> Literals] : list \in SUBSET Names})

Holds(places, row) == \A i \in places : evaluate(pred[i].lhs, row) = evaluate(pred[i].rhs, row)

PredNames == (UNION {{pred[i].lhs, pred[i].rhs} : i \in DOMAIN pred}) \cap Names

\* The names of the statement are of fields, and its value of the type of the one it is for.
Fits ==
    /\ stmt.kind = "select" => ToSet(stmt.list) \subseteq DOMAIN sch
    /\ stmt.kind = "modify" =>
          /\ stmt.target \in DOMAIN sch /\ Known(stmt.new_value)
          /\ IF stmt.new_value \in Names THEN sch[stmt.new_value] = sch[stmt.target]
                                         ELSE stmt.new_value \in sch[stmt.target]

\* The rows that satisfied the predicate before the statement, and those it has come to.
Hits == {i \in DOMAIN before : \A j \in DOMAIN pred : TermHolds(pred[j], before[i]) = "true"}
Done == {i \in Hits : i <= row_at}

\* A statement does to the rows that satisfied its predicate before it what it says, to no
\* other row and to each once, though it changes rows under the scan. It throws only if a
\* name is of no field or a value of another type than its field, and keeps what it has
\* done by then.
StatementIsExact ==
    /\ ends = "throw" => ~(Fits /\ PredNames \subseteq DOMAIN sch)
    /\ ends = "end" => Done = Hits
    /\ Fits => /\ Len(selected) = IF stmt.kind = "select" THEN Cardinality(Done) ELSE 0
               /\ live = IF stmt.kind = "delete" THEN DOMAIN before \ Done ELSE DOMAIN before
               /\ \A i \in DOMAIN before :
                     rows[i] = IF stmt.kind = "modify" /\ i \in Done
                               THEN [before[i] EXCEPT ![stmt.target] = evaluate(stmt.new_value, before[i])]
                               ELSE before[i]

\* The parts of a predicate for two tables and for their join are all of it: rows that pass
\* the three pass the predicate and the other way round, if the tables have no field name
\* in common and each of its fields is of one of them. What it is said to equate a field
\* with is what the field has in every row that passes.
SplitIsExact ==
    \A other \in {schema \in Schemas : DOMAIN schema \cap DOMAIN sch = {}} :
        \A r \in Typed(sch), r2 \in Typed(other) :
            (\A i \in DOMAIN pred : applies_to(pred[i], Both(sch, other))) =>
                /\ Holds(DOMAIN pred, Both(r, r2)) <=>
                      /\ Holds(select_sub_pred(sch), r) /\ Holds(select_sub_pred(other), r2)
                      /\ Holds(join_sub_pred(sch, other), Both(r, r2))
                /\ Cardinality(select_sub_pred(sch)) + Cardinality(join_sub_pred(sch, other)) <= Len(pred)
                /\ Holds(DOMAIN pred, Both(r, r2)) => \A f \in DOMAIN sch :
                      /\ equates_with_constant(f) \notin {"throw", ZeroInt} => r[f] = equates_with_constant(f)
                      /\ equates_with_field(f) # "none" => r[f] = Both(r, r2)[equates_with_field(f)]

\* What statements do to the rows of a predicate, and what planners make of it, is exact.
SelectionIsExact == StatementIsExact /\ SplitIsExact
=============================================================================
