----------------------------- MODULE MCQueries -----------------------------
(* Instances of Products, Parser, Selection and Materialize for TLC. The     *)
(* four share nothing here: a behaviour is one of one of them, and the       *)
(* variables of the others stay as they are.                                 *)
EXTENDS Products, Parser, Selection, Materialize

VARIABLE part

MCStatements ==
    {<<"select", "id", "comma", "id", "from", "id", "comma", "id", "where", "id", "=", "num", "and", "str", "=", "id">>,
     <<"insert", "into", "id", "(", "id", "comma", "id", ")", "values", "(", "num", "comma", "str", ")">>,
     <<"delete", "from", "id", "where", "id", "=", "id">>,
     <<"update", "id", "set", "id", "=", "num", "where", "id", "=", "str">>,
     <<"create", "view", "id", "as", "select", "id", "from", "id", "where", "id", "=", "num">>,
     <<"create", "index", "id", "on", "id", "(", "id", ")">>,
     <<"create", "table", "id", "(", "id", "varchar", "(", "num", ")", "comma", "id", "int", ")">>,
     <<"create", "table", "id", "(", "id", "int", ")">>}

Tokens == UNION {ToSet(x) : x \in MCStatements} \cup {"join"}

\* Each statement, with each of its tokens left out, and with each token in the place of
\* each and before each.
Edited ==
    UNION {{RemoveAt(x, n) : n \in DOMAIN x}
             \cup {ReplaceAt(x, n, t) : n \in DOMAIN x, t \in Tokens}
             \cup {InsertAt(x, n, t) : n \in 1..(Len(x) + 1), t \in Tokens} : x \in MCStatements}

MCGiven == {<<>>, <<"select">>} \cup Edited \cup MCStatements

Numbers == [{"a", "b"} -> 0..1]
Joined == {[a |-> x, b |-> 0] : x \in 0..2}
Lists(set, n) == UNION {[1..m -> set] : m \in 0..n}
MCRecords == Numbers \cup Joined
MCSorted == Lists(Numbers, 4)
MCLeft == Lists(Joined, 2)
MCRight == Lists(Joined, 4)

MCSchemas == {[a |-> Ints, b |-> Strs], [c |-> Ints], [a |-> Ints]}
MCRows == [schema \in MCSchemas |-> UNION {[1..m -> Typed(schema)] : m \in 0..2}]
MCTerms ==
    {[lhs |-> t[1], rhs |-> t[2]] : t \in {<<"a", "0">>, <<"1", "a">>, <<"b", "x">>, <<"a", "b">>, <<"a", "c">>,
                                          <<"c", "1">>, <<"0", "0">>, <<"0", "1">>}}
MCPredicates == UNION {[1..m -> MCTerms] : m \in 0..2}
MCTargets ==
    [kind : {"select"}, list : {<<"a">>, <<"b", "a">>, <<"c">>}, target : {"a"}, new_value : {"0"}]
      \cup [kind : {"delete"}, list : {<<>>}, target : {"a"}, new_value : {"0"}]
      \cup [kind : {"modify"}, list : {<<>>}, target : {"a", "b"}, new_value : {"1", "x", "a", "b", "c"}]

InitQueries ==
    /\ part \in {"product", "parser", "selection", "rows"}
    /\ IF part = "selection" THEN TRUE
       ELSE sch = [c |-> Ints] /\ pred = <<>> /\ stmt \in Targets /\ stmt.kind = "delete" /\ before = <<>>
    /\ IF part = "product" THEN TRUE ELSE left = 0 /\ size = 0 /\ available = 0
    /\ IF part = "rows" THEN TRUE ELSE kind = "sort" /\ tables = <<<<>>>> /\ fields = {"a"}
    /\ Init /\ InitParser /\ InitSelection /\ InitMaterialize

Product == part = "product" /\ UNCHANGED <<part, parserVars, selectionVars, materializeVars>>
Sentence == part = "parser" /\ UNCHANGED <<part, vars, selectionVars, materializeVars>>
Statement == part = "selection" /\ UNCHANGED <<part, vars, parserVars, materializeVars>>
Rowwise == part = "rows" /\ UNCHANGED <<part, vars, parserVars, selectionVars>>

\* Bound: after a single token that has been read one statement more is given, which is
\* read from anywhere in it.
Given == IF fresh THEN Statements ELSE IF text = <<"select">> THEN MCStatements ELSE {}

NextQueries ==
    \/ Product /\ Next
    \/ Sentence /\ \E x \in Given, caller \in {"query", "update"} : analyze(x, caller)
    \/ Sentence /\ create_query_plan
    \/ Sentence /\ execute_update
    \/ Statement /\ next_ends
    \/ Statement /\ select_next
    \/ Statement /\ delete_next
    \/ Statement /\ modify_next
    \/ Rowwise /\ split_into_runs
    \/ Rowwise /\ merge_two_runs
    \/ Rowwise /\ do_a_merge_iteration
    \/ Rowwise /\ open_scan
    \/ Rowwise /\ before_first_rows
    \/ Rowwise /\ sort_next
    \/ Rowwise /\ group_next
    \/ Rowwise /\ gather
    \/ Rowwise /\ join_next
    \/ Rowwise /\ meet
    \/ Rowwise /\ before_first_index
    \/ Rowwise /\ index_next

SpecQueries == InitQueries /\ [][NextQueries]_<<part, vars, parserVars, selectionVars, materializeVars>>
=============================================================================
