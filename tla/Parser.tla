------------------------------- MODULE Parser -------------------------------
(* One parser that is given statement after statement (parse/lexer.cpp,      *)
(* parser.cpp, query/planner/planner.hpp): what planner hands on, against    *)
(* the grammar by counts of items and terms. A statement is a sequence       *)
(* of tokens: keywords and delimiters by name, "id", "num" and "str".        *)
EXTENDS Naturals, Sequences

CONSTANT Statements     \* token sequences a client sends

VARIABLES
    fresh,      \* m_pos is 0: nothing has been read. It is not set back by analyze.
    text,       \* what is read of the last statement, from m_pos
    asked,      \* by which call of planner: "query" or "update"
    answer      \* what planner has done with it: "query", "syntax", "crash", ...

parserVars == <<fresh, text, asked, answer>>

Words == {"select", "from", "where", "and", "insert", "into", "values", "delete", "update", "set",
          "create", "table", "view", "as", "index", "on", "int", "varchar", "join", "id"}
Constants == {"num", "str"}
Expressions == Constants \cup {"id"}
Vocabulary == Words \cup Constants \cup {"comma", "=", "(", ")"}

ASSUME ParserAssumption == Statements \subseteq Seq(Vocabulary)

-----------------------------------------------------------------------------

\* Each operator takes the position it reads from to the one behind what it has consumed,
\* 0 being an exception.
TokenAt(s, p) == IF p \in DOMAIN s THEN s[p] ELSE "eof"
Phrase(s, p, tokens) == \A j \in DOMAIN tokens : TokenAt(s, p + j - 1) = tokens[j]
Token(p) == TokenAt(text, p)
Consume(p, tokens) == IF p # 0 /\ Phrase(text, p, tokens) THEN p + Len(tokens) ELSE 0

\* select_list, table_list, field_list and const_list: how many items, and the position.
List(p, items) ==
    LET list[q \in Nat] ==
            IF q = 0 \/ Token(q) \notin items THEN [end |-> 0, items |-> 0]
            ELSE IF Token(q + 1) # "comma" THEN [end |-> q + 1, items |-> 1]
            ELSE [end |-> list[q + 2].end, items |-> list[q + 2].items + 1]
    IN list[p]
Ids(p) == List(p, {"id"}).end

predicate_one(p) == IF Token(p) \in Expressions /\ Token(p + 1) = "=" /\ Token(p + 2) \in Expressions THEN p + 3 ELSE 0

predicate(p) ==
    LET pred[q \in Nat] ==
            IF ~(Token(q) \in Expressions /\ Token(q + 1) = "=" /\ Token(q + 2) \in Expressions) THEN 0
            ELSE IF Token(q + 3) = "and" THEN pred[q + 4] ELSE q + 3
    IN pred[p]

Where(p) == IF Token(p) = "where" THEN predicate(p + 1) ELSE p

query(p) == Where(Ids(Consume(Ids(Consume(p, <<"select">>)), <<"from">>)))

Answer(end, command) == IF end = 0 THEN "syntax" ELSE command

\* Values are taken for as many fields as there are, past the end if they are fewer.
insert_cmd ==
    LET fields == List(Consume(1, <<"insert", "into", "id", "(">>), {"id"})
        vals == List(Consume(fields.end, <<")", "values", "(">>), Constants)
    IN Answer(Consume(vals.end, <<")">>), IF vals.items < fields.items THEN "overrun" ELSE "insert")

delete_cmd == Answer(Where(Consume(1, <<"delete", "from", "id">>)), "delete")

modify ==
    LET p == Consume(1, <<"update", "id", "set", "id", "=">>)
    IN IF p # 0 /\ Token(p) \in Expressions THEN Answer(Where(p + 1), "modify") ELSE "syntax"

\* field_type adds the field to a schema that has not been made.
create_table_cmd ==
    LET p == Consume(2, <<"table", "id", "(", "id">>)
    IN IF p # 0 /\ Token(p) = "int" THEN "crash"
       ELSE Answer(Consume(p, <<"varchar", "(", "num", ")">>), "crash")

create_view_cmd == Answer(query(Consume(2, <<"view", "id", "as">>)), "create_view")

create_index_cmd == Answer(Consume(2, <<"index", "id", "on", "id", "(", "id", ")">>), "create_index")

update_cmd ==
    CASE Token(1) = "insert" -> insert_cmd
      [] Token(1) = "delete" -> delete_cmd
      [] Token(1) = "update" -> modify
      [] Token(1) = "create" /\ Token(2) = "table" -> create_table_cmd
      [] Token(1) = "create" /\ Token(2) = "view" -> create_view_cmd
      [] Token(1) = "create" /\ Token(2) \notin {"table", "view"} -> create_index_cmd
      [] OTHER -> "syntax"

-----------------------------------------------------------------------------

InitParser == fresh = TRUE /\ text = <<>> /\ asked = "query" /\ answer = "none"

\* The rest of a statement from a place in it; a word that is begun in its middle is an
\* identifier by now.
Rest(stmt, start, cut) ==
    IF cut /\ start <= Len(stmt) /\ stmt[start] \in Words
    THEN <<"id">> \o SubSeq(stmt, start + 1, Len(stmt)) ELSE SubSeq(stmt, start, Len(stmt))

\* analyze goes on at m_pos, which is where the one before ended, in a new statement.
analyze(stmt, caller) ==
    /\ answer # "reading"
    /\ IF fresh THEN text' = stmt
       ELSE \E start \in 1..(Len(stmt) + 1), cut \in BOOLEAN :
               (start = 1 => cut) /\ text' = Rest(stmt, start, cut)
    /\ fresh' = (fresh /\ stmt = <<>>)
    /\ asked' = caller
    /\ answer' = "reading"

create_query_plan ==
    /\ answer = "reading" /\ asked = "query"
    /\ answer' = Answer(query(1), "query")
    /\ UNCHANGED <<fresh, text, asked>>

execute_update ==
    /\ answer = "reading" /\ asked = "update"
    /\ answer' = update_cmd
    /\ UNCHANGED <<fresh, text, asked>>

NextParser ==
    \/ \E stmt \in Statements, caller \in {"query", "update"} : analyze(stmt, caller)
    \/ create_query_plan
    \/ execute_update

ParserSpec == InitParser /\ [][NextParser]_parserVars

-----------------------------------------------------------------------------

\* The grammar, by counts: what of s, from a place p on, is a list of n items, a condition of
\* n terms and a query that ends before q.
HasList(s, p, n, items) ==
    /\ n > 0
    /\ \A j \in 0..(n - 1) : TokenAt(s, p + 2 * j) \in items /\ (j > 0 => TokenAt(s, p + 2 * j - 1) = "comma")

HasCondition(s, p, n) ==
    n > 0 => /\ TokenAt(s, p) = "where"
             /\ \A j \in 0..(n - 1) :
                   LET term == p + 4 * j + 1 IN
                   /\ TokenAt(s, term) \in Expressions /\ TokenAt(s, term + 1) = "=" /\ TokenAt(s, term + 2) \in Expressions
                   /\ j > 0 => TokenAt(s, term - 1) = "and"

HasQuery(s, p, q) ==
    /\ Phrase(s, p, <<"select">>)
    /\ \E f \in 1..Len(s) :
         /\ HasList(s, p + 1, f, {"id"}) /\ Phrase(s, p + 2 * f, <<"from">>)
         /\ \E t \in 1..Len(s) :
              /\ HasList(s, p + 2 * f + 1, t, {"id"})
              /\ \E n \in 0..Len(s) : q = p + 2 * f + 2 * t + 4 * n /\ HasCondition(s, p + 2 * f + 2 * t, n)

HasInsert(s, q, f, v) ==
    /\ Phrase(s, 1, <<"insert", "into", "id", "(">>) /\ HasList(s, 5, f, {"id"})
    /\ Phrase(s, 2 * f + 4, <<")", "values", "(">>) /\ HasList(s, 2 * f + 7, v, Constants)
    /\ Phrase(s, 2 * f + 2 * v + 6, <<")">>) /\ q = 2 * f + 2 * v + 7

\* s is a sentence of the command: all of it, up to its end.
IsSentence(s, command) ==
    LET end == Len(s) + 1 IN
    CASE command = "query" -> HasQuery(s, 1, end)
      [] command = "insert" -> \E f \in 1..Len(s), v \in 1..Len(s) : f <= v /\ HasInsert(s, end, f, v)
      [] command = "overrun" -> \E f \in 1..Len(s), v \in 1..Len(s) : f > v /\ HasInsert(s, end, f, v)
      [] command = "delete" ->
           Phrase(s, 1, <<"delete", "from", "id">>) /\ \E n \in 0..Len(s) : HasCondition(s, 4, n) /\ end = 4 + 4 * n
      [] command = "modify" ->
           /\ Phrase(s, 1, <<"update", "id", "set", "id", "=">>) /\ TokenAt(s, 6) \in Expressions
           /\ \E n \in 0..Len(s) : HasCondition(s, 7, n) /\ end = 7 + 4 * n
      [] command = "create_view" -> Phrase(s, 1, <<"create", "view", "id", "as">>) /\ HasQuery(s, 5, end)
      [] command = "create_index" ->
           Phrase(s, 1, <<"create", "index", "id", "on", "id", "(", "id", ")">>) /\ end = 9

Updates == {"insert", "overrun", "delete", "modify", "create_view", "create_index"}

\* What goes on from a sentence goes on with a list or a condition: one of these ends it.
Endings == {<<"id">>, <<"id", "=", "id">>}

\* The first n tokens of the text are a sentence, and no longer beginning of the text is the
\* beginning of one.
Reads(n, command) ==
    /\ IsSentence(SubSeq(text, 1, n), command)
    /\ n < Len(text) => \A end \in Endings : ~IsSentence(SubSeq(text, 1, n + 1) \o end, command)

Columns == {<<"create", "table", "id", "(", "id", "int">>,
            <<"create", "table", "id", "(", "id", "varchar", "(", "num", ")">>}
HasColumn == \E c \in Columns : Phrase(text, 1, c)

\* What is answered is what the grammar says of the longest beginning of the text that is
\* a beginning of a sentence: the statement of that sentence, and a syntax error if it is
\* none. What follows a sentence is not read. The first column of a table ends the program.
AnswerIsOfGrammar ==
    answer \notin {"none", "reading"} =>
        LET commands == IF asked = "query" THEN {"query"} ELSE Updates
        IN \/ answer \in commands /\ \E n \in 0..Len(text) : Reads(n, answer)
           \/ answer = "crash" /\ asked = "update" /\ HasColumn
           \/ /\ answer = "syntax"
              /\ \A c \in commands : \A n \in 0..Len(text) : ~Reads(n, c)
              /\ asked = "update" => ~HasColumn
=============================================================================
