----------------------------- MODULE Materialize -----------------------------
(* Sorting, grouping and merge join (materialize/sort_plan.h, sort_scan.h,   *)
(* record_comparator.h, group_by_scan.h, merge_join_scan.hpp), and the join  *)
(* through an index (index/scan/index_join_scan.h). A record is its place in *)
(* its table, and a temporary table a sequence of places: table scans over   *)
(* these return them in order, and begin again when they are asked once more *)
(* after the end (see TableScan; tables of one block). The index is complete *)
(* (see IndexedTable).                                                       *)
EXTENDS Naturals, Sequences, FiniteSets

CONSTANTS
    Fields,
    Records,    \* functions from fields to numbers
    JoinField,
    Zero,       \* the constant a constant is by default
    Sorted, Left, Right     \* tables to sort and group, and those of a join, of Records

ASSUME MaterializeAssumption ==
    /\ Records \subseteq [Fields -> Nat] /\ JoinField \in Fields /\ Zero \in Nat
    /\ Sorted \cup Left \cup Right \subseteq Seq(Records)

VARIABLES
    kind,       \* "sort", "group", "join" or "index"
    fields,     \* m_fields of the comparator, and those of the groups
    tables,     \* what is sorted: one table, or the left and the right one of a join
    read,       \* of the table that is being sorted, the records split into runs so far
    runs,       \* its runs; of those that are being merged, what has still to be copied
    result,     \* of a merge iteration; its last run is the one that is written
    scans,      \* the sort_scan of each table: runs, position in each, has_more, current run
    looping,    \* next is in its loop
    group,      \* the group that is gathered there
    has_more,   \* has_more1 and has_more2 of a merge join
    more_groups,
    m_join_val, \* or m_searchkey of the index
    saved,      \* m_saved_position of the right scan, and the run that was current
    at,         \* where an index join is: in the left table, and in the index of the right one
    row,        \* of the last next: "none", "row", "end" or "crash"
    by,         \* ghost: by which return of next
    whole,      \* ghost: every next since before_first has returned true until the last
    out         \* ghost: the rows of these: places, groups or pairs of places

request == <<kind, fields, tables>>
sortState == <<read, runs, result>>
loopState == <<looping, group, has_more>>
scanState == <<scans, more_groups, m_join_val, saved, at>>
returnedRows == <<row, by, whole, out>>
materializeVars == <<request, sortState, loopState, scanState, returnedRows>>

IsFirst(i, set) == i \in set /\ \A j \in set : i <= j

\* record_comparator::compare: whether any of the fields is equal.
Equal(r, s) == \E f \in fields : r[f] = s[f]

-----------------------------------------------------------------------------
\* sort_plan::open, for one table after the other.

Opening == kind # "index" /\ row # "crash" /\ Len(scans) < Len(tables)
Source == tables[Len(scans) + 1]
Sort == Opening /\ UNCHANGED <<request, loopState, more_groups, m_join_val, saved, at, by, whole, out>>

\* The next record goes to the run of the one before if the two are "equal".
split_into_runs ==
    /\ Sort /\ read < Len(Source)
    /\ read' = read + 1
    /\ runs' = IF read > 0 /\ Equal(Source[read], Source[read + 1])
               THEN [runs EXCEPT ![Len(runs)] = Append(@, read + 1)]
               ELSE Append(runs, <<read + 1>>)
    /\ UNCHANGED <<result, scans, row>>

Merging == Sort /\ read = Len(Source) /\ Len(runs) > 2

\* The two runs that are merged.
src2 == 2 * Len(result)
src1 == src2 - 1

copy(src) ==
    /\ runs[src] # <<>>
    /\ runs' = [runs EXCEPT ![src] = Tail(@)]
    /\ result' = [result EXCEPT ![Len(result)] = Append(@, Head(runs[src]))]

\* Of two "equal" records the second run's is copied, of others the first run's.
merge_two_runs ==
    LET both == runs[src1] # <<>> /\ runs[src2] # <<>>
        equal == both /\ Equal(Source[Head(runs[src1])], Source[Head(runs[src2])])
    IN /\ Merging
       /\ \/ ~equal /\ copy(src1)
          \/ (both => equal) /\ copy(src2)
       /\ UNCHANGED <<read, scans, row>>

Merged_cut == runs[src1] = <<>>

Merged == runs[src1] = <<>> /\ runs[src2] = <<>>

\* On to the next two runs; after the last two a run that is left over is kept as it is.
do_a_merge_iteration ==
    /\ Merging /\ Merged
    /\ IF src2 + 2 <= Len(runs)
       THEN result' = Append(result, <<>>) /\ UNCHANGED runs
       ELSE /\ runs' = IF src2 + 1 = Len(runs) THEN Append(result, runs[src2 + 1]) ELSE result
            /\ result' = <<<<>>>>
    /\ UNCHANGED <<read, scans, row>>

-----------------------------------------------------------------------------
\* A sort_scan; curr is 0 before the first next, and positions are 0 before the first
\* record of a run.

Advance(s, i) ==
    LET p == IF s.pos[i] < Len(s.runs[i]) THEN s.pos[i] + 1 ELSE 0
    IN [s EXCEPT !.pos[i] = p, !.more[i] = p > 0]

\* At the first record of each run. With one run m_rhs_has_more is whatever it is.
BeforeFirst(s) ==
    [s EXCEPT !.curr = 0, !.pos = [i \in DOMAIN s.runs |-> 1],
              !.more = [i \in 1..2 |-> IF i \in DOMAIN s.runs THEN TRUE ELSE s.more[i]]]

\* runs[0] of no runs is read.
open_scan ==
    /\ Sort /\ read = Len(Source) /\ Len(runs) <= 2
    /\ IF runs = <<>> THEN row' = "crash" /\ UNCHANGED scans
       ELSE /\ \E rhs \in BOOLEAN :
                  scans' = Append(scans, BeforeFirst([runs |-> runs, pos |-> <<>>, curr |-> 0, more |-> <<rhs, rhs>>]))
            /\ UNCHANGED row
    /\ read' = 0 /\ runs' = <<>> /\ UNCHANGED result

\* m_rhs_scan is null, or a position is in front of the records: what is read is undefined.
Readable(s, i) == i \in DOMAIN s.runs /\ s.pos[i] > 0
Current(s) == s.runs[s.curr][s.pos[s.curr]]

\* The scan of a table after next, whether there is a record, and whether it can be read.
SortNext(s, table) ==
    LET t == IF s.curr = 0 THEN s ELSE Advance(s, s.curr)
        both == t.more[1] /\ t.more[2]
        ok == both => Readable(t, 1) /\ Readable(t, 2)
        first == both => ok /\ ~Equal(table[t.runs[1][t.pos[1]]], table[t.runs[2][t.pos[2]]])
        c == IF t.more[1] /\ first THEN 1 ELSE 2
        found == t.more[1] \/ t.more[2]
    IN [scan |-> IF found THEN [t EXCEPT !.curr = c] ELSE t,
        found |-> found, ok |-> ok /\ (found => Readable(t, c))]

-----------------------------------------------------------------------------

InitMaterialize ==
    /\ \/ kind \in {"sort", "group"} /\ tables \in {<<t>> : t \in Sorted} /\ fields \in SUBSET Fields \ {{}}
       \/ kind \in {"join", "index"} /\ tables \in Left \X Right /\ fields = {JoinField}
    /\ read = 0 /\ runs = <<>> /\ result = <<<<>>>> /\ scans = <<>>
    /\ looping = FALSE /\ group = <<>> /\ has_more = <<FALSE, FALSE>> /\ more_groups = FALSE
    \* The value of no left record.
    /\ row = IF kind = "index" /\ tables[1] = <<>> THEN "crash" ELSE "none"
    /\ m_join_val = IF kind = "index" /\ row = "none" THEN tables[1][1][JoinField] ELSE Zero
    /\ saved = [pos |-> <<>>, curr |-> 0] /\ at = <<1, 0>>
    /\ by = "new" /\ whole = FALSE /\ out = <<>>

Ready(what) == kind = what /\ ~Opening /\ row # "crash" /\ ~looping

\* before_first of the scan on top; group_by_scan also reads the first record. The scan that
\* is joined keeps m_join_val.
before_first_rows ==
    /\ \E what \in {"sort", "group", "join"} : Ready(what)
    /\ LET first == [i \in DOMAIN scans |-> BeforeFirst(scans[i])]
           ahead == SortNext(first[1], tables[1])
       IN IF kind = "group"
          THEN /\ scans' = <<ahead.scan>> /\ more_groups' = ahead.found
               /\ row' = IF ahead.ok THEN "none" ELSE "crash"
          ELSE scans' = first /\ row' = "none" /\ UNCHANGED more_groups
    /\ by' = "open" /\ whole' = TRUE /\ out' = <<>>
    /\ UNCHANGED <<request, sortState, loopState, m_join_val, saved, at>>

\* One row, or none.
Returns(rows_, what, how) ==
    /\ row' = what /\ by' = how /\ looping' = FALSE
    /\ whole' = (whole /\ row # "end")
    /\ out' = IF whole' THEN out \o rows_ ELSE out
Crashes(how) == Returns(<<>>, "crash", how)

sort_next ==
    /\ Ready("sort") /\ by # "new"
    /\ LET n == SortNext(scans[1], tables[1])
       IN /\ scans' = <<n.scan>>
          /\ IF ~n.ok THEN Crashes("sort")
             ELSE IF n.found THEN Returns(<<Current(n.scan)>>, "row", "sort") ELSE Returns(<<>>, "end", "sort")
    /\ UNCHANGED <<request, sortState, group, has_more, more_groups, m_join_val, saved, at>>

\* The group of a first record, the groups with its fields' values (group_value), and what
\* count_fn and the cmp_fn of max make of a further record; of is a ghost.
Group(p) ==
    LET r == tables[1][p] IN [vals |-> [f \in fields |-> r[f]], count |-> 1, max |-> r[JoinField], of |-> {p}]
InGroup(p, g) == \A f \in fields : tables[1][p][f] = g.vals[f]
Counted(p, g) ==
    LET new == tables[1][p][JoinField]
    IN [vals |-> g.vals, count |-> g.count + 1, max |-> IF new > g.max THEN new ELSE g.max, of |-> g.of \cup {p}]

group_next ==
    /\ Ready("group") /\ by # "new"
    /\ IF more_groups
       THEN group' = Group(Current(scans[1])) /\ looping' = TRUE /\ UNCHANGED returnedRows
       ELSE Returns(<<>>, "end", "group") /\ UNCHANGED group
    /\ UNCHANGED <<request, sortState, has_more, scanState>>

\* A turn of its loop: a record of the group, or the first of another one or the end.
gather ==
    /\ kind = "group" /\ looping
    /\ LET n == SortNext(scans[1], tables[1])
       IN /\ scans' = <<n.scan>> /\ more_groups' = n.found
          /\ IF n.found /\ n.ok /\ InGroup(Current(n.scan), group)
             THEN group' = Counted(Current(n.scan), group) /\ UNCHANGED <<looping, returnedRows>>
             ELSE /\ IF n.ok THEN Returns(<<group>>, "row", "group") ELSE Crashes("group")
                  /\ UNCHANGED group
    /\ UNCHANGED <<request, sortState, has_more, m_join_val, saved, at>>

-----------------------------------------------------------------------------

Pair(l, r, how) ==
    IF Readable(l, l.curr) /\ Readable(r, r.curr) THEN Returns(<<<<Current(l), Current(r)>>>>, "row", how)
    ELSE Crashes(how)

Restored_nothing(s) == s

\* The two positions, but neither has_more nor the current run.
Restored(s) == [s EXCEPT !.pos = saved.pos]

ValueAt(i, s) == tables[i][Current(s)][JoinField]
Has(i, n) == n.found /\ ValueAt(i, n.scan) = m_join_val

Join == UNCHANGED <<request, sortState, group, more_groups, at>>

\* merge_join_scan::next: the next record of the right scan if it has the value of the last
\* pair; else the next of the left one if that has, and the right scan is taken back (moving
\* to a position that has not been saved is undefined); else it looks where the values meet.
join_next ==
    /\ Ready("join") /\ by # "new" /\ Join
    /\ UNCHANGED <<m_join_val, saved>>
    /\ LET r == SortNext(scans[2], tables[2])
           l == SortNext(scans[1], tables[1])
       IN \/ /\ r.ok /\ Has(2, r)
             /\ scans' = <<scans[1], r.scan>> /\ UNCHANGED has_more
             /\ Pair(scans[1], r.scan, "right")
          \/ /\ r.ok /\ ~Has(2, r) /\ l.ok /\ Has(1, l)
             /\ IF saved.pos = <<>> THEN Crashes("left") /\ UNCHANGED scans
                ELSE scans' = <<l.scan, Restored(r.scan)>> /\ Pair(l.scan, Restored(r.scan), "left")
             /\ UNCHANGED has_more
          \/ /\ r.ok /\ ~Has(2, r) /\ l.ok /\ ~Has(1, l)
             /\ scans' = <<l.scan, r.scan>> /\ has_more' = <<l.found, r.found>>
             /\ looping' = TRUE /\ UNCHANGED returnedRows
          \/ /\ r.ok => ~Has(2, r) /\ ~l.ok
             /\ Crashes("meet")
             /\ UNCHANGED <<scans, has_more>>

\* A turn of its loop: the scan with the smaller value goes on, or both are where they meet.
\* save_position asks the second run even where there is none.
meet ==
    /\ kind = "join" /\ looping /\ Join
    /\ LET both == has_more[1] /\ has_more[2]
           x == ValueAt(1, scans[1])
           y == ValueAt(2, scans[2])
           i == IF x < y THEN 1 ELSE 2
           n == SortNext(scans[i], tables[i])
       IN \/ ~both /\ Returns(<<>>, "end", "meet") /\ UNCHANGED <<scans, has_more, m_join_val, saved>>
          \/ /\ both /\ x # y
             /\ scans' = [scans EXCEPT ![i] = n.scan] /\ has_more' = [has_more EXCEPT ![i] = n.found]
             /\ IF n.ok THEN UNCHANGED <<looping, returnedRows>> ELSE Crashes("meet")
             /\ UNCHANGED <<m_join_val, saved>>
          \/ /\ both /\ x = y
             /\ IF Len(scans[2].runs) = 1 THEN Crashes("meet") /\ UNCHANGED <<m_join_val, saved>>
                ELSE /\ m_join_val' = y
                     /\ saved' = [pos |-> scans[2].pos, curr |-> scans[2].curr]
                     /\ Pair(scans[1], scans[2], "meet")
             /\ UNCHANGED <<scans, has_more>>

-----------------------------------------------------------------------------
\* index_join_scan.

Indexed == UNCHANGED <<request, sortState, group, has_more, scans, more_groups, saved>>

\* The left scan's first next is not looked at; reset_index.
before_first_index ==
    /\ Ready("index") /\ Indexed
    /\ at' = <<1, 0>> /\ m_join_val' = tables[1][1][JoinField]
    /\ row' = "none" /\ by' = "open" /\ whole' = TRUE /\ out' = <<>>
    /\ UNCHANGED looping

\* hash_index: records of a key behind a place, those that before_first of it and next find.
Entries(key, n) == {j \in DOMAIN tables[2] : j > n /\ tables[2][j][JoinField] = key}

\* The next entry of the key, or the first one of the next left record that has any. The
\* values of a pair are read where the scans are, the left one perhaps at its end, where the
\* index is left with the last key, and both scans would begin again.
index_next ==
    /\ Ready("index") /\ Indexed
    /\ LET Key(i) == tables[1][i][JoinField]
           more == Entries(m_join_val, at[2])
           ahead == {i \in DOMAIN tables[1] : i > at[1] /\ Entries(Key(i), 0) # {}}
       IN \/ /\ \E j \in more : IsFirst(j, more) /\ at' = <<at[1], j>>
             /\ UNCHANGED m_join_val
             /\ IF at[1] = 0 THEN Crashes("index") ELSE Returns(<<at'>>, "row", "index")
          \/ /\ more = {}
             /\ \E i \in ahead, j \in DOMAIN tables[2] :
                   IsFirst(i, ahead) /\ IsFirst(j, Entries(Key(i), 0)) /\ at' = <<i, j>> /\ m_join_val' = Key(i)
             /\ Returns(<<at'>>, "row", "index")
          \/ /\ more = {} /\ ahead = {}
             /\ at' = <<0, 0>> /\ m_join_val' = Key(Len(tables[1]))
             /\ Returns(<<>>, "end", "index")

-----------------------------------------------------------------------------

NextMaterialize ==
    \/ split_into_runs \/ merge_two_runs \/ do_a_merge_iteration \/ open_scan
    \/ before_first_rows \/ sort_next \/ group_next \/ gather \/ join_next \/ meet
    \/ before_first_index \/ index_next

MaterializeSpec == InitMaterialize /\ [][NextMaterialize]_materializeVars

-----------------------------------------------------------------------------

Increasing(t) == \A i, j \in DOMAIN t : i < j => t[i][JoinField] < t[j][JoinField]
NotDecreasing(t) == \A i, j \in DOMAIN t : i < j => t[i][JoinField] <= t[j][JoinField]

\* All of a set, each once, and nothing else.
Exactly(seq, set) ==
    /\ \A n \in DOMAIN seq : seq[n] \in set
    /\ \A x \in set : \E n \in DOMAIN seq : \A m \in DOMAIN seq : seq[m] = x <=> m = n

Matching == {p \in (DOMAIN tables[1]) \X (DOMAIN tables[2]) : tables[1][p[1]][JoinField] = tables[2][p[2]][JoinField]}

\* The rows of a pass that has ended: a sort returns each record of its table once; each
\* record is counted in one group, one of its values, which has the maximum of its records,
\* and no two groups that follow each other are the same.
\* The sort is none (record_comparator only says whether values are equal), so a join finds
\* what it should only of tables that are sorted as they come, with no value twice on the
\* left: then it returns each pair, once. A join through an index does of any tables.
ReadsAreComplete ==
    whole /\ row = "end" =>
        CASE kind = "sort" -> Exactly(out, DOMAIN tables[1])
          [] kind = "group" ->
               /\ \A p \in DOMAIN tables[1] : \E n \in DOMAIN out : \A m \in DOMAIN out : p \in out[m].of <=> m = n
               /\ \A n \in DOMAIN out :
                     LET g == out[n]
                     IN /\ g.of \subseteq DOMAIN tables[1] /\ g.count = Cardinality(g.of)
                        /\ \A p \in g.of : InGroup(p, g) /\ tables[1][p][JoinField] <= g.max
                        /\ \E p \in g.of : tables[1][p][JoinField] = g.max
               /\ \A n \in 1..(Len(out) - 1) : out[n].vals # out[n + 1].vals
          [] kind = "join" -> Increasing(tables[1]) /\ NotDecreasing(tables[2]) => Exactly(out, Matching)
          [] kind = "index" -> Exactly(out, Matching)

\* A pair that a pass returns is of records with the same value, but where the right scan
\* has been taken back while it is in the other of its runs.
PairsMatch ==
    whole /\ ~looping /\ kind \in {"join", "index"} /\ row = "row" =>
        \/ out[Len(out)] \in Matching
        \/ by = "left" /\ scans[2].curr # saved.curr
=============================================================================
