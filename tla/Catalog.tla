------------------------------ MODULE Catalog ------------------------------
(* The catalogs and what is read from them (metadata/table_mgr.h,            *)
(* stat_mgr.h, view_mgr.h, metadata_mgr.h, record/layout.h). A statement may *)
(* throw at each row it writes; nothing rolls it back here. A schema is its  *)
(* fields, in order, with their lengths; offsets follow from them.           *)
EXTENDS Integers, Sequences, FiniteSets, SequencesExt, FiniteSetsExt

CONSTANTS
    Tables,
    Schemas,    \* sequences of [field, length]
    Limits,     \* of calls between two refreshes; a negative one becomes the largest size_t
    MaxCalls,   \* m_num_calls is an int: what follows its largest value is not modelled
    MaxTables   \* bound: rows of tblcat

ASSUME CatalogAssumption ==
    /\ \A s \in Schemas : DOMAIN s = 1..Len(s) /\ Len(s) \in Nat
    /\ Limits \subseteq Nat /\ MaxCalls \in Nat

VARIABLES
    tblcat,     \* the tables in the order of the file; the slot size beside each is what the
                \* constructor of a layout has left in m_slotsize, and nothing is said of it
    fldcat,     \* [table, field, length, offset] in the order of the file
    viewcat,    \* rows of viewcat, all of them without a name
    stats,      \* m_tbl_stats: how many calls ago the entry of a table was made, or NoEntry
    m_num_calls,
    m_num_calls_limit,
    returned,   \* ghost: the age of the statistics last returned and the limit then
    made,       \* ghost: the schemas a table has been created with
    whole       \* ghost: tables for which create_table has returned

catalogVars == <<tblcat, fldcat, viewcat, stats, m_num_calls, m_num_calls_limit, returned, made, whole>>

NoEntry == -1

\* A schema keeps one type and one length of a name that it has twice, the last.
LastAt(s, f) == CHOOSE i \in DOMAIN s : s[i].field = f /\ \A j \in DOMAIN s : j > i => s[j].field # f
Length(s, i) == s[LastAt(s, s[i].field)].length

\* The flag comes first, each field behind the ones before it; the last one of a name counts.
Offset(s, f) == 1 + MapThenSumSet(LAMBDA i : Length(s, i), 1..(LastAt(s, f) - 1))

\* get_layout: of the rows of a field the last one counts.
LastRows(t) ==
    {i \in DOMAIN fldcat :
        /\ fldcat[i].table = t
        /\ \A j \in DOMAIN fldcat : j > i /\ fldcat[j].table = t => fldcat[j].field # fldcat[i].field}
Offsets(t) == {<<fldcat[i].field, fldcat[i].offset>> : i \in LastRows(t)}

InitCatalog ==
    /\ tblcat = <<>> /\ fldcat = <<>> /\ viewcat = 0
    /\ stats = [t \in Tables |-> NoEntry]
    /\ m_num_calls = 0 /\ m_num_calls_limit \in Limits
    /\ returned = [age |-> 0, limit |-> 0]
    /\ made = [t \in Tables |-> {}] /\ whole = {}

FieldRow(t, s, i) ==
    [table |-> t, field |-> s[i].field, length |-> Length(s, i), offset |-> Offset(s, s[i].field)]

FieldRows == UNION {{FieldRow(t, s, i) : t \in Tables, i \in DOMAIN s} : s \in Schemas}

\* The row of the table, then those of the first n fields. It does not look for the table.
create_table(t, s, n) ==
    /\ tblcat' = Append(tblcat, t)
    /\ fldcat' = fldcat \o [i \in 1..n |-> FieldRow(t, s, i)]
    /\ made' = [made EXCEPT ![t] = @ \cup {s}]
    /\ whole' = IF n = Len(s) THEN whole \cup {t} ELSE whole
    /\ Len(tblcat') <= MaxTables
    /\ UNCHANGED <<viewcat, stats, m_num_calls, m_num_calls_limit, returned>>

\* With the layout of fldcat, which has no field of that name: the row is there, and the
\* first set_str throws.
create_view ==
    /\ viewcat' = viewcat + 1 /\ viewcat' <= 1
    /\ UNCHANGED <<tblcat, fldcat, stats, m_num_calls, m_num_calls_limit, returned, made, whole>>

\* All entries dropped, then one made for each table of tblcat, up to the one that throws.
Refreshed(n) == [t \in Tables |-> IF \E i \in 1..n : tblcat[i] = t THEN 0 ELSE NoEntry]

Older == [t \in Tables |-> IF stats[t] = NoEntry THEN NoEntry ELSE stats[t] + 1]

Due_late(calls) == calls > m_num_calls_limit + 1

\* This call is one more than the limit.
Due(calls) == calls > m_num_calls_limit

\* n rows of tblcat are refreshed; if that is not all of them, the call throws.
get_stat_info(t, n) ==
    LET calls == m_num_calls + 1
        due == Due(calls)
        kept == IF due THEN Refreshed(n) ELSE Older
    IN /\ ~due => n = Len(tblcat)
       /\ m_num_calls' = IF due THEN 0 ELSE calls
       /\ IF n < Len(tblcat)
          THEN stats' = kept /\ UNCHANGED returned
          ELSE /\ stats' = [kept EXCEPT ![t] = IF @ = NoEntry THEN 0 ELSE @]
               /\ returned' = [age |-> stats'[t], limit |-> m_num_calls_limit]
       /\ UNCHANGED <<tblcat, fldcat, viewcat, m_num_calls_limit, made, whole>>

set_num_calls_limit(n) ==
    /\ m_num_calls_limit' = n
    /\ UNCHANGED <<tblcat, fldcat, viewcat, stats, m_num_calls, returned, made, whole>>

CanCall == m_num_calls < MaxCalls

NextCatalog ==
    \/ \E t \in Tables, s \in Schemas : \E n \in 0..Len(s) : create_table(t, s, n)
    \/ create_view
    \/ \E t \in Tables, n \in 0..Len(tblcat) : CanCall /\ get_stat_info(t, n)
    \/ \E n \in Limits : set_num_calls_limit(n)

CatalogSpec == InitCatalog /\ [][NextCatalog]_catalogVars

-----------------------------------------------------------------------------

\* The variables have their types.
CatalogTypeOK ==
    /\ tblcat \in Seq(Tables) /\ viewcat \in Nat
    /\ fldcat \in Seq(FieldRows)
    /\ stats \in [Tables -> Nat \cup {NoEntry}]
    /\ m_num_calls \in Nat /\ m_num_calls_limit \in Limits
    /\ returned \in [age : Nat, limit : Nat]
    /\ made \in [Tables -> SUBSET Schemas] /\ whole \subseteq Tables

\* A table that has always been created with one schema, though some of the attempts may
\* have failed, has the offsets of that schema, and all of its fields if one attempt has
\* succeeded; one created with two schemas may have fields that overlap. Statistics are
\* never returned that were made more calls ago than the limit at that time, whatever the
\* limit has been before and however many refreshes have failed half-way.
CatalogAgrees ==
    /\ \A t \in Tables, s \in Schemas : made[t] = {s} =>
          LET right == {<<s[i].field, Offset(s, s[i].field)>> : i \in DOMAIN s}
          IN IF t \in whole THEN Offsets(t) = right ELSE Offsets(t) \subseteq right
    /\ returned.age <= returned.limit
=============================================================================
