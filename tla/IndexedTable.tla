---------------------------- MODULE IndexedTable ----------------------------
(* A table with hash indexes, and the statements of index_update_planner    *)
(* that keep the two in step (index/planners/index_update_planner.h,         *)
(* index/hash/hash_index.cpp, index/scan/index_select_scan.h, and create and *)
(* get_index_info of metadata/index_mgr.h). A statement may throw between    *)
(* any two of its writes to different blocks: a field that is not there, a   *)
(* value of another type, a lock or a buffer that is not to be had. Nothing  *)
(* rolls it back here. Pages keep what is written to them (see TableScan).   *)
EXTENDS Naturals, FiniteSets, FiniteSetsExt

CONSTANTS
    Rids,      \* slots of the one block of the table
    Fields,
    Keys,       \* values of the fields
    Zero,       \* what format leaves in a slot
    Names,      \* names of indexes; those of an index's files begin with it
    None,
    MaxEntries  \* bound: entries of one record, under all names

ASSUME IndexAssumption ==
    Rids \subseteq Nat /\ IsFiniteSet(Fields) /\ Zero \in Keys /\ None \notin Names

VARIABLES
    fits,       \* fields whose index has a dataval of their type: the test of the length for
                \* the number of a type takes an integer for a string, and a string of 4 for one
    rows,       \* [used, val] of each slot; a deleted row keeps its values
    name,       \* of the index get_index_info returns for the field: the last made
    bucket,     \* of each name, how many entries its files have for a key and a record
    bare,       \* ghost: per field, rows that were there before the index or got no entry
    stale,      \* ghost: rows that may have entries they should not have
    gone        \* the statement's scan has been freed before its use, and its memory reused

indexVars == <<fits, rows, name, bucket, bare, stale, gone>>

InitIndex ==
    /\ fits \in SUBSET Fields
    /\ rows = [r \in Rids |-> [used |-> FALSE, val |-> [f \in Fields |-> Zero]]]
    /\ name = [f \in Fields |-> None]
    /\ bucket = [n \in Names |-> [e \in Keys \X Rids |-> 0]]
    /\ bare = [f \in Fields |-> {}]
    /\ stale = {} /\ gone = FALSE

Used == {r \in Rids : rows[r].used}
Indexed == {f \in Fields : name[f] # None}

\* An insertion into the index of a field that does not fit throws, and leaves an entry
\* that no key is equal to and no search returns.
Failing == Indexed \ fits

\* Ghost: rows with an entry for one of two indexes of one name and none for the other. To
\* take away the entry that is not there takes away the other's.
Mixed == {r \in Used : \E f, g \in Indexed : name[f] = name[g] /\ r \in bare[f] /\ r \notin bare[g]}

\* The fields of these pairs of a field and a row that have the entry e under the name n.
With(n, e, rec, pairs) ==
    {f \in Indexed : name[f] = n /\ <<f, e[2]>> \in pairs /\ rec[e[2]].val[f] = e[1]}

\* hash_index::insert of the entries of these pairs.
Inserted(all, rec, pairs) ==
    [n \in Names |-> [e \in Keys \X Rids |-> all[n][e] + Cardinality(With(n, e, rec, pairs))]]

Deleted_all(all, rec, pairs) ==
    [n \in Names |-> [e \in Keys \X Rids |-> IF With(n, e, rec, pairs) = {} THEN all[n][e] ELSE 0]]

\* hash_index::delete_record of each: it takes away one entry of that key and record if there
\* is one. Which of equal entries, and in which slot, makes no difference.
Deleted(all, rec, pairs) ==
    [n \in Names |-> [e \in Keys \X Rids |->
        LET some == Cardinality(With(n, e, rec, pairs))
        IN IF all[n][e] <= some THEN 0 ELSE all[n][e] - some]]

\* The fields in done are set and have their entries; one in half is set, and its entry
\* could not be made. Others keep what the slot had, those of a deleted row it may be.
execute_insert(done, half, val) ==
    /\ \E r \in Rids \ Used :
          /\ \A q \in Rids \ Used : r <= q
          /\ rows' = [rows EXCEPT ![r] =
                [used |-> TRUE, val |-> [f \in Fields |-> IF f \in done \cup half THEN val[f] ELSE @.val[f]]]]
          /\ bucket' = Inserted(bucket, rows', done \X {r})
          /\ bare' = [f \in Fields |-> IF f \in Indexed \ done THEN bare[f] \cup {r} ELSE bare[f]]
    /\ UNCHANGED <<fits, name, gone>>
    /\ stale' = stale \cup Mixed'

\* The rows in all are deleted; of the one in last the entries of some fields are.
execute_delete(all, last, some) ==
    /\ bucket' = Deleted(bucket, rows, (Fields \X all) \cup (some \X last))
    /\ rows' = [r \in Rids |-> IF r \in all THEN [rows[r] EXCEPT !.used = FALSE] ELSE rows[r]]
    /\ bare' = [f \in Fields |-> (IF f \in some THEN bare[f] \cup last ELSE bare[f]) \ all]
    /\ UNCHANGED <<fits, name, gone>>
    /\ stale' = stale \cup Mixed'

\* The rows in all are modified; the one in last is set, and its entry still the old one
\* or already taken away.
execute_modify(f, new, all, last, removed) ==
    LET Val(r) == IF new \in Fields THEN rows[r].val[new] ELSE new
        olds == all \cup IF removed THEN last ELSE {}
    IN /\ rows' = [r \in Rids |-> IF r \in all \cup last THEN [rows[r] EXCEPT !.val[f] = Val(r)] ELSE rows[r]]
       /\ bucket' = Inserted(Deleted(bucket, rows, {f} \X olds), rows', {f} \X all)
       /\ bare' = [bare EXCEPT ![f] = IF removed THEN (@ \ all) \cup last ELSE @ \ all]
       /\ UNCHANGED <<fits, name, gone>>
       /\ stale' = (IF removed THEN stale ELSE stale \cup last) \cup Mixed'

\* Entries for the rows that are there are not made. An index of a name that was another's
\* works on that one's files, and a field's new index leaves the old one's entries behind.
create_index(f, n) ==
    /\ name' = [name EXCEPT ![f] = n]
    /\ bare' = [bare EXCEPT ![f] = IF n = name[f] THEN @ ELSE Used]
    /\ UNCHANGED <<fits, rows, bucket, gone>>
    /\ stale' = IF \/ \E g \in Indexed \ {f} : name[g] = n /\ (g \in fits) # (f \in fits)
                   \/ n # name[f] /\ \E g \in Indexed \ {f} : name[g] = name[f]
                   \/ (\A g \in Fields : name[g] # n) /\ \E e \in Keys \X Rids : bucket[n][e] > 0
                THEN Rids ELSE stale \cup Mixed'

Gone ==
    /\ gone' = TRUE
    /\ UNCHANGED <<fits, rows, name, bucket, bare, stale>>

\* At most one of a set.
OneOf(set) == {{}} \cup {{x} : x \in set}

Insert ==
    \E done \in SUBSET (Fields \ Failing) : \E half \in OneOf(Fields \ done) :
        \E val \in [done \cup half -> Keys] : execute_insert(done, half, val)
Delete ==
    \E all \in SUBSET Used : \E last \in OneOf(Used \ all) :
        \E some \in SUBSET IF last = {} THEN {} ELSE Indexed : execute_delete(all, last, some)
Modify ==
    \E f \in Fields, new \in Keys \cup Fields : \E all \in SUBSET IF f \in Failing THEN {} ELSE Used :
        \E last \in OneOf(IF f \in Indexed THEN Used \ all ELSE {}) :
            \E removed \in IF last = {} THEN {FALSE} ELSE BOOLEAN : execute_modify(f, new, all, last, removed)

BucketsFit ==
    \A r \in Rids : MapThenSumSet(LAMBDA p : bucket'[p[1]][<<p[2], r>>], Names \X Keys) <= MaxEntries

NextIndex ==
    /\ ~gone /\ stale # Rids
    /\ \/ Insert \/ Delete \/ Modify \/ Gone
       \/ \E f \in Fields, n \in Names : create_index(f, n)

IndexSpec == InitIndex /\ [][NextIndex]_indexVars

-----------------------------------------------------------------------------

\* The variables have their types.
IndexTypeOK ==
    /\ fits \subseteq Fields
    /\ rows \in [Rids -> [used : BOOLEAN, val : [Fields -> Keys]]]
    /\ name \in [Fields -> Names \cup {None}]
    /\ bucket \in [Names -> [Keys \X Rids -> Nat]]
    /\ bare \in [Fields -> SUBSET Rids]
    /\ stale \subseteq Rids /\ gone \in BOOLEAN

\* index_select_scan returns a row as often as the fields kept under the index's name have
\* the key in it, and that is once for every row with the key when no two indexes share a
\* name: but rows that were there before the index, whose statement did not name the field
\* or failed before the entry are missing until they are modified, and nothing is said of
\* rows a modification has failed on half-way.
IndexAgrees ==
    ~gone => \A n \in {name[f] : f \in Indexed}, r \in Rids \ stale, k \in Keys :
        bucket[n][<<k, r>>]
          = Cardinality({f \in Fields : name[f] = n /\ rows[r].used /\ rows[r].val[f] = k /\ r \notin bare[f]})
=============================================================================
