----------------------------- MODULE MCRecords -----------------------------
(* Instances of TableScan, IndexedTable and Catalog for TLC. The three share *)
(* nothing here: a behaviour is one of one of them, and the variables of the *)
(* others stay as they are.                                                  *)
EXTENDS TableScan, IndexedTable, Catalog

CONSTANTS a, b, m, n    \* two fields and two names of indexes

VARIABLE part

MCSchemas == {<<[field |-> a, length |-> 1], [field |-> b, length |-> 2], [field |-> a, length |-> 2]>>,
              <<[field |-> b, length |-> 1], [field |-> a, length |-> 2], [field |-> b, length |-> 2]>>}

Symmetric == Permutations({a, b}) \cup Permutations({m, n})

Init ==
    /\ part \in {"scan", "index", "catalog"}
    /\ InitScan /\ InitIndex /\ InitCatalog
    /\ part # "scan" => size = 1 /\ perBlock = 0 /\ ~kept
    /\ part # "index" => fits = {}
    /\ part # "catalog" => m_num_calls_limit = 0

\* Of what follows undefined behaviour, or when every row is in doubt, nothing is said.
Scan == part = "scan" /\ ~lost /\ UNCHANGED <<part, indexVars, catalogVars>>
Index == part = "index" /\ ~gone /\ stale # Rids /\ UNCHANGED <<part, scanVars, catalogVars>>
Cat == part = "catalog" /\ UNCHANGED <<part, scanVars, indexVars>>

Next ==
    \/ Scan /\ before_first
    \/ \E found \in BOOLEAN : Scan /\ CanNext /\ next(found)
    \/ Scan /\ insert
    \/ Scan /\ insert_grows
    \/ Scan /\ delete_record
    \/ Scan /\ move_to_rid
    \/ Scan /\ Stray
    \/ Index /\ Insert /\ BucketsFit
    \/ Index /\ Delete
    \/ Index /\ Modify /\ BucketsFit
    \/ Index /\ Gone
    \/ \E f \in Fields, x \in Names : Index /\ create_index(f, x)
    \/ \E t \in Tables, s \in Schemas : \E i \in 0..Len(s) : Cat /\ create_table(t, s, i)
    \/ Cat /\ create_view
    \/ \E t \in Tables, i \in 0..Len(tblcat) : Cat /\ CanCall /\ get_stat_info(t, i)
    \/ \E x \in Limits : Cat /\ set_num_calls_limit(x)

Spec == Init /\ [][Next]_<<part, scanVars, indexVars, catalogVars>>
=============================================================================
