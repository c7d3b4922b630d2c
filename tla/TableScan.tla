----------------------------- MODULE TableScan -----------------------------
(* A table in a file of blocks and the cursor over it (record/table_scan.*, *)
(* record/record_page.h, record/layout.h), used by one client in any legal  *)
(* order. A block holds perBlock slots; what matters of a slot is its flag. *)
(* The pages take what is written to them, as record_page expects of the     *)
(* transaction, or they do not, which is what transaction does; kept says.  *)
EXTENDS Naturals, Sequences, FiniteSets, SequencesExt

CONSTANTS
    MaxPer,     \* bound: slots of a block
    MaxBlocks   \* bound: blocks of the file

ASSUME ScanAssumption == MaxPer \in Nat /\ MaxBlocks \in Nat \ {0}

VARIABLES
    perBlock,   \* block size divided by slot size
    kept,       \* set_int and set_str reach the page
    size,       \* blocks of the file
    used,       \* the slots whose flag is used, numbered through the file
    block,      \* the block of m_rec_page
    slot,       \* m_curr_slot, from -1, here from 0: slots of the block that are behind it
    lost,       \* ghost: m_blk, a reference to a local variable that is gone, was something else
    first,      \* ghost: the used slots as of the last before_first
    seen,       \* ghost: what next has returned since
    calls       \* ghost: what the client has called since: "next", "insert", "move", "end"

scanVars == <<perBlock, kept, size, used, block, slot, lost, first, seen, calls>>

At == block * perBlock + slot - 1               \* the current slot
Behind == block * perBlock + slot               \* the first slot a search looks at
Slots == 0..(size * perBlock - 1)
IsFirst(i, set) == i \in set /\ \A j \in set : i <= j
Place(i) == block' = i \div perBlock /\ slot' = (i % perBlock) + 1

InitScan ==
    /\ perBlock \in 0..MaxPer /\ kept \in BOOLEAN
    /\ size \in 1..MaxBlocks
    /\ used \in SUBSET Slots
    /\ block = 0 /\ slot = 0
    /\ lost = FALSE
    /\ first = used /\ seen = <<>> /\ calls = {}

before_first ==
    /\ block' = 0 /\ slot' = 0
    /\ first' = used /\ seen' = <<>> /\ calls' = {}
    /\ UNCHANGED <<perBlock, kept, size, used, lost>>

next_stops(found) ==
    LET ahead == {i \in used : i >= Behind /\ i < (block + 1) * perBlock}
    IN /\ found = (ahead # {})
       /\ IF found
          THEN /\ \E i \in ahead : IsFirst(i, ahead) /\ Place(i) /\ seen' = Append(seen, i)
               /\ calls' = calls \cup {"next"}
          ELSE /\ block' = size - 1 /\ slot' = 0
               /\ calls' = calls \cup {"end"}
               /\ UNCHANGED seen
       /\ UNCHANGED <<perBlock, kept, size, used, lost, first>>

\* The next used slot of this block or a later one. At the end the cursor is before the
\* first slot of the last block.
next(found) ==
    LET ahead == {i \in used : i >= Behind}
    IN /\ found = (ahead # {})
       /\ IF found
          THEN /\ \E i \in ahead : IsFirst(i, ahead) /\ Place(i) /\ seen' = Append(seen, i)
               /\ calls' = calls \cup {"next"}
          ELSE /\ block' = size - 1 /\ slot' = 0
               /\ calls' = calls \cup {"end"}
               /\ UNCHANGED seen
       /\ UNCHANGED <<perBlock, kept, size, used, lost, first>>

\* The next empty slot from here on, in a new block if there is none: what was deleted
\* behind the cursor is not used again, and used slots on the way are passed over.
insert ==
    LET ahead == {i \in Slots \ used : i >= Behind}
    IN /\ perBlock > 0
       /\ ahead = {} => size < MaxBlocks
       /\ \E i \in 0..(size * perBlock) :
             /\ IF ahead = {} THEN i = size * perBlock ELSE IsFirst(i, ahead)
             /\ Place(i)
             /\ used' = IF kept THEN used \cup {i} ELSE used
       /\ size' = IF ahead = {} THEN size + 1 ELSE size
       /\ calls' = calls \cup {"insert"}
       /\ UNCHANGED <<perBlock, kept, lost, first, seen>>

\* A record longer than a block has no slot in any: insert goes on appending blocks.
insert_grows ==
    /\ perBlock = 0
    /\ size < MaxBlocks
    /\ size' = size + 1 /\ block' = size /\ slot' = 0
    /\ calls' = calls \cup {"insert"}
    /\ UNCHANGED <<perBlock, kept, used, lost, first, seen>>

\* Of the record the cursor is on.
delete_record ==
    /\ slot > 0
    /\ used' = IF kept THEN used \ {At} ELSE used
    /\ UNCHANGED <<perBlock, kept, size, block, slot, lost, first, seen, calls>>

move_to_rid ==
    /\ \E i \in Slots : Place(i)
    /\ calls' = calls \cup {"move"}
    /\ UNCHANGED <<perBlock, kept, size, used, lost, first, seen>>

\* The memory m_blk refers to has been used again: nothing is known from here on.
Stray ==
    /\ lost' = TRUE
    /\ UNCHANGED <<perBlock, kept, size, used, block, slot, first, seen, calls>>

\* A pass is followed until a call after its end; seen would grow without bound.
CanNext == Len(seen) <= MaxPer * MaxBlocks

NextScan ==
    /\ ~lost
    /\ \/ before_first \/ insert \/ insert_grows \/ delete_record \/ move_to_rid \/ Stray
       \/ \E found \in BOOLEAN : next(found)

ScanSpec == InitScan /\ [][NextScan]_scanVars

-----------------------------------------------------------------------------

\* The variables have their types, and the cursor is at a block of the file.
ScanTypeOK ==
    /\ perBlock \in 0..MaxPer /\ kept \in BOOLEAN /\ lost \in BOOLEAN
    /\ size \in 1..MaxBlocks /\ used \subseteq Slots
    /\ block \in 0..(size - 1) /\ slot \in 0..perBlock

\* A pass of calls of next returns every record once, in order, and then ends, also when
\* the records it is on are deleted. One that inserts may miss records, which insert
\* passes over, but returns none twice. A next after the end returns records of the last
\* block again. If writes do not reach the pages the records of the file never change.
PassIsExact ==
    LET rising == \A i, j \in DOMAIN seen : i < j => seen[i] < seen[j]
        again == \E i \in DOMAIN seen : i > 1 /\ seen[i] <= seen[i - 1]
    IN ~lost =>
        /\ calls \subseteq {"next", "insert"} => rising
        /\ calls \subseteq {"next", "end"} /\ "end" \in calls =>
              \/ ToSet(seen) = first /\ Len(seen) = Cardinality(first)
              \/ again /\ \A i \in DOMAIN seen : i > Cardinality(first) => seen[i] \div perBlock = size - 1
        /\ ~kept => used = first
=============================================================================
