---------------------------- MODULE RecordsProofs ----------------------------
(* What holds of table scans, of indexes and their table, of the catalogs and *)
(* of the parser in every instance: a pass over a table is exact, indexes     *)
(* agree with their table, layouts agree with the schemas that made them, and *)
(* statements of any length are answered by the grammar.                      *)
EXTENDS TableScan, IndexedTable, Catalog, Parser,
        FiniteSetTheorems, FunctionTheorems, SequenceTheorems, WellFoundedInduction, TLAPS

-----------------------------------------------------------------------------

\* A slot of a file of n blocks of p slots is in one of them.
LEMMA SlotOfBlock ==
    ASSUME NEW p \in Nat, NEW n \in Nat, NEW i \in 0..(n * p - 1)
    PROVE  /\ p > 0 /\ n > 0
           /\ i \div p \in 0..(n - 1) /\ i % p \in 0..(p - 1)
           /\ (i \div p) * p + (i % p) = i
<1>1. p # 0 /\ n # 0
  <2>1. n * p > 0 /\ n * 0 = 0 /\ 0 * p = 0
    OBVIOUS
  <2>2. QED
    BY <2>1
<1> DEFINE q == i \div p
           r == i % p
<1>2. q \in Int /\ r \in 0..(p - 1) /\ i = p * q + r
  BY <1>1, Z3
<1>3. p * q = q * p
  BY <1>2
<1>4. q >= 0
  <2>1. CASE q <= -1
    <3>1. p * q <= -p
      BY <1>2, <2>1
    <3>2. QED
      BY <1>2, <3>1
  <2>2. QED
    BY <1>2, <2>1
<1>5. q <= n - 1
  <2>1. CASE q >= n
    <3>1. (q - n) * p >= 0 /\ (q - n) * p = q * p - n * p
      BY <1>2, <2>1
    <3>2. QED
      BY <1>2, <1>3, <3>1
  <2>2. QED
    BY <1>2, <2>1
<1>6. QED
  BY <1>1, <1>2, <1>3, <1>4, <1>5

\* The first slot of a block and those behind it are in that block or later ones.
LEMMA BlockOfSlot ==
    ASSUME NEW p \in Nat, NEW n \in Nat, NEW i \in 0..(n * p - 1), NEW b \in Nat, b * p <= i
    PROVE  i \div p >= b
<1> DEFINE q == i \div p
           r == i % p
<1>1. q \in Nat /\ r \in 0..(p - 1) /\ q * p + r = i /\ p > 0
  BY SlotOfBlock
<1> HIDE DEF q, r
<1>2. CASE q <= b - 1
  <2>1. (b - 1 - q) * p >= 0 /\ (b - 1 - q) * p = b * p - p - q * p
    BY <1>1, <1>2
  <2>2. QED
    BY <1>1, <2>1
<1>3. QED
  BY <1>1, <1>2 DEF q

\* A sequence that rises has as many elements as places.
LEMMA RisingCount ==
    ASSUME NEW s \in Seq(Nat), \A i, j \in DOMAIN s : i < j => s[i] < s[j]
    PROVE  IsFiniteSet(ToSet(s)) /\ Cardinality(ToSet(s)) = Len(s)
<1> DEFINE T == ToSet(s)
           D == DOMAIN s
<1>1. D = 1..Len(s) /\ Len(s) \in Nat /\ s \in [D -> Nat]
  OBVIOUS
<1>2. IsFiniteSet(D) /\ Cardinality(D) = Len(s)
  <2> DEFINE m == Len(s)
  <2>0. m \in Int /\ 1 \in Int
    BY <1>1
  <2> HIDE DEF m
  <2>1. IsFiniteSet(1..m) /\ Cardinality(1..m) = IF 1 > m THEN 0 ELSE m - 1 + 1
    BY <2>0, FS_Interval
  <2>2. QED
    BY <1>1, <2>1 DEF m
<1>3. \A i, j \in D : s[i] = s[j] => i = j
  BY <1>1
<1>4. s \in [D -> T] /\ \A t \in T : \E i \in D : s[i] = t
  BY <1>1 DEF ToSet
<1> HIDE DEF T, D
<1>5. s \in Bijection(D, T)
  BY <1>3, <1>4, Fun_IsBij
<1>6. ExistsBijection(D, T)
  BY <1>5, Fun_ExistsBij
<1>7. IsFiniteSet(T) /\ Cardinality(T) = Cardinality(D)
  BY <1>2, <1>6, FS_Bijection
<1>8. QED
  BY <1>2, <1>7 DEF T

-----------------------------------------------------------------------------

Legal == {"next", "insert", "move", "end"}

\* The records of a pass, in the order of their slots.
Ahead(set) == {i \in set : i >= Behind}

\* While next finds records and new ones are inserted, all that was returned is behind the
\* cursor and in order.
InOrder ==
    calls \subseteq {"next", "insert"} =>
        /\ \A i, j \in DOMAIN seen : i < j => seen[i] < seen[j]
        /\ \A i \in DOMAIN seen : seen[i] < Behind

\* While it only finds records, what is behind the cursor has been returned, and what is
\* ahead of it is what was there at the start.
UpToHere ==
    calls \subseteq {"next"} =>
        /\ Ahead(used) = Ahead(first)
        /\ ToSet(seen) = first \ Ahead(first)

\* After the end the pass is complete, and what next returns again is of the last block.
Complete ==
    calls \subseteq {"next", "end"} /\ "end" \in calls =>
        LET n == Cardinality(first)
        IN /\ n <= Len(seen)
           /\ \A i, j \in 1..n : i < j => seen[i] < seen[j]
           /\ first = {seen[i] : i \in 1..n}
           /\ \A i \in DOMAIN seen : i > n => seen[i] \div perBlock = size - 1
           /\ block = size - 1

\* No call of next returns, and the file has, what was not there at the start.
NoOthers ==
    calls \subseteq {"next", "end"} => used \subseteq first /\ ToSet(seen) \subseteq first

ScanInv ==
    /\ ScanTypeOK /\ seen \in Seq(Nat) /\ first \in SUBSET Nat /\ IsFiniteSet(first)
    /\ InOrder /\ UpToHere /\ Complete /\ NoOthers
    /\ ~kept => used = first

-----------------------------------------------------------------------------

LEMMA UsedIsFinite ==
    ASSUME ScanTypeOK
    PROVE  used \in SUBSET Nat /\ IsFiniteSet(used)
<1>1. size * perBlock - 1 \in Int
  BY ScanAssumption DEF ScanTypeOK
<1>2. IsFiniteSet(0..(size * perBlock - 1))
  <2> DEFINE m == size * perBlock - 1
  <2>1. m \in Int
    BY <1>1
  <2> HIDE DEF m
  <2>2. IsFiniteSet(0..m)
    BY <2>1, FS_Interval
  <2>3. QED
    BY <2>2 DEF m
<1>3. used \in SUBSET (0..(size * perBlock - 1))
  BY DEF ScanTypeOK, Slots
<1>4. IsFiniteSet(used)
  BY <1>2, <1>3, FS_Subset
<1>5. QED
  BY <1>1, <1>3, <1>4

\* The cursor is in the file.
LEMMA Cursor ==
    ASSUME ScanTypeOK
    PROVE  /\ size \in Nat \ {0} /\ perBlock \in Nat /\ block \in Nat /\ slot \in Nat
           /\ Behind \in 0..(size * perBlock)
           /\ size * perBlock \in Nat
<1>1. size \in Nat \ {0} /\ perBlock \in Nat /\ block \in Nat /\ slot \in Nat
      /\ block <= size - 1 /\ slot <= perBlock
  BY ScanAssumption DEF ScanTypeOK
<1>2. (size - 1 - block) * perBlock >= 0
      /\ (size - 1 - block) * perBlock = size * perBlock - perBlock - block * perBlock
      /\ block * perBlock >= 0 /\ block * perBlock \in Int /\ size * perBlock \in Nat
  BY <1>1
<1>3. QED
  BY <1>1, <1>2 DEF Behind

\* The cursor after Place(i).
LEMMA Placed ==
    ASSUME ScanTypeOK, NEW n \in Nat, NEW i \in 0..(n * perBlock - 1), Place(i),
           UNCHANGED perBlock
    PROVE  block' \in 0..(n - 1) /\ slot' \in 1..perBlock /\ Behind' = i + 1
<1>1. perBlock \in Nat
  BY Cursor
<1>2. /\ i \div perBlock \in 0..(n - 1) /\ i % perBlock \in 0..(perBlock - 1)
      /\ (i \div perBlock) * perBlock + (i % perBlock) = i
  BY <1>1, SlotOfBlock
<1>3. QED
  BY <1>1, <1>2 DEF Place, Behind

\* A pass that begins.
Start == ScanTypeOK /\ first = used /\ seen = <<>> /\ calls = {} /\ block = 0 /\ slot = 0

LEMMA StartInv == Start => ScanInv
<1> SUFFICES ASSUME Start
             PROVE  ScanInv
  OBVIOUS
<1>1. Behind = 0
  BY Cursor DEF Behind, Start
<1>2. seen \in Seq(Nat) /\ DOMAIN seen = {} /\ ToSet(seen) = {}
  BY DEF ToSet, Start
<1>3. used \in SUBSET Nat /\ IsFiniteSet(used)
  BY UsedIsFinite DEF Start
<1>4. Ahead(first) = first
  <2>1. \A i \in first : i >= Behind
    BY <1>1, <1>3 DEF Start
  <2>2. QED
    BY <2>1 DEF Ahead
<1>5. QED
  BY <1>1, <1>2, <1>3, <1>4 DEF Start, ScanInv, InOrder, UpToHere, Complete, NoOthers

LEMMA InitScanInv == InitScan => ScanInv
<1> SUFFICES ASSUME InitScan
             PROVE  Start
  BY StartInv
<1>1. size \in Nat \ {0} /\ perBlock \in Nat
  BY ScanAssumption DEF InitScan
<1>2. 0 \in 0..(size - 1) /\ 0 \in 0..perBlock
  BY <1>1
<1>3. QED
  BY <1>2 DEF Start, InitScan, ScanTypeOK

LEMMA BeforeFirstStep ==
    ASSUME ScanInv, before_first
    PROVE  ScanInv'
<1>1. ScanTypeOK'
  BY Cursor DEF ScanInv, ScanTypeOK, before_first, Slots
<1>2. Start'
  BY <1>1 DEF Start, before_first
<1>3. QED
  BY <1>2, StartInv, PTL
LEMMA InsertStep ==
    ASSUME ScanInv, insert
    PROVE  ScanInv'
<1>0. ScanTypeOK
  BY DEF ScanInv
<1>1. /\ size \in Nat \ {0} /\ perBlock \in Nat /\ perBlock > 0
      /\ Behind \in 0..(size * perBlock) /\ size * perBlock \in Nat
  BY <1>0, Cursor DEF insert
<1> DEFINE ahead == {i \in Slots \ used : i >= Behind}
<1>2. PICK i \in 0..(size * perBlock) :
          /\ IF ahead = {} THEN i = size * perBlock ELSE IsFirst(i, ahead)
          /\ Place(i)
          /\ used' = IF kept THEN used \cup {i} ELSE used
  BY DEF insert
<1>3. (size' = size \/ size' = size + 1) /\ size' \in 1..MaxBlocks /\ size' \in Nat
  <2>1. size \in 1..MaxBlocks /\ MaxBlocks \in Nat
    BY <1>0, ScanAssumption DEF ScanTypeOK
  <2>2. size' = IF ahead = {} THEN size + 1 ELSE size
    BY DEF insert
  <2>3. ahead = {} => size < MaxBlocks
    BY DEF insert
  <2> HIDE DEF ahead
  <2>4. QED
    BY <2>1, <2>2, <2>3
<1>4. (size + 1) * perBlock = size * perBlock + perBlock
  BY <1>1
<1>5. i >= Behind /\ i \in 0..(size' * perBlock - 1)
  <2>1. CASE ahead = {}
    <3>1. i = size * perBlock /\ size' = size + 1
      BY <1>2, <2>1 DEF insert
    <3>2. size' * perBlock = size * perBlock + perBlock
      BY <1>4, <3>1
    <3>3. QED
      BY <1>1, <3>1, <3>2
  <2>2. CASE ahead # {}
    <3>1. i \in ahead /\ size' = size
      BY <1>2, <2>2 DEF insert, IsFirst
    <3>2. QED
      BY <3>1 DEF Slots
  <2>3. QED
    BY <2>1, <2>2
<1>6. UNCHANGED <<perBlock, kept, lost, first, seen>> /\ calls' = calls \cup {"insert"}
  BY DEF insert
<1>7. block' \in 0..(size' - 1) /\ slot' \in 1..perBlock /\ Behind' = i + 1
  BY <1>0, <1>2, <1>3, <1>5, <1>6, Placed
<1>8. used' \subseteq Slots'
  <2>1. size * perBlock <= size' * perBlock /\ size' * perBlock \in Nat
    <3>1. CASE size' = size
      BY <1>1, <3>1
    <3>2. CASE size' = size + 1
      <4>1. size' * perBlock = size * perBlock + perBlock
        BY <1>4, <3>2
      <4>2. QED
        BY <1>1, <4>1
    <3>3. QED
      BY <1>3, <3>1, <3>2
  <2>2. Slots' = 0..(size' * perBlock - 1)
    BY <1>6 DEF Slots
  <2>3. used \subseteq 0..(size' * perBlock - 1)
    BY <1>0, <1>1, <2>1 DEF ScanTypeOK, Slots
  <2>4. QED
    BY <1>2, <1>5, <2>2, <2>3
<1>9. ScanTypeOK'
  <2>1. slot' \in 0..perBlock
    BY <1>1, <1>7
  <2>2. QED
    BY <1>0, <1>3, <1>6, <1>7, <1>8, <2>1 DEF ScanTypeOK
<1>10. InOrder'
  BY <1>1, <1>5, <1>6, <1>7 DEF ScanInv, InOrder
<1>11. UpToHere' /\ Complete' /\ NoOthers'
  BY <1>6 DEF UpToHere, Complete, NoOthers
<1>12. ~kept' => used' = first'
  BY <1>2, <1>6 DEF ScanInv
<1>13. QED
  BY <1>6, <1>9, <1>10, <1>11, <1>12 DEF ScanInv

LEMMA InsertGrowsStep ==
    ASSUME ScanInv, insert_grows
    PROVE  ScanInv'
<1>0. ScanTypeOK
  BY DEF ScanInv
<1>1. size \in Nat \ {0} /\ perBlock = 0 /\ size * perBlock = 0 /\ Behind = 0
  <2>1. size \in Nat \ {0} /\ perBlock = 0 /\ Behind \in 0..(size * perBlock)
    BY <1>0, Cursor DEF insert_grows
  <2>2. QED
    BY <2>1
<1>2. /\ size' = size + 1 /\ block' = size /\ slot' = 0 /\ calls' = calls \cup {"insert"}
      /\ UNCHANGED <<perBlock, kept, used, lost, first, seen>>
  BY DEF insert_grows
<1>3. Behind' = 0
  <2>1. Behind' = size * 0 + 0
    BY <1>1, <1>2 DEF Behind
  <2>2. QED
    BY <1>1, <2>1
<1>4. ScanTypeOK'
  <2>1. size' \in 1..MaxBlocks /\ block' \in 0..(size' - 1) /\ slot' \in 0..perBlock
    BY <1>1, <1>2, ScanAssumption DEF insert_grows
  <2>2. used = {}
    BY <1>0, <1>1 DEF ScanTypeOK, Slots
  <2>3. QED
    BY <1>0, <1>2, <2>1, <2>2 DEF ScanTypeOK
<1>5. InOrder'
  BY <1>1, <1>2, <1>3 DEF ScanInv, InOrder
<1>6. UpToHere' /\ Complete' /\ NoOthers'
  BY <1>2 DEF UpToHere, Complete, NoOthers
<1>7. QED
  BY <1>2, <1>4, <1>5, <1>6 DEF ScanInv

LEMMA DeleteRecordStep ==
    ASSUME ScanInv, delete_record
    PROVE  ScanInv'
<1>0. ScanTypeOK
  BY DEF ScanInv
<1>1. /\ UNCHANGED <<perBlock, kept, size, block, slot, lost, first, seen, calls>>
      /\ used' \subseteq used /\ (used' = used \/ used' = used \ {At}) /\ (~kept => used' = used)
  BY DEF delete_record
<1>2. Behind' = Behind /\ Slots' = Slots
  BY <1>1 DEF Behind, Slots
<1>3. At < Behind /\ At \in Int /\ Behind \in Int
  BY <1>0, Cursor DEF At, Behind
<1>4. Ahead(used)' = Ahead(used) /\ Ahead(first)' = Ahead(first)
  <2>1. \A i \in used : i >= Behind => i \in used'
    BY <1>1, <1>3
  <2>2. Ahead(used)' = {i \in used' : i >= Behind} /\ Ahead(first)' = {i \in first : i >= Behind}
    BY <1>1, <1>2 DEF Ahead
  <2>3. QED
    BY <1>1, <2>1, <2>2 DEF Ahead
<1>5. ScanTypeOK'
  BY <1>0, <1>1, <1>2 DEF ScanTypeOK
<1>6. InOrder'
  BY <1>1, <1>2 DEF ScanInv, InOrder
<1>7. UpToHere'
  BY <1>1, <1>4 DEF ScanInv, UpToHere
<1>8. Complete' /\ NoOthers'
  BY <1>1 DEF ScanInv, Complete, NoOthers
<1>9. QED
  BY <1>1, <1>5, <1>6, <1>7, <1>8 DEF ScanInv

LEMMA MoveStep ==
    ASSUME ScanInv, move_to_rid
    PROVE  ScanInv'
<1>0. ScanTypeOK /\ size \in Nat /\ perBlock \in Nat
  BY Cursor DEF ScanInv
<1>1. PICK i \in 0..(size * perBlock - 1) : Place(i)
  BY DEF move_to_rid, Slots
<1>2. UNCHANGED <<perBlock, kept, size, used, lost, first, seen>> /\ calls' = calls \cup {"move"}
  BY DEF move_to_rid
<1>3. block' \in 0..(size - 1) /\ slot' \in 0..perBlock
  BY <1>0, <1>1, <1>2, Placed
<1>4. ScanTypeOK'
  BY <1>0, <1>2, <1>3 DEF ScanTypeOK, Slots
<1>5. InOrder' /\ UpToHere' /\ Complete' /\ NoOthers'
  BY <1>2 DEF InOrder, UpToHere, Complete, NoOthers
<1>6. QED
  BY <1>2, <1>4, <1>5 DEF ScanInv
\* next returns the first used slot from the cursor on.
LEMMA NextStep ==
    ASSUME ScanInv, next(TRUE)
    PROVE  ScanInv'
<1>0. /\ ScanTypeOK /\ size \in Nat \ {0} /\ perBlock \in Nat /\ block \in Nat
      /\ slot \in Nat /\ Behind \in Nat
  BY Cursor DEF ScanInv
<1>1. PICK i \in Ahead(used) : IsFirst(i, Ahead(used)) /\ Place(i) /\ seen' = Append(seen, i)
  BY DEF next, Ahead
<1>2. UNCHANGED <<perBlock, kept, size, used, lost, first>> /\ calls' = calls \cup {"next"}
  BY DEF next
<1>3. i \in used /\ i >= Behind /\ i \in 0..(size * perBlock - 1) /\ i \in Nat
  BY <1>0, <1>1 DEF Ahead, ScanTypeOK, Slots
<1>4. block' \in 0..(size - 1) /\ slot' \in 1..perBlock /\ Behind' = i + 1
  BY <1>0, <1>1, <1>2, <1>3, Placed
<1>5. ScanTypeOK'
  <2>1. slot' \in 0..perBlock
    BY <1>0, <1>4
  <2>2. QED
    BY <1>0, <1>2, <1>4, <2>1 DEF ScanTypeOK, Slots
<1>6. /\ seen' \in Seq(Nat) /\ Len(seen') = Len(seen) + 1 /\ Len(seen) \in Nat
      /\ DOMAIN seen = 1..Len(seen) /\ DOMAIN seen' = 1..(Len(seen) + 1)
      /\ \A k \in 1..Len(seen) : seen'[k] = seen[k] /\ seen[k] \in Nat
      /\ seen'[Len(seen) + 1] = i
  BY <1>1, <1>3 DEF ScanInv
<1>7. ToSet(seen') = ToSet(seen) \cup {i}
  <2>1. ToSet(seen') = {seen'[k] : k \in 1..(Len(seen) + 1)} /\ ToSet(seen) = {seen[k] : k \in 1..Len(seen)}
    BY <1>6 DEF ToSet
  <2>2. 1..(Len(seen) + 1) = 1..Len(seen) \cup {Len(seen) + 1}
    BY <1>6
  <2>3. QED
    BY <1>6, <2>1, <2>2
<1>8. InOrder'
  <2> SUFFICES ASSUME calls \subseteq {"next", "insert"}
               PROVE  /\ \A j, k \in DOMAIN seen' : j < k => seen'[j] < seen'[k]
                      /\ \A k \in DOMAIN seen' : seen'[k] < Behind'
    BY <1>2 DEF InOrder
  <2>1. \A j, k \in 1..Len(seen) : j < k => seen[j] < seen[k]
    BY <1>6 DEF ScanInv, InOrder
  <2>2. ASSUME NEW k \in 1..Len(seen)
        PROVE  seen[k] < i /\ seen'[k] = seen[k] /\ seen[k] \in Nat
    <3>1. seen[k] < Behind /\ seen[k] \in Nat /\ seen'[k] = seen[k]
      BY <1>6 DEF ScanInv, InOrder
    <3>2. QED
      BY <1>0, <1>3, <3>1
  <2>3. ASSUME NEW k \in DOMAIN seen'
        PROVE  (k \in 1..Len(seen) \/ k = Len(seen) + 1) /\ k \in Nat
    BY <1>6
  <2>4. ASSUME NEW k \in DOMAIN seen'
        PROVE  seen'[k] < Behind'
    <3>1. CASE k \in 1..Len(seen)
      BY <1>3, <1>4, <2>2, <3>1
    <3>2. CASE k = Len(seen) + 1
      BY <1>3, <1>4, <1>6, <3>2
    <3>3. QED
      BY <2>3, <3>1, <3>2
  <2>5. ASSUME NEW j \in DOMAIN seen', NEW k \in DOMAIN seen', j < k
        PROVE  seen'[j] < seen'[k]
    <3>1. j \in 1..Len(seen)
      BY <1>6, <2>3, <2>5
    <3>2. CASE k \in 1..Len(seen)
      BY <2>1, <2>2, <2>5, <3>1, <3>2
    <3>3. CASE k = Len(seen) + 1
      BY <1>6, <2>2, <3>1, <3>3
    <3>4. QED
      BY <2>3, <3>2, <3>3
  <2>6. QED
    BY <2>4, <2>5
<1>9. UpToHere'
  <2> SUFFICES ASSUME calls \subseteq {"next"}
               PROVE  Ahead(used)' = Ahead(first)' /\ ToSet(seen') = first \ Ahead(first)'
    BY <1>2 DEF UpToHere
  <2>1. Ahead(used) = Ahead(first) /\ ToSet(seen) = first \ Ahead(first)
    BY DEF ScanInv, UpToHere
  <2>2. \A j \in Ahead(used) : i <= j
    BY <1>1 DEF IsFirst
  <2>3. used \in SUBSET Nat /\ first \in SUBSET Nat
    BY <1>0, UsedIsFinite DEF ScanInv
  <2>4. Ahead(used)' = {j \in used : j >= i + 1} /\ Ahead(first)' = {j \in first : j >= i + 1}
    BY <1>2, <1>4 DEF Ahead
  <2>5. \A j \in first : j >= Behind => j \in used /\ i <= j
    BY <2>1, <2>2 DEF Ahead
  <2>6. \A j \in used : j >= Behind => j \in first
    BY <2>1 DEF Ahead
  <2>7. Ahead(used)' = Ahead(first)'
    <3>1. \A j \in used : j >= i + 1 => j >= Behind
      BY <1>0, <1>3, <2>3
    <3>2. \A j \in first : j >= i + 1 => j >= Behind
      BY <1>0, <1>3, <2>3
    <3>3. QED
      BY <2>4, <2>5, <2>6, <3>1, <3>2
  <2>8. \A j \in first : j >= i + 1 \/ j = i \/ j < Behind
    BY <1>0, <1>3, <2>3, <2>5
  <2>9. ToSet(seen) = {j \in first : j < Behind}
    <3>1. \A j \in first : j < Behind <=> ~(j >= Behind)
      BY <1>0, <2>3
    <3>2. QED
      BY <2>1, <3>1 DEF Ahead
  <2>10. i \in first
    BY <1>3, <2>6
  <2>11. first \ Ahead(first)' = {j \in first : j < Behind} \cup {i}
    <3>1. \A j \in first : j < Behind => ~(j >= i + 1)
      BY <1>0, <1>3, <2>3
    <3>2. ~(i >= i + 1)
      BY <1>3
    <3>3. QED
      BY <2>4, <2>8, <2>10, <3>1, <3>2
  <2>12. QED
    BY <1>7, <2>7, <2>9, <2>11
<1>10. Complete'
  <2> SUFFICES ASSUME calls \subseteq {"next", "end"}, "end" \in calls
               PROVE  Complete'
    BY <1>2 DEF Complete
  <2> DEFINE n == Cardinality(first)
  <2>1. /\ n <= Len(seen) /\ first = {seen[k] : k \in 1..n}
        /\ \A j, k \in 1..n : j < k => seen[j] < seen[k]
        /\ \A k \in DOMAIN seen : k > n => seen[k] \div perBlock = size - 1
        /\ block = size - 1
    BY DEF ScanInv, Complete
  <2>2. n \in Nat
    BY FS_CardinalityType DEF ScanInv
  <2>3. i \div perBlock = size - 1
    <3>1. (size - 1) * perBlock <= i
      <4>1. Behind = (size - 1) * perBlock + slot /\ (size - 1) * perBlock \in Int
        BY <1>0, <2>1 DEF Behind
      <4>2. QED
        BY <1>0, <1>3, <4>1
    <3>2. i \div perBlock >= size - 1
      BY <1>0, <1>3, <3>1, BlockOfSlot
    <3>3. i \div perBlock \in 0..(size - 1)
      BY <1>0, <1>3, SlotOfBlock
    <3>4. QED
      BY <1>0, <3>2, <3>3
  <2>4. block' = size - 1
    BY <1>1, <2>3 DEF Place
  <2> HIDE DEF n
  <2>5. \A k \in 1..n : k \in 1..Len(seen) /\ seen'[k] = seen[k]
    BY <1>6, <2>1, <2>2
  <2>6. first = {seen'[k] : k \in 1..n} /\ \A j, k \in 1..n : j < k => seen'[j] < seen'[k]
    BY <2>1, <2>5
  <2>7. \A k \in DOMAIN seen' : k > n => seen'[k] \div perBlock = size - 1
    <3>1. ASSUME NEW k \in DOMAIN seen', k > n
          PROVE  seen'[k] \div perBlock = size - 1
      <4>1. CASE k = Len(seen) + 1
        BY <1>6, <2>3, <4>1
      <4>2. CASE k # Len(seen) + 1
        <5>1. k \in DOMAIN seen /\ seen'[k] = seen[k]
          BY <1>6, <4>2
        <5>2. QED
          BY <2>1, <3>1, <5>1
      <4>3. QED
        BY <4>1, <4>2
    <3>2. QED
      BY <3>1
  <2>8. n <= Len(seen') /\ n = Cardinality(first')
    BY <1>2, <1>6, <2>1, <2>2 DEF n
  <2>9. QED
    BY <1>2, <2>4, <2>6, <2>7, <2>8 DEF Complete
<1>11. NoOthers'
  BY <1>2, <1>3, <1>7 DEF ScanInv, NoOthers
<1>12. QED
  BY <1>2, <1>5, <1>6, <1>8, <1>9, <1>10, <1>11 DEF ScanInv

\* next finds no used slot.
LEMMA EndStep ==
    ASSUME ScanInv, next(FALSE)
    PROVE  ScanInv'
<1>0. /\ ScanTypeOK /\ size \in Nat \ {0} /\ perBlock \in Nat
  BY Cursor DEF ScanInv
<1>1. /\ Ahead(used) = {} /\ block' = size - 1 /\ slot' = 0 /\ calls' = calls \cup {"end"}
      /\ UNCHANGED <<perBlock, kept, size, used, lost, first, seen>>
  BY DEF next, Ahead
<1>2. ScanTypeOK'
  BY <1>0, <1>1 DEF ScanTypeOK, Slots
<1>3. InOrder' /\ UpToHere'
  BY <1>1 DEF InOrder, UpToHere
<1>4. NoOthers'
  BY <1>1 DEF ScanInv, NoOthers
<1>5. Complete'
  <2> SUFFICES ASSUME calls \subseteq {"next", "end"}
               PROVE  Complete'
    BY <1>1 DEF Complete
  <2>1. CASE "end" \in calls
    BY <1>1, <2>1 DEF ScanInv, Complete
  <2>2. CASE "end" \notin calls
    <3>1. calls \subseteq {"next"} /\ calls \subseteq {"next", "insert"}
      BY <2>2
    <3>2. ToSet(seen) = first
      BY <1>1, <3>1 DEF ScanInv, UpToHere
    <3>3. seen \in Seq(Nat) /\ \A i, j \in DOMAIN seen : i < j => seen[i] < seen[j]
      BY <3>1 DEF ScanInv, InOrder
    <3>4. Cardinality(first) = Len(seen)
      BY <3>2, <3>3, RisingCount
    <3>5. DOMAIN seen = 1..Len(seen) /\ Len(seen) \in Nat
      BY <3>3
    <3>6. first = {seen[i] : i \in 1..Len(seen)}
      BY <3>2, <3>5 DEF ToSet
    <3>7. QED
      BY <1>1, <3>3, <3>4, <3>5, <3>6 DEF Complete
  <2>3. QED
    BY <2>1, <2>2
<1>6. QED
  BY <1>1, <1>2, <1>3, <1>4, <1>5 DEF ScanInv

\* The invariant of the cursor: what is behind it has been returned, what is ahead of it is
\* what was there at the start; after the end the pass is complete.
THEOREM ScanInvHolds == ScanSpec => []ScanInv
<1>1. InitScan => ScanInv
  BY InitScanInv
<1>2. ScanInv /\ [NextScan]_scanVars => ScanInv'
  <2> SUFFICES ASSUME ScanInv, [NextScan]_scanVars
               PROVE  ScanInv'
    OBVIOUS
  <2>1. CASE UNCHANGED scanVars
    BY <2>1 DEF scanVars, ScanInv, ScanTypeOK, Slots, InOrder, UpToHere, Complete, NoOthers, Behind, Ahead
  <2>2. CASE Stray
    BY <2>2 DEF Stray, ScanInv, ScanTypeOK, Slots, InOrder, UpToHere, Complete, NoOthers, Behind, Ahead
  <2>3. CASE NextScan /\ ~Stray
    BY <2>3, BeforeFirstStep, InsertStep, InsertGrowsStep, DeleteRecordStep, MoveStep, NextStep, EndStep
       DEF NextScan
  <2>4. QED
    BY <2>1, <2>2, <2>3
<1>3. QED
  BY <1>1, <1>2, PTL DEF ScanSpec

\* A pass returns every record once and in order and then ends; one that inserts returns
\* none twice; a next after the end returns records of the last block again.
THEOREM PassesAreExact == ScanSpec => []PassIsExact
<1>1. ScanInv => PassIsExact
  <2> SUFFICES ASSUME ScanInv
               PROVE  PassIsExact
    OBVIOUS
  <2> DEFINE n == Cardinality(first)
             again == \E i \in DOMAIN seen : i > 1 /\ seen[i] <= seen[i - 1]
  <2>1. seen \in Seq(Nat) /\ Len(seen) \in Nat /\ DOMAIN seen = 1..Len(seen)
    BY DEF ScanInv
  <2>2. n \in Nat
    BY FS_CardinalityType DEF ScanInv
  <2>3. ASSUME calls \subseteq {"next", "end"}, "end" \in calls
        PROVE  \/ ToSet(seen) = first /\ Len(seen) = n
               \/ again /\ \A i \in DOMAIN seen : i > n => seen[i] \div perBlock = size - 1
    <3>1. /\ n <= Len(seen) /\ first = {seen[i] : i \in 1..n}
          /\ \A i, j \in 1..n : i < j => seen[i] < seen[j]
          /\ \A i \in DOMAIN seen : i > n => seen[i] \div perBlock = size - 1
      BY <2>3 DEF ScanInv, Complete
    <3>2. CASE Len(seen) = n
      BY <2>1, <3>1, <3>2 DEF ToSet
    <3>3. CASE Len(seen) # n
      <4> HIDE DEF n
      <4>1. n + 1 \in DOMAIN seen
        <5>1. n <= Len(seen)
          BY <3>1
        <5>2. \A x, y \in Nat : x <= y /\ y # x => x + 1 \in 1..y
          OBVIOUS
        <5>3. n + 1 \in 1..Len(seen)
          BY <2>1, <2>2, <3>3, <5>1, <5>2
        <5>4. QED
          BY <2>1, <5>3
      <4>2. seen[n + 1] \in first
        BY <2>3, <4>1 DEF ScanInv, NoOthers, ToSet
      <4>3. PICK k \in 1..n : seen[n + 1] = seen[k]
        BY <3>1, <4>2
      <4>4. n \in 1..n /\ n + 1 > 1 /\ k <= n /\ n + 1 - 1 = n
        BY <2>2, <4>3
      <4>5. seen[k] \in Nat /\ seen[n] \in Nat
        BY <2>1, <2>2, <3>1, <4>3, <4>4
      <4>6. seen[n + 1] <= seen[n]
        <5>1. CASE k = n
          BY <4>3, <4>5, <5>1
        <5>2. CASE k < n
          BY <3>1, <4>3, <4>4, <4>5, <5>2
        <5>3. QED
          BY <2>2, <4>3, <5>1, <5>2
      <4>7. again
        BY <4>1, <4>4, <4>6
      <4>8. QED
        BY <3>1, <4>7
    <3>4. QED
      BY <3>2, <3>3
  <2>4. QED
    BY <2>3 DEF ScanInv, InOrder, PassIsExact
<1>2. QED
  BY <1>1, ScanInvHolds, PTL

-----------------------------------------------------------------------------

\* The fields that have a row's entry of a key under a name.
Having(n, r, k) == {f \in Fields : name[f] = n /\ rows[r].used /\ rows[r].val[f] = k /\ r \notin bare[f]}

\* Only rows that are there can be without an entry.
BareIsUsed == \A f \in Fields : bare[f] \subseteq Used

\* What is under the names in use is what the fields have.
BucketsAgree ==
    \A n \in {name[f] : f \in Indexed}, r \in Rids \ stale, k \in Keys :
        bucket[n][<<k, r>>] = Cardinality(Having(n, r, k))

IndexInv == IndexTypeOK /\ BareIsUsed /\ Mixed \subseteq stale /\ BucketsAgree

\* Sets of fields are finite, and bounded by what they are part of.
LEMMA FieldsFinite ==
    ASSUME NEW S \in SUBSET Fields, NEW T \in SUBSET S
    PROVE  /\ IsFiniteSet(S) /\ Cardinality(S) \in Nat /\ Cardinality(T) \in Nat
           /\ Cardinality(T) <= Cardinality(S)
<1>1. IsFiniteSet(S)
  BY IndexAssumption, FS_Subset
<1>2. QED
  BY <1>1, FS_Subset, FS_CardinalityType

\* One field more, one less.
LEMMA OneField ==
    ASSUME NEW S \in SUBSET Fields, NEW f \in Fields
    PROVE  /\ Cardinality({}) = 0 /\ Cardinality({f}) = 1
           /\ f \notin S => Cardinality(S \cup {f}) = Cardinality(S) + 1
           /\ f \in S => Cardinality(S \ {f}) = Cardinality(S) - 1
<1>1. IsFiniteSet(S)
  BY FieldsFinite
<1>2. QED
  BY <1>1, FS_EmptySet, FS_Singleton, FS_AddElement, FS_RemoveElement

\* The number of fields that have an entry.
LEMMA WithCount ==
    ASSUME NEW n, NEW e, NEW rec, NEW pairs
    PROVE  /\ With(n, e, rec, pairs) \in SUBSET Fields
           /\ Cardinality(With(n, e, rec, pairs)) \in Nat
           /\ With(n, e, rec, pairs) = {} => Cardinality(With(n, e, rec, pairs)) = 0
<1>1. With(n, e, rec, pairs) \in SUBSET Fields
  BY DEF With, Indexed
<1>2. QED
  BY <1>1, FieldsFinite, FS_EmptySet

\* Adding and taking away leave numbers.
LEMMA BucketsType ==
    ASSUME NEW all \in [Names -> [Keys \X Rids -> Nat]], NEW rec, NEW pairs
    PROVE  /\ Inserted(all, rec, pairs) \in [Names -> [Keys \X Rids -> Nat]]
           /\ Deleted(all, rec, pairs) \in [Names -> [Keys \X Rids -> Nat]]
<1>1. ASSUME NEW n \in Names, NEW e \in Keys \X Rids
      PROVE  /\ Cardinality(With(n, e, rec, pairs)) \in Nat
             /\ all[n][e] \in Nat
  BY WithCount
<1>2. Inserted(all, rec, pairs) \in [Names -> [Keys \X Rids -> Nat]]
  BY <1>1 DEF Inserted
<1>3. Deleted(all, rec, pairs) \in [Names -> [Keys \X Rids -> Nat]]
  BY <1>1 DEF Deleted
<1>4. QED
  BY <1>2, <1>3

\* Of a row that is not in doubt all indexes of a name have the entry, or none has.
LEMMA AllOrNone ==
    ASSUME NEW r \in Used \ Mixed, NEW n \in Names
    PROVE  \/ \A f \in Fields : name[f] = n => r \in bare[f]
           \/ \A f \in Fields : name[f] = n => r \notin bare[f]
BY IndexAssumption DEF Mixed, Indexed

-----------------------------------------------------------------------------

LEMMA IndexInsertStep ==
    ASSUME IndexInv, NEW done \in SUBSET Fields, NEW half \in SUBSET Fields,
           NEW val \in [done \cup half -> Keys], execute_insert(done, half, val)
    PROVE  IndexInv'
<1>1. PICK r0 \in Rids \ Used :
          /\ rows' = [rows EXCEPT ![r0] =
                [used |-> TRUE, val |-> [f \in Fields |-> IF f \in done \cup half THEN val[f] ELSE @.val[f]]]]
          /\ bucket' = Inserted(bucket, rows', done \X {r0})
          /\ bare' = [f \in Fields |-> IF f \in Indexed \ done THEN bare[f] \cup {r0} ELSE bare[f]]
  BY DEF execute_insert
<1>2. UNCHANGED <<fits, name, gone>> /\ stale' = stale \cup Mixed'
  BY DEF execute_insert
<1>3. IndexTypeOK
  BY DEF IndexInv
<1>4. /\ rows' \in [Rids -> [used : BOOLEAN, val : [Fields -> Keys]]]
      /\ rows'[r0].used /\ \A r \in Rids \ {r0} : rows'[r] = rows[r]
  BY <1>1, <1>3 DEF IndexTypeOK
<1>5. Indexed' = Indexed
  BY <1>2 DEF Indexed
<1>6. IndexTypeOK'
  <2>1. Mixed' \subseteq Rids
    BY DEF Mixed, Used
  <2>2. bucket' \in [Names -> [Keys \X Rids -> Nat]]
    BY <1>1, <1>3, BucketsType DEF IndexTypeOK
  <2>3. bare' \in [Fields -> SUBSET Rids]
    BY <1>1, <1>3 DEF IndexTypeOK
  <2>4. QED
    BY <1>2, <1>3, <1>4, <2>1, <2>2, <2>3 DEF IndexTypeOK
<1>7. BareIsUsed'
  <2>1. Used \cup {r0} \subseteq Used'
    BY <1>4 DEF Used
  <2>2. QED
    BY <1>1, <2>1 DEF IndexInv, BareIsUsed
<1>8. ASSUME NEW n \in {name[f] : f \in Indexed}, NEW r \in Rids \ stale', NEW k \in Keys
      PROVE  bucket'[n][<<k, r>>] = Cardinality(Having(n, r, k)')
  <2> DEFINE news == With(n, <<k, r>>, rows', done \X {r0})
  <2>1. n \in Names /\ r \notin stale
    BY <1>2, <1>3 DEF IndexTypeOK, Indexed
  <2>2. bucket[n][<<k, r>>] = Cardinality(Having(n, r, k)) /\ bucket[n][<<k, r>>] \in Nat
    BY <1>3, <2>1 DEF IndexInv, BucketsAgree, IndexTypeOK
  <2>3. /\ Cardinality(news) \in Nat
        /\ bucket'[n][<<k, r>>] = bucket[n][<<k, r>>] + Cardinality(news)
        /\ news = {} => Cardinality(news) = 0
    <3>1. bucket'[n][<<k, r>>] = bucket[n][<<k, r>>] + Cardinality(news)
      BY <1>1, <2>1 DEF Inserted
    <3>2. QED
      BY <3>1, WithCount
  <2>4. CASE r # r0
    <3>1. news = {}
      BY <2>4 DEF With
    <3>2. Having(n, r, k)' = Having(n, r, k)
      BY <1>1, <1>2, <1>4, <2>4 DEF Having
    <3> DEFINE old == bucket[n][<<k, r>>]
               more == Cardinality(news)
    <3>3. old \in Nat /\ more = 0 /\ bucket'[n][<<k, r>>] = old + more
      BY <2>2, <2>3, <3>1
    <3> HIDE DEF old, more
    <3>4. bucket'[n][<<k, r>>] = old
      BY <3>3
    <3> USE DEF old
    <3>5. QED
      BY <2>2, <3>2, <3>4
  <2>5. CASE r = r0
    <3>1. ~rows[r].used
      BY <1>1, <2>5 DEF Used
    <3>2. Having(n, r, k) = {}
      BY <3>1 DEF Having
    <3>3. bucket[n][<<k, r>>] = 0
      BY <2>2, <3>2, FS_EmptySet
    <3>4. \A f \in Fields : r \notin bare[f]
      BY <3>1 DEF IndexInv, BareIsUsed, Used
    <3>5. \A f \in Fields : name[f] = n => f \in Indexed
      BY <2>1, IndexAssumption DEF Indexed
    <3>6. \A f \in Fields : name[f] = n => (r \notin bare'[f] <=> f \in done)
      BY <1>1, <2>5, <3>4, <3>5
    <3>7. Having(n, r, k)' = news
      BY <1>2, <1>4, <2>5, <3>5, <3>6 DEF Having, With, Indexed
    <3>8. bucket'[n][<<k, r>>] = Cardinality(news)
      BY <2>3, <3>3
    <3>9. QED
      BY <3>7, <3>8
  <2>6. QED
    BY <2>4, <2>5
<1>9. BucketsAgree'
  <2> SUFFICES ASSUME NEW n \in {name'[f] : f \in Indexed'}, NEW r \in Rids \ stale', NEW k \in Keys
               PROVE  bucket'[n][<<k, r>>] = Cardinality(Having(n, r, k)')
    BY DEF BucketsAgree
  <2>1. n \in {name[f] : f \in Indexed}
    BY <1>2, <1>5
  <2>2. QED
    BY <1>8, <2>1
<1>10. Mixed' \subseteq stale'
  BY <1>2
<1>11. QED
  BY <1>6, <1>7, <1>9, <1>10 DEF IndexInv

LEMMA IndexDeleteStep ==
    ASSUME IndexInv, NEW all \in SUBSET Used, NEW last \in SUBSET (Used \ all),
           NEW some \in SUBSET Indexed, execute_delete(all, last, some)
    PROVE  IndexInv'
<1>1. /\ bucket' = Deleted(bucket, rows, (Fields \X all) \cup (some \X last))
      /\ rows' = [r \in Rids |-> IF r \in all THEN [rows[r] EXCEPT !.used = FALSE] ELSE rows[r]]
      /\ bare' = [f \in Fields |-> (IF f \in some THEN bare[f] \cup last ELSE bare[f]) \ all]
      /\ UNCHANGED <<fits, name, gone>> /\ stale' = stale \cup Mixed'
  BY DEF execute_delete
<1>2. IndexTypeOK
  BY DEF IndexInv
<1>3. /\ rows' \in [Rids -> [used : BOOLEAN, val : [Fields -> Keys]]]
      /\ \A r \in Rids : rows'[r].val = rows[r].val /\ rows'[r].used = (rows[r].used /\ r \notin all)
  BY <1>1, <1>2 DEF IndexTypeOK
<1>4. Indexed' = Indexed /\ Used' = Used \ all /\ Used \subseteq Rids
  BY <1>1, <1>3 DEF Indexed, Used
<1>5. IndexTypeOK'
  <2>1. Mixed' \subseteq Rids
    BY DEF Mixed, Used
  <2>2. bucket' \in [Names -> [Keys \X Rids -> Nat]]
    BY <1>1, <1>2, BucketsType DEF IndexTypeOK
  <2>3. bare' \in [Fields -> SUBSET Rids]
    BY <1>1, <1>2, <1>4 DEF IndexTypeOK
  <2>4. QED
    BY <1>1, <1>2, <1>3, <2>1, <2>2, <2>3 DEF IndexTypeOK
<1>6. BareIsUsed'
  BY <1>1, <1>4 DEF IndexInv, BareIsUsed
<1>7. ASSUME NEW n \in {name[f] : f \in Indexed}, NEW r \in Rids \ stale', NEW k \in Keys
      PROVE  bucket'[n][<<k, r>>] = Cardinality(Having(n, r, k)')
  <2> DEFINE olds == With(n, <<k, r>>, rows, (Fields \X all) \cup (some \X last))
             before == Having(n, r, k)
  <2>1. n \in Names /\ r \notin stale /\ r \notin Mixed'
    BY <1>1, <1>2 DEF IndexTypeOK, Indexed
  <2>2. bucket[n][<<k, r>>] = Cardinality(before) /\ bucket[n][<<k, r>>] \in Nat
    BY <1>2, <2>1 DEF IndexInv, BucketsAgree, IndexTypeOK
  <2>3. /\ Cardinality(olds) \in Nat
        /\ bucket'[n][<<k, r>>] = IF bucket[n][<<k, r>>] <= Cardinality(olds) THEN 0
                                  ELSE bucket[n][<<k, r>>] - Cardinality(olds)
        /\ olds = {} => Cardinality(olds) = 0
    <3>1. bucket'[n][<<k, r>>] = IF bucket[n][<<k, r>>] <= Cardinality(olds) THEN 0
                                 ELSE bucket[n][<<k, r>>] - Cardinality(olds)
      BY <1>1, <2>1 DEF Deleted
    <3>2. QED
      BY <3>1, WithCount
  <2>4. \A f \in Fields : name[f] = n => f \in Indexed
    BY <2>1, IndexAssumption DEF Indexed
  <2>5. ASSUME before \subseteq olds, Having(n, r, k)' = {}
        PROVE  bucket'[n][<<k, r>>] = Cardinality(Having(n, r, k)')
    <3>1. before \in SUBSET Fields
      BY DEF Having
    <3>2. olds \in SUBSET Fields
      BY DEF With, Indexed
    <3> HIDE DEF before, olds
    <3>3. Cardinality(before) <= Cardinality(olds)
      BY <2>5, <3>2, FieldsFinite
    <3>4. bucket'[n][<<k, r>>] = 0
      BY <2>2, <2>3, <3>3
    <3>5. QED
      BY <2>5, <3>4, FS_EmptySet
  <2>6. ASSUME olds = {}, Having(n, r, k)' = before
        PROVE  bucket'[n][<<k, r>>] = Cardinality(Having(n, r, k)')
    <3> DEFINE old == bucket[n][<<k, r>>]
               less == Cardinality(olds)
    <3>1. old \in Nat /\ less = 0 /\ bucket'[n][<<k, r>>] = IF old <= less THEN 0 ELSE old - less
      BY <2>2, <2>3, <2>6
    <3> HIDE DEF old, less
    <3>2. bucket'[n][<<k, r>>] = old
      BY <3>1
    <3> USE DEF old
    <3>3. QED
      BY <2>2, <2>6, <3>2
  <2>7. CASE r \in all
    <3>1. before \subseteq olds
      BY <2>4, <2>7 DEF Having, With
    <3>2. Having(n, r, k)' = {}
      BY <1>3, <2>7 DEF Having
    <3>3. QED
      BY <2>5, <3>1, <3>2
  <2>8. CASE r \notin all /\ r \notin last
    <3>1. olds = {}
      BY <2>8 DEF With
    <3>2. \A f \in Fields : r \in bare'[f] <=> r \in bare[f]
      BY <1>1, <2>8
    <3>3. Having(n, r, k)' = before
      BY <1>1, <1>3, <2>8, <3>2 DEF Having
    <3>4. QED
      BY <2>6, <3>1, <3>3
  <2>9. CASE r \in last
    <3>1. r \notin all /\ r \in Used' /\ \A f \in Fields : r \in bare'[f] <=> f \in some \/ r \in bare[f]
      BY <1>1, <1>4, <2>9
    <3>2. \/ \A f \in Fields : name[f] = n => r \in bare'[f]
          \/ \A f \in Fields : name[f] = n => r \notin bare'[f]
      BY <1>1, <1>4, <2>1, <2>4, <3>1 DEF Mixed
    <3>3. CASE \A f \in Fields : name[f] = n => r \in bare'[f]
      <4>1. Having(n, r, k)' = {}
        BY <1>1, <3>3 DEF Having
      <4>2. before \subseteq olds
        BY <2>4, <2>9, <3>1, <3>3 DEF Having, With
      <4>3. QED
        BY <2>5, <4>1, <4>2
    <3>4. CASE \A f \in Fields : name[f] = n => r \notin bare'[f]
      <4>1. \A f \in Fields : name[f] = n => f \notin some /\ r \notin bare[f]
        BY <3>1, <3>4
      <4>2. olds = {}
        BY <3>1, <4>1 DEF With, Indexed
      <4>3. Having(n, r, k)' = before
        BY <1>1, <1>3, <3>1, <3>4, <4>1 DEF Having
      <4>4. QED
        BY <2>6, <4>2, <4>3
    <3>5. QED
      BY <3>2, <3>3, <3>4
  <2>10. QED
    BY <2>7, <2>8, <2>9
<1>8. BucketsAgree'
  <2> SUFFICES ASSUME NEW n \in {name'[f] : f \in Indexed'}, NEW r \in Rids \ stale', NEW k \in Keys
               PROVE  bucket'[n][<<k, r>>] = Cardinality(Having(n, r, k)')
    BY DEF BucketsAgree
  <2>1. n \in {name[f] : f \in Indexed}
    BY <1>1, <1>4
  <2>2. QED
    BY <1>7, <2>1
<1>9. Mixed' \subseteq stale'
  BY <1>1
<1>10. QED
  BY <1>5, <1>6, <1>8, <1>9 DEF IndexInv

\* Of a set of fields one is taken away, if it is there; then it may be added.
LEMMA TakenOne ==
    ASSUME NEW S \in SUBSET Fields, NEW f \in Fields, NEW D \in SUBSET {f},
           f \in S => f \in D, f \in D => f \in S \/ S = {}
    PROVE  (IF Cardinality(S) <= Cardinality(D) THEN 0 ELSE Cardinality(S) - Cardinality(D))
             = Cardinality(S \ {f})
<1>1. Cardinality(S) \in Nat /\ Cardinality(S \ {f}) \in Nat
  BY FieldsFinite
<1>2. CASE f \in S
  <2>1. D = {f}
    BY <1>2
  <2>2. Cardinality(D) = 1 /\ Cardinality(S \ {f}) = Cardinality(S) - 1
    BY <1>2, <2>1, OneField
  <2>3. QED
    BY <1>1, <2>2
<1>3. CASE f \notin S
  <2>1. S \ {f} = S /\ (S = {} \/ D = {})
    BY <1>3
  <2>2. Cardinality({}) = 0
    BY FS_EmptySet
  <2>3. CASE S = {}
    <3>1. Cardinality(D) \in Nat
      BY FieldsFinite
    <3>2. QED
      BY <2>1, <2>2, <2>3, <3>1
  <2>4. CASE D = {}
    BY <1>1, <2>1, <2>2, <2>4
  <2>5. QED
    BY <2>1, <2>3, <2>4
<1>4. QED
  BY <1>2, <1>3

LEMMA AddedOne ==
    ASSUME NEW S \in SUBSET Fields, NEW f \in Fields, f \notin S, NEW I \in SUBSET {f}
    PROVE  Cardinality(S) + Cardinality(I) = Cardinality(S \cup I)
<1>1. Cardinality(S) \in Nat
  BY FieldsFinite
<1>2. CASE I = {}
  BY <1>1, <1>2, FS_EmptySet
<1>3. CASE I = {f}
  BY <1>1, <1>3, OneField
<1>4. QED
  BY <1>2, <1>3

LEMMA IndexModifyStep ==
    ASSUME IndexInv, NEW f \in Fields, NEW new \in Keys \cup Fields, NEW all \in SUBSET Used,
           NEW last \in SUBSET (Used \ all), NEW removed \in BOOLEAN,
           execute_modify(f, new, all, last, removed)
    PROVE  IndexInv'
<1> DEFINE olds == all \cup IF removed THEN last ELSE {}
           Val(r) == IF new \in Fields THEN rows[r].val[new] ELSE new
<1>1. /\ rows' = [r \in Rids |-> IF r \in all \cup last THEN [rows[r] EXCEPT !.val[f] = Val(r)] ELSE rows[r]]
      /\ bucket' = Inserted(Deleted(bucket, rows, {f} \X olds), rows', {f} \X all)
      /\ bare' = [bare EXCEPT ![f] = IF removed THEN (@ \ all) \cup last ELSE @ \ all]
      /\ UNCHANGED <<fits, name, gone>>
      /\ stale' = (IF removed THEN stale ELSE stale \cup last) \cup Mixed'
  BY DEF execute_modify
<1>2. IndexTypeOK
  BY DEF IndexInv
<1>3. Used \subseteq Rids
  BY DEF Used
<1>4. /\ rows' \in [Rids -> [used : BOOLEAN, val : [Fields -> Keys]]]
      /\ \A r \in Rids : rows'[r].used = rows[r].used
      /\ \A r \in Rids : \A g \in Fields \ {f} : rows'[r].val[g] = rows[r].val[g]
      /\ \A r \in Rids \ (all \cup last) : rows'[r] = rows[r]
  <2>1. ASSUME NEW r \in Rids
        PROVE  rows[r] \in [used : BOOLEAN, val : [Fields -> Keys]] /\ Val(r) \in Keys
    BY <1>2 DEF IndexTypeOK
  <2> HIDE DEF Val
  <2>2. ASSUME NEW r \in Rids
        PROVE  /\ rows'[r] \in [used : BOOLEAN, val : [Fields -> Keys]]
               /\ rows'[r].used = rows[r].used
               /\ \A g \in Fields \ {f} : rows'[r].val[g] = rows[r].val[g]
    BY <1>1, <2>1
  <2>3. rows' \in [Rids -> [used : BOOLEAN, val : [Fields -> Keys]]]
    BY <1>1, <2>2
  <2>4. \A r \in Rids \ (all \cup last) : rows'[r] = rows[r]
    BY <1>1
  <2>5. QED
    BY <2>2, <2>3, <2>4
<1>5. Indexed' = Indexed /\ Used' = Used
  BY <1>1, <1>4 DEF Indexed, Used
<1>6. /\ bare' \in [Fields -> SUBSET Rids]
      /\ \A g \in Fields \ {f} : bare'[g] = bare[g]
      /\ bare'[f] = IF removed THEN (bare[f] \ all) \cup last ELSE bare[f] \ all
  BY <1>1, <1>2, <1>3 DEF IndexTypeOK
<1>7. IndexTypeOK'
  <2>1. Mixed' \subseteq Rids
    BY <1>3, <1>5 DEF Mixed
  <2>2. Deleted(bucket, rows, {f} \X olds) \in [Names -> [Keys \X Rids -> Nat]]
    BY <1>2, BucketsType DEF IndexTypeOK
  <2>3. bucket' \in [Names -> [Keys \X Rids -> Nat]]
    BY <1>1, <2>2, BucketsType
  <2>4. stale' \subseteq Rids
    BY <1>1, <1>2, <1>3, <2>1 DEF IndexTypeOK
  <2>5. QED
    BY <1>1, <1>2, <1>4, <1>6, <2>3, <2>4 DEF IndexTypeOK
<1>8. BareIsUsed'
  BY <1>5, <1>6 DEF IndexInv, BareIsUsed
<1>9. ASSUME NEW n \in {name[g] : g \in Indexed}, NEW r \in Rids \ stale', NEW k \in Keys
      PROVE  bucket'[n][<<k, r>>] = Cardinality(Having(n, r, k)')
  <2> DEFINE D == With(n, <<k, r>>, rows, {f} \X olds)
             I == With(n, <<k, r>>, rows', {f} \X all)
             before == Having(n, r, k)
             Less(x, y) == IF x <= y THEN 0 ELSE x - y
  <2>1. n \in Names /\ r \notin stale /\ r \notin Mixed /\ r \notin Mixed'
    BY <1>1, <1>2 DEF IndexTypeOK, IndexInv, Indexed
  <2>2. bucket[n][<<k, r>>] = Cardinality(before)
    BY <1>2, <2>1 DEF IndexInv, BucketsAgree, IndexTypeOK
  <2>3. bucket'[n][<<k, r>>] = Less(Cardinality(before), Cardinality(D)) + Cardinality(I)
    BY <1>1, <2>1, <2>2 DEF Inserted, Deleted
  <2>4. before \in SUBSET Fields /\ D \in SUBSET Fields /\ I \in SUBSET Fields
    BY DEF Having, With, Indexed
  <2>5. Cardinality({}) = 0 /\ Cardinality(before) \in Nat /\ Cardinality(D) \in Nat
    BY <2>4, FieldsFinite, FS_EmptySet
  <2>6. ASSUME D = {}, I = {}, Having(n, r, k)' = before
        PROVE  bucket'[n][<<k, r>>] = Cardinality(Having(n, r, k)')
    <3> DEFINE old == Cardinality(before)
    <3>1. old \in Nat /\ bucket'[n][<<k, r>>] = Less(old, 0) + 0
      BY <2>3, <2>5, <2>6
    <3> HIDE DEF old
    <3>2. bucket'[n][<<k, r>>] = old
      BY <3>1
    <3> USE DEF old
    <3>3. QED
      BY <2>6, <3>2
  <2>7. CASE name[f] # n \/ r \notin all \cup last
    <3>1. D = {} /\ I = {}
      BY <2>7 DEF With
    <3>2. Having(n, r, k)' = before
      <4>1. ASSUME NEW g \in Fields, name[g] = n
            PROVE  /\ rows'[r].used = rows[r].used /\ rows'[r].val[g] = rows[r].val[g]
                   /\ r \in bare'[g] <=> r \in bare[g]
        BY <1>4, <1>6, <2>7, <4>1
      <4>2. QED
        BY <1>1, <4>1 DEF Having
    <3>3. QED
      BY <2>6, <3>1, <3>2
  <2>8. CASE name[f] = n /\ r \in last
    <3>1. removed /\ r \notin all /\ r \in bare'[f] /\ r \in Used' /\ r \in olds
      BY <1>1, <1>5, <1>6, <2>8
    <3>2. \A g \in Fields : name[g] = n => r \in bare'[g]
      BY <1>1, <2>1, <2>8, <3>1, IndexAssumption DEF Mixed, Indexed
    <3>3. Having(n, r, k)' = {} /\ I = {}
      BY <1>1, <3>1, <3>2 DEF Having, With
    <3>4. before \subseteq D
      <4>1. \A g \in before : g = f
        BY <1>6, <3>2 DEF Having
      <4>2. f \in Indexed
        BY <2>1, <2>8, IndexAssumption DEF Indexed
      <4>3. QED
        BY <2>8, <3>1, <4>1, <4>2 DEF Having, With
    <3>5. Cardinality(before) <= Cardinality(D)
      <4> HIDE DEF before, D
      <4>1. QED
        BY <2>4, <3>4, FieldsFinite
    <3> DEFINE old == Cardinality(before)
               less == Cardinality(D)
    <3>6. old \in Nat /\ less \in Nat /\ old <= less /\ bucket'[n][<<k, r>>] = Less(old, less) + 0
      BY <2>3, <2>5, <3>3, <3>5
    <3> HIDE DEF old, less
    <3>7. bucket'[n][<<k, r>>] = 0
      BY <3>6
    <3>8. QED
      BY <2>5, <3>3, <3>7
  <2>9. CASE name[f] = n /\ r \in all
    <3>1. r \notin bare'[f] /\ r \in Used /\ r \in Used' /\ r \in olds
      BY <1>5, <1>6, <2>9
    <3>2. \A g \in Fields : name[g] = n => r \notin bare'[g]
      BY <1>1, <2>1, <2>9, <3>1, IndexAssumption DEF Mixed, Indexed
    <3>3. \A g \in Fields \ {f} : name[g] = n => r \notin bare[g]
      BY <1>6, <3>2
    <3>4. \/ \A g \in Fields : name[g] = n => r \in bare[g]
          \/ \A g \in Fields : name[g] = n => r \notin bare[g]
      BY <2>1, <3>1, AllOrNone
    <3>5. f \in Indexed
      BY <2>1, <2>9, IndexAssumption DEF Indexed
    <3>6. D \in SUBSET {f} /\ I \in SUBSET {f} /\ (f \in D <=> rows[r].val[f] = k)
      BY <2>9, <3>1, <3>5 DEF With
    <3>7. (f \in before => f \in D) /\ (f \in D => f \in before \/ before = {})
      <4>1. f \in before <=> rows[r].val[f] = k /\ r \notin bare[f]
        BY <2>9, <3>1 DEF Having, Used
      <4>2. r \in bare[f] => before = {}
        BY <2>9, <3>4 DEF Having
      <4>3. QED
        BY <3>6, <4>1, <4>2
    <3>8. Having(n, r, k)' = (before \ {f}) \cup I
      <4>1. f \in Having(n, r, k)' <=> f \in I
        BY <1>1, <2>9, <3>1, <3>2, <3>5 DEF Having, With, Used
      <4>2. ASSUME NEW g \in Fields \ {f}
            PROVE  g \in Having(n, r, k)' <=> g \in before
        BY <1>1, <1>4, <1>6 DEF Having
      <4>3. Having(n, r, k)' \subseteq Fields
        BY DEF Having
      <4>4. QED
        BY <2>4, <3>6, <4>1, <4>2, <4>3
    <3> HIDE DEF before, D, I
    <3>9. Less(Cardinality(before), Cardinality(D)) = Cardinality(before \ {f})
      BY <2>4, <3>6, <3>7, TakenOne
    <3>10. Cardinality(before \ {f}) + Cardinality(I) = Cardinality((before \ {f}) \cup I)
      BY <2>4, <3>6, AddedOne
    <3>11. bucket'[n][<<k, r>>] = Cardinality((before \ {f}) \cup I)
      BY <2>3, <3>9, <3>10
    <3>12. QED
      BY <3>8, <3>11
  <2>10. QED
    BY <2>7, <2>8, <2>9
<1>10. BucketsAgree'
  <2> SUFFICES ASSUME NEW n \in {name'[g] : g \in Indexed'}, NEW r \in Rids \ stale', NEW k \in Keys
               PROVE  bucket'[n][<<k, r>>] = Cardinality(Having(n, r, k)')
    BY DEF BucketsAgree
  <2>1. n \in {name[g] : g \in Indexed}
    BY <1>1, <1>5
  <2>2. QED
    BY <1>9, <2>1
<1>11. Mixed' \subseteq stale'
  BY <1>1
<1>12. QED
  BY <1>7, <1>8, <1>10, <1>11 DEF IndexInv

LEMMA CreateIndexStep ==
    ASSUME IndexInv, NEW f \in Fields, NEW n0 \in Names, create_index(f, n0)
    PROVE  IndexInv'
<1>1. /\ name' = [name EXCEPT ![f] = n0]
      /\ bare' = [bare EXCEPT ![f] = IF n0 = name[f] THEN @ ELSE Used]
      /\ UNCHANGED <<fits, rows, bucket, gone>>
      /\ stale' = Rids \/
            /\ n0 # name[f] => \A g \in Indexed \ {f} : name[g] # name[f]
            /\ (\A g \in Fields : name[g] # n0) => \A e \in Keys \X Rids : ~(bucket[n0][e] > 0)
            /\ stale' = stale \cup Mixed'
  BY DEF create_index
<1>2. IndexTypeOK
  BY DEF IndexInv
<1>3. Used' = Used /\ Used \subseteq Rids
  BY <1>1 DEF Used
<1>4. /\ name' \in [Fields -> Names \cup {None}] /\ name'[f] = n0
      /\ \A g \in Fields \ {f} : name'[g] = name[g]
      /\ bare' \in [Fields -> SUBSET Rids]
      /\ bare'[f] = IF n0 = name[f] THEN bare[f] ELSE Used
      /\ \A g \in Fields \ {f} : bare'[g] = bare[g]
  BY <1>1, <1>2, <1>3 DEF IndexTypeOK
<1>5. Mixed' \subseteq stale' /\ stale' \subseteq Rids
  <2>1. Mixed' \subseteq Rids
    BY <1>3 DEF Mixed
  <2>2. QED
    BY <1>1, <1>2, <2>1 DEF IndexTypeOK
<1>6. IndexTypeOK'
  BY <1>1, <1>2, <1>4, <1>5 DEF IndexTypeOK
<1>7. BareIsUsed'
  BY <1>3, <1>4 DEF IndexInv, BareIsUsed
<1>8. ASSUME NEW n \in {name'[g] : g \in Indexed'}, NEW r \in Rids \ stale', NEW k \in Keys
      PROVE  bucket'[n][<<k, r>>] = Cardinality(Having(n, r, k)')
  <2>1. /\ n0 # name[f] => \A g \in Indexed \ {f} : name[g] # name[f]
        /\ (\A g \in Fields : name[g] # n0) => \A e \in Keys \X Rids : ~(bucket[n0][e] > 0)
        /\ r \notin stale
    BY <1>1
  <2>2. PICK g \in Fields : name'[g] = n
    BY DEF Indexed
  <2>3. n \in Names
    BY <1>4, <2>2 DEF Indexed
  <2>4. bucket'[n][<<k, r>>] = bucket[n][<<k, r>>] /\ bucket[n][<<k, r>>] \in Nat
    BY <1>1, <1>2, <2>3 DEF IndexTypeOK
  <2>5. ASSUME Having(n, r, k)' = Having(n, r, k), NEW h \in Fields, name[h] = n
        PROVE  bucket'[n][<<k, r>>] = Cardinality(Having(n, r, k)')
    <3>1. h \in Indexed
      BY <2>3, <2>5, IndexAssumption DEF Indexed
    <3>2. bucket[n][<<k, r>>] = Cardinality(Having(n, r, k))
      BY <2>1, <2>5, <3>1 DEF IndexInv, BucketsAgree
    <3>3. QED
      BY <2>4, <2>5, <3>2
  <2>6. CASE n0 = name[f]
    <3>1. name' = name /\ bare' = bare
      BY <1>1, <1>2, <2>6 DEF IndexTypeOK
    <3>2. Having(n, r, k)' = Having(n, r, k)
      BY <1>1, <3>1 DEF Having
    <3>3. QED
      BY <2>2, <2>5, <3>1, <3>2
  <2>7. CASE n0 # name[f] /\ n = n0
    <3>1. ASSUME NEW h \in Fields
          PROVE  h \in Having(n, r, k)' <=> h \in Having(n, r, k)
      BY <1>1, <1>4, <2>7 DEF Having, Used
    <3>2. Having(n, r, k)' = Having(n, r, k)
      BY <3>1 DEF Having
    <3>3. CASE \E h \in Fields : name[h] = n
      BY <2>5, <3>2, <3>3
    <3>4. CASE \A h \in Fields : name[h] # n
      <4>1. ~(bucket[n][<<k, r>>] > 0)
        BY <2>1, <2>7, <3>4
      <4>2. bucket'[n][<<k, r>>] = 0
        BY <2>4, <4>1
      <4>3. Having(n, r, k) = {}
        BY <3>4 DEF Having
      <4>4. QED
        BY <3>2, <4>2, <4>3, FS_EmptySet
    <3>5. QED
      BY <3>3, <3>4
  <2>8. CASE n0 # name[f] /\ n # n0
    <3>1. g # f /\ name[g] = n
      BY <1>4, <2>2, <2>8
    <3>2. g \in Indexed
      BY <2>3, <3>1, IndexAssumption DEF Indexed
    <3>3. name[f] # n
      BY <2>1, <2>8, <3>1, <3>2
    <3>4. ASSUME NEW h \in Fields
          PROVE  h \in Having(n, r, k)' <=> h \in Having(n, r, k)
      BY <1>1, <1>4, <2>8, <3>3 DEF Having
    <3>5. Having(n, r, k)' = Having(n, r, k)
      BY <3>4 DEF Having
    <3>6. QED
      BY <2>5, <3>1, <3>5
  <2>9. QED
    BY <2>6, <2>7, <2>8
<1>9. BucketsAgree'
  BY <1>8 DEF BucketsAgree
<1>10. QED
  BY <1>5, <1>6, <1>7, <1>9 DEF IndexInv

\* Rows without an entry are rows that are there; a row is in doubt as soon as one of two
\* indexes of one name has its entry and the other has not; and of the others the files hold
\* what the fields have.
THEOREM IndexInvHolds == IndexSpec => []IndexInv
<1>1. InitIndex => IndexInv
  <2> SUFFICES ASSUME InitIndex
               PROVE  IndexInv
    OBVIOUS
  <2>1. IndexTypeOK
    BY IndexAssumption DEF InitIndex, IndexTypeOK
  <2>2. Indexed = {} /\ Used = {}
    BY DEF InitIndex, Indexed, Used
  <2>3. QED
    BY <2>1, <2>2 DEF InitIndex, IndexInv, BareIsUsed, Mixed, BucketsAgree
<1>2. IndexInv /\ [NextIndex]_indexVars => IndexInv'
  <2> SUFFICES ASSUME IndexInv, [NextIndex]_indexVars
               PROVE  IndexInv'
    OBVIOUS
  <2>1. ASSUME UNCHANGED <<fits, rows, name, bucket, bare, stale>>, gone' \in BOOLEAN
        PROVE  IndexInv'
    <3>1. IndexTypeOK'
      BY <2>1 DEF IndexInv, IndexTypeOK
    <3>2. Used' = Used /\ Indexed' = Indexed
      BY <2>1 DEF Used, Indexed
    <3>3. BareIsUsed' /\ Mixed' \subseteq stale'
      BY <2>1, <3>2 DEF IndexInv, BareIsUsed, Mixed
    <3>4. BucketsAgree'
      <4> SUFFICES ASSUME NEW n \in {name'[g] : g \in Indexed'}, NEW r \in Rids \ stale', NEW k \in Keys
                   PROVE  bucket'[n][<<k, r>>] = Cardinality(Having(n, r, k)')
        BY DEF BucketsAgree
      <4>1. Having(n, r, k)' = Having(n, r, k)
        BY <2>1 DEF Having
      <4>2. n \in {name[g] : g \in Indexed} /\ r \in Rids \ stale
        BY <2>1, <3>2
      <4>3. bucket[n][<<k, r>>] = Cardinality(Having(n, r, k))
        BY <4>2 DEF IndexInv, BucketsAgree
      <4>4. QED
        BY <2>1, <4>1, <4>3
    <3>5. QED
      BY <3>1, <3>3, <3>4 DEF IndexInv
  <2>2. CASE Insert
    <3>1. PICK done \in SUBSET Fields, half \in SUBSET Fields : \E val \in [done \cup half -> Keys] :
              execute_insert(done, half, val)
      BY <2>2 DEF Insert, OneOf
    <3>2. QED
      BY <3>1, IndexInsertStep
  <2>3. CASE Delete
    <3>1. PICK all \in SUBSET Used : \E last \in SUBSET (Used \ all), some \in SUBSET Indexed :
              execute_delete(all, last, some)
      BY <2>3 DEF Delete, OneOf
    <3>2. QED
      BY <3>1, IndexDeleteStep
  <2>4. CASE Modify
    <3>1. PICK f \in Fields, new \in Keys \cup Fields :
              \E all \in SUBSET IF f \in Failing THEN {} ELSE Used :
                  \E last \in OneOf(IF f \in Indexed THEN Used \ all ELSE {}) :
                      \E removed \in IF last = {} THEN {FALSE} ELSE BOOLEAN :
                          execute_modify(f, new, all, last, removed)
      BY <2>4 DEF Modify
    <3>2. PICK all \in SUBSET Used :
              \E last \in OneOf(IF f \in Indexed THEN Used \ all ELSE {}) :
                  \E removed \in IF last = {} THEN {FALSE} ELSE BOOLEAN :
                      execute_modify(f, new, all, last, removed)
      BY <3>1
    <3>3. PICK last \in SUBSET (Used \ all), removed \in BOOLEAN :
              execute_modify(f, new, all, last, removed)
      BY <3>2 DEF OneOf
    <3>4. QED
      BY <3>3, IndexModifyStep
  <2>5. CASE Gone
    BY <2>1, <2>5 DEF Gone
  <2>6. CASE UNCHANGED indexVars
    BY <2>1, <2>6 DEF indexVars, IndexInv, IndexTypeOK
  <2>7. QED
    BY <2>2, <2>3, <2>4, <2>5, <2>6, CreateIndexStep DEF NextIndex
<1>3. QED
  BY <1>1, <1>2, PTL DEF IndexSpec

\* A search returns each row that is not in doubt as often as the fields of the index have
\* the key in it, whatever statements have failed half-way and whatever names indexes share.
THEOREM IndexesAgree == IndexSpec => []IndexAgrees
<1>1. IndexInv => IndexAgrees
  BY DEF IndexInv, BucketsAgree, Having, IndexAgrees
<1>2. QED
  BY <1>1, IndexInvHolds, PTL

-----------------------------------------------------------------------------

\* A set of naturals that is not empty has a least element.
LEMMA LeastOf ==
    ASSUME NEW S \in SUBSET Nat, S # {}
    PROVE  \E i \in S : \A j \in S : i <= j
<1> DEFINE R == OpToRel(<, Nat)
<1>1. IsWellFoundedOn(R, Nat)
  BY NatLessThanWellFounded
<1> HIDE DEF R
<1>2. PICK x \in S : \A y \in S : ~ (<<y, x>> \in R)
  BY <1>1, WFMin
<1>3. ASSUME NEW y \in S
      PROVE  x <= y
  <2>1. ~ (<<y, x>> \in R)
    BY <1>2
  <2>2. ~ (y < x)
    BY <2>1 DEF R, OpToRel
  <2>3. QED
    BY <2>2
<1>4. QED
  BY <1>3

\* One of naturals up to n has a greatest one.
LEMMA GreatestOf ==
    ASSUME NEW n \in Nat, NEW S \in SUBSET (0..n), S # {}
    PROVE  \E i \in S : \A j \in S : j <= i
<1> DEFINE T == {k \in 0..n : n - k \in S}
<1>1. T \in SUBSET Nat
  OBVIOUS
<1>2. T # {}
  <2>1. PICK i \in S : TRUE
    OBVIOUS
  <2>2. n - i \in 0..n /\ n - (n - i) = i
    BY <2>1
  <2>3. n - i \in T
    BY <2>1, <2>2
  <2>4. QED
    BY <2>3
<1>3. \E k \in T : \A j \in T : k <= j
  <2> HIDE DEF T
  <2>1. QED
    BY <1>1, <1>2, LeastOf
<1>4. PICK k \in T : \A j \in T : k <= j
  BY <1>3
<1>5. ASSUME NEW j \in S
      PROVE  j <= n - k
  <2>1. n - j \in 0..n /\ n - (n - j) = j
    OBVIOUS
  <2>2. k <= n - j
    BY <1>4, <2>1
  <2>3. QED
    BY <1>4, <2>2
<1>6. QED
  BY <1>4, <1>5

-----------------------------------------------------------------------------

\* Every row of a table is of a schema the table has been created with.
RowsOfMade ==
    \A k \in DOMAIN fldcat :
        \E s \in made[fldcat[k].table] :
            \E i \in 1..Len(s) : fldcat[k] = FieldRow(fldcat[k].table, s, i)

HasRow(t, f) == \E k \in DOMAIN fldcat : fldcat[k].table = t /\ fldcat[k].field = f

\* A table that has been created has a row for each field of one of them.
WholeHasRows ==
    \A t \in whole : \E s \in made[t] : \A i \in 1..Len(s) : HasRow(t, s[i].field)

\* No entry is older than the last refresh.
Ages == \A t \in Tables : stats[t] <= m_num_calls

CatalogInv ==
    /\ CatalogTypeOK /\ RowsOfMade /\ WholeHasRows /\ Ages
    /\ returned.age <= returned.limit

\* The rows of each field of a table have a last one.
LEMMA LastRowExists ==
    ASSUME CatalogTypeOK, NEW t \in Tables, NEW f, HasRow(t, f)
    PROVE  \E k \in LastRows(t) : fldcat[k].field = f
<1> DEFINE n == Len(fldcat)
           mine == {k \in DOMAIN fldcat : fldcat[k].table = t /\ fldcat[k].field = f}
<1>1. n \in Nat /\ DOMAIN fldcat = 1..n
  BY DEF CatalogTypeOK
<1>2. mine \in SUBSET (0..n) /\ mine # {}
  BY <1>1 DEF HasRow
<1>3. \E k \in mine : \A j \in mine : j <= k
  <2> HIDE DEF n, mine
  <2>1. QED
    BY <1>1, <1>2, GreatestOf
<1>4. PICK k \in mine : \A j \in mine : j <= k
  BY <1>3
<1>5. ASSUME NEW j \in DOMAIN fldcat, j > k, fldcat[j].table = t
      PROVE  fldcat[j].field # fldcat[k].field
  <2>1. ~(j <= k)
    BY <1>1, <1>4, <1>5
  <2>2. QED
    BY <1>4, <1>5, <2>1
<1>6. QED
  BY <1>4, <1>5 DEF LastRows

\* A row of a table with one schema has the field and the offset of that schema.
LEMMA LayoutAgrees ==
    ASSUME CatalogInv, NEW t \in Tables, NEW s \in Schemas, made[t] = {s}
    PROVE  LET right == {<<s[i].field, Offset(s, s[i].field)>> : i \in DOMAIN s}
           IN  Offsets(t) \subseteq right /\ (t \in whole => Offsets(t) = right)
<1> DEFINE right == {<<s[i].field, Offset(s, s[i].field)>> : i \in DOMAIN s}
<1>1. DOMAIN s = 1..Len(s)
  BY CatalogAssumption
<1>2. ASSUME NEW k \in DOMAIN fldcat, fldcat[k].table = t
      PROVE  \E i \in DOMAIN s : fldcat[k].field = s[i].field /\ fldcat[k].offset = Offset(s, s[i].field)
  <2>1. PICK i \in 1..Len(s) : fldcat[k] = FieldRow(t, s, i)
    BY <1>2 DEF CatalogInv, RowsOfMade
  <2>2. QED
    BY <1>1, <2>1 DEF FieldRow
<1>3. Offsets(t) \subseteq right
  BY <1>2 DEF Offsets, LastRows
<1>4. ASSUME t \in whole, NEW i \in DOMAIN s
      PROVE  <<s[i].field, Offset(s, s[i].field)>> \in Offsets(t)
  <2>1. HasRow(t, s[i].field)
    BY <1>1, <1>4 DEF CatalogInv, WholeHasRows
  <2>2. PICK k \in LastRows(t) : fldcat[k].field = s[i].field
    BY <2>1, LastRowExists DEF CatalogInv
  <2>3. k \in DOMAIN fldcat /\ fldcat[k].table = t
    BY DEF LastRows
  <2>4. fldcat[k].offset = Offset(s, s[i].field)
    BY <1>2, <2>2, <2>3
  <2>5. QED
    BY <2>2, <2>4 DEF Offsets
<1>5. QED
  BY <1>3, <1>4

-----------------------------------------------------------------------------

LEMMA InitCatalogInv == InitCatalog => CatalogInv
<1> SUFFICES ASSUME InitCatalog
             PROVE  CatalogInv
  OBVIOUS
<1>1. CatalogTypeOK
  BY DEF InitCatalog, CatalogTypeOK
<1>2. DOMAIN fldcat = {}
  BY DEF InitCatalog
<1>3. \A t \in Tables : stats[t] = -1 /\ m_num_calls = 0
  BY DEF InitCatalog, NoEntry
<1>4. QED
  BY <1>1, <1>2, <1>3 DEF InitCatalog, CatalogInv, RowsOfMade, WholeHasRows, Ages

LEMMA CreateTableStep ==
    ASSUME CatalogInv, NEW t \in Tables, NEW s \in Schemas, NEW n \in 0..Len(s), create_table(t, s, n)
    PROVE  CatalogInv'
<1>1. /\ tblcat' = Append(tblcat, t)
      /\ fldcat' = fldcat \o [i \in 1..n |-> FieldRow(t, s, i)]
      /\ made' = [made EXCEPT ![t] = @ \cup {s}]
      /\ whole' = IF n = Len(s) THEN whole \cup {t} ELSE whole
      /\ UNCHANGED <<viewcat, stats, m_num_calls, m_num_calls_limit, returned>>
  BY DEF create_table
<1> DEFINE added == [i \in 1..n |-> FieldRow(t, s, i)]
           m == Len(fldcat)
<1>2. n \in Nat /\ Len(s) \in Nat
  BY CatalogAssumption
<1>3. added \in Seq(FieldRows) /\ Len(added) = n
  <2>1. ASSUME NEW i \in 1..n
        PROVE  FieldRow(t, s, i) \in FieldRows
    BY CatalogAssumption DEF FieldRows
  <2>2. added \in [1..n -> FieldRows]
    BY <2>1
  <2>3. QED
    BY <1>2, <2>2
<1>4. fldcat \in Seq(FieldRows) /\ m \in Nat /\ DOMAIN fldcat = 1..m
  BY DEF CatalogInv, CatalogTypeOK
<1>5. /\ fldcat' \in Seq(FieldRows) /\ DOMAIN fldcat' = 1..(m + n)
      /\ \A k \in 1..m : fldcat'[k] = fldcat[k]
      /\ \A k \in 1..n : fldcat'[m + k] = FieldRow(t, s, k)
  <2>1. fldcat' = fldcat \o added
    BY <1>1
  <2> HIDE DEF added, m
  <2>2. fldcat' \in Seq(FieldRows) /\ Len(fldcat') = m + n
    BY <1>2, <1>3, <1>4, <2>1, ConcatProperties DEF m
  <2>3. /\ \A k \in 1..m : fldcat'[k] = fldcat[k]
        /\ \A k \in 1..n : fldcat'[m + k] = added[k]
    BY <1>2, <1>3, <1>4, <2>1 DEF m
  <2>4. QED
    BY <2>2, <2>3 DEF added
<1> HIDE DEF m
<1>6. CatalogTypeOK'
  BY <1>1, <1>5 DEF CatalogInv, CatalogTypeOK
<1>7. \A u \in Tables : made[u] \subseteq made'[u] /\ s \in made'[t]
  BY <1>1 DEF CatalogInv, CatalogTypeOK
<1>8. RowsOfMade'
  <2> SUFFICES ASSUME NEW k \in 1..(m + n)
               PROVE  \E x \in made'[fldcat'[k].table] :
                          \E i \in 1..Len(x) : fldcat'[k] = FieldRow(fldcat'[k].table, x, i)
    BY <1>5 DEF RowsOfMade
  <2>1. CASE k \in 1..m
    <3>1. PICK x \in made[fldcat[k].table] :
              \E i \in 1..Len(x) : fldcat[k] = FieldRow(fldcat[k].table, x, i)
      BY <1>4, <2>1 DEF CatalogInv, RowsOfMade
    <3>2. fldcat[k].table \in Tables
      <4>1. fldcat[k] \in FieldRows
        BY <1>4, <2>1
      <4>2. QED
        BY <4>1 DEF FieldRows, FieldRow
    <3>3. QED
      BY <1>5, <1>7, <2>1, <3>1, <3>2
  <2>2. CASE k \notin 1..m
    <3>1. k - m \in 1..n /\ m + (k - m) = k
      BY <1>2, <1>4, <2>2
    <3>2. fldcat'[k] = FieldRow(t, s, k - m)
      BY <1>5, <3>1
    <3>3. fldcat'[k].table = t /\ k - m \in 1..Len(s)
      BY <1>2, <3>1, <3>2 DEF FieldRow
    <3>4. QED
      BY <1>7, <3>2, <3>3
  <2>3. QED
    BY <2>1, <2>2
<1>9. ASSUME NEW u, NEW f, HasRow(u, f)
      PROVE  HasRow(u, f)'
  <2>1. PICK k \in 1..m : fldcat[k].table = u /\ fldcat[k].field = f
    BY <1>4, <1>9 DEF HasRow
  <2>2. k \in 1..(m + n)
    BY <1>2, <1>4
  <2>3. k \in DOMAIN fldcat' /\ fldcat'[k].table = u /\ fldcat'[k].field = f
    BY <1>5, <2>1, <2>2
  <2>4. QED
    BY <2>3 DEF HasRow
<1>10. WholeHasRows'
  <2> SUFFICES ASSUME NEW u \in whole'
               PROVE  \E x \in made'[u] : \A i \in 1..Len(x) : HasRow(u, x[i].field)'
    BY DEF WholeHasRows
  <2>1. CASE u \in whole
    <3>1. PICK x \in made[u] : \A i \in 1..Len(x) : HasRow(u, x[i].field)
      BY <2>1 DEF CatalogInv, WholeHasRows
    <3>2. u \in Tables
      BY <2>1 DEF CatalogInv, CatalogTypeOK
    <3>3. QED
      BY <1>7, <1>9, <3>1, <3>2
  <2>2. CASE u \notin whole
    <3>1. u = t /\ n = Len(s)
      BY <1>1, <2>2
    <3>2. ASSUME NEW i \in 1..Len(s)
          PROVE  HasRow(t, s[i].field)'
      <4>1. m + i \in 1..(m + n) /\ fldcat'[m + i] = FieldRow(t, s, i)
        BY <1>2, <1>4, <1>5, <3>1
      <4>2. QED
        BY <1>5, <4>1 DEF HasRow, FieldRow
    <3>3. QED
      BY <1>7, <3>1, <3>2
  <2>3. QED
    BY <2>1, <2>2
<1>11. QED
  BY <1>1, <1>6, <1>8, <1>10 DEF CatalogInv, Ages

LEMMA GetStatInfoStep ==
    ASSUME CatalogInv, NEW t \in Tables, NEW n \in 0..Len(tblcat), get_stat_info(t, n)
    PROVE  CatalogInv'
<1> DEFINE turn == m_num_calls + 1
           left == IF Due(turn) THEN Refreshed(n) ELSE Older
<1>1. /\ UNCHANGED <<tblcat, fldcat, viewcat, m_num_calls_limit, made, whole>>
      /\ m_num_calls' = IF Due(turn) THEN 0 ELSE turn
      /\ \/ stats' = left /\ UNCHANGED returned
         \/ /\ stats' = [left EXCEPT ![t] = IF @ = NoEntry THEN 0 ELSE @]
            /\ returned' = [age |-> stats'[t], limit |-> m_num_calls_limit]
  BY DEF get_stat_info
<1>2. m_num_calls \in Nat /\ turn \in Nat /\ m_num_calls_limit \in Nat
  BY CatalogAssumption DEF CatalogInv, CatalogTypeOK
<1>3. left \in [Tables -> Nat \cup {NoEntry}]
  BY DEF CatalogInv, CatalogTypeOK, Refreshed, Older
<1>4. \A u \in Tables : left[u] <= m_num_calls'
  <2>1. CASE Due(turn)
    BY <1>1, <2>1 DEF Refreshed, NoEntry
  <2>2. CASE ~Due(turn)
    <3>1. ASSUME NEW u \in Tables
          PROVE  Older[u] <= turn
      <4>1. stats[u] <= m_num_calls /\ stats[u] \in Nat \cup {NoEntry}
        BY DEF CatalogInv, Ages, CatalogTypeOK
      <4>2. QED
        BY <1>2, <4>1 DEF Older, NoEntry
    <3>2. QED
      BY <1>1, <2>2, <3>1
  <2>3. QED
    BY <2>1, <2>2
<1>5. m_num_calls' \in Nat /\ m_num_calls' <= m_num_calls_limit
  BY <1>1, <1>2 DEF Due
<1> HIDE DEF left, turn
<1>6. stats' \in [Tables -> Nat \cup {NoEntry}] /\ \A u \in Tables : stats'[u] <= m_num_calls'
  BY <1>1, <1>3, <1>4, <1>5 DEF NoEntry
<1>7. returned' \in [age : Nat, limit : Nat] /\ returned'.age <= returned'.limit
  <2>1. CASE UNCHANGED returned
    BY <2>1 DEF CatalogInv, CatalogTypeOK
  <2>2. CASE /\ stats' = [left EXCEPT ![t] = IF @ = NoEntry THEN 0 ELSE @]
             /\ returned' = [age |-> stats'[t], limit |-> m_num_calls_limit]
    <3>1. stats'[t] \in Nat
      BY <1>3, <2>2 DEF NoEntry
    <3>2. stats'[t] <= m_num_calls_limit
      BY <1>2, <1>5, <1>6, <3>1
    <3>3. QED
      BY <1>2, <2>2, <3>1, <3>2
  <2>3. QED
    BY <1>1, <2>1, <2>2
<1>8. CatalogTypeOK' /\ Ages'
  BY <1>1, <1>5, <1>6, <1>7 DEF CatalogInv, CatalogTypeOK, Ages
<1>9. RowsOfMade' /\ WholeHasRows'
  BY <1>1 DEF CatalogInv, RowsOfMade, WholeHasRows, HasRow
<1>10. QED
  BY <1>7, <1>8, <1>9 DEF CatalogInv

\* Every row of the catalog is of a schema its table was created with, a created table has
\* all of one's, and no entry of the statistics is older than the last refresh.
THEOREM CatalogInvHolds == CatalogSpec => []CatalogInv
<1>1. InitCatalog => CatalogInv
  BY InitCatalogInv
<1>2. CatalogInv /\ [NextCatalog]_catalogVars => CatalogInv'
  <2> SUFFICES ASSUME CatalogInv, [NextCatalog]_catalogVars
               PROVE  CatalogInv'
    OBVIOUS
  <2>1. CASE UNCHANGED catalogVars
    <3>1. UNCHANGED <<tblcat, fldcat, viewcat, stats, m_num_calls, m_num_calls_limit, returned, made, whole>>
      BY <2>1 DEF catalogVars
    <3>2. CatalogTypeOK'
      BY <3>1 DEF CatalogInv, CatalogTypeOK
    <3>3. RowsOfMade' /\ WholeHasRows' /\ Ages' /\ returned'.age <= returned'.limit
      BY <3>1 DEF CatalogInv, RowsOfMade, WholeHasRows, HasRow, Ages
    <3>4. QED
      BY <3>2, <3>3 DEF CatalogInv
  <2>2. CASE create_view
    <3>1. viewcat' = viewcat + 1
          /\ UNCHANGED <<tblcat, fldcat, stats, m_num_calls, m_num_calls_limit, returned, made, whole>>
      BY <2>2 DEF create_view
    <3>2. CatalogTypeOK'
      BY <3>1 DEF CatalogInv, CatalogTypeOK
    <3>3. RowsOfMade' /\ WholeHasRows' /\ Ages' /\ returned'.age <= returned'.limit
      BY <3>1 DEF CatalogInv, RowsOfMade, WholeHasRows, HasRow, Ages
    <3>4. QED
      BY <3>2, <3>3 DEF CatalogInv
  <2>3. ASSUME NEW n \in Limits, set_num_calls_limit(n)
        PROVE  CatalogInv'
    <3>1. n \in Limits /\ m_num_calls_limit' = n
          /\ UNCHANGED <<tblcat, fldcat, viewcat, stats, m_num_calls, returned, made, whole>>
      BY <2>3 DEF set_num_calls_limit
    <3>2. CatalogTypeOK'
      BY <3>1 DEF CatalogInv, CatalogTypeOK
    <3>3. RowsOfMade' /\ WholeHasRows' /\ Ages' /\ returned'.age <= returned'.limit
      BY <3>1 DEF CatalogInv, RowsOfMade, WholeHasRows, HasRow, Ages
    <3>4. QED
      BY <3>2, <3>3 DEF CatalogInv
  <2>4. QED
    BY <2>1, <2>2, <2>3, CreateTableStep, GetStatInfoStep DEF NextCatalog
<1>3. QED
  BY <1>1, <1>2, PTL DEF CatalogSpec

\* A table created with one schema has the offsets of it, however many attempts have failed,
\* and no statistics are returned that are older than the limit.
THEOREM CatalogsAgree == CatalogSpec => []CatalogAgrees
<1>1. CatalogInv => CatalogAgrees
  BY LayoutAgrees DEF CatalogInv, CatalogAgrees
<1>2. QED
  BY <1>1, CatalogInvHolds, PTL

-----------------------------------------------------------------------------
(***************************************************************************)
(* The parser. Its rules for lists and predicates are recursive over the   *)
(* places of the text: each is unfolded by a solution in closed form, and  *)
(* a text it reads wrongly would have a first or a last such place. Then   *)
(* counts of items and terms say how a sentence is made, in one way.       *)
(***************************************************************************)

\* The place behind the text has no token, and 0 has none.
LEMMA TokensEnd ==
    ASSUME text \in Seq(Vocabulary), NEW q \in Nat, Token(q) # "eof"
    PROVE  q > 0 /\ q <= Len(text) /\ Token(q) = text[q] /\ Len(text) \in Nat
BY DEF Token, TokenAt

-----------------------------------------------------------------------------

\* What the rule of a list says of its recursive function.
ListRule(list, items) ==
    list = [q \in Nat |->
        IF q = 0 \/ Token(q) \notin items THEN [end |-> 0, items |-> 0]
        ELSE IF Token(q + 1) # "comma" THEN [end |-> q + 1, items |-> 1]
        ELSE [end |-> list[q + 2].end, items |-> list[q + 2].items + 1]]

\* How many items a list goes on for from a place.
Stops(q, items) == {k \in Nat : Token(q + 2 * k) \notin items \/ Token(q + 2 * k + 1) # "comma"}
Stop(q, items) == CHOOSE k \in Stops(q, items) : \A j \in Stops(q, items) : k <= j

\* The count is there, and it is the least: behind the text there is no item.
LEMMA StopIs ==
    ASSUME text \in Seq(Vocabulary), NEW items, NEW q \in Nat
    PROVE  /\ Stop(q, items) \in Nat
           /\ Stop(q, items) \in Stops(q, items)
           /\ \A j \in Stops(q, items) : Stop(q, items) <= j
<1> DEFINE e == Len(text)
<1>1. e \in Nat
  OBVIOUS
<1>2. q + 2 * e + 1 \in Nat /\ q + 2 * e + 1 > e
  <2> HIDE DEF e
  <2>1. QED
    BY <1>1
<1>3. Token(q + 2 * e + 1) = "eof"
  BY <1>1, <1>2, TokensEnd
<1>4. e \in Stops(q, items)
  <2> HIDE DEF e
  <2>1. QED
    BY <1>1, <1>3 DEF Stops
<1>5. Stops(q, items) \in SUBSET Nat /\ Stops(q, items) # {}
  BY <1>4 DEF Stops
<1>6. \E k \in Stops(q, items) : \A j \in Stops(q, items) : k <= j
  <2> DEFINE S == Stops(q, items)
  <2>1. S \in SUBSET Nat /\ S # {}
    BY <1>5
  <2> HIDE DEF S
  <2>2. \E k \in S : \A j \in S : k <= j
    BY <2>1, LeastOf
  <2>3. QED
    BY <2>2 DEF S
<1>7. QED
  BY <1>5, <1>6 DEF Stop

\* Behind an item and a comma the list goes on for one item less.
LEMMA StopMoves ==
    ASSUME text \in Seq(Vocabulary), NEW items, NEW q \in Nat, Token(q) \in items, Token(q + 1) = "comma"
    PROVE  Stop(q, items) = Stop(q + 2, items) + 1
<1> DEFINE a == Stop(q, items)
           b == Stop(q + 2, items)
<1>1. a \in Nat /\ a \in Stops(q, items) /\ \A j \in Stops(q, items) : a <= j
  BY StopIs
<1>2. b \in Nat /\ b \in Stops(q + 2, items) /\ \A j \in Stops(q + 2, items) : b <= j
  BY StopIs
<1> HIDE DEF a, b
<1>3. a # 0
  <2>1. SUFFICES ASSUME a = 0 PROVE FALSE
    OBVIOUS
  <2>2. 0 \in Stops(q, items)
    BY <1>1, <2>1
  <2>3. q + 2 * 0 = q /\ q + 2 * 0 + 1 = q + 1
    OBVIOUS
  <2>4. QED
    BY <2>2, <2>3 DEF Stops
<1>4. a - 1 \in Nat /\ q + 2 + 2 * (a - 1) = q + 2 * a /\ q + 2 + 2 * (a - 1) + 1 = q + 2 * a + 1
  BY <1>1, <1>3
<1>5. a - 1 \in Stops(q + 2, items)
  BY <1>1, <1>4 DEF Stops
<1>6. b + 1 \in Nat /\ q + 2 * (b + 1) = q + 2 + 2 * b /\ q + 2 * (b + 1) + 1 = q + 2 + 2 * b + 1
  BY <1>2
<1>7. b + 1 \in Stops(q, items)
  BY <1>2, <1>6 DEF Stops
<1>8. b <= a - 1 /\ a <= b + 1
  BY <1>1, <1>2, <1>5, <1>7
<1>9. a = b + 1
  BY <1>8, <1>1, <1>2
<1>10. QED
  BY <1>9 DEF a, b

\* The recursion of a list has a solution: the end and the number, by the count of its items.
LEMMA ListUnfolds ==
    ASSUME text \in Seq(Vocabulary), NEW items, "eof" \notin items
    PROVE  \E list : ListRule(list, items)
<1> DEFINE F(q) == LET k == Stop(q, items) IN
                   IF Token(q + 2 * k) \in items THEN [end |-> q + 2 * k + 1, items |-> k + 1]
                   ELSE [end |-> 0, items |-> k]
           list == [q \in Nat |-> F(q)]
           Body(q) == IF q = 0 \/ Token(q) \notin items THEN [end |-> 0, items |-> 0]
                      ELSE IF Token(q + 1) # "comma" THEN [end |-> q + 1, items |-> 1]
                      ELSE [end |-> list[q + 2].end, items |-> list[q + 2].items + 1]
<1>1. ASSUME NEW q \in Nat
      PROVE  F(q) = Body(q)
  <2>1. CASE Token(q) \notin items \/ Token(q + 1) # "comma"
    <3>1. q + 2 * 0 = q /\ q + 2 * 0 + 1 = q + 1
      OBVIOUS
    <3>2. 0 \in Stops(q, items)
      BY <2>1, <3>1 DEF Stops
    <3>3. Stop(q, items) = 0
      BY <3>2, StopIs
    <3>4. CASE Token(q) \notin items
      BY <3>4, <3>3, <3>1
    <3>5. CASE Token(q) \in items
      <4>1. q # 0
        BY <3>5 DEF Token, TokenAt
      <4>2. QED
        BY <3>5, <2>1, <3>3, <3>1, <4>1
    <3>6. QED
      BY <3>4, <3>5
  <2>2. CASE Token(q) \in items /\ Token(q + 1) = "comma"
    <3>1. Stop(q, items) = Stop(q + 2, items) + 1
      BY <2>2, StopMoves
    <3>2. Stop(q + 2, items) \in Nat
      BY StopIs
    <3>3. q # 0
      BY <2>2 DEF Token, TokenAt
    <3> DEFINE b == Stop(q + 2, items)
    <3>4. list[q + 2] = F(q + 2)
      OBVIOUS
    <3>5. q + 2 * (b + 1) = q + 2 + 2 * b
      BY <3>2
    <3>6. CASE Token(q + 2 + 2 * b) \in items
      <4>1. F(q + 2) = [end |-> q + 2 + 2 * b + 1, items |-> b + 1]
        BY <3>6
      <4>2. F(q) = [end |-> q + 2 * (b + 1) + 1, items |-> b + 1 + 1]
        BY <3>6, <3>1, <3>5
      <4> HIDE DEF F, list
      <4>3. Body(q) = [end |-> q + 2 + 2 * b + 1, items |-> b + 1 + 1]
        BY <2>2, <3>3, <3>4, <4>1
      <4>4. QED
        BY <4>2, <4>3, <3>5
    <3>7. CASE Token(q + 2 + 2 * b) \notin items
      <4>1. F(q + 2) = [end |-> 0, items |-> b]
        BY <3>7
      <4>2. F(q) = [end |-> 0, items |-> b + 1]
        BY <3>7, <3>1, <3>5
      <4> HIDE DEF F, list
      <4>3. Body(q) = [end |-> 0, items |-> b + 1]
        BY <2>2, <3>3, <3>4, <4>1
      <4>4. QED
        BY <4>2, <4>3
    <3>8. QED
      BY <3>6, <3>7
  <2>3. QED
    BY <2>1, <2>2
<1>2. [q \in Nat |-> F(q)] = [q \in Nat |-> Body(q)]
  <2> HIDE DEF F, Body, list
  <2>1. QED
    BY <1>1
<1>3. ListRule(list, items)
  BY <1>2 DEF ListRule
<1>4. QED
  BY <1>3

\* What the parser reads as a list is a solution of its recursion.
LEMMA ListIs ==
    ASSUME text \in Seq(Vocabulary), NEW items, "eof" \notin items, NEW p
    PROVE  \E list : ListRule(list, items) /\ List(p, items) = list[p]
<1>1. \E list : ListRule(list, items)
  BY ListUnfolds
<1>2. QED
  BY <1>1 DEF List, ListRule

\* The rule at one place.
LEMMA ListStep ==
    ASSUME NEW items, NEW list, ListRule(list, items), NEW q \in Nat
    PROVE  list[q] = IF q = 0 \/ Token(q) \notin items THEN [end |-> 0, items |-> 0]
                     ELSE IF Token(q + 1) # "comma" THEN [end |-> q + 1, items |-> 1]
                     ELSE [end |-> list[q + 2].end, items |-> list[q + 2].items + 1]
<1> DEFINE F(r) == IF r = 0 \/ Token(r) \notin items THEN [end |-> 0, items |-> 0]
                   ELSE IF Token(r + 1) # "comma" THEN [end |-> r + 1, items |-> 1]
                   ELSE [end |-> list[r + 2].end, items |-> list[r + 2].items + 1]
<1>1. list = [r \in Nat |-> F(r)]
  BY DEF ListRule
<1> HIDE DEF F
<1>2. list[q] = F(q)
  BY <1>1
<1>3. QED
  BY <1>2 DEF F

\* The rule of a list takes a list that no comma follows for what it is.
LEMMA ListTakes ==
    ASSUME text \in Seq(Vocabulary), NEW items, "eof" \notin items, NEW list, ListRule(list, items),
           NEW p \in Nat, NEW n \in Nat,
           HasList(text, p, n, items), Token(p + 2 * n - 1) # "comma"
    PROVE  list[p] = [end |-> p + 2 * n - 1, items |-> n]
<1> DEFINE Left(j) == list[p + 2 * (n - j)] = [end |-> p + 2 * n - 1, items |-> j]
           Bad == {j \in 1..n : ~Left(j)}
<1>1. n > 0 /\ \A j \in 0..(n - 1) : Token(p + 2 * j) \in items /\ (j > 0 => Token(p + 2 * j - 1) = "comma")
  BY DEF HasList, Token
<1>2. ASSUME NEW j \in 1..n, \A i \in Bad : j <= i
      PROVE  Left(j)
  <2> DEFINE q == p + 2 * (n - j)
  <2>1. q \in Nat /\ n - j \in 0..(n - 1)
    OBVIOUS
  <2>2. Token(q) \in items
    BY <1>1, <2>1
  <2>3. q # 0
    <3> HIDE DEF q
    <3>1. Token(q) # "eof"
      BY <2>2
    <3>2. QED
      BY <2>1, <3>1, TokensEnd
  <2>4. CASE j = 1
    <3>1. q + 1 = p + 2 * n - 1
      BY <2>4
    <3>2. Token(q + 1) # "comma"
      BY <3>1
    <3> HIDE DEF q
    <3>3. list[q] = [end |-> q + 1, items |-> 1]
      BY <2>1, <2>2, <2>3, <3>2, ListStep
    <3>4. QED
      BY <3>3, <3>1, <2>4 DEF q
  <2>5. CASE j # 1
    <3>1. n - j + 1 \in 0..(n - 1) /\ n - j + 1 > 0 /\ p + 2 * (n - j + 1) - 1 = q + 1 /\ q + 2 = p + 2 * (n - (j - 1))
      BY <2>5
    <3>2. Token(q + 1) = "comma"
      BY <1>1, <3>1
    <3>3. j - 1 \in 1..n /\ ~(j <= j - 1)
      BY <2>5
    <3>4. j - 1 \notin Bad
      BY <1>2, <3>3
    <3>5. Left(j - 1)
      BY <3>3, <3>4
    <3>6. list[q + 2] = [end |-> p + 2 * n - 1, items |-> j - 1]
      BY <3>5, <3>1
    <3> HIDE DEF q
    <3>7. list[q] = [end |-> list[q + 2].end, items |-> list[q + 2].items + 1]
      BY <2>1, <2>2, <2>3, <3>2, ListStep
    <3>8. list[q] = [end |-> p + 2 * n - 1, items |-> j - 1 + 1]
      BY <3>6, <3>7
    <3>9. j - 1 + 1 = j
      OBVIOUS
    <3>10. QED
      BY <3>8, <3>9 DEF q
  <2>6. QED
    BY <2>4, <2>5
<1>3. Bad = {}
  <2>1. SUFFICES ASSUME Bad # {} PROVE FALSE
    OBVIOUS
  <2>2. Bad \in SUBSET Nat /\ Bad \in SUBSET (1..n)
    OBVIOUS
  <2>3. \A j \in Bad : ~Left(j)
    OBVIOUS
  <2> HIDE DEF Bad, Left
  <2>4. PICK j \in Bad : \A i \in Bad : j <= i
    BY <2>1, <2>2, LeastOf
  <2>5. Left(j)
    BY <2>2, <2>4, <1>2
  <2>6. QED
    BY <2>3, <2>5
<1>4. n \in 1..n
  BY <1>1
<1>5. Left(n)
  BY <1>3, <1>4
<1>6. p + 2 * (n - n) = p
  OBVIOUS
<1>7. QED
  BY <1>5, <1>6

\* A list may be given one item more in front of it.
LEMMA ListGrows ==
    ASSUME NEW s, NEW items, NEW q \in Nat, NEW n \in Nat, HasList(s, q + 2, n, items),
           TokenAt(s, q) \in items, TokenAt(s, q + 1) = "comma"
    PROVE  HasList(s, q, n + 1, items)
<1>1. ASSUME NEW j \in 0..n
      PROVE  TokenAt(s, q + 2 * j) \in items /\ (j > 0 => TokenAt(s, q + 2 * j - 1) = "comma")
  <2>1. CASE j = 0
    <3>1. q + 2 * j = q
      BY <2>1
    <3>2. QED
      BY <2>1, <3>1
  <2>2. CASE j = 1
    <3>1. q + 2 * j - 1 = q + 1 /\ q + 2 * j = q + 2 + 2 * 0 /\ 0 \in 0..(n - 1)
      BY <2>2
    <3>2. TokenAt(s, q + 2 + 2 * 0) \in items
      BY <3>1 DEF HasList
    <3>3. QED
      BY <3>1, <3>2
  <2>3. CASE j > 1
    <3>1. j - 1 \in 0..(n - 1) /\ j - 1 > 0 /\ q + 2 + 2 * (j - 1) = q + 2 * j /\ q + 2 + 2 * (j - 1) - 1 = q + 2 * j - 1
      BY <2>3
    <3>2. TokenAt(s, q + 2 + 2 * (j - 1)) \in items /\ TokenAt(s, q + 2 + 2 * (j - 1) - 1) = "comma"
      BY <3>1 DEF HasList
    <3>3. QED
      BY <3>1, <3>2
  <2>4. QED
    BY <2>1, <2>2, <2>3
<1>2. n + 1 > 0 /\ n + 1 - 1 = n
  OBVIOUS
<1>3. QED
  BY <1>1, <1>2 DEF HasList

\* What the rule of a list takes is a list that no comma follows.
LEMMA ListTaken ==
    ASSUME text \in Seq(Vocabulary), NEW items, "eof" \notin items, NEW list, ListRule(list, items),
           NEW p \in Nat, list[p].end # 0
    PROVE  \E n \in Nat : HasList(text, p, n, items) /\ Token(p + 2 * n - 1) # "comma"
<1> DEFINE e == Len(text)
           Is(q) == \E n \in Nat : HasList(text, q, n, items) /\ Token(q + 2 * n - 1) # "comma"
           Bad == {q \in 0..e : list[q].end # 0 /\ ~Is(q)}
<1>1. e \in Nat
  OBVIOUS
<1>2. ASSUME NEW q \in Nat, list[q].end # 0
      PROVE  q # 0 /\ Token(q) \in items /\ q \in 0..e
  <2>1. q # 0 /\ Token(q) \in items
    <3>1. SUFFICES ASSUME q = 0 \/ Token(q) \notin items PROVE FALSE
      OBVIOUS
    <3>2. list[q] = [end |-> 0, items |-> 0]
      BY <3>1, ListStep
    <3>3. QED
      BY <3>2, <1>2
  <2>2. Token(q) # "eof"
    BY <2>1
  <2>3. QED
    BY <2>1, <2>2, TokensEnd
<1>3. ASSUME NEW q \in 0..e, list[q].end # 0, \A r \in Bad : r <= q
      PROVE  Is(q)
  <2>1. q \in Nat /\ q # 0 /\ Token(q) \in items
    BY <1>1, <1>2, <1>3
  <2>2. CASE Token(q + 1) # "comma"
    <3>1. q + 2 * 1 - 1 = q + 1
      BY <2>1
    <3>2. HasList(text, q, 1, items)
      <4>1. ASSUME NEW j \in 0..(1 - 1)
            PROVE  TokenAt(text, q + 2 * j) \in items /\ ~(j > 0)
        <5>1. j = 0 /\ q + 2 * j = q
          BY <2>1
        <5>2. QED
          BY <5>1, <2>1 DEF Token
      <4>2. QED
        BY <4>1 DEF HasList
    <3>3. QED
      BY <2>2, <3>1, <3>2
  <2>3. CASE Token(q + 1) = "comma"
    <3>1. list[q].end = list[q + 2].end
      <4>1. list[q] = [end |-> list[q + 2].end, items |-> list[q + 2].items + 1]
        BY <2>1, <2>3, ListStep
      <4>2. QED
        BY <4>1
    <3>2. q + 2 \in Nat /\ list[q + 2].end # 0
      BY <3>1, <1>3, <2>1
    <3>3. q + 2 \in 0..e /\ ~(q + 2 <= q)
      BY <3>2, <1>2
    <3>4. q + 2 \notin Bad
      BY <3>3, <1>3
    <3>5. Is(q + 2)
      BY <3>4, <3>3, <3>2
    <3>6. PICK n \in Nat : HasList(text, q + 2, n, items) /\ Token(q + 2 + 2 * n - 1) # "comma"
      BY <3>5
    <3>7. HasList(text, q, n + 1, items)
      BY <2>1, <2>3, <3>6, ListGrows DEF Token
    <3>8. q + 2 + 2 * n - 1 = q + 2 * (n + 1) - 1 /\ n + 1 \in Nat
      BY <2>1
    <3>9. QED
      BY <3>6, <3>7, <3>8
  <2>4. QED
    BY <2>2, <2>3
<1>4. Bad = {}
  <2>1. SUFFICES ASSUME Bad # {} PROVE FALSE
    OBVIOUS
  <2>2. Bad \in SUBSET (0..e)
    OBVIOUS
  <2>3. \A q \in Bad : list[q].end # 0 /\ ~Is(q)
    OBVIOUS
  <2> HIDE DEF Bad, e, Is
  <2>4. PICK q \in Bad : \A r \in Bad : r <= q
    BY <1>1, <2>1, <2>2, GreatestOf
  <2>5. QED
    BY <2>2, <2>3, <2>4, <1>3
<1>5. p \in 0..e
  BY <1>2
<1>6. QED
  BY <1>4, <1>5

\* A list, to a reader of the rule: how many items there are, and where they end.
ListEnds(p, n, items) == HasList(text, p, n, items) /\ Token(p + 2 * n - 1) # "comma"

\* select_list, table_list, field_list and const_list take exactly the items that commas join:
\* of a list that no comma follows they return the end and the number of its items, and what
\* they take without an exception is such a list. It has one length, since they return one.
THEOREM ListIsOfGrammar ==
    ASSUME text \in Seq(Vocabulary), NEW items, "eof" \notin items, NEW p \in Nat
    PROVE  /\ \A n \in Nat : ListEnds(p, n, items) => List(p, items) = [end |-> p + 2 * n - 1, items |-> n]
           /\ List(p, items).end # 0 => \E n \in Nat : ListEnds(p, n, items)
<1>1. PICK list : ListRule(list, items) /\ List(p, items) = list[p]
  BY ListIs
<1>2. ASSUME NEW n \in Nat, ListEnds(p, n, items)
      PROVE  List(p, items) = [end |-> p + 2 * n - 1, items |-> n]
  BY <1>1, <1>2, ListTakes DEF ListEnds
<1>3. ASSUME List(p, items).end # 0
      PROVE  \E n \in Nat : ListEnds(p, n, items)
  <2>1. list[p].end # 0
    BY <1>1, <1>3
  <2>2. QED
    BY <1>1, <2>1, ListTaken DEF ListEnds
<1>4. QED
  BY <1>2, <1>3

\* A term at a place, and n of them with an "and" between each two.
TermAt(s, q) == TokenAt(s, q) \in Expressions /\ TokenAt(s, q + 1) = "=" /\ TokenAt(s, q + 2) \in Expressions
HasTerms(s, p, n) ==
    n > 0 /\ \A j \in 0..(n - 1) : TermAt(s, p + 4 * j) /\ (j > 0 => TokenAt(s, p + 4 * j - 1) = "and")

\* What the rule of a predicate says of its recursive function.
TermRule(pred) ==
    pred = [q \in Nat |->
        IF ~(Token(q) \in Expressions /\ Token(q + 1) = "=" /\ Token(q + 2) \in Expressions) THEN 0
        ELSE IF Token(q + 3) = "and" THEN pred[q + 4] ELSE q + 3]

\* A term is of tokens of the text.
LEMMA TermInText ==
    ASSUME text \in Seq(Vocabulary), NEW q \in Nat, TermAt(text, q)
    PROVE  q > 0 /\ q <= Len(text) /\ Len(text) \in Nat
<1>1. Token(q) # "eof"
  BY DEF TermAt, Token, Expressions, Constants
<1>2. QED
  BY <1>1, TokensEnd

\* How many terms a predicate goes on for from a place.
Halts(q) == {k \in Nat : ~TermAt(text, q + 4 * k) \/ Token(q + 4 * k + 3) # "and"}
Halt(q) == CHOOSE k \in Halts(q) : \A j \in Halts(q) : k <= j

\* The count of the terms that are followed by "and" is there, and it is the least.
LEMMA HaltIs ==
    ASSUME text \in Seq(Vocabulary), NEW q \in Nat
    PROVE  /\ Halt(q) \in Nat
           /\ Halt(q) \in Halts(q)
           /\ \A j \in Halts(q) : Halt(q) <= j
<1> DEFINE e == Len(text)
<1>1. e \in Nat
  OBVIOUS
<1>2. q + 4 * e + 3 \in Nat /\ q + 4 * e + 3 > e
  <2> HIDE DEF e
  <2>1. QED
    BY <1>1
<1>3. Token(q + 4 * e + 3) = "eof"
  BY <1>1, <1>2, TokensEnd
<1>4. e \in Halts(q)
  <2> HIDE DEF e
  <2>1. QED
    BY <1>1, <1>3 DEF Halts
<1>5. Halts(q) \in SUBSET Nat /\ Halts(q) # {}
  BY <1>4 DEF Halts
<1>6. \E k \in Halts(q) : \A j \in Halts(q) : k <= j
  <2> DEFINE S == Halts(q)
  <2>1. S \in SUBSET Nat /\ S # {}
    BY <1>5
  <2> HIDE DEF S
  <2>2. \E k \in S : \A j \in S : k <= j
    BY <2>1, LeastOf
  <2>3. QED
    BY <2>2 DEF S
<1>7. QED
  BY <1>5, <1>6 DEF Halt

\* Behind a term and an "and" the predicate goes on for one term less.
LEMMA HaltMoves ==
    ASSUME text \in Seq(Vocabulary), NEW q \in Nat, TermAt(text, q), Token(q + 3) = "and"
    PROVE  Halt(q) = Halt(q + 4) + 1
<1> DEFINE a == Halt(q)
           b == Halt(q + 4)
<1>1. a \in Nat /\ a \in Halts(q) /\ \A j \in Halts(q) : a <= j
  BY HaltIs
<1>2. b \in Nat /\ b \in Halts(q + 4) /\ \A j \in Halts(q + 4) : b <= j
  <2>1. q + 4 \in Nat
    OBVIOUS
  <2>2. QED
    BY <2>1, HaltIs
<1> HIDE DEF a, b
<1>3. a # 0
  <2>1. SUFFICES ASSUME a = 0 PROVE FALSE
    OBVIOUS
  <2>2. 0 \in Halts(q)
    BY <1>1, <2>1
  <2>3. q + 4 * 0 = q /\ q + 4 * 0 + 3 = q + 3
    OBVIOUS
  <2>4. QED
    BY <2>2, <2>3 DEF Halts
<1>4. a - 1 \in Nat /\ q + 4 + 4 * (a - 1) = q + 4 * a /\ q + 4 + 4 * (a - 1) + 3 = q + 4 * a + 3
  BY <1>1, <1>3
<1>5. a - 1 \in Halts(q + 4)
  BY <1>1, <1>4 DEF Halts
<1>6. b + 1 \in Nat /\ q + 4 * (b + 1) = q + 4 + 4 * b /\ q + 4 * (b + 1) + 3 = q + 4 + 4 * b + 3
  BY <1>2
<1>7. b + 1 \in Halts(q)
  BY <1>2, <1>6 DEF Halts
<1>8. b <= a - 1 /\ a <= b + 1
  BY <1>1, <1>2, <1>5, <1>7
<1>9. a = b + 1
  BY <1>8, <1>1, <1>2
<1>10. QED
  BY <1>9 DEF a, b

\* The recursion of a predicate has a solution.
LEMMA TermsUnfold ==
    ASSUME text \in Seq(Vocabulary)
    PROVE  \E pred : TermRule(pred)
<1> DEFINE F(q) == LET k == Halt(q) IN IF TermAt(text, q + 4 * k) THEN q + 4 * k + 3 ELSE 0
           pred == [q \in Nat |-> F(q)]
           Body(q) == IF ~TermAt(text, q) THEN 0 ELSE IF Token(q + 3) = "and" THEN pred[q + 4] ELSE q + 3
<1>1. ASSUME NEW q \in Nat
      PROVE  F(q) = Body(q)
  <2>1. CASE ~TermAt(text, q) \/ Token(q + 3) # "and"
    <3>1. q + 4 * 0 = q /\ q + 4 * 0 + 3 = q + 3
      OBVIOUS
    <3>2. 0 \in Halts(q)
      BY <2>1, <3>1 DEF Halts
    <3>3. Halt(q) = 0
      BY <3>2, HaltIs
    <3>4. QED
      BY <2>1, <3>3, <3>1
  <2>2. CASE TermAt(text, q) /\ Token(q + 3) = "and"
    <3>1. Halt(q) = Halt(q + 4) + 1
      BY <2>2, HaltMoves
    <3>2. Halt(q + 4) \in Nat
      BY HaltIs
    <3> DEFINE b == Halt(q + 4)
    <3>3. pred[q + 4] = F(q + 4)
      OBVIOUS
    <3>4. q + 4 * (b + 1) = q + 4 + 4 * b
      BY <3>2
    <3>5. F(q) = F(q + 4)
      BY <3>1, <3>4
    <3>6. Body(q) = pred[q + 4]
      BY <2>2
    <3>7. QED
      BY <3>3, <3>5, <3>6
  <2>3. QED
    BY <2>1, <2>2
<1>2. [q \in Nat |-> F(q)] = [q \in Nat |-> Body(q)]
  <2> HIDE DEF F, Body, pred
  <2>1. QED
    BY <1>1
<1>3. TermRule(pred)
  BY <1>2 DEF TermRule, TermAt, Token
<1>4. QED
  BY <1>3

\* What the parser reads as a predicate is a solution of its recursion.
LEMMA TermsAre ==
    ASSUME text \in Seq(Vocabulary), NEW p
    PROVE  \E pred : TermRule(pred) /\ predicate(p) = pred[p]
<1>1. \E pred : TermRule(pred)
  BY TermsUnfold
<1>2. QED
  BY <1>1 DEF predicate, TermRule

\* The rule at one place.
LEMMA TermStep ==
    ASSUME NEW pred, TermRule(pred), NEW q \in Nat
    PROVE  pred[q] = IF ~TermAt(text, q) THEN 0 ELSE IF Token(q + 3) = "and" THEN pred[q + 4] ELSE q + 3
<1> DEFINE F(r) == IF ~(Token(r) \in Expressions /\ Token(r + 1) = "=" /\ Token(r + 2) \in Expressions) THEN 0
                   ELSE IF Token(r + 3) = "and" THEN pred[r + 4] ELSE r + 3
<1>1. pred = [r \in Nat |-> F(r)]
  BY DEF TermRule
<1> HIDE DEF F
<1>2. pred[q] = F(q)
  BY <1>1
<1>3. QED
  BY <1>2 DEF F, TermAt, Token

\* The rule of a predicate takes terms that no "and" follows for what they are.
LEMMA TermsTake ==
    ASSUME text \in Seq(Vocabulary), NEW pred, TermRule(pred), NEW p \in Nat, NEW n \in Nat,
           HasTerms(text, p, n), Token(p + 4 * n - 1) # "and"
    PROVE  pred[p] = p + 4 * n - 1
<1> DEFINE Left(j) == pred[p + 4 * (n - j)] = p + 4 * n - 1
           Bad == {j \in 1..n : ~Left(j)}
<1>1. n > 0 /\ \A j \in 0..(n - 1) : TermAt(text, p + 4 * j) /\ (j > 0 => Token(p + 4 * j - 1) = "and")
  BY DEF HasTerms, Token
<1>2. ASSUME NEW j \in 1..n, \A i \in Bad : j <= i
      PROVE  Left(j)
  <2> DEFINE q == p + 4 * (n - j)
  <2>1. q \in Nat /\ n - j \in 0..(n - 1)
    OBVIOUS
  <2>2. TermAt(text, q)
    BY <1>1, <2>1
  <2>3. CASE j = 1
    <3>1. q + 3 = p + 4 * n - 1
      BY <2>3
    <3>2. Token(q + 3) # "and"
      BY <3>1
    <3> HIDE DEF q
    <3>3. pred[q] = q + 3
      BY <2>1, <2>2, <3>2, TermStep
    <3>4. QED
      BY <3>3, <3>1 DEF q
  <2>4. CASE j # 1
    <3>1. n - j + 1 \in 0..(n - 1) /\ n - j + 1 > 0 /\ p + 4 * (n - j + 1) - 1 = q + 3 /\ q + 4 = p + 4 * (n - (j - 1))
      BY <2>4
    <3>2. Token(q + 3) = "and"
      BY <1>1, <3>1
    <3>3. j - 1 \in 1..n /\ ~(j <= j - 1)
      BY <2>4
    <3>4. j - 1 \notin Bad
      BY <1>2, <3>3
    <3>5. Left(j - 1)
      BY <3>3, <3>4
    <3>6. pred[q + 4] = p + 4 * n - 1
      BY <3>5, <3>1
    <3> HIDE DEF q
    <3>7. pred[q] = pred[q + 4]
      BY <2>1, <2>2, <3>2, TermStep
    <3>8. QED
      BY <3>6, <3>7 DEF q
  <2>5. QED
    BY <2>3, <2>4
<1>3. Bad = {}
  <2>1. SUFFICES ASSUME Bad # {} PROVE FALSE
    OBVIOUS
  <2>2. Bad \in SUBSET Nat /\ Bad \in SUBSET (1..n)
    OBVIOUS
  <2>3. \A j \in Bad : ~Left(j)
    OBVIOUS
  <2> HIDE DEF Bad, Left
  <2>4. PICK j \in Bad : \A i \in Bad : j <= i
    BY <2>1, <2>2, LeastOf
  <2>5. Left(j)
    BY <2>2, <2>4, <1>2
  <2>6. QED
    BY <2>3, <2>5
<1>4. n \in 1..n
  BY <1>1
<1>5. Left(n)
  BY <1>3, <1>4
<1>6. p + 4 * (n - n) = p
  OBVIOUS
<1>7. QED
  BY <1>5, <1>6

\* A term may be put in front of terms.
LEMMA TermsGrow ==
    ASSUME NEW s, NEW q \in Nat, NEW n \in Nat, HasTerms(s, q + 4, n), TermAt(s, q), TokenAt(s, q + 3) = "and"
    PROVE  HasTerms(s, q, n + 1)
<1>1. ASSUME NEW j \in 0..n
      PROVE  TermAt(s, q + 4 * j) /\ (j > 0 => TokenAt(s, q + 4 * j - 1) = "and")
  <2>1. CASE j = 0
    <3>1. q + 4 * j = q
      BY <2>1
    <3>2. QED
      BY <2>1, <3>1
  <2>2. CASE j = 1
    <3>1. q + 4 * j - 1 = q + 3 /\ q + 4 * j = q + 4 + 4 * 0 /\ 0 \in 0..(n - 1)
      BY <2>2
    <3>2. TermAt(s, q + 4 + 4 * 0)
      BY <3>1 DEF HasTerms
    <3>3. QED
      BY <3>1, <3>2
  <2>3. CASE j > 1
    <3>1. j - 1 \in 0..(n - 1) /\ j - 1 > 0 /\ q + 4 + 4 * (j - 1) = q + 4 * j /\ q + 4 + 4 * (j - 1) - 1 = q + 4 * j - 1
      BY <2>3
    <3>2. TermAt(s, q + 4 + 4 * (j - 1)) /\ TokenAt(s, q + 4 + 4 * (j - 1) - 1) = "and"
      BY <3>1 DEF HasTerms
    <3>3. QED
      BY <3>1, <3>2
  <2>4. QED
    BY <2>1, <2>2, <2>3
<1>2. n + 1 > 0 /\ n + 1 - 1 = n
  OBVIOUS
<1>3. QED
  BY <1>1, <1>2 DEF HasTerms

\* What the rule of a predicate takes are terms that no "and" follows.
LEMMA TermsTaken ==
    ASSUME text \in Seq(Vocabulary), NEW pred, TermRule(pred), NEW p \in Nat, pred[p] # 0
    PROVE  \E n \in Nat : HasTerms(text, p, n) /\ Token(p + 4 * n - 1) # "and"
<1> DEFINE e == Len(text)
           Is(q) == \E n \in Nat : HasTerms(text, q, n) /\ Token(q + 4 * n - 1) # "and"
           Bad == {q \in 0..e : pred[q] # 0 /\ ~Is(q)}
<1>1. e \in Nat
  OBVIOUS
<1>2. ASSUME NEW q \in Nat, pred[q] # 0
      PROVE  TermAt(text, q) /\ q \in 0..e
  <2>1. TermAt(text, q)
    BY <1>2, TermStep
  <2>2. QED
    BY <2>1, TermInText
<1>3. ASSUME NEW q \in 0..e, pred[q] # 0, \A r \in Bad : r <= q
      PROVE  Is(q)
  <2>1. q \in Nat /\ TermAt(text, q)
    BY <1>1, <1>2, <1>3
  <2>2. CASE Token(q + 3) # "and"
    <3>1. q + 4 * 1 - 1 = q + 3
      BY <2>1
    <3>2. HasTerms(text, q, 1)
      <4>1. ASSUME NEW j \in 0..(1 - 1)
            PROVE  TermAt(text, q + 4 * j) /\ ~(j > 0)
        <5>1. j = 0 /\ q + 4 * j = q
          BY <2>1
        <5>2. QED
          BY <5>1, <2>1
      <4>2. QED
        BY <4>1 DEF HasTerms
    <3>3. QED
      BY <2>2, <3>1, <3>2
  <2>3. CASE Token(q + 3) = "and"
    <3>1. pred[q] = pred[q + 4]
      BY <2>1, <2>3, TermStep
    <3>2. q + 4 \in Nat /\ pred[q + 4] # 0
      BY <3>1, <1>3, <2>1
    <3>3. q + 4 \in 0..e /\ ~(q + 4 <= q)
      BY <3>2, <1>2
    <3>4. q + 4 \notin Bad
      BY <3>3, <1>3
    <3>5. Is(q + 4)
      BY <3>4, <3>3, <3>2
    <3>6. PICK n \in Nat : HasTerms(text, q + 4, n) /\ Token(q + 4 + 4 * n - 1) # "and"
      BY <3>5
    <3>7. HasTerms(text, q, n + 1)
      BY <2>1, <2>3, <3>6, TermsGrow DEF Token
    <3>8. q + 4 + 4 * n - 1 = q + 4 * (n + 1) - 1 /\ n + 1 \in Nat
      BY <2>1
    <3>9. QED
      BY <3>6, <3>7, <3>8
  <2>4. QED
    BY <2>2, <2>3
<1>4. Bad = {}
  <2>1. SUFFICES ASSUME Bad # {} PROVE FALSE
    OBVIOUS
  <2>2. Bad \in SUBSET (0..e)
    OBVIOUS
  <2>3. \A q \in Bad : pred[q] # 0 /\ ~Is(q)
    OBVIOUS
  <2> HIDE DEF Bad, e, Is
  <2>4. PICK q \in Bad : \A r \in Bad : r <= q
    BY <1>1, <2>1, <2>2, GreatestOf
  <2>5. QED
    BY <2>2, <2>3, <2>4, <1>3
<1>5. p \in 0..e
  BY <1>2
<1>6. QED
  BY <1>4, <1>5

\* Terms, to a reader of the rule.
TermsEnd(p, n) == HasTerms(text, p, n) /\ Token(p + 4 * n - 1) # "and"

\* predicate takes exactly the terms that "and" joins: it ends behind the last of terms that no
\* "and" follows, and what it takes without an exception are such terms.
THEOREM PredicateIsOfGrammar ==
    ASSUME text \in Seq(Vocabulary), NEW p \in Nat
    PROVE  /\ \A n \in Nat : TermsEnd(p, n) => predicate(p) = p + 4 * n - 1
           /\ predicate(p) # 0 => \E n \in Nat : TermsEnd(p, n)
<1>1. PICK pred : TermRule(pred) /\ predicate(p) = pred[p]
  BY TermsAre
<1>2. ASSUME NEW n \in Nat, TermsEnd(p, n)
      PROVE  predicate(p) = p + 4 * n - 1
  BY <1>1, <1>2, TermsTake DEF TermsEnd
<1>3. ASSUME predicate(p) # 0
      PROVE  \E n \in Nat : TermsEnd(p, n)
  <2>1. pred[p] # 0
    BY <1>1, <1>3
  <2>2. QED
    BY <1>1, <2>1, TermsTaken DEF TermsEnd
<1>4. QED
  BY <1>2, <1>3

-----------------------------------------------------------------------------

\* The phrases there are, word by word.
LEMMA PhraseOf1 ==
    ASSUME NEW s, NEW p \in Nat, NEW a
    PROVE  Phrase(s, p, <<a>>) <=> TokenAt(s, p) = a
<1>1. DOMAIN <<a>> = {1} /\ <<a>>[1] = a /\ p + 1 - 1 = p
  OBVIOUS
<1>2. QED
  BY <1>1 DEF Phrase

\* A phrase of three words.
LEMMA PhraseOf3 ==
    ASSUME NEW s, NEW p \in Nat, NEW a, NEW b, NEW c
    PROVE  Phrase(s, p, <<a, b, c>>) <=> TokenAt(s, p) = a /\ TokenAt(s, p + 1) = b /\ TokenAt(s, p + 2) = c
<1> DEFINE w == <<a, b, c>>
<1>1. DOMAIN w = {1, 2, 3} /\ w[1] = a /\ w[2] = b /\ w[3] = c
  OBVIOUS
<1>2. p + 1 - 1 = p /\ p + 2 - 1 = p + 1 /\ p + 3 - 1 = p + 2
  OBVIOUS
<1> HIDE DEF w
<1>3. Phrase(s, p, w) <=> TokenAt(s, p) = a /\ TokenAt(s, p + 1) = b /\ TokenAt(s, p + 2) = c
  BY <1>1, <1>2 DEF Phrase
<1>4. QED
  BY <1>3 DEF w

\* Nothing is read from 0.
LEMMA NothingAtZero ==
    ASSUME text \in Seq(Vocabulary), NEW items, "eof" \notin items
    PROVE  Token(0) = "eof" /\ List(0, items).end = 0 /\ Where(0) = 0 /\ predicate(0) = 0
<1>1. Token(0) = "eof"
  BY TokensEnd
<1>2. List(0, items).end = 0
  <2>1. SUFFICES ASSUME List(0, items).end # 0 PROVE FALSE
    OBVIOUS
  <2>2. PICK n \in Nat : ListEnds(0, n, items)
    BY <2>1, ListIsOfGrammar
  <2>3. 0 \in 0..(n - 1) /\ 0 + 2 * 0 = 0
    BY <2>2 DEF ListEnds, HasList
  <2>4. TokenAt(text, 0) \in items
    BY <2>2, <2>3 DEF ListEnds, HasList
  <2>5. QED
    BY <2>4, <1>1 DEF Token
<1>3. predicate(0) = 0
  <2>1. SUFFICES ASSUME predicate(0) # 0 PROVE FALSE
    OBVIOUS
  <2>2. PICK n \in Nat : TermsEnd(0, n)
    BY <2>1, PredicateIsOfGrammar
  <2>3. 0 \in 0..(n - 1) /\ 0 + 4 * 0 = 0
    BY <2>2 DEF TermsEnd, HasTerms
  <2>4. TermAt(text, 0)
    BY <2>2, <2>3 DEF TermsEnd, HasTerms
  <2>5. QED
    BY <2>4, TermInText
<1>4. Where(0) = 0
  BY <1>1 DEF Where
<1>5. QED
  BY <1>1, <1>2, <1>3, <1>4

\* A condition is nothing, or "where" and terms.
LEMMA ConditionOf ==
    ASSUME NEW s, NEW p \in Nat, NEW n \in Nat, n > 0
    PROVE  HasCondition(s, p, n) <=> TokenAt(s, p) = "where" /\ HasTerms(s, p + 1, n)
<1>1. \A j \in 0..(n - 1) : /\ p + 4 * j + 1 = p + 1 + 4 * j
                            /\ p + 4 * j + 1 + 1 = p + 1 + 4 * j + 1
                            /\ p + 4 * j + 1 + 2 = p + 1 + 4 * j + 2
                            /\ p + 4 * j + 1 - 1 = p + 1 + 4 * j - 1
  OBVIOUS
<1>2. HasCondition(s, p, n) => TokenAt(s, p) = "where" /\ HasTerms(s, p + 1, n)
  BY <1>1 DEF HasCondition, HasTerms, TermAt
<1>3. TokenAt(s, p) = "where" /\ HasTerms(s, p + 1, n) => HasCondition(s, p, n)
  BY <1>1 DEF HasCondition, HasTerms, TermAt
<1>4. QED
  BY <1>2, <1>3

\* A condition, to a reader of the rule, and what would go on from it.
More(n) == IF n = 0 THEN "where" ELSE "and"
ConditionEnds(p, n) == HasCondition(text, p, n) /\ Token(p + 4 * n) # More(n)

\* A condition is read to its end, and only a condition is read.
LEMMA WhereIsOfGrammar ==
    ASSUME text \in Seq(Vocabulary), NEW p \in Nat, p > 0
    PROVE  /\ \A n \in Nat : ConditionEnds(p, n) => Where(p) = p + 4 * n
           /\ Where(p) # 0 => \E n \in Nat : ConditionEnds(p, n)
<1>1. ASSUME NEW n \in Nat, ConditionEnds(p, n)
      PROVE  Where(p) = p + 4 * n
  <2>1. CASE n = 0
    <3>1. p + 4 * n = p
      BY <2>1
    <3>2. Token(p) # "where"
      BY <1>1, <2>1, <3>1 DEF ConditionEnds, More
    <3>3. QED
      BY <3>1, <3>2 DEF Where
  <2>2. CASE n # 0
    <3>1. n > 0 /\ p + 1 \in Nat /\ p + 1 + 4 * n - 1 = p + 4 * n
      BY <2>2
    <3>2. TokenAt(text, p) = "where" /\ HasTerms(text, p + 1, n)
      BY <1>1, <3>1, ConditionOf DEF ConditionEnds
    <3>3. Token(p + 4 * n) # "and"
      BY <1>1, <2>2 DEF ConditionEnds, More
    <3>4. TermsEnd(p + 1, n)
      BY <3>1, <3>2, <3>3 DEF TermsEnd
    <3>5. predicate(p + 1) = p + 1 + 4 * n - 1
      BY <3>1, <3>4, PredicateIsOfGrammar
    <3>6. QED
      BY <3>1, <3>2, <3>5 DEF Where, Token
  <2>3. QED
    BY <2>1, <2>2
<1>2. ASSUME Where(p) # 0
      PROVE  \E n \in Nat : ConditionEnds(p, n)
  <2>1. CASE Token(p) # "where"
    <3>1. p + 4 * 0 = p
      OBVIOUS
    <3>2. ConditionEnds(p, 0)
      BY <2>1, <3>1 DEF ConditionEnds, HasCondition, More
    <3>3. QED
      BY <3>2
  <2>2. CASE Token(p) = "where"
    <3>1. p + 1 \in Nat /\ predicate(p + 1) # 0
      BY <2>2, <1>2 DEF Where
    <3>2. PICK n \in Nat : TermsEnd(p + 1, n)
      BY <3>1, PredicateIsOfGrammar
    <3>3. n > 0 /\ p + 1 + 4 * n - 1 = p + 4 * n
      BY <3>2 DEF TermsEnd, HasTerms
    <3>4. HasCondition(text, p, n)
      BY <2>2, <3>2, <3>3, ConditionOf DEF Token, TermsEnd
    <3>5. Token(p + 4 * n) # More(n)
      BY <3>2, <3>3 DEF TermsEnd, More
    <3>6. QED
      BY <3>4, <3>5 DEF ConditionEnds
  <2>3. QED
    BY <2>1, <2>2
<1>3. QED
  BY <1>1, <1>2

-----------------------------------------------------------------------------

\* A query of f fields, t tables and n terms.
QueryOf(s, p, f, t, n) ==
    /\ TokenAt(s, p) = "select"
    /\ HasList(s, p + 1, f, {"id"})
    /\ TokenAt(s, p + 2 * f) = "from"
    /\ HasList(s, p + 2 * f + 1, t, {"id"})
    /\ HasCondition(s, p + 2 * f + 2 * t, n)

\* What would go on from it.
MoreQuery(n) == IF n = 0 THEN {"comma", "where"} ELSE {"and"}
QueryEnds(p, f, t, n) == QueryOf(text, p, f, t, n) /\ Token(p + 2 * f + 2 * t + 4 * n) \notin MoreQuery(n)

\* A query is read to its end, and only a query is read.
LEMMA QueryIsOfGrammar ==
    ASSUME text \in Seq(Vocabulary), NEW p \in Nat, p > 0
    PROVE  /\ \A f, t, n \in Nat : QueryEnds(p, f, t, n) => query(p) = p + 2 * f + 2 * t + 4 * n
           /\ query(p) # 0 => \E f, t, n \in Nat : QueryEnds(p, f, t, n)
<1>0. "eof" \notin {"id"}
  OBVIOUS
<1>1. ASSUME NEW f \in Nat, NEW t \in Nat, NEW n \in Nat, QueryEnds(p, f, t, n)
      PROVE  query(p) = p + 2 * f + 2 * t + 4 * n
  <2>1. Consume(p, <<"select">>) = p + 1
    BY <1>1, PhraseOf1 DEF Consume, QueryEnds, QueryOf
  <2>2. p + 1 \in Nat /\ p + 1 + 2 * f - 1 = p + 2 * f /\ p + 2 * f \in Nat /\ p + 2 * f # 0
    OBVIOUS
  <2>3. ListEnds(p + 1, f, {"id"})
    BY <1>1, <2>2 DEF ListEnds, QueryEnds, QueryOf, Token
  <2>4. Ids(p + 1) = p + 2 * f
    <3>1. List(p + 1, {"id"}) = [end |-> p + 1 + 2 * f - 1, items |-> f]
      BY <1>0, <2>2, <2>3, ListIsOfGrammar
    <3>2. QED
      BY <3>1, <2>2 DEF Ids
  <2>5. Consume(p + 2 * f, <<"from">>) = p + 2 * f + 1
    BY <1>1, <2>2, PhraseOf1 DEF Consume, QueryEnds, QueryOf
  <2> DEFINE b == p + 2 * f + 1
             c == p + 2 * f + 2 * t
  <2>6. b \in Nat /\ c \in Nat /\ c > 0 /\ b + 2 * t - 1 = c /\ (n = 0 => c + 4 * n = c)
    BY <2>2
  <2>7. HasList(text, b, t, {"id"}) /\ HasCondition(text, c, n) /\ Token(c + 4 * n) \notin MoreQuery(n)
    BY <1>1 DEF QueryEnds, QueryOf
  <2> HIDE DEF b, c
  <2>8. Token(c) # "comma"
    <3>1. CASE n = 0
      BY <3>1, <2>6, <2>7 DEF MoreQuery
    <3>2. CASE n # 0
      <4>1. n > 0
        BY <3>2
      <4>2. TokenAt(text, c) = "where"
        BY <4>1, <2>7 DEF HasCondition
      <4>3. QED
        BY <4>2 DEF Token
    <3>3. QED
      BY <3>1, <3>2
  <2>9. Ids(b) = c
    <3>1. ListEnds(b, t, {"id"})
      BY <2>6, <2>7, <2>8 DEF ListEnds
    <3>2. List(b, {"id"}) = [end |-> b + 2 * t - 1, items |-> t]
      BY <1>0, <2>6, <3>1, ListIsOfGrammar
    <3>3. QED
      BY <3>2, <2>6 DEF Ids
  <2>10. ConditionEnds(c, n)
    BY <2>7 DEF ConditionEnds, MoreQuery, More
  <2>11. Where(c) = c + 4 * n
    BY <2>6, <2>10, WhereIsOfGrammar
  <2>12. query(p) = Where(c)
    BY <2>1, <2>4, <2>5, <2>9 DEF query, b
  <2>13. QED
    BY <2>11, <2>12 DEF c
<1>2. ASSUME query(p) # 0
      PROVE  \E f, t, n \in Nat : QueryEnds(p, f, t, n)
  <2>1. Where(0) = 0 /\ Ids(0) = 0 /\ Consume(0, <<"from">>) = 0
    BY <1>0, NothingAtZero DEF Ids, Consume
  <2>2. TokenAt(text, p) = "select" /\ Consume(p, <<"select">>) = p + 1
    <3>1. Consume(p, <<"select">>) # 0
      BY <1>2, <2>1 DEF query
    <3>2. Phrase(text, p, <<"select">>)
      BY <3>1 DEF Consume
    <3>3. QED
      BY <3>2, PhraseOf1 DEF Consume
  <2>3. Ids(p + 1) # 0
    BY <1>2, <2>1, <2>2 DEF query
  <2>4. p + 1 \in Nat
    OBVIOUS
  <2>5. PICK f \in Nat : ListEnds(p + 1, f, {"id"})
    BY <1>0, <2>3, <2>4, ListIsOfGrammar DEF Ids
  <2>6. p + 1 + 2 * f - 1 = p + 2 * f /\ p + 2 * f \in Nat /\ p + 2 * f # 0
    OBVIOUS
  <2>7. Ids(p + 1) = p + 2 * f
    <3>1. List(p + 1, {"id"}) = [end |-> p + 1 + 2 * f - 1, items |-> f]
      BY <1>0, <2>4, <2>5, ListIsOfGrammar
    <3>2. QED
      BY <3>1, <2>6 DEF Ids
  <2>8. TokenAt(text, p + 2 * f) = "from" /\ Consume(p + 2 * f, <<"from">>) = p + 2 * f + 1
    <3>1. Consume(p + 2 * f, <<"from">>) # 0
      BY <1>2, <2>1, <2>2, <2>7 DEF query
    <3>2. Phrase(text, p + 2 * f, <<"from">>)
      BY <3>1 DEF Consume
    <3>3. QED
      BY <2>6, <3>2, PhraseOf1 DEF Consume
  <2> DEFINE b == p + 2 * f + 1
  <2>9. b \in Nat
    OBVIOUS
  <2>10. query(p) = Where(Ids(b))
    BY <2>2, <2>7, <2>8 DEF query
  <2>11. Ids(b) # 0
    BY <1>2, <2>1, <2>10
  <2> HIDE DEF b
  <2>12. PICK t \in Nat : ListEnds(b, t, {"id"})
    BY <1>0, <2>9, <2>11, ListIsOfGrammar DEF Ids
  <2> DEFINE c == p + 2 * f + 2 * t
  <2>13. b + 2 * t - 1 = c /\ c \in Nat /\ c > 0
    BY DEF b
  <2>14. Ids(b) = c
    <3>1. List(b, {"id"}) = [end |-> b + 2 * t - 1, items |-> t]
      BY <1>0, <2>9, <2>12, ListIsOfGrammar
    <3>2. QED
      BY <3>1, <2>13 DEF Ids
  <2> HIDE DEF c
  <2>15. PICK n \in Nat : ConditionEnds(c, n)
    BY <1>2, <2>10, <2>13, <2>14, WhereIsOfGrammar
  <2>16. Token(c + 4 * n) \notin MoreQuery(n)
    <3>1. CASE n = 0
      <4>1. c + 4 * n = c
        BY <3>1, <2>13
      <4>2. Token(c) # "comma"
        BY <2>12, <2>13 DEF ListEnds
      <4>3. QED
        BY <3>1, <4>1, <4>2, <2>15 DEF MoreQuery, ConditionEnds, More
    <3>2. CASE n # 0
      BY <3>2, <2>15 DEF MoreQuery, ConditionEnds, More
    <3>3. QED
      BY <3>1, <3>2
  <2>17. QueryOf(text, p, f, t, n)
    BY <2>2, <2>5, <2>8, <2>12, <2>15 DEF QueryOf, ListEnds, ConditionEnds, b, c
  <2>18. QueryEnds(p, f, t, n)
    BY <2>16, <2>17 DEF QueryEnds, c
  <2>19. QED
    BY <2>18
<1>3. QED
  BY <1>1, <1>2

-----------------------------------------------------------------------------

\* Two sequences have the same tokens up to a place.
SameTo(s, u, m) == \A k \in Nat : k > 0 /\ k <= m => TokenAt(s, k) = TokenAt(u, k)

\* A list is a list in whatever has the same tokens to its end.
LEMMA ListOfSame ==
    ASSUME NEW s, NEW u, NEW items, NEW p \in Nat, p > 0, NEW n \in Nat, NEW m \in Nat,
           SameTo(s, u, m), p + 2 * n - 2 <= m, HasList(s, p, n, items)
    PROVE  HasList(u, p, n, items)
<1>1. ASSUME NEW j \in 0..(n - 1)
      PROVE  TokenAt(u, p + 2 * j) \in items /\ (j > 0 => TokenAt(u, p + 2 * j - 1) = "comma")
  <2>1. p + 2 * j \in Nat /\ p + 2 * j > 0 /\ p + 2 * j <= m
    OBVIOUS
  <2>2. j > 0 => p + 2 * j - 1 \in Nat /\ p + 2 * j - 1 > 0 /\ p + 2 * j - 1 <= m
    OBVIOUS
  <2>3. TokenAt(s, p + 2 * j) \in items /\ (j > 0 => TokenAt(s, p + 2 * j - 1) = "comma")
    BY DEF HasList
  <2>4. QED
    BY <2>1, <2>2, <2>3 DEF SameTo
<1>2. QED
  BY <1>1 DEF HasList

\* So is a condition.
LEMMA ConditionOfSame ==
    ASSUME NEW s, NEW u, NEW p \in Nat, p > 0, NEW n \in Nat, NEW m \in Nat,
           SameTo(s, u, m), p + 4 * n - 1 <= m, HasCondition(s, p, n)
    PROVE  HasCondition(u, p, n)
<1>1. CASE n = 0
  BY <1>1 DEF HasCondition
<1>2. CASE n > 0
  <2>1. TokenAt(s, p) = "where" /\ HasTerms(s, p + 1, n)
    BY <1>2, ConditionOf
  <2>2. p <= m /\ p + 1 \in Nat
    BY <1>2
  <2>3. TokenAt(u, p) = "where"
    BY <2>1, <2>2 DEF SameTo
  <2>4. ASSUME NEW j \in 0..(n - 1)
        PROVE  TermAt(u, p + 1 + 4 * j) /\ (j > 0 => TokenAt(u, p + 1 + 4 * j - 1) = "and")
    <3> DEFINE q == p + 1 + 4 * j
    <3>1. q \in Nat /\ q > 0 /\ q + 2 <= m /\ q + 1 \in Nat /\ q + 2 \in Nat /\ q - 1 \in Nat /\ q - 1 > 0
      OBVIOUS
    <3>2. TermAt(s, q) /\ (j > 0 => TokenAt(s, q - 1) = "and")
      BY <2>1 DEF HasTerms
    <3> HIDE DEF q
    <3>3. TokenAt(s, q) = TokenAt(u, q) /\ TokenAt(s, q + 1) = TokenAt(u, q + 1) /\ TokenAt(s, q + 2) = TokenAt(u, q + 2)
      BY <3>1 DEF SameTo
    <3>4. TokenAt(s, q - 1) = TokenAt(u, q - 1)
      BY <3>1 DEF SameTo
    <3>5. TermAt(u, q) /\ (j > 0 => TokenAt(u, q - 1) = "and")
      BY <3>2, <3>3, <3>4 DEF TermAt
    <3>6. QED
      BY <3>5 DEF q
  <2>5. HasTerms(u, p + 1, n)
    BY <1>2, <2>4 DEF HasTerms
  <2>6. QED
    BY <1>2, <2>3, <2>5, ConditionOf
<1>3. QED
  BY <1>1, <1>2

\* So is a query.
LEMMA QueryOfSame ==
    ASSUME NEW s, NEW u, NEW p \in Nat, p > 0, NEW f \in Nat, NEW t \in Nat, NEW n \in Nat, NEW m \in Nat,
           SameTo(s, u, m), p + 2 * f + 2 * t + 4 * n - 1 <= m, QueryOf(s, p, f, t, n)
    PROVE  QueryOf(u, p, f, t, n)
<1>1. f > 0 /\ t > 0
  BY DEF QueryOf, HasList
<1>2. /\ p <= m /\ p + 2 * f \in Nat /\ p + 2 * f > 0 /\ p + 2 * f <= m
      /\ p + 1 \in Nat /\ p + 1 > 0 /\ p + 1 + 2 * f - 2 <= m
      /\ p + 2 * f + 1 \in Nat /\ p + 2 * f + 1 > 0 /\ p + 2 * f + 1 + 2 * t - 2 <= m
      /\ p + 2 * f + 2 * t \in Nat /\ p + 2 * f + 2 * t > 0
  BY <1>1
<1>3. TokenAt(u, p) = "select" /\ TokenAt(u, p + 2 * f) = "from"
  BY <1>2 DEF QueryOf, SameTo
<1>4. HasList(u, p + 1, f, {"id"})
  BY <1>2, ListOfSame DEF QueryOf
<1>5. HasList(u, p + 2 * f + 1, t, {"id"})
  BY <1>2, ListOfSame DEF QueryOf
<1>6. HasCondition(u, p + 2 * f + 2 * t, n)
  BY <1>2, ConditionOfSame DEF QueryOf
<1>7. QED
  BY <1>3, <1>4, <1>5, <1>6 DEF QueryOf

-----------------------------------------------------------------------------

\* A list and a condition go on with one more after a comma, "where" or "and".
LEMMA ListGoesOn ==
    ASSUME NEW u, NEW items, NEW p \in Nat, NEW n \in Nat, HasList(u, p, n, items),
           TokenAt(u, p + 2 * n - 1) = "comma", TokenAt(u, p + 2 * n) \in items
    PROVE  HasList(u, p, n + 1, items)
<1>1. ASSUME NEW j \in 0..n
      PROVE  TokenAt(u, p + 2 * j) \in items /\ (j > 0 => TokenAt(u, p + 2 * j - 1) = "comma")
  <2>1. CASE j = n
    BY <2>1
  <2>2. CASE j # n
    <3>1. j \in 0..(n - 1)
      BY <2>2
    <3>2. QED
      BY <3>1 DEF HasList
  <2>3. QED
    BY <2>1, <2>2
<1>2. n + 1 > 0 /\ n + 1 - 1 = n
  OBVIOUS
<1>3. QED
  BY <1>1, <1>2 DEF HasList

\* A condition that is longer than another one goes on from it with what More says.
LEMMA ConditionGoesOn ==
    ASSUME NEW u, NEW p \in Nat, NEW n \in Nat, HasCondition(u, p, n),
           TokenAt(u, p + 4 * n) = More(n), TermAt(u, p + 4 * n + 1)
    PROVE  HasCondition(u, p, n + 1)
<1>1. n + 1 \in Nat /\ n + 1 > 0 /\ n + 1 - 1 = n /\ p + 4 * n + 1 = p + 1 + 4 * n /\ p + 1 + 4 * n - 1 = p + 4 * n
  OBVIOUS
<1>2. TokenAt(u, p) = "where"
  <2>1. CASE n = 0
    <3>1. p + 4 * n = p
      BY <2>1
    <3>2. QED
      BY <2>1, <3>1 DEF More
  <2>2. CASE n # 0
    <3>1. n > 0
      BY <2>2
    <3>2. QED
      BY <3>1 DEF HasCondition
  <2>3. QED
    BY <2>1, <2>2
<1>3. ASSUME NEW j \in 0..n
      PROVE  TermAt(u, p + 1 + 4 * j) /\ (j > 0 => TokenAt(u, p + 1 + 4 * j - 1) = "and")
  <2>1. CASE j = n
    BY <2>1, <1>1 DEF More
  <2>2. CASE j # n
    <3>1. n > 0 /\ j \in 0..(n - 1)
      BY <2>2
    <3>2. HasTerms(u, p + 1, n)
      BY <3>1, ConditionOf
    <3>3. QED
      BY <3>1, <3>2 DEF HasTerms
  <2>3. QED
    BY <2>1, <2>2
<1>4. HasTerms(u, p + 1, n + 1)
  BY <1>1, <1>3 DEF HasTerms
<1>5. QED
  BY <1>1, <1>2, <1>4, ConditionOf

\* A longer condition than one of n terms goes on with "where" or "and".
LEMMA ConditionIsFollowed ==
    ASSUME NEW u, NEW p \in Nat, NEW n \in Nat, NEW k \in Nat, k > n, HasCondition(u, p, k)
    PROVE  TokenAt(u, p + 4 * n) = More(n)
<1>1. TokenAt(u, p) = "where" /\ HasTerms(u, p + 1, k)
  BY ConditionOf
<1>2. CASE n = 0
  <2>1. p + 4 * n = p
    BY <1>2
  <2>2. QED
    BY <1>1, <1>2, <2>1 DEF More
<1>3. CASE n # 0
  <2>1. n \in 0..(k - 1) /\ n > 0 /\ p + 1 + 4 * n - 1 = p + 4 * n
    BY <1>3
  <2>2. QED
    BY <1>1, <1>3, <2>1 DEF HasTerms, More
<1>4. QED
  BY <1>2, <1>3

\* A list is followed by what is no comma in one way only.
LEMMA ListsMeet ==
    ASSUME NEW s, NEW u, NEW items, NEW p \in Nat, p > 0, NEW n \in Nat, NEW k \in Nat, NEW m \in Nat,
           SameTo(s, u, m), HasList(u, p, k, items), k > n, p + 2 * n - 1 <= m, n > 0
    PROVE  TokenAt(s, p + 2 * n - 1) = "comma" /\ TokenAt(u, p + 2 * n - 1) = "comma"
<1>1. n \in 0..(k - 1)
  OBVIOUS
<1>2. TokenAt(u, p + 2 * n - 1) = "comma"
  BY <1>1 DEF HasList
<1>3. p + 2 * n - 1 \in Nat /\ p + 2 * n - 1 > 0
  OBVIOUS
<1>4. QED
  BY <1>2, <1>3 DEF SameTo

\* A longer query goes on with a comma, "where" or "and".
LEMMA QueryIsFollowed ==
    ASSUME NEW s, NEW u, NEW p \in Nat, p > 0, NEW m \in Nat, SameTo(s, u, m), SameTo(u, s, m),
           NEW f \in Nat, NEW t \in Nat, NEW n \in Nat, QueryOf(s, p, f, t, n), m = p + 2 * f + 2 * t + 4 * n - 1,
           NEW g \in Nat, NEW v \in Nat, NEW k \in Nat, QueryOf(u, p, g, v, k),
           2 * g + 2 * v + 4 * k > 2 * f + 2 * t + 4 * n
    PROVE  TokenAt(u, m + 1) \in MoreQuery(n)
<1>1. f > 0 /\ t > 0 /\ g > 0 /\ v > 0 /\ p + 1 \in Nat /\ p + 1 > 0
  BY DEF QueryOf, HasList
<1>2. ~(f < g)
  <2>1. SUFFICES ASSUME f < g PROVE FALSE
    OBVIOUS
  <2>2. p + 1 + 2 * f - 1 = p + 2 * f /\ p + 2 * f <= m
    BY <1>1
  <2>3. TokenAt(s, p + 2 * f) = "comma"
    <3> DEFINE a == p + 1
    <3>1. HasList(u, a, g, {"id"})
      BY DEF QueryOf
    <3>2. a \in Nat /\ a > 0 /\ a + 2 * f - 1 <= m /\ a + 2 * f - 1 = p + 2 * f
      BY <2>2
    <3> HIDE DEF a
    <3>3. TokenAt(s, a + 2 * f - 1) = "comma"
      BY <1>1, <2>1, <3>1, <3>2, ListsMeet
    <3>4. QED
      BY <3>2, <3>3
  <2>4. QED
    BY <2>3 DEF QueryOf
<1>3. ~(g < f)
  <2>1. SUFFICES ASSUME g < f PROVE FALSE
    OBVIOUS
  <2>2. p + 1 + 2 * g - 1 = p + 2 * g /\ p + 2 * g <= m
    BY <1>1, <2>1
  <2>3. TokenAt(u, p + 2 * g) = "comma"
    <3> DEFINE a == p + 1
    <3>1. HasList(s, a, f, {"id"})
      BY DEF QueryOf
    <3>2. a \in Nat /\ a > 0 /\ a + 2 * g - 1 <= m /\ a + 2 * g - 1 = p + 2 * g
      BY <2>2
    <3> HIDE DEF a
    <3>3. TokenAt(u, a + 2 * g - 1) = "comma"
      BY <1>1, <2>1, <3>1, <3>2, ListsMeet
    <3>4. QED
      BY <3>2, <3>3
  <2>4. QED
    BY <2>3 DEF QueryOf
<1>4. f = g
  BY <1>2, <1>3
<1> DEFINE b == p + 2 * f + 1
           c == p + 2 * f + 2 * t
<1>5. b \in Nat /\ b > 0 /\ b + 2 * t - 1 = c /\ c \in Nat /\ c <= m + 1 /\ (n > 0 => c <= m) /\ c + 4 * n = m + 1 /\ (n = 0 => c = m + 1)
  BY <1>1
<1>6. HasList(s, b, t, {"id"}) /\ HasCondition(s, c, n) /\ HasList(u, b, v, {"id"})
  BY <1>4 DEF QueryOf
<1>7. v < t => b + 2 * v - 1 \in Nat /\ b + 2 * v - 1 <= m /\ b + 2 * v - 1 = p + 2 * f + 2 * v
  BY <1>1
<1>8. v = t => k > n
  BY <1>4
<1>9. v < t => k > 0
  BY <1>4
<1>10. HasCondition(u, p + 2 * f + 2 * v, k)
  BY <1>4 DEF QueryOf
<1>11. v = t => HasCondition(u, c, k)
  BY <1>10
<1> HIDE DEF b, c
<1>12. CASE v < t
  <2>1. TokenAt(u, b + 2 * v - 1) = "comma"
    BY <1>1, <1>5, <1>6, <1>7, <1>12, ListsMeet
  <2>2. TokenAt(u, p + 2 * f + 2 * v) = "where"
    BY <1>9, <1>10, <1>12 DEF HasCondition
  <2>3. QED
    BY <2>1, <2>2, <1>7, <1>12
<1>13. CASE v = t
  <2>1. TokenAt(u, c + 4 * n) = More(n)
    <3>1. k > n /\ HasCondition(u, c, k) /\ c \in Nat
      BY <1>5, <1>8, <1>11, <1>13
    <3>2. QED
      BY <3>1, ConditionIsFollowed
  <2>2. QED
    BY <1>5, <2>1 DEF More, MoreQuery
<1>14. CASE v > t
  <2>1. TokenAt(u, c) = "comma"
    <3>1. t \in 0..(v - 1) /\ t > 0
      BY <1>1, <1>14
    <3>2. TokenAt(u, b + 2 * t - 1) = "comma"
      BY <1>6, <3>1 DEF HasList
    <3>3. QED
      BY <1>5, <3>2
  <2>2. CASE n = 0
    BY <1>5, <2>1, <2>2 DEF MoreQuery
  <2>3. CASE n > 0
    <3>1. TokenAt(s, c) = "where"
      BY <1>6, <2>3 DEF HasCondition
    <3>2. c > 0 /\ c <= m
      BY <1>5, <1>1, <2>3
    <3>3. TokenAt(s, c) = TokenAt(u, c)
      BY <1>5, <3>2 DEF SameTo
    <3>4. QED
      BY <2>1, <3>1, <3>3
  <2>4. QED
    BY <2>2, <2>3
<1>15. QED
  BY <1>1, <1>12, <1>13, <1>14

-----------------------------------------------------------------------------

\* The first n tokens of the text, and the first n + 1 and an ending.
Beginning(n) == SubSeq(text, 1, n)
Longer(n, x) == SubSeq(text, 1, n + 1) \o x

\* A beginning of the text is of tokens and has those of the text.
LEMMA BeginningIs ==
    ASSUME text \in Seq(Vocabulary), NEW n \in 0..Len(text)
    PROVE  /\ n \in Nat /\ Len(text) \in Nat /\ Beginning(n) \in Seq(Vocabulary) /\ Len(Beginning(n)) = n
           /\ SameTo(Beginning(n), text, n) /\ SameTo(text, Beginning(n), n)
<1> DEFINE e == Len(text)
           s == Beginning(n)
<1>1. e \in Nat /\ n \in Nat /\ n <= e
  OBVIOUS
<1>2. s \in Seq(Vocabulary) /\ Len(s) = n /\ \A k \in 1..n : s[k] = text[k]
  BY SubSeqProperties DEF Beginning
<1>3. DOMAIN s = 1..n /\ DOMAIN text = 1..e
  BY <1>2
<1> HIDE DEF e, s
<1>4. ASSUME NEW k \in Nat, k > 0, k <= n
      PROVE  TokenAt(s, k) = TokenAt(text, k)
  <2>1. k \in 1..n /\ k \in 1..e
    BY <1>1, <1>4
  <2>2. QED
    BY <1>2, <1>3, <2>1 DEF TokenAt
<1>5. SameTo(s, text, n) /\ SameTo(text, s, n)
  BY <1>4 DEF SameTo
<1>6. QED
  BY <1>1, <1>2, <1>5 DEF s, e

\* A longer one has one token more of the text, and then others.
LEMMA LongerIs ==
    ASSUME text \in Seq(Vocabulary), NEW n \in 0..Len(text), n < Len(text), NEW x \in Seq(Vocabulary)
    PROVE  /\ Longer(n, x) \in Seq(Vocabulary) /\ Len(x) \in Nat /\ Len(Longer(n, x)) = n + 1 + Len(x)
           /\ SameTo(Longer(n, x), text, n + 1) /\ SameTo(text, Longer(n, x), n + 1)
           /\ \A k \in 1..Len(x) : TokenAt(Longer(n, x), n + 1 + k) = x[k]
<1> DEFINE s == Beginning(n + 1)
           u == Longer(n, x)
           l == Len(x)
<1>1. n + 1 \in 0..Len(text) /\ n \in Nat /\ l \in Nat /\ x \in Seq(Vocabulary)
  OBVIOUS
<1>2. s \in Seq(Vocabulary) /\ Len(s) = n + 1 /\ SameTo(s, text, n + 1)
  BY <1>1, BeginningIs
<1>3. u = s \o x
  BY DEF Longer, Beginning
<1> HIDE DEF s, u
<1>4. u \in Seq(Vocabulary) /\ Len(u) = n + 1 + l /\ \A k \in 1..(n + 1 + l) : u[k] = IF k <= n + 1 THEN s[k] ELSE x[k - (n + 1)]
  <2>1. u \in Seq(Vocabulary) /\ Len(u) = Len(s) + Len(x)
    BY <1>2, <1>3, ConcatProperties
  <2>2. \A k \in 1..(Len(s) + Len(x)) : u[k] = IF k <= Len(s) THEN s[k] ELSE x[k - Len(s)]
    BY <1>2, <1>3, ConcatProperties
  <2>3. QED
    BY <1>2, <2>1, <2>2
<1>5. DOMAIN u = 1..(n + 1 + l) /\ DOMAIN s = 1..(n + 1)
  BY <1>2, <1>4
<1> HIDE DEF l
<1>6. ASSUME NEW k \in Nat, k > 0, k <= n + 1
      PROVE  TokenAt(u, k) = TokenAt(text, k)
  <2>1. k \in 1..(n + 1 + l) /\ k \in 1..(n + 1)
    BY <1>1, <1>6
  <2>2. TokenAt(u, k) = TokenAt(s, k)
    BY <1>4, <1>5, <1>6, <2>1 DEF TokenAt
  <2>3. TokenAt(s, k) = TokenAt(text, k)
    BY <1>2, <1>6 DEF SameTo
  <2>4. QED
    BY <2>2, <2>3
<1>7. SameTo(u, text, n + 1) /\ SameTo(text, u, n + 1)
  BY <1>6 DEF SameTo
<1>8. ASSUME NEW k \in 1..l
      PROVE  TokenAt(u, n + 1 + k) = x[k]
  <2>1. n + 1 + k \in 1..(n + 1 + l) /\ ~(n + 1 + k <= n + 1) /\ n + 1 + k - (n + 1) = k
    BY <1>1
  <2>2. QED
    BY <1>4, <1>5, <2>1 DEF TokenAt
<1>9. QED
  BY <1>1, <1>4, <1>7, <1>8 DEF u, l

\* The endings are of tokens.
LEMMA EndingsAre ==
    ASSUME text \in Seq(Vocabulary), NEW n \in 0..Len(text), n < Len(text)
    PROVE  /\ \A x \in Endings : x \in Seq(Vocabulary)
           /\ LET u == Longer(n, <<"id">>) IN
              /\ Len(u) = n + 2 /\ SameTo(u, text, n + 1) /\ SameTo(text, u, n + 1) /\ TokenAt(u, n + 2) = "id"
           /\ LET u == Longer(n, <<"id", "=", "id">>) IN
              /\ Len(u) = n + 4 /\ SameTo(u, text, n + 1) /\ SameTo(text, u, n + 1) /\ TermAt(u, n + 2)
<1> DEFINE a == <<"id">>
           b == <<"id", "=", "id">>
<1>0. "id" \in Vocabulary /\ "=" \in Vocabulary
  BY DEF Vocabulary, Words
<1>1. a \in Seq(Vocabulary) /\ Len(a) = 1 /\ a[1] = "id"
  BY <1>0
<1>2. b \in Seq(Vocabulary) /\ Len(b) = 3 /\ b[1] = "id" /\ b[2] = "=" /\ b[3] = "id"
  BY <1>0
<1>3. Endings = {a, b}
  BY DEF Endings
<1>4. n \in Nat /\ n + 1 + 1 = n + 2 /\ n + 1 + 3 = n + 4 /\ n + 1 + 2 = n + 2 + 1 /\ n + 1 + 3 = n + 2 + 2 /\ 1 \in 1..1 /\ {1, 2, 3} \subseteq 1..3
  OBVIOUS
<1> HIDE DEF a, b
<1> DEFINE u == Longer(n, a)
           w == Longer(n, b)
<1>5. Len(u) = n + 1 + Len(a) /\ SameTo(u, text, n + 1) /\ SameTo(text, u, n + 1) /\ \A k \in 1..Len(a) : TokenAt(u, n + 1 + k) = a[k]
  BY <1>1, LongerIs
<1>6. Len(w) = n + 1 + Len(b) /\ SameTo(w, text, n + 1) /\ SameTo(text, w, n + 1) /\ \A k \in 1..Len(b) : TokenAt(w, n + 1 + k) = b[k]
  BY <1>2, LongerIs
<1> HIDE DEF u, w
<1>7. Len(u) = n + 2 /\ TokenAt(u, n + 2) = "id"
  BY <1>1, <1>4, <1>5
<1>8. Len(w) = n + 4 /\ TokenAt(w, n + 2) = "id" /\ TokenAt(w, n + 2 + 1) = "=" /\ TokenAt(w, n + 2 + 2) = "id"
  <2>1. 1 \in 1..Len(b) /\ 2 \in 1..Len(b) /\ 3 \in 1..Len(b)
    BY <1>2
  <2>2. TokenAt(w, n + 1 + 1) = "id" /\ TokenAt(w, n + 1 + 2) = "=" /\ TokenAt(w, n + 1 + 3) = "id"
    BY <1>2, <1>6, <2>1
  <2>3. QED
    BY <1>2, <1>4, <1>6, <2>2
<1>9. TermAt(w, n + 2)
  BY <1>8 DEF TermAt, Expressions
<1>10. \A x \in Endings : x \in Seq(Vocabulary)
  BY <1>1, <1>2, <1>3
<1>11. QED
  BY <1>5, <1>6, <1>7, <1>8, <1>9, <1>10 DEF u, w, a, b

-----------------------------------------------------------------------------

\* A condition from p on that is all the rest of s.
ConditionIn(s, p) == \E k \in 0..Len(s) : HasCondition(s, p, k) /\ Len(s) + 1 = p + 4 * k

\* The count of the terms is bounded by the length.
LEMMA ConditionInIs ==
    ASSUME NEW s \in Seq(Vocabulary), NEW p \in Nat, p > 0, NEW k \in Nat, HasCondition(s, p, k), Len(s) + 1 = p + 4 * k
    PROVE  ConditionIn(s, p)
<1> DEFINE e == Len(s)
<1>1. e \in Nat /\ e + 1 = p + 4 * k
  OBVIOUS
<1> HIDE DEF e
<1>2. k \in 0..e
  BY <1>1
<1>3. QED
  BY <1>1, <1>2 DEF e, ConditionIn

\* The condition the parser reads is the one that nothing goes on from.
LEMMA ConditionIsRead ==
    ASSUME text \in Seq(Vocabulary), NEW n \in 0..Len(text), NEW p \in Nat, p > 0, p <= n + 1,
           NEW k \in Nat, ConditionEnds(p, k), n + 1 = p + 4 * k
    PROVE  ConditionIn(Beginning(n), p) /\ (n < Len(text) => \A x \in Seq(Vocabulary) : ~ConditionIn(Longer(n, x), p))
<1>1. /\ n \in Nat /\ Beginning(n) \in Seq(Vocabulary) /\ Len(Beginning(n)) = n
      /\ SameTo(text, Beginning(n), n)
  BY BeginningIs
<1>2. HasCondition(Beginning(n), p, k)
  <2>1. p + 4 * k - 1 <= n /\ HasCondition(text, p, k)
    BY <1>1 DEF ConditionEnds
  <2>2. QED
    BY <1>1, <2>1, ConditionOfSame
<1>3. ConditionIn(Beginning(n), p)
  BY <1>1, <1>2, ConditionInIs
<1>4. ASSUME n < Len(text), NEW x \in Seq(Vocabulary), ConditionIn(Longer(n, x), p)
      PROVE  FALSE
  <2> DEFINE u == Longer(n, x)
  <2>1. x \in Seq(Vocabulary)
    OBVIOUS
  <2>2. /\ Len(x) \in Nat /\ Len(u) = n + 1 + Len(x) /\ SameTo(u, text, n + 1)
    BY <1>4, <2>1, LongerIs
  <2> HIDE DEF u
  <2>3. PICK j \in 0..Len(u) : HasCondition(u, p, j) /\ Len(u) + 1 = p + 4 * j
    BY <1>4 DEF ConditionIn, u
  <2>4. j \in Nat /\ j > k
    <3> DEFINE l == Len(x)
               m == Len(u)
    <3>1. l \in Nat /\ m = n + 1 + l /\ j \in 0..m /\ m + 1 = p + 4 * j
      BY <2>2, <2>3
    <3> HIDE DEF l, m
    <3>2. QED
      BY <3>1, <1>1
  <2>5. TokenAt(u, p + 4 * k) = More(k)
    BY <2>3, <2>4, ConditionIsFollowed
  <2>6. Token(p + 4 * k) = More(k)
    <3>1. p + 4 * k \in Nat /\ p + 4 * k > 0 /\ p + 4 * k <= n + 1
      BY <1>1
    <3>2. QED
      BY <3>1, <2>2, <2>5 DEF SameTo, Token
  <2>7. QED
    BY <2>6 DEF ConditionEnds
<1>5. QED
  BY <1>3, <1>4

\* A condition that neither ending goes on from is the one the parser reads.
LEMMA ReadIsCondition ==
    ASSUME text \in Seq(Vocabulary), NEW n \in 0..Len(text), NEW p \in Nat, p > 0,
           ConditionIn(Beginning(n), p), n < Len(text) => \A x \in Endings : ~ConditionIn(Longer(n, x), p)
    PROVE  \E k \in Nat : ConditionEnds(p, k) /\ n + 1 = p + 4 * k
<1>1. /\ n \in Nat /\ Len(text) \in Nat /\ Beginning(n) \in Seq(Vocabulary) /\ Len(Beginning(n)) = n
      /\ SameTo(Beginning(n), text, n)
  BY BeginningIs
<1>2. PICK k \in 0..n : HasCondition(Beginning(n), p, k) /\ n + 1 = p + 4 * k
  BY <1>1 DEF ConditionIn
<1>3. k \in Nat /\ p + 4 * k - 1 <= n /\ p + 4 * k = n + 1
  BY <1>1, <1>2
<1>4. HasCondition(text, p, k)
  BY <1>1, <1>2, <1>3, ConditionOfSame
<1>5. Token(n + 1) # More(k)
  <2>1. SUFFICES ASSUME Token(n + 1) = More(k) PROVE FALSE
    OBVIOUS
  <2>2. n < Len(text)
    <3>1. Token(n + 1) # "eof"
      BY <2>1 DEF More
    <3>2. QED
      BY <1>1, <3>1, TokensEnd
  <2> DEFINE x == <<"id", "=", "id">>
             u == Longer(n, x)
  <2>3. x \in Endings
    BY DEF Endings
  <2>4. Len(u) = n + 4 /\ SameTo(text, u, n + 1) /\ TermAt(u, n + 2)
    BY <2>2, EndingsAre
  <2>5. x \in Seq(Vocabulary)
    BY <2>2, <2>3, EndingsAre
  <2>6. u \in Seq(Vocabulary)
    BY <2>2, <2>5, LongerIs
  <2>7. ~ConditionIn(u, p)
    BY <2>2, <2>3
  <2> HIDE DEF u, x
  <2>8. HasCondition(u, p, k)
    <3>1. n + 1 \in Nat /\ p + 4 * k - 1 <= n + 1
      BY <1>1, <1>3
    <3>2. QED
      BY <1>3, <1>4, <2>4, <3>1, ConditionOfSame
  <2>9. TokenAt(u, p + 4 * k) = More(k)
    <3>1. n + 1 \in Nat /\ n + 1 > 0 /\ n + 1 <= n + 1
      BY <1>1
    <3>2. TokenAt(u, n + 1) = Token(n + 1)
      BY <3>1, <2>4 DEF SameTo, Token
    <3>3. QED
      BY <3>2, <2>1, <1>3
  <2>10. p + 4 * k + 1 = n + 2 /\ n + 4 + 1 = p + 4 * (k + 1) /\ k + 1 \in Nat
    BY <1>1, <1>3
  <2>11. HasCondition(u, p, k + 1)
    BY <1>3, <2>4, <2>8, <2>9, <2>10, ConditionGoesOn
  <2>12. ConditionIn(u, p)
    BY <2>4, <2>6, <2>10, <2>11, ConditionInIs
  <2>13. QED
    BY <2>7, <2>12
<1>6. ConditionEnds(p, k)
  BY <1>3, <1>4, <1>5 DEF ConditionEnds
<1>7. QED
  BY <1>3, <1>6

-----------------------------------------------------------------------------

\* A query from p on that is all the rest of s.
LEMMA HasQueryIs ==
    ASSUME NEW s \in Seq(Vocabulary), NEW p \in Nat, p > 0
    PROVE  HasQuery(s, p, Len(s) + 1) <=> \E f, t, n \in Nat : QueryOf(s, p, f, t, n) /\ Len(s) + 1 = p + 2 * f + 2 * t + 4 * n
<1> DEFINE e == Len(s)
<1>1. e \in Nat
  OBVIOUS
<1>2. ASSUME HasQuery(s, p, e + 1)
      PROVE  \E f, t, n \in Nat : QueryOf(s, p, f, t, n) /\ e + 1 = p + 2 * f + 2 * t + 4 * n
  <2>1. PICK f \in 1..e :
           /\ HasList(s, p + 1, f, {"id"}) /\ Phrase(s, p + 2 * f, <<"from">>)
           /\ \E t \in 1..e :
                /\ HasList(s, p + 2 * f + 1, t, {"id"})
                /\ \E n \in 0..e : e + 1 = p + 2 * f + 2 * t + 4 * n /\ HasCondition(s, p + 2 * f + 2 * t, n)
    BY <1>2 DEF HasQuery
  <2>2. PICK t \in 1..e :
                /\ HasList(s, p + 2 * f + 1, t, {"id"})
                /\ \E n \in 0..e : e + 1 = p + 2 * f + 2 * t + 4 * n /\ HasCondition(s, p + 2 * f + 2 * t, n)
    BY <2>1
  <2>3. PICK n \in 0..e : e + 1 = p + 2 * f + 2 * t + 4 * n /\ HasCondition(s, p + 2 * f + 2 * t, n)
    BY <2>2
  <2>4. Phrase(s, p, <<"select">>)
    BY <1>2 DEF HasQuery
  <2> HIDE DEF e
  <2>5. f \in Nat /\ t \in Nat /\ n \in Nat /\ p + 2 * f \in Nat
    BY <1>1
  <2>6. QueryOf(s, p, f, t, n)
    BY <2>1, <2>2, <2>3, <2>4, <2>5, PhraseOf1 DEF QueryOf
  <2>7. QED
    BY <2>3, <2>5, <2>6
<1>3. ASSUME NEW f \in Nat, NEW t \in Nat, NEW n \in Nat, QueryOf(s, p, f, t, n), e + 1 = p + 2 * f + 2 * t + 4 * n
      PROVE  HasQuery(s, p, e + 1)
  <2>1. f > 0 /\ t > 0
    BY <1>3 DEF QueryOf, HasList
  <2> HIDE DEF e
  <2>2. f \in 1..e /\ t \in 1..e /\ n \in 0..e /\ p + 2 * f \in Nat
    BY <1>1, <1>3, <2>1
  <2>3. Phrase(s, p, <<"select">>) /\ Phrase(s, p + 2 * f, <<"from">>)
    BY <1>3, <2>2, PhraseOf1 DEF QueryOf
  <2>4. HasList(s, p + 1, f, {"id"}) /\ HasList(s, p + 2 * f + 1, t, {"id"}) /\ HasCondition(s, p + 2 * f + 2 * t, n)
    BY <1>3 DEF QueryOf
  <2>5. QED
    BY <1>3, <2>2, <2>3, <2>4 DEF HasQuery, e
<1>4. QED
  BY <1>2, <1>3

QueryIn(s, p) == HasQuery(s, p, Len(s) + 1)

\* The query the parser reads is the one that nothing goes on from.
LEMMA QueryIsRead ==
    ASSUME text \in Seq(Vocabulary), NEW n \in 0..Len(text), NEW p \in Nat, p > 0,
           NEW f \in Nat, NEW t \in Nat, NEW k \in Nat, QueryEnds(p, f, t, k), n + 1 = p + 2 * f + 2 * t + 4 * k
    PROVE  QueryIn(Beginning(n), p) /\ (n < Len(text) => \A x \in Seq(Vocabulary) : ~QueryIn(Longer(n, x), p))
<1>1. /\ n \in Nat /\ Beginning(n) \in Seq(Vocabulary) /\ Len(Beginning(n)) = n
      /\ SameTo(text, Beginning(n), n) /\ SameTo(Beginning(n), text, n)
  BY BeginningIs
<1>2. QueryOf(Beginning(n), p, f, t, k)
  <2>1. p + 2 * f + 2 * t + 4 * k - 1 <= n /\ QueryOf(text, p, f, t, k)
    BY <1>1 DEF QueryEnds
  <2>2. QED
    BY <1>1, <2>1, QueryOfSame
<1>3. QueryIn(Beginning(n), p)
  <2> DEFINE s == Beginning(n)
  <2>1. s \in Seq(Vocabulary) /\ Len(s) + 1 = p + 2 * f + 2 * t + 4 * k /\ QueryOf(s, p, f, t, k)
    BY <1>1, <1>2
  <2> HIDE DEF s
  <2>2. \E g, v, j \in Nat : QueryOf(s, p, g, v, j) /\ Len(s) + 1 = p + 2 * g + 2 * v + 4 * j
    BY <2>1
  <2>3. HasQuery(s, p, Len(s) + 1)
    BY <2>1, <2>2, HasQueryIs
  <2>4. QED
    BY <2>3 DEF QueryIn, s
<1>4. ASSUME n < Len(text), NEW x \in Seq(Vocabulary), QueryIn(Longer(n, x), p)
      PROVE  FALSE
  <2> DEFINE u == Longer(n, x)
             l == Len(x)
             m == Len(u)
  <2>1. x \in Seq(Vocabulary)
    OBVIOUS
  <2>2. /\ l \in Nat /\ m = n + 1 + l /\ u \in Seq(Vocabulary)
        /\ SameTo(u, text, n + 1) /\ SameTo(text, u, n + 1)
    BY <1>4, <2>1, LongerIs
  <2>3. HasQuery(u, p, m + 1)
    BY <1>4 DEF QueryIn
  <2>4. PICK g, v, j \in Nat : QueryOf(u, p, g, v, j) /\ m + 1 = p + 2 * g + 2 * v + 4 * j
    <3> HIDE DEF u
    <3>1. QED
      BY <2>2, <2>3, HasQueryIs
  <2> HIDE DEF u, l, m
  <2>5. 2 * g + 2 * v + 4 * j > 2 * f + 2 * t + 4 * k
    BY <2>2, <2>4, <1>1
  <2>6. SameTo(text, u, n) /\ SameTo(u, text, n)
    BY <2>2, <1>1 DEF SameTo
  <2>7. n = p + 2 * f + 2 * t + 4 * k - 1 /\ QueryOf(text, p, f, t, k)
    BY <1>1 DEF QueryEnds
  <2>8. TokenAt(u, n + 1) \in MoreQuery(k)
    BY <1>1, <2>4, <2>5, <2>6, <2>7, QueryIsFollowed
  <2>9. n + 1 \in Nat /\ n + 1 > 0 /\ n + 1 <= n + 1
    BY <1>1
  <2>10. TokenAt(u, n + 1) = Token(n + 1)
    BY <2>2, <2>9 DEF SameTo, Token
  <2>11. QED
    BY <2>8, <2>10 DEF QueryEnds
<1>5. QED
  BY <1>3, <1>4

\* A query that neither ending goes on from is the one the parser reads.
LEMMA ReadIsQuery ==
    ASSUME text \in Seq(Vocabulary), NEW n \in 0..Len(text), NEW p \in Nat, p > 0,
           QueryIn(Beginning(n), p), n < Len(text) => \A x \in Endings : ~QueryIn(Longer(n, x), p)
    PROVE  \E f, t, k \in Nat : QueryEnds(p, f, t, k) /\ n + 1 = p + 2 * f + 2 * t + 4 * k
<1>1. /\ n \in Nat /\ Len(text) \in Nat /\ Beginning(n) \in Seq(Vocabulary) /\ Len(Beginning(n)) = n
      /\ SameTo(Beginning(n), text, n)
  BY BeginningIs
<1>2. PICK f, t, k \in Nat : QueryOf(Beginning(n), p, f, t, k) /\ n + 1 = p + 2 * f + 2 * t + 4 * k
  <2> DEFINE s == Beginning(n)
  <2>1. HasQuery(s, p, Len(s) + 1)
    BY DEF QueryIn
  <2>2. s \in Seq(Vocabulary) /\ Len(s) = n
    BY <1>1
  <2> HIDE DEF s
  <2>3. \E g, v, j \in Nat : QueryOf(s, p, g, v, j) /\ Len(s) + 1 = p + 2 * g + 2 * v + 4 * j
    BY <2>1, <2>2, HasQueryIs
  <2>4. QED
    BY <2>2, <2>3 DEF s
<1> DEFINE c == p + 2 * f + 2 * t
           b == p + 2 * f + 1
<1>3. c + 4 * k = n + 1 /\ c \in Nat /\ c > 0 /\ b \in Nat /\ b + 2 * t - 1 = c /\ p + 2 * f + 2 * t + 4 * k - 1 <= n
  BY <1>1, <1>2
<1>4. QueryOf(text, p, f, t, k)
  BY <1>1, <1>2, <1>3, QueryOfSame
<1>5. Token(n + 1) \notin MoreQuery(k)
  <2>1. SUFFICES ASSUME Token(n + 1) \in MoreQuery(k) PROVE FALSE
    OBVIOUS
  <2>2. n < Len(text)
    <3>1. Token(n + 1) # "eof"
      BY <2>1 DEF MoreQuery
    <3>2. QED
      BY <1>1, <3>1, TokensEnd
  <2>3. CASE Token(n + 1) = "comma"
    <3> DEFINE x == <<"id">>
               u == Longer(n, x)
    <3>1. x \in Endings
      BY DEF Endings
    <3>2. Len(u) = n + 2 /\ SameTo(text, u, n + 1) /\ TokenAt(u, n + 2) = "id"
      BY <2>2, EndingsAre
    <3>3. x \in Seq(Vocabulary)
      BY <2>2, <3>1, EndingsAre
    <3>4. u \in Seq(Vocabulary)
      BY <2>2, <3>3, LongerIs
    <3>5. ~QueryIn(u, p)
      BY <2>2, <3>1
    <3> HIDE DEF u, x, b, c
    <3>6. k = 0
      BY <2>1, <2>3 DEF MoreQuery
    <3>7. QueryOf(u, p, f, t, k)
      <4>1. n + 1 \in Nat /\ p + 2 * f + 2 * t + 4 * k - 1 <= n + 1
        BY <1>1, <1>3
      <4>2. QED
        BY <1>4, <3>2, <4>1, QueryOfSame
    <3>8. c = n + 1 /\ b + 2 * t = n + 2
      BY <1>1, <1>3, <3>6
    <3>9. TokenAt(u, c) = "comma"
      <4>1. c > 0 /\ c <= n + 1
        BY <1>1, <1>3, <3>8
      <4>2. TokenAt(u, c) = Token(c)
        BY <1>3, <4>1, <3>2 DEF SameTo, Token
      <4>3. QED
        BY <4>2, <3>8, <2>3
    <3>10. HasList(u, b, t, {"id"})
      BY <3>7 DEF QueryOf, b
    <3>11. HasList(u, b, t + 1, {"id"})
      <4>1. TokenAt(u, b + 2 * t - 1) = "comma" /\ TokenAt(u, b + 2 * t) \in {"id"}
        BY <1>3, <3>2, <3>8, <3>9
      <4>2. QED
        BY <1>3, <3>10, <4>1, ListGoesOn
    <3>12. QueryOf(u, p, f, t + 1, 0)
      <4>1. HasCondition(u, p + 2 * f + 2 * (t + 1), 0)
        BY DEF HasCondition
      <4>2. QED
        BY <3>7, <3>11, <4>1 DEF QueryOf, b
    <3>13. n + 2 + 1 = p + 2 * f + 2 * (t + 1) + 4 * 0 /\ t + 1 \in Nat
      BY <1>1, <1>2, <3>6
    <3>14. HasQuery(u, p, Len(u) + 1)
      <4>1. \E g, v, j \in Nat : QueryOf(u, p, g, v, j) /\ Len(u) + 1 = p + 2 * g + 2 * v + 4 * j
        BY <3>2, <3>12, <3>13
      <4>2. QED
        BY <3>4, <4>1, HasQueryIs
    <3>15. QED
      BY <3>5, <3>14 DEF QueryIn
  <2>4. CASE Token(n + 1) = More(k)
    <3> DEFINE x == <<"id", "=", "id">>
               u == Longer(n, x)
    <3>1. x \in Endings
      BY DEF Endings
    <3>2. Len(u) = n + 4 /\ SameTo(text, u, n + 1) /\ TermAt(u, n + 2)
      BY <2>2, EndingsAre
    <3>3. x \in Seq(Vocabulary)
      BY <2>2, <3>1, EndingsAre
    <3>4. u \in Seq(Vocabulary)
      BY <2>2, <3>3, LongerIs
    <3>5. ~QueryIn(u, p)
      BY <2>2, <3>1
    <3> HIDE DEF u, x, b, c
    <3>6. QueryOf(u, p, f, t, k)
      <4>1. n + 1 \in Nat /\ p + 2 * f + 2 * t + 4 * k - 1 <= n + 1
        BY <1>1, <1>3
      <4>2. QED
        BY <1>4, <3>2, <4>1, QueryOfSame
    <3>7. TokenAt(u, c + 4 * k) = More(k)
      <4>1. n + 1 \in Nat /\ n + 1 > 0 /\ n + 1 <= n + 1
        BY <1>1
      <4>2. TokenAt(u, n + 1) = Token(n + 1)
        BY <4>1, <3>2 DEF SameTo, Token
      <4>3. QED
        BY <4>2, <1>3, <2>4
    <3>8. c + 4 * k + 1 = n + 2 /\ k + 1 \in Nat /\ n + 4 + 1 = p + 2 * f + 2 * t + 4 * (k + 1)
      BY <1>1, <1>2, <1>3
    <3>9. HasCondition(u, c, k)
      BY <3>6 DEF QueryOf, c
    <3>10. HasCondition(u, c, k + 1)
      BY <1>3, <3>2, <3>7, <3>8, <3>9, ConditionGoesOn
    <3>11. QueryOf(u, p, f, t, k + 1)
      BY <3>6, <3>10 DEF QueryOf, c
    <3>12. HasQuery(u, p, Len(u) + 1)
      BY <3>2, <3>4, <3>8, <3>11, HasQueryIs
    <3>13. QED
      BY <3>5, <3>12 DEF QueryIn
  <2>5. QED
    BY <2>1, <2>3, <2>4 DEF MoreQuery, More
<1>6. QueryEnds(p, f, t, k)
  BY <1>1, <1>2, <1>4, <1>5 DEF QueryEnds
<1>7. QED
  BY <1>2, <1>6

-----------------------------------------------------------------------------

\* The words a command begins with.
AreWords(w) == Len(w) \in Nat /\ Len(w) > 0 /\ DOMAIN w = 1..Len(w) /\ w[Len(w)] # "eof"

\* Words are the same words in whatever has the same tokens to their end.
LEMMA WordsOfSame ==
    ASSUME NEW s, NEW u, NEW w, AreWords(w), NEW m \in Nat, SameTo(s, u, m), Len(w) <= m, Phrase(s, 1, w)
    PROVE  Phrase(u, 1, w)
<1> DEFINE l == Len(w)
<1>1. l \in Nat /\ DOMAIN w = 1..l /\ l <= m
  BY DEF AreWords
<1> HIDE DEF l
<1>2. ASSUME NEW j \in 1..l
      PROVE  TokenAt(u, 1 + j - 1) = w[j]
  <2>1. 1 + j - 1 = j /\ j \in Nat /\ j > 0 /\ j <= m
    BY <1>1
  <2>2. TokenAt(s, 1 + j - 1) = w[j]
    BY <1>1 DEF Phrase
  <2>3. QED
    BY <2>1, <2>2 DEF SameTo
<1>3. QED
  BY <1>1, <1>2 DEF Phrase

\* Words are of the text.
LEMMA WordsInText ==
    ASSUME text \in Seq(Vocabulary), NEW w, AreWords(w), Phrase(text, 1, w)
    PROVE  Len(w) <= Len(text)
<1> DEFINE l == Len(w)
<1>1. l \in Nat /\ DOMAIN w = 1..l /\ l > 0 /\ w[l] # "eof"
  BY DEF AreWords
<1> HIDE DEF l
<1>2. l \in DOMAIN w /\ 1 + l - 1 = l
  BY <1>1
<1>3. Token(l) # "eof"
  BY <1>1, <1>2 DEF Phrase, Token
<1>4. QED
  BY <1>1, <1>3, TokensEnd DEF l

\* What the text has of a condition and of a query lies in it.
LEMMA ConditionInText ==
    ASSUME text \in Seq(Vocabulary), NEW p \in Nat, p > 0, p - 1 <= Len(text), NEW k \in Nat, HasCondition(text, p, k)
    PROVE  p + 4 * k - 1 \in 0..Len(text)
<1>0. Len(text) \in Nat
  OBVIOUS
<1>1. CASE k = 0
  <2>1. p + 4 * k - 1 = p - 1 /\ p - 1 >= 0
    BY <1>1
  <2>2. QED
    BY <2>1, <1>0
<1>2. CASE k > 0
  <2>1. HasTerms(text, p + 1, k)
    BY <1>2, ConditionOf
  <2>2. k - 1 \in 0..(k - 1) /\ p + 1 + 4 * (k - 1) + 2 = p + 4 * k - 1 /\ p + 4 * k - 1 \in Nat
    BY <1>2
  <2>3. TermAt(text, p + 1 + 4 * (k - 1))
    BY <2>1, <2>2 DEF HasTerms
  <2>4. TokenAt(text, p + 4 * k - 1) \in Expressions
    BY <2>2, <2>3 DEF TermAt
  <2>5. Token(p + 4 * k - 1) # "eof"
    BY <2>4 DEF Token, Expressions, Constants
  <2>6. QED
    BY <1>0, <2>2, <2>5, TokensEnd
<1>3. QED
  BY <1>1, <1>2

\* A query is of the text.
LEMMA QueryInText ==
    ASSUME text \in Seq(Vocabulary), NEW p \in Nat, p > 0, NEW f \in Nat, NEW t \in Nat, NEW k \in Nat,
           QueryOf(text, p, f, t, k)
    PROVE  p + 2 * f + 2 * t + 4 * k - 1 \in 0..Len(text)
<1>1. t > 0 /\ HasList(text, p + 2 * f + 1, t, {"id"}) /\ HasCondition(text, p + 2 * f + 2 * t, k)
  BY DEF QueryOf, HasList
<1>2. t - 1 \in 0..(t - 1) /\ p + 2 * f + 1 + 2 * (t - 1) = p + 2 * f + 2 * t - 1 /\ p + 2 * f + 2 * t - 1 \in Nat
  BY <1>1
<1>3. TokenAt(text, p + 2 * f + 1 + 2 * (t - 1)) = "id"
  BY <1>1, <1>2 DEF HasList
<1>4. Token(p + 2 * f + 2 * t - 1) # "eof"
  BY <1>2, <1>3 DEF Token
<1>5. p + 2 * f + 2 * t - 1 <= Len(text)
  BY <1>2, <1>4, TokensEnd
<1> DEFINE c == p + 2 * f + 2 * t
<1>6. c \in Nat /\ c > 0 /\ c - 1 <= Len(text) /\ HasCondition(text, c, k)
  BY <1>1, <1>5
<1> HIDE DEF c
<1>7. c + 4 * k - 1 \in 0..Len(text)
  BY <1>6, ConditionInText
<1>8. QED
  BY <1>7 DEF c

-----------------------------------------------------------------------------

\* Each command: what the parser answers is what the grammar reads, either way.
LEMMA QueryAnswer ==
    ASSUME text \in Seq(Vocabulary)
    PROVE  query(1) # 0 <=> \E n \in 0..Len(text) : Reads(n, "query")
<1>1. \A s : IsSentence(s, "query") <=> QueryIn(s, 1)
  BY DEF IsSentence, QueryIn
<1>2. \A n : Reads(n, "query") <=> /\ QueryIn(Beginning(n), 1)
                                   /\ n < Len(text) => \A x \in Endings : ~QueryIn(Longer(n, x), 1)
  BY <1>1 DEF Reads, Beginning, Longer
<1>3. ASSUME query(1) # 0
      PROVE  \E n \in 0..Len(text) : Reads(n, "query")
  <2>1. PICK f, t, k \in Nat : QueryEnds(1, f, t, k)
    BY <1>3, QueryIsOfGrammar
  <2> DEFINE n == 1 + 2 * f + 2 * t + 4 * k - 1
  <2>2. n \in 0..Len(text)
    BY <2>1, QueryInText DEF QueryEnds
  <2>3. n + 1 = 1 + 2 * f + 2 * t + 4 * k
    OBVIOUS
  <2> HIDE DEF n
  <2>4. QueryIn(Beginning(n), 1) /\ (n < Len(text) => \A x \in Endings : ~QueryIn(Longer(n, x), 1))
    BY <2>1, <2>2, <2>3, QueryIsRead, EndingsAre
  <2>5. QED
    BY <1>2, <2>2, <2>4
<1>4. ASSUME NEW n \in 0..Len(text), Reads(n, "query")
      PROVE  query(1) # 0
  <2>1. QueryIn(Beginning(n), 1) /\ (n < Len(text) => \A x \in Endings : ~QueryIn(Longer(n, x), 1))
    BY <1>2, <1>4
  <2>2. PICK f, t, k \in Nat : QueryEnds(1, f, t, k)
    BY <2>1, ReadIsQuery
  <2>3. query(1) = 1 + 2 * f + 2 * t + 4 * k
    BY <2>2, QueryIsOfGrammar
  <2>4. QED
    BY <2>3
<1>5. QED
  BY <1>3, <1>4

\* delete_cmd answers by the grammar, whatever the text.
LEMMA DeleteAnswer ==
    ASSUME text \in Seq(Vocabulary)
    PROVE  /\ delete_cmd \in {"delete", "syntax"}
           /\ delete_cmd = "delete" <=> \E n \in 0..Len(text) : Reads(n, "delete")
           /\ \A n \in 0..Len(text) : Reads(n, "delete") =>
                 Token(1) = "delete" /\ \E k \in Nat : ConditionEnds(4, k) /\ n + 1 = 4 + 4 * k
<1> DEFINE w == <<"delete", "from", "id">>
<1>0. AreWords(w) /\ Len(w) = 3
  BY DEF AreWords
<1>1. delete_cmd = Answer(Where(IF Phrase(text, 1, w) THEN 1 + Len(w) ELSE 0), "delete")
  BY DEF delete_cmd, Consume
<1>2. \A s : IsSentence(s, "delete") <=> Phrase(s, 1, w) /\ ConditionIn(s, 4)
  BY DEF IsSentence, ConditionIn
<1> HIDE DEF w
<1>3. delete_cmd = IF Phrase(text, 1, w) /\ Where(4) # 0 THEN "delete" ELSE "syntax"
  <2>1. Where(0) = 0
    BY NothingAtZero, "eof" \notin {}
  <2>2. QED
    BY <1>0, <1>1, <2>1 DEF Answer
<1>4. ASSUME Phrase(text, 1, w), Where(4) # 0
      PROVE  \E n \in 0..Len(text) : Reads(n, "delete")
  <2>1. PICK k \in Nat : ConditionEnds(4, k)
    BY <1>4, WhereIsOfGrammar
  <2> DEFINE n == 4 + 4 * k - 1
  <2>2. 3 <= Len(text)
    BY <1>0, <1>4, WordsInText
  <2>3. n \in 0..Len(text)
    BY <2>1, <2>2, ConditionInText DEF ConditionEnds
  <2>4. n + 1 = 4 + 4 * k /\ 4 <= n + 1 /\ n \in Nat /\ 3 <= n
    OBVIOUS
  <2> HIDE DEF n
  <2>5. ConditionIn(Beginning(n), 4) /\ (n < Len(text) => \A x \in Endings : ~ConditionIn(Longer(n, x), 4))
    BY <2>1, <2>3, <2>4, ConditionIsRead, EndingsAre
  <2>6. Phrase(Beginning(n), 1, w)
    <3>1. SameTo(text, Beginning(n), n)
      BY <2>3, BeginningIs
    <3>2. QED
      BY <1>0, <1>4, <2>4, <3>1, WordsOfSame
  <2>7. Reads(n, "delete")
    BY <1>2, <2>5, <2>6 DEF Reads, Beginning, Longer
  <2>8. QED
    BY <2>3, <2>7
<1>5. ASSUME NEW n \in 0..Len(text), Reads(n, "delete")
      PROVE  Phrase(text, 1, w) /\ Where(4) # 0
             /\ \E k \in Nat : ConditionEnds(4, k) /\ n + 1 = 4 + 4 * k
  <2>1. Phrase(Beginning(n), 1, w) /\ ConditionIn(Beginning(n), 4)
    BY <1>2, <1>5 DEF Reads, Beginning
  <2>2. n \in Nat /\ Len(Beginning(n)) = n /\ SameTo(Beginning(n), text, n)
    BY BeginningIs
  <2>3. 3 <= n
    BY <2>1, <2>2 DEF ConditionIn
  <2>4. Phrase(text, 1, w)
    <3>1. AreWords(w) /\ Len(w) <= n
      BY <1>0, <2>3
    <3>2. QED
      BY ONLY <2>1, <2>2, <3>1, WordsOfSame
  <2>5. ASSUME n < Len(text), NEW x \in Endings
        PROVE  ~ConditionIn(Longer(n, x), 4)
    <3>1. x \in Seq(Vocabulary)
      BY <2>5, EndingsAre
    <3>2. SameTo(text, Longer(n, x), n + 1) /\ n + 1 \in Nat /\ 3 <= n + 1
      BY <2>2, <2>3, <2>5, <3>1, LongerIs
    <3>3. Phrase(Longer(n, x), 1, w)
      <4>1. AreWords(w) /\ Len(w) <= n + 1
        BY <1>0, <3>2
      <4>2. QED
        BY ONLY <2>4, <3>2, <4>1, WordsOfSame
    <3>4. ~IsSentence(Longer(n, x), "delete")
      BY <1>5, <2>5 DEF Reads, Longer
    <3>5. QED
      BY <1>2, <3>3, <3>4
  <2>6. PICK k \in Nat : ConditionEnds(4, k) /\ n + 1 = 4 + 4 * k
    BY <2>1, <2>5, ReadIsCondition
  <2>7. Where(4) = 4 + 4 * k
    BY <2>6, WhereIsOfGrammar
  <2>8. QED
    BY <2>4, <2>6, <2>7
<1>6. Phrase(text, 1, w) => Token(1) = "delete"
  <2>1. 1 \in DOMAIN w /\ 1 + 1 - 1 = 1 /\ w[1] = "delete"
    BY DEF w
  <2>2. QED
    BY <2>1 DEF Phrase, Token
<1>7. QED
  BY <1>3, <1>4, <1>5, <1>6

\* modify answers by the grammar, whatever the text.
LEMMA ModifyAnswer ==
    ASSUME text \in Seq(Vocabulary)
    PROVE  /\ modify \in {"modify", "syntax"}
           /\ modify = "modify" <=> \E n \in 0..Len(text) : Reads(n, "modify")
           /\ \A n \in 0..Len(text) : Reads(n, "modify") =>
                 Token(1) = "update" /\ \E k \in Nat : ConditionEnds(7, k) /\ n + 1 = 7 + 4 * k
<1> DEFINE w == <<"update", "id", "set", "id", "=">>
<1>0. AreWords(w) /\ Len(w) = 5
  BY DEF AreWords
<1>1. modify = IF Phrase(text, 1, w) /\ TokenAt(text, 6) \in Expressions THEN Answer(Where(7), "modify") ELSE "syntax"
  <2>1. Consume(1, w) = IF Phrase(text, 1, w) THEN 6 ELSE 0
    <3>1. Consume(1, w) = IF 1 # 0 /\ Phrase(text, 1, w) THEN 1 + Len(w) ELSE 0
      BY DEF Consume
    <3>2. 1 + Len(w) = 6
      BY <1>0
    <3>3. QED
      BY <3>1, <3>2
  <2>2. modify = IF Consume(1, w) # 0 /\ Token(Consume(1, w)) \in Expressions THEN Answer(Where(Consume(1, w) + 1), "modify") ELSE "syntax"
    BY DEF modify
  <2> HIDE DEF w
  <2>3. CASE Phrase(text, 1, w)
    BY <2>1, <2>2, <2>3 DEF Token
  <2>4. CASE ~Phrase(text, 1, w)
    BY <2>1, <2>2, <2>4
  <2>5. QED
    BY <2>3, <2>4
<1>2. \A s : IsSentence(s, "modify") <=> Phrase(s, 1, w) /\ TokenAt(s, 6) \in Expressions /\ ConditionIn(s, 7)
  BY DEF IsSentence, ConditionIn
<1> HIDE DEF w
<1>3. modify = IF Phrase(text, 1, w) /\ TokenAt(text, 6) \in Expressions /\ Where(7) # 0 THEN "modify" ELSE "syntax"
  BY <1>1 DEF Answer
<1>4. ASSUME Phrase(text, 1, w), TokenAt(text, 6) \in Expressions, Where(7) # 0
      PROVE  \E n \in 0..Len(text) : Reads(n, "modify")
  <2>1. PICK k \in Nat : ConditionEnds(7, k)
    BY <1>4, WhereIsOfGrammar
  <2> DEFINE n == 7 + 4 * k - 1
  <2>2. 6 <= Len(text)
    <3>1. Token(6) # "eof"
      BY <1>4 DEF Token, Expressions, Constants
    <3>2. QED
      BY <3>1, TokensEnd
  <2>3. n \in 0..Len(text)
    BY <2>1, <2>2, ConditionInText DEF ConditionEnds
  <2>4. n + 1 = 7 + 4 * k /\ 7 <= n + 1 /\ n \in Nat /\ 5 <= n /\ 6 <= n
    OBVIOUS
  <2> HIDE DEF n
  <2>5. ConditionIn(Beginning(n), 7) /\ (n < Len(text) => \A x \in Endings : ~ConditionIn(Longer(n, x), 7))
    BY <2>1, <2>3, <2>4, ConditionIsRead, EndingsAre
  <2>6. Phrase(Beginning(n), 1, w) /\ TokenAt(Beginning(n), 6) \in Expressions
    <3>1. SameTo(text, Beginning(n), n)
      BY <2>3, BeginningIs
    <3>2. Phrase(Beginning(n), 1, w)
      BY <1>0, <1>4, <2>4, <3>1, WordsOfSame
    <3>3. TokenAt(text, 6) = TokenAt(Beginning(n), 6)
      BY <2>4, <3>1 DEF SameTo
    <3>4. QED
      BY <1>4, <3>2, <3>3
  <2>7. Reads(n, "modify")
    BY <1>2, <2>5, <2>6 DEF Reads, Beginning, Longer
  <2>8. QED
    BY <2>3, <2>7
<1>5. ASSUME NEW n \in 0..Len(text), Reads(n, "modify")
      PROVE  Phrase(text, 1, w) /\ TokenAt(text, 6) \in Expressions /\ Where(7) # 0
             /\ \E k \in Nat : ConditionEnds(7, k) /\ n + 1 = 7 + 4 * k
  <2>1. Phrase(Beginning(n), 1, w) /\ TokenAt(Beginning(n), 6) \in Expressions /\ ConditionIn(Beginning(n), 7)
    BY <1>2, <1>5 DEF Reads, Beginning
  <2>2. n \in Nat /\ Len(Beginning(n)) = n /\ SameTo(Beginning(n), text, n)
    BY BeginningIs
  <2>3. 5 <= n /\ 6 <= n
    BY <2>1, <2>2 DEF ConditionIn
  <2>4. Phrase(text, 1, w) /\ TokenAt(text, 6) \in Expressions
    <3>1. Phrase(text, 1, w)
      <4>1. AreWords(w) /\ Len(w) <= n
        BY <1>0, <2>3
      <4>2. QED
        BY ONLY <2>1, <2>2, <4>1, WordsOfSame
    <3>2. TokenAt(Beginning(n), 6) = TokenAt(text, 6)
      BY <2>2, <2>3 DEF SameTo
    <3>3. QED
      BY <2>1, <3>1, <3>2
  <2>5. ASSUME n < Len(text), NEW x \in Endings
        PROVE  ~ConditionIn(Longer(n, x), 7)
    <3>1. x \in Seq(Vocabulary)
      BY <2>5, EndingsAre
    <3>2. SameTo(text, Longer(n, x), n + 1) /\ n + 1 \in Nat /\ 5 <= n + 1 /\ 6 <= n + 1
      BY <2>2, <2>3, <2>5, <3>1, LongerIs
    <3>3. Phrase(Longer(n, x), 1, w) /\ TokenAt(Longer(n, x), 6) \in Expressions
      <4>1. Phrase(Longer(n, x), 1, w)
        <5>1. AreWords(w) /\ Len(w) <= n + 1
          BY <1>0, <3>2
        <5>2. QED
          BY ONLY <2>4, <3>2, <5>1, WordsOfSame
      <4>2. TokenAt(text, 6) = TokenAt(Longer(n, x), 6)
        BY <3>2 DEF SameTo
      <4>3. QED
        BY <2>4, <4>1, <4>2
    <3>4. ~IsSentence(Longer(n, x), "modify")
      BY <1>5, <2>5 DEF Reads, Longer
    <3>5. QED
      BY <1>2, <3>3, <3>4
  <2>6. PICK k \in Nat : ConditionEnds(7, k) /\ n + 1 = 7 + 4 * k
    BY <2>1, <2>5, ReadIsCondition
  <2>7. Where(7) = 7 + 4 * k
    BY <2>6, WhereIsOfGrammar
  <2>8. QED
    BY <2>4, <2>6, <2>7
<1>6. Phrase(text, 1, w) => Token(1) = "update"
  <2>1. 1 \in DOMAIN w /\ 1 + 1 - 1 = 1 /\ w[1] = "update"
    BY DEF w
  <2>2. QED
    BY <2>1 DEF Phrase, Token
<1>7. QED
  BY <1>3, <1>4, <1>5, <1>6

\* Words after the first one.
LEMMA WordsAfter ==
    ASSUME NEW s, NEW w, NEW v, Len(v) \in Nat, DOMAIN w = 1..(Len(v) + 1), DOMAIN v = 1..Len(v),
           \A j \in 1..Len(v) : w[j + 1] = v[j]
    PROVE  Phrase(s, 1, w) <=> TokenAt(s, 1) = w[1] /\ Phrase(s, 2, v)
<1> DEFINE l == Len(v)
<1>0. l \in Nat /\ DOMAIN w = 1..(l + 1) /\ DOMAIN v = 1..l /\ \A j \in 1..l : w[j + 1] = v[j]
  OBVIOUS
<1> HIDE DEF l
<1>1. ASSUME Phrase(s, 1, w)
      PROVE  TokenAt(s, 1) = w[1] /\ Phrase(s, 2, v)
  <2>1. 1 \in 1..(l + 1) /\ 1 + 1 - 1 = 1
    BY <1>0
  <2>2. ASSUME NEW j \in 1..l
        PROVE  TokenAt(s, 2 + j - 1) = v[j]
    <3>1. j + 1 \in 1..(l + 1) /\ 1 + (j + 1) - 1 = 2 + j - 1
      BY <1>0
    <3>2. QED
      BY <1>0, <1>1, <3>1 DEF Phrase
  <2>3. QED
    BY <1>0, <1>1, <2>1, <2>2 DEF Phrase
<1>2. ASSUME TokenAt(s, 1) = w[1], Phrase(s, 2, v)
      PROVE  Phrase(s, 1, w)
  <2>1. ASSUME NEW j \in 1..(l + 1)
        PROVE  TokenAt(s, 1 + j - 1) = w[j]
    <3>1. CASE j = 1
      <4>1. 1 + j - 1 = 1
        BY <3>1
      <4>2. QED
        BY <3>1, <4>1, <1>2
    <3>2. CASE j # 1
      <4>1. j - 1 \in 1..l /\ 2 + (j - 1) - 1 = 1 + j - 1 /\ j - 1 + 1 = j
        BY <1>0, <3>2
      <4>2. TokenAt(s, 2 + (j - 1) - 1) = v[j - 1]
        BY <1>0, <1>2, <4>1 DEF Phrase
      <4>3. w[j - 1 + 1] = v[j - 1]
        BY <1>0, <4>1
      <4>4. QED
        BY <4>1, <4>2, <4>3
    <3>3. QED
      BY <3>1, <3>2
  <2>2. QED
    BY <1>0, <2>1 DEF Phrase
<1>3. QED
  BY <1>1, <1>2

\* create_view_cmd answers by the grammar of what begins with "create".
LEMMA ViewAnswer ==
    ASSUME text \in Seq(Vocabulary), Token(1) = "create"
    PROVE  /\ create_view_cmd \in {"create_view", "syntax"}
           /\ create_view_cmd = "create_view" <=> \E n \in 0..Len(text) : Reads(n, "create_view")
           /\ \A n \in 0..Len(text) : Reads(n, "create_view") =>
                 \E f, t, k \in Nat : QueryEnds(5, f, t, k) /\ n + 1 = 5 + 2 * f + 2 * t + 4 * k
<1> DEFINE w == <<"create", "view", "id", "as">>
           v == <<"view", "id", "as">>
<1>0. AreWords(w) /\ Len(w) = 4
  BY DEF AreWords
<1>1. Phrase(text, 1, w) <=> Phrase(text, 2, v)
  <2>1. Len(v) = 3 /\ DOMAIN w = 1..(3 + 1) /\ DOMAIN v = 1..3 /\ w[1] = "create"
    OBVIOUS
  <2>2. \A j \in 1..3 : w[j + 1] = v[j]
    OBVIOUS
  <2> HIDE DEF w, v
  <2>3. Phrase(text, 1, w) <=> TokenAt(text, 1) = w[1] /\ Phrase(text, 2, v)
    <3>1. Len(v) \in Nat /\ DOMAIN w = 1..(Len(v) + 1) /\ DOMAIN v = 1..Len(v) /\ \A j \in 1..Len(v) : w[j + 1] = v[j]
      BY <2>1, <2>2
    <3>2. QED
      BY <3>1, WordsAfter
  <2>4. QED
    BY <2>1, <2>3 DEF Token
<1>2. create_view_cmd = IF Phrase(text, 1, w) /\ query(5) # 0 THEN "create_view" ELSE "syntax"
  <2>1. Consume(2, v) = IF Phrase(text, 1, w) THEN 5 ELSE 0
    <3>1. Consume(2, v) = IF 2 # 0 /\ Phrase(text, 2, v) THEN 2 + Len(v) ELSE 0
      BY DEF Consume
    <3>2. 2 + Len(v) = 5
      OBVIOUS
    <3>3. QED
      BY <1>1, <3>1, <3>2
  <2>2. create_view_cmd = Answer(query(Consume(2, v)), "create_view")
    BY DEF create_view_cmd
  <2>3. query(0) = 0
    <3>1. Where(0) = 0 /\ Ids(0) = 0
      BY NothingAtZero, "eof" \notin {"id"} DEF Ids
    <3>2. \A x : Consume(0, x) = 0
      BY DEF Consume
    <3>3. QED
      BY <3>1, <3>2 DEF query
  <2> HIDE DEF w, v
  <2>4. QED
    BY <2>1, <2>2, <2>3 DEF Answer
<1>3. \A s : IsSentence(s, "create_view") <=> Phrase(s, 1, w) /\ QueryIn(s, 5)
  BY DEF IsSentence, QueryIn
<1> HIDE DEF w, v
<1>4. ASSUME Phrase(text, 1, w), query(5) # 0
      PROVE  \E n \in 0..Len(text) : Reads(n, "create_view")
  <2>1. PICK f, t, k \in Nat : QueryEnds(5, f, t, k)
    BY <1>4, QueryIsOfGrammar
  <2> DEFINE n == 5 + 2 * f + 2 * t + 4 * k - 1
  <2>2. n \in 0..Len(text)
    BY <2>1, QueryInText DEF QueryEnds
  <2>3. n + 1 = 5 + 2 * f + 2 * t + 4 * k /\ n \in Nat /\ 4 <= n
    OBVIOUS
  <2> HIDE DEF n
  <2>4. QueryIn(Beginning(n), 5) /\ (n < Len(text) => \A x \in Endings : ~QueryIn(Longer(n, x), 5))
    BY <2>1, <2>2, <2>3, QueryIsRead, EndingsAre
  <2>5. Phrase(Beginning(n), 1, w)
    <3>1. SameTo(text, Beginning(n), n)
      BY <2>2, BeginningIs
    <3>2. QED
      BY <1>0, <1>4, <2>3, <3>1, WordsOfSame
  <2>6. Reads(n, "create_view")
    BY <1>3, <2>4, <2>5 DEF Reads, Beginning, Longer
  <2>7. QED
    BY <2>2, <2>6
<1>5. ASSUME NEW n \in 0..Len(text), Reads(n, "create_view")
      PROVE  /\ Phrase(text, 1, w) /\ query(5) # 0
             /\ \E f, t, k \in Nat : QueryEnds(5, f, t, k) /\ n + 1 = 5 + 2 * f + 2 * t + 4 * k
  <2>1. Phrase(Beginning(n), 1, w) /\ QueryIn(Beginning(n), 5)
    BY <1>3, <1>5 DEF Reads, Beginning
  <2>2. n \in Nat /\ Beginning(n) \in Seq(Vocabulary) /\ Len(Beginning(n)) = n /\ SameTo(Beginning(n), text, n)
    BY BeginningIs
  <2>3. 4 <= n
    <3> DEFINE s == Beginning(n)
    <3>1. s \in Seq(Vocabulary) /\ Len(s) = n /\ HasQuery(s, 5, Len(s) + 1)
      BY <2>1, <2>2 DEF QueryIn
    <3> HIDE DEF s
    <3>2. PICK f, t, k \in Nat : QueryOf(s, 5, f, t, k) /\ Len(s) + 1 = 5 + 2 * f + 2 * t + 4 * k
      BY <3>1, HasQueryIs
    <3>3. QED
      BY <3>1, <3>2, <2>2
  <2>4. Phrase(text, 1, w)
    <3>1. AreWords(w) /\ Len(w) <= n
      BY <1>0, <2>3
    <3>2. QED
      BY ONLY <2>1, <2>2, <3>1, WordsOfSame
  <2>5. ASSUME n < Len(text), NEW x \in Endings
        PROVE  ~QueryIn(Longer(n, x), 5)
    <3>1. x \in Seq(Vocabulary)
      BY <2>5, EndingsAre
    <3>2. SameTo(text, Longer(n, x), n + 1) /\ n + 1 \in Nat /\ 4 <= n + 1
      BY <2>2, <2>3, <2>5, <3>1, LongerIs
    <3>3. Phrase(Longer(n, x), 1, w)
      <4>1. AreWords(w) /\ Len(w) <= n + 1
        BY <1>0, <3>2
      <4>2. QED
        BY ONLY <2>4, <3>2, <4>1, WordsOfSame
    <3>4. ~IsSentence(Longer(n, x), "create_view")
      BY <1>5, <2>5 DEF Reads, Longer
    <3>5. QED
      BY <1>3, <3>3, <3>4
  <2>6. PICK f, t, k \in Nat : QueryEnds(5, f, t, k) /\ n + 1 = 5 + 2 * f + 2 * t + 4 * k
    BY <2>1, <2>5, ReadIsQuery
  <2>7. query(5) = 5 + 2 * f + 2 * t + 4 * k
    BY <2>6, QueryIsOfGrammar
  <2>8. QED
    BY <2>4, <2>6, <2>7
<1>6. QED
  BY <1>2, <1>4, <1>5

\* The words the beginning of a text begins with are those of the text.
LEMMA ReadsWords ==
    ASSUME text \in Seq(Vocabulary), NEW n \in 0..Len(text), NEW k \in Nat, TokenAt(Beginning(n), k) # "eof"
    PROVE  Token(k) = TokenAt(Beginning(n), k)
<1> DEFINE s == Beginning(n)
<1>1. n \in Nat /\ s \in Seq(Vocabulary) /\ Len(s) = n /\ SameTo(s, text, n)
  BY BeginningIs
<1> HIDE DEF s
<1>2. k \in 1..n
  BY <1>1 DEF s, TokenAt
<1>3. k > 0 /\ k <= n
  BY <1>1, <1>2
<1>4. QED
  BY <1>1, <1>3 DEF SameTo, Token, s

\* create_index_cmd answers by the grammar of what begins with "create".
LEMMA IndexAnswer ==
    ASSUME text \in Seq(Vocabulary), Token(1) = "create"
    PROVE  /\ create_index_cmd \in {"create_index", "syntax"}
           /\ create_index_cmd = "create_index" <=> \E n \in 0..Len(text) : Reads(n, "create_index")
<1> DEFINE w == <<"create", "index", "id", "on", "id", "(", "id", ")">>
           v == <<"index", "id", "on", "id", "(", "id", ")">>
<1>0. AreWords(w) /\ Len(w) = 8
  BY DEF AreWords
<1>1. Phrase(text, 1, w) <=> Phrase(text, 2, v)
  <2>1. Len(v) = 7 /\ DOMAIN w = 1..(7 + 1) /\ DOMAIN v = 1..7 /\ w[1] = "create"
    OBVIOUS
  <2>2. \A j \in 1..7 : w[j + 1] = v[j]
    <3>1. w[1 + 1] = v[1] /\ w[2 + 1] = v[2] /\ w[3 + 1] = v[3] /\ w[4 + 1] = v[4] /\ w[5 + 1] = v[5] /\ w[6 + 1] = v[6] /\ w[7 + 1] = v[7]
      OBVIOUS
    <3> HIDE DEF w, v
    <3>2. \A j \in 1..7 : j = 1 \/ j = 2 \/ j = 3 \/ j = 4 \/ j = 5 \/ j = 6 \/ j = 7
      OBVIOUS
    <3>3. QED
      BY <3>1, <3>2
  <2> HIDE DEF w, v
  <2>3. Phrase(text, 1, w) <=> TokenAt(text, 1) = w[1] /\ Phrase(text, 2, v)
    <3>1. Len(v) \in Nat /\ DOMAIN w = 1..(Len(v) + 1) /\ DOMAIN v = 1..Len(v) /\ \A j \in 1..Len(v) : w[j + 1] = v[j]
      BY <2>1, <2>2
    <3>2. QED
      BY <3>1, WordsAfter
  <2>4. QED
    BY <2>1, <2>3 DEF Token
<1>2. create_index_cmd = IF Phrase(text, 1, w) THEN "create_index" ELSE "syntax"
  <2>1. Consume(2, v) = IF Phrase(text, 1, w) THEN 9 ELSE 0
    <3>1. Consume(2, v) = IF 2 # 0 /\ Phrase(text, 2, v) THEN 2 + Len(v) ELSE 0
      BY DEF Consume
    <3>2. 2 + Len(v) = 9
      OBVIOUS
    <3>3. QED
      BY <1>1, <3>1, <3>2
  <2>2. create_index_cmd = Answer(Consume(2, v), "create_index")
    BY DEF create_index_cmd
  <2> HIDE DEF w, v
  <2>3. QED
    BY <2>1, <2>2 DEF Answer
<1>3. \A s : IsSentence(s, "create_index") <=> Phrase(s, 1, w) /\ Len(s) + 1 = 9
  BY DEF IsSentence
<1> HIDE DEF w, v
<1>4. ASSUME Phrase(text, 1, w)
      PROVE  \E n \in 0..Len(text) : Reads(n, "create_index")
  <2> DEFINE n == Len(w)
  <2>1. n = 8 /\ n \in Nat
    BY <1>0
  <2>2. n <= Len(text)
    BY <1>0, <1>4, WordsInText
  <2>3. n \in 0..Len(text)
    BY <2>1, <2>2
  <2>4. IsSentence(Beginning(n), "create_index")
    <3>1. Len(Beginning(n)) = n /\ SameTo(text, Beginning(n), n)
      BY <2>3, BeginningIs
    <3>2. Len(w) <= n
      BY <2>1
    <3>3. Phrase(Beginning(n), 1, w)
      BY <1>0, <1>4, <2>1, <3>1, <3>2, WordsOfSame
    <3> HIDE DEF n
    <3>4. Len(Beginning(n)) + 1 = 9
      <4> DEFINE m == Len(Beginning(n))
      <4>1. m = n
        BY <3>1
      <4> HIDE DEF m
      <4>2. m + 1 = 9
        BY <2>1, <4>1
      <4>3. QED
        BY <4>2 DEF m
    <3>5. QED
      BY <1>3, <3>3, <3>4
  <2> HIDE DEF n
  <2>5. ASSUME n < Len(text), NEW x \in Endings
        PROVE  ~IsSentence(Longer(n, x), "create_index")
    <3>1. x \in Seq(Vocabulary)
      BY <2>3, <2>5, EndingsAre
    <3>2. Len(x) \in Nat /\ Len(Longer(n, x)) = n + 1 + Len(x)
      BY <2>3, <2>5, <3>1, LongerIs
    <3>3. Len(Longer(n, x)) + 1 # 9
      BY <2>1, <3>2
    <3>4. QED
      BY <1>3, <3>3
  <2>6. Reads(n, "create_index")
    BY <2>4, <2>5 DEF Reads, Beginning, Longer
  <2>7. QED
    BY <2>3, <2>6
<1>5. ASSUME NEW n \in 0..Len(text), Reads(n, "create_index")
      PROVE  Phrase(text, 1, w)
  <2>1. Phrase(Beginning(n), 1, w) /\ Len(Beginning(n)) + 1 = 9
    BY <1>3, <1>5 DEF Reads, Beginning
  <2>2. n \in Nat /\ Len(Beginning(n)) = n /\ SameTo(Beginning(n), text, n)
    BY BeginningIs
  <2>3. Len(w) <= n
    BY <1>0, <2>1, <2>2
  <2>4. QED
    BY <1>0, <2>1, <2>2, <2>3, WordsOfSame
<1>6. QED
  BY <1>2, <1>4, <1>5

-----------------------------------------------------------------------------

\* An insert of f fields and v values, word by word.
InsertOf(s, f, v) ==
    /\ Phrase(s, 1, <<"insert", "into", "id", "(">>)
    /\ HasList(s, 5, f, {"id"})
    /\ TokenAt(s, 2 * f + 4) = ")" /\ TokenAt(s, 2 * f + 5) = "values" /\ TokenAt(s, 2 * f + 6) = "("
    /\ HasList(s, 2 * f + 7, v, Constants)
    /\ TokenAt(s, 2 * f + 2 * v + 6) = ")"

\* An insert by counts, word by word.
LEMMA InsertIs ==
    ASSUME NEW s, NEW f \in Nat, NEW v \in Nat, NEW q
    PROVE  HasInsert(s, q, f, v) <=> InsertOf(s, f, v) /\ q = 2 * f + 2 * v + 7
<1>1. 2 * f + 4 \in Nat /\ 2 * f + 4 + 1 = 2 * f + 5 /\ 2 * f + 4 + 2 = 2 * f + 6 /\ 2 * f + 2 * v + 6 \in Nat
  OBVIOUS
<1>2. Phrase(s, 2 * f + 4, <<")", "values", "(">>)
        <=> TokenAt(s, 2 * f + 4) = ")" /\ TokenAt(s, 2 * f + 5) = "values" /\ TokenAt(s, 2 * f + 6) = "("
  <2>1. Phrase(s, 2 * f + 4, <<")", "values", "(">>)
        <=> TokenAt(s, 2 * f + 4) = ")" /\ TokenAt(s, 2 * f + 4 + 1) = "values" /\ TokenAt(s, 2 * f + 4 + 2) = "("
    BY <1>1, PhraseOf3
  <2>2. QED
    BY <1>1, <2>1
<1>3. Phrase(s, 2 * f + 2 * v + 6, <<")">>) <=> TokenAt(s, 2 * f + 2 * v + 6) = ")"
  BY <1>1, PhraseOf1
<1>4. QED
  BY <1>2, <1>3 DEF HasInsert, InsertOf

\* An insert is one in whatever has the same tokens to its end.
LEMMA InsertOfSame ==
    ASSUME NEW s, NEW u, NEW f \in Nat, NEW v \in Nat, NEW m \in Nat, SameTo(s, u, m), 2 * f + 2 * v + 6 <= m,
           InsertOf(s, f, v)
    PROVE  InsertOf(u, f, v)
<1> DEFINE w == <<"insert", "into", "id", "(">>
<1>1. AreWords(w) /\ Len(w) = 4
  BY DEF AreWords
<1>2. Phrase(s, 1, w) /\ HasList(s, 5, f, {"id"}) /\ HasList(s, 2 * f + 7, v, Constants)
  BY DEF InsertOf
<1>3. f > 0 /\ v > 0
  BY <1>2 DEF HasList
<1> HIDE DEF w
<1>4. Len(w) <= m
  BY <1>1, <1>3
<1>5. Phrase(u, 1, w)
  BY <1>1, <1>2, <1>4, WordsOfSame
<1>6. HasList(u, 5, f, {"id"})
  <2> DEFINE a == 5
             ids == {"id"}
  <2>1. a \in Nat /\ a > 0 /\ a + 2 * f - 2 <= m /\ HasList(s, a, f, ids)
    BY <1>2, <1>3
  <2> HIDE DEF a, ids
  <2>2. HasList(u, a, f, ids)
    BY <2>1, ListOfSame
  <2>3. QED
    BY <2>2 DEF a, ids
<1>7. HasList(u, 2 * f + 7, v, Constants)
  <2>1. 2 * f + 7 \in Nat /\ 2 * f + 7 > 0 /\ 2 * f + 7 + 2 * v - 2 <= m
    BY <1>3
  <2>2. QED
    BY <1>2, <2>1, ListOfSame
<1>8. /\ 2 * f + 4 \in Nat /\ 2 * f + 4 > 0 /\ 2 * f + 4 <= m
      /\ 2 * f + 5 \in Nat /\ 2 * f + 5 > 0 /\ 2 * f + 5 <= m
      /\ 2 * f + 6 \in Nat /\ 2 * f + 6 > 0 /\ 2 * f + 6 <= m
      /\ 2 * f + 2 * v + 6 \in Nat /\ 2 * f + 2 * v + 6 > 0
  BY <1>3
<1>9. /\ TokenAt(u, 2 * f + 4) = ")" /\ TokenAt(u, 2 * f + 5) = "values" /\ TokenAt(u, 2 * f + 6) = "("
      /\ TokenAt(u, 2 * f + 2 * v + 6) = ")"
  BY <1>8 DEF InsertOf, SameTo
<1>10. QED
  BY <1>5, <1>6, <1>7, <1>9 DEF InsertOf, w

\* An insert has its fields and its values in one way, and nothing goes on from it.
LEMMA InsertsMeet ==
    ASSUME NEW s, NEW u, NEW f \in Nat, NEW v \in Nat, NEW g \in Nat, NEW w \in Nat, NEW m \in Nat,
           SameTo(s, u, m), SameTo(u, s, m), m = 2 * f + 2 * v + 6, InsertOf(s, f, v), InsertOf(u, g, w),
           2 * g + 2 * w >= 2 * f + 2 * v
    PROVE  f = g /\ v = w
<1> DEFINE a == 5
           ids == {"id"}
<1>1. a \in Nat /\ a > 0 /\ a + 2 * f - 1 = 2 * f + 4 /\ a + 2 * g - 1 = 2 * g + 4
  OBVIOUS
<1>2. HasList(s, a, f, ids) /\ HasList(u, a, g, ids)
  BY DEF InsertOf
<1> HIDE DEF a, ids
<1>3. f > 0 /\ g > 0 /\ v > 0 /\ w > 0
  BY DEF InsertOf, HasList
<1>4. ~(f < g)
  <2>1. SUFFICES ASSUME f < g PROVE FALSE
    OBVIOUS
  <2>2. a + 2 * f - 1 <= m
    BY <1>1, <1>3
  <2>3. TokenAt(s, a + 2 * f - 1) = "comma"
    <3>1. g > f /\ f \in Nat /\ g \in Nat /\ m \in Nat /\ SameTo(s, u, m)
      BY <2>1
    <3>2. QED
      BY ONLY <1>1, <1>2, <1>3, <2>2, <3>1, ListsMeet
  <2>4. QED
    BY <1>1, <2>3 DEF InsertOf
<1>5. ~(g < f)
  <2>1. SUFFICES ASSUME g < f PROVE FALSE
    OBVIOUS
  <2>2. a + 2 * g - 1 <= m
    BY <1>1, <1>3, <2>1
  <2>3. TokenAt(u, a + 2 * g - 1) = "comma"
    <3>1. f > g /\ f \in Nat /\ g \in Nat /\ m \in Nat /\ SameTo(u, s, m)
      BY <2>1
    <3>2. QED
      BY ONLY <1>1, <1>2, <1>3, <2>2, <3>1, ListsMeet
  <2>4. QED
    BY <1>1, <2>3 DEF InsertOf
<1>6. f = g
  BY <1>4, <1>5
<1> DEFINE b == 2 * f + 7
<1>7. b \in Nat /\ b > 0 /\ b + 2 * v - 1 = m /\ b + 2 * w - 1 = 2 * f + 2 * w + 6
  OBVIOUS
<1>8. HasList(u, b, w, Constants) /\ TokenAt(s, m) = ")"
  BY <1>6 DEF InsertOf
<1> HIDE DEF b
<1>9. ~(v < w)
  <2>1. SUFFICES ASSUME v < w PROVE FALSE
    OBVIOUS
  <2>2. b + 2 * v - 1 <= m
    BY <1>7
  <2>3. TokenAt(s, b + 2 * v - 1) = "comma"
    BY <1>3, <1>7, <1>8, <2>1, <2>2, ListsMeet
  <2>4. QED
    BY <1>7, <1>8, <2>3
<1>10. QED
  BY <1>6, <1>9

\* What insert_cmd answers, by the fields and the values there are.
LEMMA InsertReads ==
    ASSUME text \in Seq(Vocabulary)
    PROVE  /\ \A f, v \in Nat : InsertOf(text, f, v) => insert_cmd = IF v < f THEN "overrun" ELSE "insert"
           /\ insert_cmd # "syntax" => \E f, v \in Nat : InsertOf(text, f, v)
<1> DEFINE w == <<"insert", "into", "id", "(">>
           c == <<")", "values", "(">>
           z == <<")">>
           ids == {"id"}
           a == 5
           fields == List(Consume(1, w), ids)
           vals == List(Consume(fields.end, c), Constants)
<1>0. /\ Consume(1, w) = IF Phrase(text, 1, w) THEN 1 + 4 ELSE 0
      /\ \A p : Consume(p, c) = IF p # 0 /\ Phrase(text, p, c) THEN p + 3 ELSE 0
      /\ \A p : Consume(p, z) = IF p # 0 /\ Phrase(text, p, z) THEN p + 1 ELSE 0
  <2>1. Len(w) = 4 /\ Len(c) = 3 /\ Len(z) = 1
    OBVIOUS
  <2>2. QED
    BY <2>1 DEF Consume
<1>1. insert_cmd = Answer(Consume(vals.end, z), IF vals.items < fields.items THEN "overrun" ELSE "insert")
  BY DEF insert_cmd
<1>2. "eof" \notin ids /\ "eof" \notin Constants
  BY DEF Constants
<1>3. List(0, ids).end = 0 /\ List(0, Constants).end = 0
  <2> HIDE DEF ids
  <2>1. QED
    BY <1>2, NothingAtZero
<1>4. a \in Nat /\ a = 1 + 4
  OBVIOUS
<1> HIDE DEF w, c, z, ids, a
<1>5. ASSUME NEW f \in Nat, NEW v \in Nat, InsertOf(text, f, v)
      PROVE  insert_cmd = IF v < f THEN "overrun" ELSE "insert"
  <2>1. /\ Phrase(text, 1, w) /\ HasList(text, a, f, ids) /\ HasList(text, 2 * f + 7, v, Constants)
        /\ Token(2 * f + 4) = ")" /\ Token(2 * f + 5) = "values" /\ Token(2 * f + 6) = "(" /\ Token(2 * f + 2 * v + 6) = ")"
    BY <1>5 DEF InsertOf, w, a, ids, Token
  <2>2. a + 2 * f - 1 = 2 * f + 4 /\ 2 * f + 4 \in Nat /\ 2 * f + 4 # 0 /\ 2 * f + 4 + 1 = 2 * f + 5 /\ 2 * f + 4 + 2 = 2 * f + 6 /\ 2 * f + 4 + 3 = 2 * f + 7
    BY <1>4
  <2>3. fields = [end |-> 2 * f + 4, items |-> f]
    <3>1. ListEnds(a, f, ids)
      BY <2>1, <2>2 DEF ListEnds
    <3>2. List(a, ids) = [end |-> a + 2 * f - 1, items |-> f]
      BY <1>2, <1>4, <3>1, ListIsOfGrammar
    <3>3. Consume(1, w) = a
      BY <1>0, <1>4, <2>1
    <3>4. QED
      BY <2>2, <3>2, <3>3
  <2>4. Consume(fields.end, c) = 2 * f + 7
    <3>1. Phrase(text, 2 * f + 4, c)
      <4>1. TokenAt(text, 2 * f + 4) = ")" /\ TokenAt(text, 2 * f + 4 + 1) = "values" /\ TokenAt(text, 2 * f + 4 + 2) = "("
        BY <2>1, <2>2 DEF Token
      <4>2. QED
        BY <2>2, <4>1, PhraseOf3 DEF c
    <3>2. fields.end = 2 * f + 4
      BY <2>3
    <3> HIDE DEF fields
    <3>3. QED
      BY <1>0, <2>2, <3>1, <3>2
  <2>5. 2 * f + 7 \in Nat /\ 2 * f + 7 + 2 * v - 1 = 2 * f + 2 * v + 6 /\ 2 * f + 2 * v + 6 \in Nat /\ 2 * f + 2 * v + 6 # 0
    OBVIOUS
  <2>6. vals = [end |-> 2 * f + 2 * v + 6, items |-> v]
    <3>1. Token(2 * f + 7 + 2 * v - 1) # "comma"
      BY <2>1, <2>5
    <3>2. ListEnds(2 * f + 7, v, Constants)
      BY <2>1, <3>1 DEF ListEnds
    <3>3. List(2 * f + 7, Constants) = [end |-> 2 * f + 7 + 2 * v - 1, items |-> v]
      BY <1>2, <2>5, <3>2, ListIsOfGrammar
    <3> HIDE DEF fields
    <3>4. QED
      BY <2>4, <2>5, <3>3
  <2>7. vals.end = 2 * f + 2 * v + 6 /\ vals.items = v
    BY <2>6
  <2>8. fields.items = f
    BY <2>3
  <2> HIDE DEF fields, vals
  <2>9. Consume(vals.end, z) = 2 * f + 2 * v + 6 + 1
    <3>1. Phrase(text, 2 * f + 2 * v + 6, z)
      BY <2>1, <2>5, PhraseOf1 DEF z, Token
    <3>2. QED
      BY <1>0, <2>5, <2>7, <3>1
  <2>10. Consume(vals.end, z) # 0
    BY <2>9
  <2>11. QED
    BY <1>1, <2>7, <2>8, <2>10 DEF Answer
<1>6. ASSUME insert_cmd # "syntax"
      PROVE  \E f, v \in Nat : InsertOf(text, f, v)
  <2>1. Consume(vals.end, z) # 0
    <3> HIDE DEF vals, fields
    <3>1. QED
      BY <1>1, <1>6 DEF Answer
  <2>2. vals.end # 0 /\ Phrase(text, vals.end, z)
    <3> HIDE DEF vals, fields
    <3>1. QED
      BY <1>0, <2>1
  <2>3. Consume(fields.end, c) # 0
    <3> HIDE DEF fields
    <3>1. QED
      BY <1>3, <2>2
  <2>4. fields.end # 0 /\ Phrase(text, fields.end, c) /\ Consume(fields.end, c) = fields.end + 3
    <3> HIDE DEF fields
    <3>1. QED
      BY <1>0, <2>3
  <2>5. Consume(1, w) = a /\ Phrase(text, 1, w)
    <3>1. Consume(1, w) # 0
      BY <1>3, <2>4
    <3>2. QED
      BY <1>0, <1>4, <3>1
  <2>6. List(a, ids).end # 0
    BY <2>4, <2>5
  <2>7. PICK f \in Nat : ListEnds(a, f, ids)
    BY <1>2, <1>4, <2>6, ListIsOfGrammar
  <2>8. fields.end = 2 * f + 4
    <3>1. List(a, ids) = [end |-> a + 2 * f - 1, items |-> f]
      BY <1>2, <1>4, <2>7, ListIsOfGrammar
    <3>2. a + 2 * f - 1 = 2 * f + 4
      BY <1>4
    <3>3. QED
      BY <2>5, <3>1, <3>2
  <2> HIDE DEF fields
  <2>9. 2 * f + 4 \in Nat /\ 2 * f + 4 + 3 = 2 * f + 7 /\ 2 * f + 7 \in Nat /\ 2 * f + 4 + 1 = 2 * f + 5 /\ 2 * f + 4 + 2 = 2 * f + 6
    OBVIOUS
  <2>10. vals = List(2 * f + 7, Constants)
    BY <2>4, <2>8, <2>9
  <2>11. List(2 * f + 7, Constants).end # 0
    BY <2>2, <2>10
  <2>12. PICK v \in Nat : ListEnds(2 * f + 7, v, Constants)
    BY <1>2, <2>9, <2>11, ListIsOfGrammar
  <2>13. vals.end = 2 * f + 2 * v + 6
    <3>1. List(2 * f + 7, Constants) = [end |-> 2 * f + 7 + 2 * v - 1, items |-> v]
      BY <1>2, <2>9, <2>12, ListIsOfGrammar
    <3>2. 2 * f + 7 + 2 * v - 1 = 2 * f + 2 * v + 6
      OBVIOUS
    <3>3. QED
      BY <2>10, <3>1, <3>2
  <2> HIDE DEF vals
  <2>14. TokenAt(text, 2 * f + 2 * v + 6) = ")"
    <3>1. 2 * f + 2 * v + 6 \in Nat
      OBVIOUS
    <3>2. QED
      BY <2>2, <2>13, <3>1, PhraseOf1 DEF z
  <2>15. TokenAt(text, 2 * f + 4) = ")" /\ TokenAt(text, 2 * f + 5) = "values" /\ TokenAt(text, 2 * f + 6) = "("
    <3>1. TokenAt(text, 2 * f + 4) = ")" /\ TokenAt(text, 2 * f + 4 + 1) = "values" /\ TokenAt(text, 2 * f + 4 + 2) = "("
      BY <2>4, <2>8, <2>9, PhraseOf3 DEF c
    <3>2. QED
      BY <2>9, <3>1
  <2>16. InsertOf(text, f, v)
    BY <2>5, <2>7, <2>12, <2>14, <2>15 DEF InsertOf, ListEnds, w, a, ids
  <2>17. QED
    BY <2>16
<1>7. QED
  BY <1>5, <1>6

\* The sentences of an insert, with values for its fields and with too few.
LEMMA InsertInIs ==
    ASSUME NEW s \in Seq(Vocabulary)
    PROVE  /\ IsSentence(s, "insert") <=> \E f, v \in Nat : f <= v /\ InsertOf(s, f, v) /\ Len(s) = 2 * f + 2 * v + 6
           /\ IsSentence(s, "overrun") <=> \E f, v \in Nat : f > v /\ InsertOf(s, f, v) /\ Len(s) = 2 * f + 2 * v + 6
<1> DEFINE e == Len(s)
<1>1. e \in Nat
  OBVIOUS
<1>2. /\ IsSentence(s, "insert") <=> \E f \in 1..e, v \in 1..e : f <= v /\ HasInsert(s, e + 1, f, v)
      /\ IsSentence(s, "overrun") <=> \E f \in 1..e, v \in 1..e : f > v /\ HasInsert(s, e + 1, f, v)
  BY DEF IsSentence
<1> HIDE DEF e
<1>3. ASSUME NEW f \in 1..e, NEW v \in 1..e, HasInsert(s, e + 1, f, v)
      PROVE  f \in Nat /\ v \in Nat /\ InsertOf(s, f, v) /\ e = 2 * f + 2 * v + 6
  <2>1. f \in Nat /\ v \in Nat
    BY <1>1
  <2>2. InsertOf(s, f, v) /\ e + 1 = 2 * f + 2 * v + 7
    BY <1>3, <2>1, InsertIs
  <2>3. QED
    BY <1>1, <2>1, <2>2
<1>4. ASSUME NEW f \in Nat, NEW v \in Nat, InsertOf(s, f, v), e = 2 * f + 2 * v + 6
      PROVE  f \in 1..e /\ v \in 1..e /\ HasInsert(s, e + 1, f, v)
  <2>1. f > 0 /\ v > 0
    BY <1>4 DEF InsertOf, HasList
  <2>2. e + 1 = 2 * f + 2 * v + 7 /\ f \in 1..e /\ v \in 1..e
    BY <1>1, <1>4, <2>1
  <2>3. QED
    BY <1>4, <2>2, InsertIs
<1>5. QED
  BY <1>2, <1>3, <1>4 DEF e

\* Nothing goes on from an insert.
LEMMA InsertIsEnd ==
    ASSUME text \in Seq(Vocabulary), NEW f \in Nat, NEW v \in Nat, InsertOf(text, f, v),
           NEW n \in 0..Len(text), n = 2 * f + 2 * v + 6, n < Len(text),
           NEW x \in Seq(Vocabulary), NEW c \in {"insert", "overrun"}
    PROVE  ~IsSentence(Longer(n, x), c)
<1> DEFINE u == Longer(n, x)
           l == Len(x)
<1>1. u \in Seq(Vocabulary) /\ l \in Nat /\ Len(u) = n + 1 + l /\ SameTo(u, text, n + 1) /\ SameTo(text, u, n + 1)
  BY LongerIs
<1> HIDE DEF u, l
<1>2. SUFFICES ASSUME IsSentence(u, c) PROVE FALSE
  BY DEF u
<1>3. PICK g, w \in Nat : InsertOf(u, g, w) /\ Len(u) = 2 * g + 2 * w + 6
  BY <1>1, <1>2, InsertInIs
<1>4. SameTo(text, u, n) /\ SameTo(u, text, n)
  BY <1>1 DEF SameTo
<1>5. n \in Nat /\ 2 * g + 2 * w >= 2 * f + 2 * v
  BY <1>1, <1>3
<1>6. f = g /\ v = w
  <2> DEFINE m == 2 * f + 2 * v + 6
  <2>1. m \in Nat /\ m = 2 * f + 2 * v + 6 /\ SameTo(text, u, m) /\ SameTo(u, text, m)
    BY <1>4, <1>5
  <2>2. f \in Nat /\ v \in Nat /\ g \in Nat /\ w \in Nat /\ InsertOf(text, f, v) /\ InsertOf(u, g, w)
    BY <1>3
  <2>3. 2 * g + 2 * w >= 2 * f + 2 * v
    BY <1>5
  <2> HIDE DEF m
  <2>4. QED
    BY ONLY <2>1, <2>2, <2>3, InsertsMeet
<1>7. QED
  BY <1>1, <1>3, <1>6

\* An insert the parser has read is a sentence that nothing goes on from.
LEMMA InsertIsRead ==
    ASSUME text \in Seq(Vocabulary), NEW f \in Nat, NEW v \in Nat, InsertOf(text, f, v)
    PROVE  \E n \in 0..Len(text) : Reads(n, IF v < f THEN "overrun" ELSE "insert")
<1> DEFINE n == 2 * f + 2 * v + 6
           c == IF v < f THEN "overrun" ELSE "insert"
           s == Beginning(n)
<1>1. n \in Nat /\ n > 0
  OBVIOUS
<1>2. n \in 0..Len(text)
  <2>1. Token(n) # "eof"
    BY DEF InsertOf, Token
  <2> HIDE DEF n
  <2>2. QED
    BY <1>1, <2>1, TokensEnd
<1>3. s \in Seq(Vocabulary) /\ Len(s) = n /\ SameTo(text, s, n)
  BY <1>2, BeginningIs
<1>4. InsertOf(s, f, v)
  <2> HIDE DEF s
  <2>1. QED
    BY <1>1, <1>3, InsertOfSame
<1>5. IsSentence(s, c)
  <2> HIDE DEF s
  <2>1. CASE v < f
    <3>1. f > v /\ Len(s) = 2 * f + 2 * v + 6
      BY <1>3, <2>1
    <3>2. IsSentence(s, "overrun")
      BY <1>3, <1>4, <3>1, InsertInIs
    <3>3. QED
      BY <2>1, <3>2
  <2>2. CASE ~(v < f)
    <3>1. f <= v /\ Len(s) = 2 * f + 2 * v + 6
      BY <1>3, <2>2
    <3>2. IsSentence(s, "insert")
      BY <1>3, <1>4, <3>1, InsertInIs
    <3>3. QED
      BY <2>2, <3>2
  <2>3. QED
    BY <2>1, <2>2
<1>6. ASSUME n < Len(text), NEW x \in Endings
      PROVE  ~IsSentence(Longer(n, x), c)
  <2>1. x \in Seq(Vocabulary) /\ c \in {"insert", "overrun"} /\ n = 2 * f + 2 * v + 6
    BY <1>2, <1>6, EndingsAre
  <2> HIDE DEF n, c
  <2>2. QED
    BY <1>2, <1>6, <2>1, InsertIsEnd
<1>7. Reads(n, c)
  <2> HIDE DEF n
  <2>1. QED
    BY <1>5, <1>6 DEF Reads, Beginning, Longer
<1>8. QED
  BY <1>2, <1>7

\* An insert that is read is one the text begins with.
LEMMA ReadIsInsert ==
    ASSUME text \in Seq(Vocabulary), NEW n \in 0..Len(text), NEW c \in {"insert", "overrun"}, Reads(n, c)
    PROVE  \E f, v \in Nat : InsertOf(text, f, v) /\ n = 2 * f + 2 * v + 6 /\ c = IF v < f THEN "overrun" ELSE "insert"
<1> DEFINE s == Beginning(n)
<1>1. n \in Nat /\ s \in Seq(Vocabulary) /\ Len(s) = n /\ SameTo(s, text, n)
  BY BeginningIs
<1>2. IsSentence(s, c)
  BY DEF Reads, Beginning
<1> HIDE DEF s
<1>3. \E f, v \in Nat : InsertOf(s, f, v) /\ Len(s) = 2 * f + 2 * v + 6 /\ c = IF v < f THEN "overrun" ELSE "insert"
  <2>1. CASE c = "insert"
    <3>1. PICK f, v \in Nat : f <= v /\ InsertOf(s, f, v) /\ Len(s) = 2 * f + 2 * v + 6
      BY <1>1, <1>2, <2>1, InsertInIs
    <3>2. ~(v < f)
      BY <3>1
    <3>3. QED
      BY <2>1, <3>1, <3>2
  <2>2. CASE c = "overrun"
    <3>1. PICK f, v \in Nat : f > v /\ InsertOf(s, f, v) /\ Len(s) = 2 * f + 2 * v + 6
      BY <1>1, <1>2, <2>2, InsertInIs
    <3>2. v < f
      BY <3>1
    <3>3. QED
      BY <2>2, <3>1, <3>2
  <2>3. QED
    BY <2>1, <2>2
<1>4. PICK f, v \in Nat : InsertOf(s, f, v) /\ Len(s) = 2 * f + 2 * v + 6 /\ c = IF v < f THEN "overrun" ELSE "insert"
  BY <1>3
<1>5. InsertOf(text, f, v)
  <2>1. 2 * f + 2 * v + 6 <= n
    BY <1>1, <1>4
  <2>2. QED
    BY <1>1, <1>4, <2>1, InsertOfSame
<1>6. QED
  BY <1>1, <1>4, <1>5

\* insert_cmd answers by the grammar, whatever the text.
LEMMA InsertAnswer ==
    ASSUME text \in Seq(Vocabulary)
    PROVE  /\ insert_cmd \in {"insert", "overrun", "syntax"}
           /\ \A c \in {"insert", "overrun"} :
                 /\ insert_cmd = c <=> \E n \in 0..Len(text) : Reads(n, c)
                 /\ \A n \in 0..Len(text) : Reads(n, c) => Token(1) = "insert"
<1>1. insert_cmd # "syntax" => \E f, v \in Nat : InsertOf(text, f, v) /\ insert_cmd = IF v < f THEN "overrun" ELSE "insert"
  <2>1. SUFFICES ASSUME insert_cmd # "syntax"
                 PROVE  \E f, v \in Nat : InsertOf(text, f, v) /\ insert_cmd = IF v < f THEN "overrun" ELSE "insert"
    OBVIOUS
  <2>2. PICK f, v \in Nat : InsertOf(text, f, v)
    BY <2>1, InsertReads
  <2>3. insert_cmd = IF v < f THEN "overrun" ELSE "insert"
    BY <2>2, InsertReads
  <2>4. QED
    BY <2>2, <2>3
<1>2. insert_cmd \in {"insert", "overrun", "syntax"}
  BY <1>1
<1>3. ASSUME NEW c \in {"insert", "overrun"}, insert_cmd = c
      PROVE  \E n \in 0..Len(text) : Reads(n, c)
  <2>1. PICK f, v \in Nat : InsertOf(text, f, v) /\ c = IF v < f THEN "overrun" ELSE "insert"
    BY <1>1, <1>3
  <2>2. QED
    BY <2>1, InsertIsRead
<1>4. ASSUME NEW c \in {"insert", "overrun"}, NEW n \in 0..Len(text), Reads(n, c)
      PROVE  insert_cmd = c /\ Token(1) = "insert"
  <2>1. PICK f, v \in Nat : InsertOf(text, f, v) /\ c = IF v < f THEN "overrun" ELSE "insert"
    BY <1>4, ReadIsInsert
  <2>2. insert_cmd = c
    BY <2>1, InsertReads
  <2>3. Token(1) = "insert"
    <3> DEFINE w == <<"insert", "into", "id", "(">>
    <3>1. 1 \in DOMAIN w /\ 1 + 1 - 1 = 1 /\ w[1] = "insert" /\ Phrase(text, 1, w)
      BY <2>1 DEF InsertOf
    <3> HIDE DEF w
    <3>2. QED
      BY <3>1 DEF Phrase, Token
  <2>4. QED
    BY <2>2, <2>3
<1>5. QED
  BY <1>2, <1>3, <1>4

\* The first column of a table ends the program.
LEMMA TableAnswer ==
    ASSUME text \in Seq(Vocabulary), Token(1) = "create"
    PROVE  /\ create_table_cmd \in {"crash", "syntax"}
           /\ create_table_cmd = "crash" <=> HasColumn
<1> DEFINE v == <<"table", "id", "(", "id">>
           z == <<"varchar", "(", "num", ")">>
           a == <<"create", "table", "id", "(", "id", "int">>
           b == <<"create", "table", "id", "(", "id", "varchar", "(", "num", ")">>
           Begins == Token(2) = "table" /\ Token(3) = "id" /\ Token(4) = "(" /\ Token(5) = "id"
           Varchar == Token(6) = "varchar" /\ Token(7) = "(" /\ Token(8) = "num" /\ Token(9) = ")"
<1>1. Phrase(text, 2, v) <=> Begins
  <2>1. DOMAIN v = {1, 2, 3, 4} /\ v[1] = "table" /\ v[2] = "id" /\ v[3] = "(" /\ v[4] = "id"
    OBVIOUS
  <2>2. 2 + 1 - 1 = 2 /\ 2 + 2 - 1 = 3 /\ 2 + 3 - 1 = 4 /\ 2 + 4 - 1 = 5
    OBVIOUS
  <2> HIDE DEF v
  <2>3. QED
    BY <2>1, <2>2 DEF Phrase, Token
<1>2. Phrase(text, 6, z) <=> Varchar
  <2>1. DOMAIN z = {1, 2, 3, 4} /\ z[1] = "varchar" /\ z[2] = "(" /\ z[3] = "num" /\ z[4] = ")"
    OBVIOUS
  <2>2. 6 + 1 - 1 = 6 /\ 6 + 2 - 1 = 7 /\ 6 + 3 - 1 = 8 /\ 6 + 4 - 1 = 9
    OBVIOUS
  <2> HIDE DEF z
  <2>3. QED
    BY <2>1, <2>2 DEF Phrase, Token
<1>3. Phrase(text, 1, a) <=> Begins /\ Token(6) = "int"
  <2>1. DOMAIN a = {1, 2, 3, 4, 5, 6} /\ a[1] = "create" /\ a[2] = "table" /\ a[3] = "id" /\ a[4] = "(" /\ a[5] = "id" /\ a[6] = "int"
    OBVIOUS
  <2>2. 1 + 1 - 1 = 1 /\ 1 + 2 - 1 = 2 /\ 1 + 3 - 1 = 3 /\ 1 + 4 - 1 = 4 /\ 1 + 5 - 1 = 5 /\ 1 + 6 - 1 = 6
    OBVIOUS
  <2> HIDE DEF a
  <2>3. QED
    BY <2>1, <2>2 DEF Phrase, Token
<1>4. Phrase(text, 1, b) <=> Begins /\ Varchar
  <2>1. /\ DOMAIN b = {1, 2, 3, 4, 5, 6, 7, 8, 9} /\ b[1] = "create" /\ b[2] = "table" /\ b[3] = "id" /\ b[4] = "(" /\ b[5] = "id"
        /\ b[6] = "varchar" /\ b[7] = "(" /\ b[8] = "num" /\ b[9] = ")"
    OBVIOUS
  <2>2. /\ 1 + 1 - 1 = 1 /\ 1 + 2 - 1 = 2 /\ 1 + 3 - 1 = 3 /\ 1 + 4 - 1 = 4 /\ 1 + 5 - 1 = 5 /\ 1 + 6 - 1 = 6
        /\ 1 + 7 - 1 = 7 /\ 1 + 8 - 1 = 8 /\ 1 + 9 - 1 = 9
    OBVIOUS
  <2> HIDE DEF b
  <2>3. QED
    BY <2>1, <2>2 DEF Phrase, Token
<1>5. HasColumn <=> Phrase(text, 1, a) \/ Phrase(text, 1, b)
  BY DEF HasColumn, Columns
<1>6. Len(v) = 4 /\ Len(z) = 4
  OBVIOUS
<1>7. create_table_cmd = LET p == Consume(2, v) IN
                         IF p # 0 /\ Token(p) = "int" THEN "crash" ELSE Answer(Consume(p, z), "crash")
  BY DEF create_table_cmd
<1> HIDE DEF v, z, a, b
<1>8. CASE Begins
  <2>1. Consume(2, v) = 6
    BY <1>1, <1>6, <1>8 DEF Consume
  <2>2. Consume(6, z) = IF Varchar THEN 10 ELSE 0
    BY <1>2, <1>6 DEF Consume
  <2>3. create_table_cmd = IF Token(6) = "int" \/ Varchar THEN "crash" ELSE "syntax"
    BY <1>7, <2>1, <2>2 DEF Answer
  <2>4. QED
    BY <1>3, <1>4, <1>5, <1>8, <2>3
<1>9. CASE ~Begins
  <2>1. Consume(2, v) = 0
    BY <1>1, <1>9 DEF Consume
  <2>2. Consume(0, z) = 0
    BY DEF Consume
  <2>3. create_table_cmd = "syntax"
    BY <1>7, <2>1, <2>2 DEF Answer
  <2>4. QED
    BY <1>3, <1>4, <1>5, <1>9, <2>3
<1>10. QED
  BY <1>8, <1>9

\* What is read as a command begins with its words.
LEMMA CreateReads ==
    ASSUME text \in Seq(Vocabulary), NEW n \in 0..Len(text)
    PROVE  /\ Reads(n, "create_view") => Token(1) = "create" /\ Token(2) = "view"
           /\ Reads(n, "create_index") => Token(1) = "create" /\ Token(2) = "index"
<1> DEFINE s == Beginning(n)
           w == <<"create", "view", "id", "as">>
           v == <<"create", "index", "id", "on", "id", "(", "id", ")">>
<1>1. 1 \in DOMAIN w /\ 2 \in DOMAIN w /\ w[1] = "create" /\ w[2] = "view"
  OBVIOUS
<1>2. 1 \in DOMAIN v /\ 2 \in DOMAIN v /\ v[1] = "create" /\ v[2] = "index"
  OBVIOUS
<1>3. IsSentence(s, "create_view") => Phrase(s, 1, w)
  BY DEF IsSentence
<1>4. IsSentence(s, "create_index") => Phrase(s, 1, v)
  BY DEF IsSentence
<1>5. \A c : Reads(n, c) => IsSentence(s, c)
  BY DEF Reads, Beginning
<1>6. 1 + 1 - 1 = 1 /\ 1 + 2 - 1 = 2
  OBVIOUS
<1> HIDE DEF w, v, s
<1>7. Phrase(s, 1, w) => TokenAt(s, 1) = "create" /\ TokenAt(s, 2) = "view"
  BY <1>1, <1>6 DEF Phrase
<1>8. Phrase(s, 1, v) => TokenAt(s, 1) = "create" /\ TokenAt(s, 2) = "index"
  BY <1>2, <1>6 DEF Phrase
<1>9. \A k \in Nat : TokenAt(s, k) # "eof" => Token(k) = TokenAt(s, k)
  BY ReadsWords DEF s
<1>10. QED
  BY <1>3, <1>4, <1>5, <1>7, <1>8, <1>9

\* update_cmd chooses the command the grammar has for the text: the first words tell them apart.
LEMMA UpdateAnswer ==
    ASSUME text \in Seq(Vocabulary)
    PROVE  /\ update_cmd \in Updates \cup {"crash", "syntax"}
           /\ \A c \in Updates : update_cmd = c <=> \E n \in 0..Len(text) : Reads(n, c)
           /\ update_cmd = "crash" <=> HasColumn
<1> DEFINE Read(c) == \E n \in 0..Len(text) : Reads(n, c)
<1>1. Read("insert") \/ Read("overrun") => Token(1) = "insert"
  BY InsertAnswer
<1>2. Read("delete") => Token(1) = "delete"
  BY DeleteAnswer
<1>3. Read("modify") => Token(1) = "update"
  BY ModifyAnswer
<1>4. Read("create_view") => Token(1) = "create" /\ Token(2) = "view"
  BY CreateReads
<1>5. Read("create_index") => Token(1) = "create" /\ Token(2) = "index"
  BY CreateReads
<1>6. HasColumn => Token(1) = "create" /\ Token(2) = "table"
  <2> DEFINE a == <<"create", "table", "id", "(", "id", "int">>
             b == <<"create", "table", "id", "(", "id", "varchar", "(", "num", ")">>
  <2>1. 1 \in DOMAIN a /\ 2 \in DOMAIN a /\ a[1] = "create" /\ a[2] = "table"
    OBVIOUS
  <2>2. 1 \in DOMAIN b /\ 2 \in DOMAIN b /\ b[1] = "create" /\ b[2] = "table"
    OBVIOUS
  <2>3. HasColumn => Phrase(text, 1, a) \/ Phrase(text, 1, b)
    BY DEF HasColumn, Columns
  <2>4. 1 + 1 - 1 = 1 /\ 1 + 2 - 1 = 2
    OBVIOUS
  <2> HIDE DEF a, b
  <2>5. QED
    BY <2>1, <2>2, <2>3, <2>4 DEF Phrase, Token
<1>7. /\ insert_cmd \in {"insert", "overrun", "syntax"}
      /\ insert_cmd = "insert" <=> Read("insert")
      /\ insert_cmd = "overrun" <=> Read("overrun")
  BY InsertAnswer
<1>8. delete_cmd \in {"delete", "syntax"} /\ (delete_cmd = "delete" <=> Read("delete"))
  BY DeleteAnswer
<1>9. modify \in {"modify", "syntax"} /\ (modify = "modify" <=> Read("modify"))
  BY ModifyAnswer
<1>10. Token(1) = "create" => /\ create_view_cmd \in {"create_view", "syntax"}
                              /\ create_view_cmd = "create_view" <=> Read("create_view")
  BY ViewAnswer
<1>11. Token(1) = "create" => /\ create_index_cmd \in {"create_index", "syntax"}
                              /\ create_index_cmd = "create_index" <=> Read("create_index")
  BY IndexAnswer
<1>12. Token(1) = "create" => /\ create_table_cmd \in {"crash", "syntax"}
                              /\ create_table_cmd = "crash" <=> HasColumn
  BY TableAnswer
<1> HIDE DEF Read
<1>13. update_cmd =
         CASE Token(1) = "insert" -> insert_cmd
           [] Token(1) = "delete" -> delete_cmd
           [] Token(1) = "update" -> modify
           [] Token(1) = "create" /\ Token(2) = "table" -> create_table_cmd
           [] Token(1) = "create" /\ Token(2) = "view" -> create_view_cmd
           [] Token(1) = "create" /\ Token(2) \notin {"table", "view"} -> create_index_cmd
           [] OTHER -> "syntax"
  BY DEF update_cmd
<1>14. /\ update_cmd \in Updates \cup {"crash", "syntax"}
       /\ \A c \in Updates : update_cmd = c <=> Read(c)
       /\ update_cmd = "crash" <=> HasColumn
  <2>1. CASE Token(1) = "insert"
    <3>1. update_cmd = insert_cmd
      BY <1>13, <2>1
    <3>2. QED
      BY <3>1, <2>1, <1>1, <1>2, <1>3, <1>4, <1>5, <1>6, <1>7 DEF Updates
  <2>2. CASE Token(1) = "delete"
    <3>1. update_cmd = delete_cmd
      BY <1>13, <2>2
    <3>2. QED
      BY <3>1, <2>2, <1>1, <1>2, <1>3, <1>4, <1>5, <1>6, <1>8 DEF Updates
  <2>3. CASE Token(1) = "update"
    <3>1. update_cmd = modify
      BY <1>13, <2>3
    <3>2. QED
      BY <3>1, <2>3, <1>1, <1>2, <1>3, <1>4, <1>5, <1>6, <1>9 DEF Updates
  <2>4. CASE Token(1) = "create" /\ Token(2) = "table"
    <3>1. update_cmd = create_table_cmd
      BY <1>13, <2>4
    <3>2. QED
      BY <3>1, <2>4, <1>1, <1>2, <1>3, <1>4, <1>5, <1>6, <1>12 DEF Updates
  <2>5. CASE Token(1) = "create" /\ Token(2) = "view"
    <3>1. update_cmd = create_view_cmd
      BY <1>13, <2>5
    <3>2. QED
      BY <3>1, <2>5, <1>1, <1>2, <1>3, <1>4, <1>5, <1>6, <1>10 DEF Updates
  <2>6. CASE Token(1) = "create" /\ Token(2) \notin {"table", "view"}
    <3>1. update_cmd = create_index_cmd
      BY <1>13, <2>6
    <3>2. QED
      BY <3>1, <2>6, <1>1, <1>2, <1>3, <1>4, <1>5, <1>6, <1>11 DEF Updates
  <2>7. CASE Token(1) \notin {"insert", "delete", "update", "create"}
    <3>1. update_cmd = "syntax"
      BY <1>13, <2>7
    <3>2. QED
      BY <3>1, <2>7, <1>1, <1>2, <1>3, <1>4, <1>5, <1>6 DEF Updates
  <2>8. QED
    BY <2>1, <2>2, <2>3, <2>4, <2>5, <2>6, <2>7
<1>15. QED
  BY <1>14 DEF Read

-----------------------------------------------------------------------------

\* No longer beginning of the text is the beginning of a sentence of the command, however that
\* sentence goes on: the two endings of Reads stand for all of them.
THEOREM NothingLongerIsRead ==
    ASSUME text \in Seq(Vocabulary), NEW n \in 0..Len(text), n < Len(text),
           NEW c \in {"query"} \cup Updates, Reads(n, c), NEW x \in Seq(Vocabulary)
    PROVE  ~IsSentence(SubSeq(text, 1, n + 1) \o x, c)
<1>1. SUFFICES ~IsSentence(Longer(n, x), c)
  BY DEF Longer
<1>2. n \in Nat
  OBVIOUS
<1>3. CASE c = "query"
  <2>1. \A s : IsSentence(s, "query") <=> QueryIn(s, 1)
    BY DEF IsSentence, QueryIn
  <2>2. QueryIn(Beginning(n), 1) /\ \A y \in Endings : ~QueryIn(Longer(n, y), 1)
    BY <1>3, <2>1 DEF Reads, Beginning, Longer
  <2> DEFINE p == 1
  <2>3. p \in Nat /\ p > 0 /\ QueryIn(Beginning(n), p) /\ \A y \in Endings : ~QueryIn(Longer(n, y), p)
    BY <2>2
  <2> HIDE DEF p
  <2>4. PICK f, t, k \in Nat : QueryEnds(p, f, t, k) /\ n + 1 = p + 2 * f + 2 * t + 4 * k
    BY <2>3, ReadIsQuery
  <2>5. ~QueryIn(Longer(n, x), p)
    BY <2>3, <2>4, QueryIsRead
  <2>6. QED
    BY <1>3, <2>1, <2>5 DEF p
<1>4. CASE c = "create_view"
  <2>1. \A s : IsSentence(s, "create_view") => QueryIn(s, 5)
    BY DEF IsSentence, QueryIn
  <2>2. Token(1) = "create"
    BY <1>4, CreateReads
  <2> DEFINE p == 5
  <2>3. p \in Nat /\ p > 0
    OBVIOUS
  <2>4. PICK f, t, k \in Nat : QueryEnds(p, f, t, k) /\ n + 1 = p + 2 * f + 2 * t + 4 * k
    BY <1>4, <2>2, ViewAnswer
  <2> HIDE DEF p
  <2>5. ~QueryIn(Longer(n, x), p)
    BY <2>3, <2>4, QueryIsRead
  <2>6. QED
    BY <1>4, <2>1, <2>5 DEF p
<1>5. CASE c = "delete"
  <2>1. \A s : IsSentence(s, "delete") => ConditionIn(s, 4)
    BY DEF IsSentence, ConditionIn
  <2> DEFINE p == 4
  <2>2. p \in Nat /\ p > 0
    OBVIOUS
  <2>3. PICK k \in Nat : ConditionEnds(p, k) /\ n + 1 = p + 4 * k
    BY <1>5, DeleteAnswer
  <2> HIDE DEF p
  <2>4. p <= n + 1
    BY <2>2, <2>3
  <2>5. ~ConditionIn(Longer(n, x), p)
    BY <2>2, <2>3, <2>4, ConditionIsRead
  <2>6. QED
    BY <1>5, <2>1, <2>5 DEF p
<1>6. CASE c = "modify"
  <2>1. \A s : IsSentence(s, "modify") => ConditionIn(s, 7)
    BY DEF IsSentence, ConditionIn
  <2> DEFINE p == 7
  <2>2. p \in Nat /\ p > 0
    OBVIOUS
  <2>3. PICK k \in Nat : ConditionEnds(p, k) /\ n + 1 = p + 4 * k
    BY <1>6, ModifyAnswer
  <2> HIDE DEF p
  <2>4. p <= n + 1
    BY <2>2, <2>3
  <2>5. ~ConditionIn(Longer(n, x), p)
    BY <2>2, <2>3, <2>4, ConditionIsRead
  <2>6. QED
    BY <1>6, <2>1, <2>5 DEF p
<1>7. CASE c \in {"insert", "overrun"}
  <2>1. PICK f, v \in Nat : InsertOf(text, f, v) /\ n = 2 * f + 2 * v + 6
    BY <1>7, ReadIsInsert
  <2>2. QED
    BY <1>7, <2>1, InsertIsEnd
<1>8. CASE c = "create_index"
  <2>1. \A s : IsSentence(s, "create_index") => Len(s) + 1 = 9
    BY DEF IsSentence
  <2>2. Len(Beginning(n)) + 1 = 9 /\ Len(Beginning(n)) = n
    BY <1>8, <2>1, BeginningIs DEF Reads, Beginning
  <2>3. Len(x) \in Nat /\ Len(Longer(n, x)) = n + 1 + Len(x)
    BY LongerIs
  <2>4. Len(Longer(n, x)) + 1 # 9
    BY <1>2, <2>2, <2>3
  <2>5. QED
    BY <1>8, <2>1, <2>4
<1>9. QED
  BY <1>3, <1>4, <1>5, <1>6, <1>7, <1>8 DEF Updates

-----------------------------------------------------------------------------

\* The texts are of tokens, and an answer is what the rules make of the text.
ParserInv ==
    /\ text \in Seq(Vocabulary)
    /\ asked \in {"query", "update"}
    /\ AnswerIsOfGrammar

\* What is left of a statement is of tokens.
LEMMA RestOfTokens ==
    ASSUME NEW stmt \in Seq(Vocabulary), NEW start \in 1..(Len(stmt) + 1), NEW cut
    PROVE  Rest(stmt, start, cut) \in Seq(Vocabulary)
<1>1. SubSeq(stmt, start, Len(stmt)) \in Seq(Vocabulary)
  BY SubSeqProperties
<1>2. SubSeq(stmt, start + 1, Len(stmt)) \in Seq(Vocabulary)
  <2>1. CASE start <= Len(stmt)
    BY <2>1, SubSeqProperties
  <2>2. CASE ~(start <= Len(stmt))
    <3>1. Len(stmt) < start + 1
      BY <2>2
    <3>2. QED
      BY <3>1, SubSeqProperties
  <2>3. QED
    BY <2>1, <2>2
<1>3. <<"id">> \in Seq(Vocabulary)
  <2>1. "id" \in Vocabulary
    BY DEF Vocabulary, Words
  <2>2. QED
    BY <2>1
<1>4. <<"id">> \o SubSeq(stmt, start + 1, Len(stmt)) \in Seq(Vocabulary)
  BY <1>2, <1>3, ConcatProperties
<1>5. QED
  BY <1>1, <1>4 DEF Rest

\* Nothing has been answered at first.
LEMMA ParserInvInit == InitParser => ParserInv
<1>1. <<>> \in Seq(Vocabulary)
  BY EmptySeq
<1>2. QED
  BY <1>1 DEF InitParser, ParserInv, AnswerIsOfGrammar

\* Every answer is made from the text that is kept until the next statement.
LEMMA ParserInvStep == ParserInv /\ [NextParser]_parserVars => ParserInv'
<1> SUFFICES ASSUME ParserInv, [NextParser]_parserVars PROVE ParserInv'
  OBVIOUS
<1>0. text \in Seq(Vocabulary) /\ asked \in {"query", "update"}
  BY DEF ParserInv
<1>1. ASSUME NEW stmt \in Statements, NEW caller \in {"query", "update"}, analyze(stmt, caller)
      PROVE  ParserInv'
  <2>1. stmt \in Seq(Vocabulary)
    BY ParserAssumption
  <2>2. text' \in Seq(Vocabulary)
    BY <1>1, <2>1, RestOfTokens DEF analyze
  <2>3. asked' \in {"query", "update"} /\ answer' = "reading"
    BY <1>1 DEF analyze
  <2>4. AnswerIsOfGrammar'
    BY <2>3 DEF AnswerIsOfGrammar
  <2>5. QED
    BY <2>2, <2>3, <2>4 DEF ParserInv
<1> DEFINE Right(a) == LET commands == IF asked = "query" THEN {"query"} ELSE Updates
                       IN \/ a \in commands /\ \E n \in 0..Len(text) : Reads(n, a)
                          \/ a = "crash" /\ asked = "update" /\ HasColumn
                          \/ /\ a = "syntax"
                             /\ \A c \in commands : \A n \in 0..Len(text) : ~Reads(n, c)
                             /\ asked = "update" => ~HasColumn
<1>2. ASSUME UNCHANGED <<fresh, text, asked>>, answer' = answer \/ Right(answer')
      PROVE  ParserInv'
  <2>1. \A n, c : Reads(n, c)' <=> Reads(n, c)
    BY <1>2 DEF Reads
  <2>2. HasColumn' <=> HasColumn
    BY <1>2 DEF HasColumn
  <2>3. AnswerIsOfGrammar'
    BY <1>2, <2>1, <2>2 DEF ParserInv, AnswerIsOfGrammar
  <2>4. QED
    BY <1>0, <1>2, <2>3 DEF ParserInv
<1>3. CASE create_query_plan
  <2>1. /\ UNCHANGED <<fresh, text, asked>> /\ asked = "query"
        /\ answer' = IF query(1) = 0 THEN "syntax" ELSE "query"
    BY <1>3 DEF create_query_plan, Answer
  <2>2. Right(answer')
    BY <1>0, <2>1, QueryAnswer
  <2>3. QED
    BY <1>2, <2>1, <2>2
<1>4. CASE execute_update
  <2>1. UNCHANGED <<fresh, text, asked>> /\ asked = "update" /\ answer' = update_cmd
    BY <1>4 DEF execute_update
  <2>2. Right(update_cmd)
    <3>1. /\ update_cmd \in Updates \cup {"crash", "syntax"}
          /\ \A c \in Updates : update_cmd = c <=> \E n \in 0..Len(text) : Reads(n, c)
          /\ update_cmd = "crash" <=> HasColumn
      BY <1>0, UpdateAnswer
    <3>2. "crash" \notin Updates /\ "syntax" \notin Updates
      BY DEF Updates
    <3>3. QED
      BY <2>1, <3>1, <3>2
  <2>3. QED
    BY <1>2, <2>1, <2>2
<1>5. CASE UNCHANGED parserVars
  <2>1. UNCHANGED <<fresh, text, asked>> /\ answer' = answer
    BY <1>5 DEF parserVars
  <2>2. QED
    BY <1>2, <2>1
<1>6. QED
  BY <1>1, <1>3, <1>4, <1>5 DEF NextParser

\* A command or query is made of every text whose longest beginning in the grammar is a sentence,
\* of that sentence and of no other, and every other text is a syntax error or the crash of a
\* first column: for statements of any length, in any order, and from any place in them.
THEOREM ParserAnswersOfGrammar == ParserSpec => []AnswerIsOfGrammar
<1>1. ParserInv => AnswerIsOfGrammar
  BY DEF ParserInv
<1>2. QED
  BY <1>1, ParserInvInit, ParserInvStep, PTL DEF ParserSpec
=============================================================================
