---------------------------- MODULE QueriesProofs ----------------------------
(* What holds of products in chunks, for inputs of any size and any number   *)
(* of buffers; of statements and predicates, for any schemas, rows,          *)
(* predicates and statements; and of sorting, grouping and the joins, for    *)
(* any tables.                                                               *)
EXTENDS Products, Selection, Materialize, FiniteSetTheorems, SequenceTheorems, WellFoundedInduction, TLAPS

-----------------------------------------------------------------------------
(* The size of a chunk.                                                    *)

Most == IF available > 3 THEN available - 2 ELSE 1

\* What is known of i and k while best_factor looks for a size, and after it.
FactorOK ==
    /\ pc = "factor" => i >= 1 /\ (avail <= 1 => k = 1)
    /\ pc \notin {"none", "factor"} => k <= Most
    /\ pc # "none" /\ size > 0 => k >= 1

LEMMA CeilIsPositive ==
    ASSUME NEW m \in Nat, NEW n \in Nat, n >= 1
    PROVE  Ceil(m, n) \in Nat /\ (m >= 1 => Ceil(m, n) >= 1)
<1> DEFINE q == (m + n - 1) \div n
<1>1. q \in Int /\ n * q <= m + n - 1 /\ m + n - 1 < n * q + n
  OBVIOUS
<1>2. q >= 0
  <2> SUFFICES ASSUME q <= -1 PROVE FALSE
    BY <1>1
  <2>1. n * q <= n * (-1)
    BY <1>1
  <2>2. QED
    BY <1>1, <2>1
<1>3. ASSUME m >= 1 PROVE q >= 1
  <2> SUFFICES ASSUME q = 0 PROVE FALSE
    BY <1>1, <1>2
  <2>1. n * q = 0
    OBVIOUS
  <2>2. QED
    BY <1>1, <1>3, <2>1
<1>4. QED
  BY <1>1, <1>2, <1>3 DEF Ceil

-----------------------------------------------------------------------------
(* The chunks.                                                             *)

\* The chunk is the blocks before m_next_blk_num, no more than a factor of them.
ChunkOK ==
    /\ pc \in {"idle", "looking", "chunk"} /\ HasChunk => last = next_blk - 1
    /\ pc \in {"looking", "chunk"} => HasChunk
    /\ pc = "first" => next_blk = 0
    /\ HasChunk => last - first < Most
    /\ ~threw => pinned = IF pc = "closed" THEN {} ELSE Chunk

Shape == TypeOK /\ FactorOK /\ ChunkOK

LEMMA ShapeInit == Init => Shape
<1> SUFFICES ASSUME Init PROVE Shape
  OBVIOUS
<1>1. TypeOK
  <2>1. left \in Nat /\ size \in Nat /\ MaxPer \in Nat
    BY ProductAssumption DEF Init
  <2>2. first = -1 /\ last = -1 /\ ~HasChunk
    BY DEF Init, HasChunk
  <2>3. next_blk \in 0 .. size /\ l \in 1 .. left + 1 /\ rec \in 0 .. MaxPer
    BY <2>1 DEF Init
  <2>4. QED
    BY <2>2, <2>3 DEF Init, TypeOK
<1>2. FactorOK
  BY DEF Init, FactorOK
<1>3. ChunkOK
  BY DEF Init, ChunkOK, HasChunk, Chunk
<1>4. QED
  BY <1>1, <1>2, <1>3 DEF Shape

LEMMA NewChunkShape ==
    ASSUME Shape, NEW to \in {"idle", "looking"}, pc \in {"first", "chunk"},
           NewChunk(to), UNCHANGED seen
    PROVE  Shape'
<1> USE DEF Shape
<1>1. /\ next_blk \in Nat /\ next_blk < size /\ size \in Nat
      /\ k \in Nat /\ k >= 1 /\ k <= Most /\ available \in Nat
  BY ProductAssumption DEF NewChunk, TypeOK, FactorOK
<1>2. /\ End \in Nat /\ End >= next_blk /\ End < size
      /\ End - next_blk < Most
  BY <1>1 DEF End, Most
<1>3. UNCHANGED <<left, size, per, available, i, k, threw, given, twice, ended, overrun,
                 strayed>>
  BY DEF NewChunk, seen, input, factor
<1>4. /\ first' = next_blk /\ last' = End /\ next_blk' = End + 1
      /\ l' = 1 /\ b' = next_blk /\ rec' = 0 /\ pc' = to
      /\ pinned' = (pinned \ Chunk) \cup next_blk .. End
  BY DEF NewChunk
<1>5. pinned' \subseteq Blocks'
  <2>1. pinned \subseteq Blocks
    BY DEF TypeOK
  <2>2. next_blk .. End \subseteq Blocks
    BY <1>1, <1>2 DEF Blocks
  <2>3. Blocks' = Blocks
    BY <1>3 DEF Blocks
  <2>4. QED
    BY <1>4, <2>1, <2>2, <2>3
<1>6. first' \in Blocks' /\ last' \in Blocks' /\ HasChunk' /\ Chunk' = next_blk .. End
  BY <1>1, <1>2, <1>3, <1>4 DEF Blocks, HasChunk, Chunk
<1>7. TypeOK'
  <2>1. left \in Nat /\ MaxPer \in Nat
    BY ProductAssumption DEF TypeOK
  <2>2. Blocks' = Blocks
    BY <1>3 DEF Blocks
  <2>3. /\ next_blk' \in 0 .. size' /\ first' <= last' /\ b' \in Chunk'
        /\ l' \in 1 .. left' + 1 /\ b' \in Nat /\ rec' \in 0 .. MaxPer
    BY <1>1, <1>2, <1>3, <1>4, <1>6, <2>1
  <2>4. QED
    BY <1>3, <1>4, <1>5, <1>6, <2>2, <2>3 DEF TypeOK
<1>8. FactorOK'
  BY <1>3, <1>4 DEF FactorOK, Most, avail
<1>9. ChunkOK'
  <2>1. ~threw => pinned = Chunk
    BY DEF ChunkOK
  <2>2. ~threw' => pinned' = Chunk'
    BY <1>3, <1>4, <1>6, <2>1
  <2>3. last' = next_blk' - 1 /\ last' - first' < Most'
    BY <1>1, <1>2, <1>3, <1>4 DEF Most
  <2>4. QED
    BY <1>3, <1>4, <1>6, <2>2, <2>3 DEF ChunkOK
<1>10. QED
  BY <1>7, <1>8, <1>9

LEMMA ShapeStep == Shape /\ [Next]_vars => Shape'
<1> SUFFICES ASSUME Shape, [Next]_vars PROVE Shape'
  OBVIOUS
<1> USE DEF Shape
<1> DEFINE Same == UNCHANGED <<left, size, per, available>>
<1>0. /\ left \in Nat /\ size \in Nat /\ available \in Nat /\ MaxPer \in Nat
      /\ next_blk \in Nat
  BY ProductAssumption DEF TypeOK
<1>1. CASE open
  <2>1. /\ Same /\ UNCHANGED <<chunk, place, pinned, seen, threw>>
        /\ pc = "none" /\ pc' = "factor" /\ i' = 1
        /\ k' = IF avail <= 1 THEN 1 ELSE size
    BY <1>1 DEF open, input
  <2>2. TypeOK'
    BY <1>0, <2>1 DEF TypeOK, Blocks, HasChunk, Chunk, chunk, place, seen
  <2>3. FactorOK'
    BY <1>0, <2>1 DEF FactorOK, avail
  <2>4. ChunkOK'
    BY <2>1 DEF ChunkOK, HasChunk, Chunk, Most, chunk
  <2>5. QED
    BY <2>2, <2>3, <2>4
<1>2. CASE best_factor
  <2>1. /\ Same /\ UNCHANGED <<pc, chunk, place, pinned, seen, threw>>
        /\ pc = "factor" /\ i' = i + 1 /\ k' = Ceil(size, i') /\ avail > 1
    BY <1>2 DEF best_factor, input, TooLarge
  <2>2. i' \in Nat /\ i' >= 1
    BY <2>1 DEF TypeOK, FactorOK
  <2>3. k' \in Nat /\ (size >= 1 => k' >= 1)
    BY <1>0, <2>1, <2>2, CeilIsPositive
  <2>4. TypeOK'
    BY <2>1, <2>2, <2>3 DEF TypeOK, Blocks, HasChunk, Chunk, chunk, place, seen
  <2>5. FactorOK'
    BY <1>0, <2>1, <2>2, <2>3 DEF FactorOK, avail
  <2>6. ChunkOK'
    BY <2>1 DEF ChunkOK, HasChunk, Chunk, Most, chunk
  <2>7. QED
    BY <2>4, <2>5, <2>6
<1>3. CASE before_first
  <2>1. /\ Same /\ UNCHANGED <<i, k, first, last, place, pinned, threw>>
        /\ pc = "idle" \/ (pc = "factor" /\ ~TooLarge)
        /\ pc' = "first" /\ next_blk' = 0 /\ given' = {}
        /\ twice' = FALSE /\ ended' = FALSE /\ overrun' = FALSE /\ strayed' = FALSE
    BY <1>3 DEF before_first, input, factor
  <2>2. next_blk' \in 0 .. size
    BY <1>0, <2>1
  <2>3. TypeOK'
    BY <2>1, <2>2 DEF TypeOK, Blocks, HasChunk, Chunk, place
  <2>4. k <= Most
    <3>1. CASE pc = "idle"
      BY <3>1 DEF FactorOK
    <3>2. CASE pc = "factor" /\ ~TooLarge
      <4>1. k \in Nat
        BY DEF TypeOK
      <4>2. QED
        BY <1>0, <3>2, <4>1 DEF FactorOK, TooLarge, avail, Most
    <3>3. QED
      BY <2>1, <3>1, <3>2
  <2>5. FactorOK'
    BY <2>1, <2>4 DEF FactorOK, Most
  <2>6. ChunkOK'
    BY <2>1 DEF ChunkOK, HasChunk, Chunk, Most
  <2>7. QED
    BY <2>3, <2>5, <2>6
<1>4. ASSUME ChunkThrows, pc \in {"first", "chunk"} PROVE Shape'
  <2>1. /\ Same /\ UNCHANGED <<i, k, chunk, place, seen>>
        /\ pc' = "threw" /\ threw' = TRUE /\ next_blk < size
    BY <1>4 DEF ChunkThrows, input, factor
  <2>2. PICK j \in next_blk .. End + 1 : pinned' = (pinned \ Chunk) \cup next_blk .. (j - 1)
    BY <1>4 DEF ChunkThrows
  <2>3. k \in Nat /\ pinned \subseteq Blocks
    BY DEF TypeOK
  <2>4. next_blk .. (j - 1) \subseteq Blocks
    BY <1>0, <2>1, <2>3 DEF End, Blocks
  <2>5. pinned' \subseteq Blocks
    BY <2>2, <2>3, <2>4
  <2>6. TypeOK'
    BY <2>1, <2>5 DEF TypeOK, Blocks, HasChunk, Chunk, chunk, place, seen
  <2>7. FactorOK'
    BY <1>4, <2>1 DEF FactorOK, Most
  <2>8. ChunkOK'
    BY <2>1 DEF ChunkOK, HasChunk, Chunk, Most, chunk
  <2>9. QED
    BY <2>6, <2>7, <2>8
<1>5. CASE FirstChunk
  <2>1. pc = "first"
    BY <1>5 DEF FirstChunk
  <2>2. CASE NewChunk("idle") /\ UNCHANGED seen
    BY <2>1, <2>2, NewChunkShape
  <2>3. CASE ChunkThrows
    BY <1>4, <2>1, <2>3
  <2>4. CASE ~(NewChunk("idle") /\ UNCHANGED seen) /\ ~ChunkThrows
    <3>1. /\ Same /\ UNCHANGED <<i, k, chunk, place, pinned, seen, threw>>
          /\ pc' = "idle" /\ next_blk >= size
      BY <1>5, <2>4 DEF FirstChunk, input, factor
    <3>2. ~HasChunk
      BY <1>0, <2>1, <3>1 DEF ChunkOK, TypeOK, Blocks, HasChunk
    <3>3. TypeOK'
      BY <3>1 DEF TypeOK, Blocks, HasChunk, Chunk, chunk, place, seen
    <3>4. FactorOK'
      BY <2>1, <3>1 DEF FactorOK, Most
    <3>5. ChunkOK'
      BY <2>1, <3>1, <3>2 DEF ChunkOK, HasChunk, Chunk, Most, chunk
    <3>6. QED
      BY <3>3, <3>4, <3>5
  <2>5. QED
    BY <2>2, <2>3, <2>4
<1>6. CASE NextChunk
  <2>1. pc = "chunk"
    BY <1>6 DEF NextChunk
  <2>2. CASE NewChunk("looking") /\ UNCHANGED seen
    BY <2>1, <2>2, NewChunkShape
  <2>3. CASE ChunkThrows
    BY <1>4, <2>1, <2>3
  <2>4. CASE ~(NewChunk("looking") /\ UNCHANGED seen) /\ ~ChunkThrows
    <3>1. /\ Same /\ UNCHANGED <<i, k, chunk, place, pinned, given, twice, overrun, strayed,
                                 threw>>
          /\ pc' = "idle" /\ ended' = TRUE
      BY <1>6, <2>4 DEF NextChunk, input, factor
    <3>2. TypeOK'
      BY <3>1 DEF TypeOK, Blocks, HasChunk, Chunk, chunk, place
    <3>3. FactorOK'
      BY <2>1, <3>1 DEF FactorOK, Most
    <3>4. ChunkOK'
      BY <2>1, <3>1 DEF ChunkOK, HasChunk, Chunk, Most, chunk
    <3>5. QED
      BY <3>2, <3>3, <3>4
  <2>5. QED
    BY <2>2, <2>3, <2>4
<1>7. CASE next
  <2>1. /\ Same /\ UNCHANGED <<i, k, chunk, place, pinned, given, twice, ended, strayed, threw>>
        /\ pc = "idle" /\ pc' = IF HasChunk THEN "looking" ELSE "crashed"
        /\ overrun' = (overrun \/ ended)
    BY <1>7 DEF next, input, factor
  <2>2. overrun' \in BOOLEAN
    BY <2>1 DEF TypeOK
  <2>3. TypeOK'
    BY <2>1, <2>2 DEF TypeOK, Blocks, HasChunk, Chunk, chunk, place
  <2>4. FactorOK'
    BY <2>1 DEF FactorOK, Most
  <2>5. ChunkOK'
    BY <2>1 DEF ChunkOK, HasChunk, Chunk, Most, chunk
  <2>6. QED
    BY <2>3, <2>4, <2>5
<1>8. ASSUME pc = "looking", Same, UNCHANGED <<i, k, chunk, pinned, threw>>,
             pc' \in {"idle", "chunk", "crashed", "threw"}, l' \in 1 .. left + 1,
             b' \in Chunk, rec' \in 0 .. MaxPer, {twice', strayed'} \subseteq BOOLEAN,
             UNCHANGED <<ended, overrun>>
      PROVE  Shape'
  <2>1. Chunk \subseteq Nat /\ HasChunk
    BY <1>8 DEF ChunkOK, Chunk, HasChunk, TypeOK, Blocks
  <2>2. TypeOK'
    BY <1>8, <2>1 DEF TypeOK, Blocks, HasChunk, Chunk, chunk
  <2>3. FactorOK'
    BY <1>8 DEF FactorOK, Most
  <2>4. ChunkOK'
    BY <1>8 DEF ChunkOK, HasChunk, Chunk, Most, chunk
  <2>5. QED
    BY <2>2, <2>3, <2>4
<1>9. ASSUME NEW p, Gives(p)
      PROVE  /\ Same /\ UNCHANGED <<i, k, chunk, pinned, threw, ended, overrun, strayed>>
             /\ pc' = "idle" /\ twice' \in BOOLEAN /\ strayed' \in BOOLEAN
  BY <1>9 DEF Gives, TypeOK, input, factor
<1>10. ASSUME NEW c \in Chunk, NEW t \in 1 .. per[c], HasChunk PROVE t \in 0 .. MaxPer
  <2>1. c \in Blocks
    BY <1>0, <1>10 DEF Chunk, TypeOK, Blocks, HasChunk
  <2>2. per[c] \in 0 .. MaxPer
    BY <2>1 DEF TypeOK
  <2>3. QED
    BY <1>0, <2>2
<1>11. CASE NextRight
  <2>1. pc = "looking" /\ l' = l /\ HasChunk
    BY <1>11 DEF NextRight, ChunkOK
  <2>2. PICK c \in Chunk : \E t \in 1 .. per[c] : b' = c /\ rec' = t /\ Gives(<<l, c, t>>)
    BY <1>11 DEF NextRight
  <2>3. PICK t \in 1 .. per[c] : b' = c /\ rec' = t /\ Gives(<<l, c, t>>)
    BY <2>2
  <2>4. l' \in 1 .. left + 1 /\ rec' \in 0 .. MaxPer
    BY <1>10, <2>1, <2>3 DEF TypeOK
  <2>5. QED
    BY <1>8, <1>9, <2>1, <2>3, <2>4
<1>12. CASE NextLeft
  <2>1. pc = "looking" /\ HasChunk
    BY <1>12 DEF NextLeft, ChunkOK
  <2>2. CASE /\ b' = last /\ rec' = 0 /\ l' = l /\ pc' = "chunk"
             /\ UNCHANGED <<input, factor, chunk, pinned, seen, threw>>
    <3>1. last \in Chunk /\ rec' \in 0 .. MaxPer /\ l' \in 1 .. left + 1
      BY <1>0, <2>1, <2>2 DEF TypeOK, Chunk, Blocks, HasChunk
    <3>2. {twice', strayed'} \subseteq BOOLEAN
      BY <2>2 DEF TypeOK, seen
    <3>3. QED
      BY <1>8, <2>1, <2>2, <3>1, <3>2 DEF input, factor, seen
  <2>3. CASE \E c \in Chunk : \E t \in 1 .. per[c] : \E m \in 1 .. left + 1 :
                /\ b' = c /\ rec' = t /\ l' = m
                /\ IF m <= left THEN Gives(<<m, c, t>>)
                   ELSE /\ pc' = "chunk"
                        /\ UNCHANGED <<input, factor, chunk, pinned, seen, threw>>
    <3>a. PICK c \in Chunk : \E t \in 1 .. per[c] : \E m \in 1 .. left + 1 :
                /\ b' = c /\ rec' = t /\ l' = m
                /\ IF m <= left THEN Gives(<<m, c, t>>)
                   ELSE /\ pc' = "chunk"
                        /\ UNCHANGED <<input, factor, chunk, pinned, seen, threw>>
      BY <2>3
    <3>1. PICK t \in 1 .. per[c], m \in 1 .. left + 1 :
                /\ b' = c /\ rec' = t /\ l' = m
                /\ IF m <= left THEN Gives(<<m, c, t>>)
                   ELSE /\ pc' = "chunk"
                        /\ UNCHANGED <<input, factor, chunk, pinned, seen, threw>>
      BY <3>a
    <3>2. b' \in Chunk /\ rec' \in 0 .. MaxPer /\ l' \in 1 .. left + 1
      BY <1>10, <2>1, <3>1
    <3>3. CASE m <= left
      BY <1>8, <1>9, <2>1, <3>1, <3>2, <3>3
    <3>4. CASE ~(m <= left)
      <4>1. {twice', strayed'} \subseteq BOOLEAN
        BY <3>1, <3>4 DEF TypeOK, seen
      <4>2. QED
        BY <1>8, <2>1, <3>1, <3>2, <3>4, <4>1 DEF input, factor, seen
    <3>5. QED
      BY <3>3, <3>4
  <2>4. QED
    BY <1>12, <2>2, <2>3 DEF NextLeft
<1>13. CASE Stray
  <2>1. /\ Same /\ UNCHANGED <<i, k, chunk, pinned, ended, overrun, threw>>
        /\ pc = "looking" /\ strayed' = TRUE /\ twice' = FALSE /\ HasChunk
    BY <1>13 DEF Stray, input, factor, ChunkOK
  <2>2. CASE pc' = "crashed" /\ UNCHANGED place
    <3>1. b' \in Chunk /\ rec' \in 0 .. MaxPer /\ l' \in 1 .. left + 1
      BY <2>1, <2>2 DEF TypeOK, place
    <3>2. QED
      BY <1>8, <2>1, <2>2, <3>1
  <2>3. CASE /\ pc' \in {"idle", "chunk"} /\ b' \in Chunk
             /\ rec' \in 0 .. per[b'] /\ l' \in 1 .. left + 1
    <3>1. b' \in Blocks
      BY <1>0, <2>1, <2>3 DEF Chunk, TypeOK, Blocks, HasChunk
    <3>2. per[b'] \in 0 .. MaxPer
      BY <3>1 DEF TypeOK
    <3>3. rec' \in 0 .. MaxPer
      BY <1>0, <2>3, <3>2
    <3>4. QED
      BY <1>8, <2>1, <2>3, <3>3
  <2>4. QED
    BY <1>13, <2>2, <2>3 DEF Stray
<1>14. CASE NextThrows
  <2>1. /\ Same /\ UNCHANGED <<i, k, chunk, place, pinned, seen, threw>>
        /\ pc = "looking" /\ pc' = "threw" /\ HasChunk
    BY <1>14 DEF NextThrows, input, factor, ChunkOK
  <2>2. b' \in Chunk /\ rec' \in 0 .. MaxPer /\ l' \in 1 .. left + 1
    BY <2>1 DEF TypeOK, place
  <2>3. {twice', strayed'} \subseteq BOOLEAN
    BY <2>1 DEF TypeOK, seen
  <2>4. QED
    BY <1>8, <2>1, <2>2, <2>3 DEF seen
<1>15. CASE close
  <2>1. /\ Same /\ UNCHANGED <<i, k, chunk, place, seen, threw>>
        /\ pc \in {"idle", "threw"} /\ pc' = "closed" /\ pinned' = pinned \ Chunk
    BY <1>15 DEF close, input, factor
  <2>2. TypeOK'
    BY <2>1 DEF TypeOK, Blocks, HasChunk, Chunk, chunk, place, seen
  <2>3. FactorOK'
    BY <2>1 DEF FactorOK, Most
  <2>4. ~threw' => pinned' = {}
    BY <2>1 DEF ChunkOK
  <2>5. ChunkOK'
    BY <2>1, <2>4 DEF ChunkOK, HasChunk, Chunk, Most, chunk
  <2>6. QED
    BY <2>2, <2>3, <2>5
<1>16. CASE UNCHANGED vars
  BY <1>16 DEF vars, input, factor, chunk, place, seen, TypeOK, FactorOK, ChunkOK, Blocks,
               HasChunk, Chunk, Most, avail
<1>17. QED
  BY <1>1, <1>2, <1>3, <1>5, <1>6, <1>7, <1>11, <1>12, <1>13, <1>14, <1>15, <1>16 DEF Next

-----------------------------------------------------------------------------
(* Type correctness and the size of chunks.                                *)

LEMMA ShapeAlways == Spec => []Shape
<1>1. QED
  BY ShapeInit, ShapeStep, PTL DEF Spec

\* Every variable keeps its type: the blocks of a chunk are blocks of the file,
\* and the chunk_scan is at one of them.
THEOREM ProductTypes == Spec => []TypeOK
<1>1. Shape => TypeOK
  BY DEF Shape
<1>2. QED
  BY <1>1, ShapeAlways, PTL

\* However large the file is and however few buffers there are, a chunk leaves two
\* of them (as far as it may), and no block but those of the chunk stays pinned.
THEOREM Chunks == Spec => []ChunksFit
<1>1. Shape => ChunksFit
  BY DEF Shape, ChunkOK, ChunksFit, Most
<1>2. QED
  BY <1>1, ShapeAlways, PTL

-----------------------------------------------------------------------------
(* Exactness.                                                              *)

\* The pairs in the order of the scan: the chunks', then the left records', then
\* the right records' within the chunk.
Reached(p) ==
    \/ p[2] < first
    \/ /\ p[2] <= last
       /\ \/ p[1] < l
          \/ p[1] = l /\ (p[2] < b \/ (p[2] = b /\ p[3] <= rec))

Exact ==
    ~overrun /\ ~strayed =>
        /\ given \subseteq Pairs
        /\ ~twice
        /\ pc = "first" => given = {} /\ ~ended
        /\ pc \in {"looking", "chunk"} => ~ended
        /\ ended => given = Pairs
        /\ pc \in {"idle", "looking"} /\ ~ended /\ HasChunk =>
               l \in Lefts /\ \A p \in Pairs : p \in given <=> Reached(p)
        /\ pc = "chunk" => \A p \in Pairs : p \in given <=> p[2] <= last

LEMMA PairParts ==
    ASSUME TypeOK, NEW p \in Pairs
    PROVE  /\ p[1] \in Lefts /\ p[2] \in Blocks /\ p[3] \in 1 .. per[p[2]]
           /\ p[1] \in Nat /\ p[1] >= 1 /\ p[2] \in Nat /\ p[3] \in Nat /\ p[3] >= 1
           /\ per[p[2]] \in Nat
           /\ p = <<p[1], p[2], p[3]>>
<1>1. left \in Nat /\ size \in Nat /\ MaxPer \in Nat
  BY ProductAssumption DEF TypeOK
<1>2. /\ p \in Lefts \X Blocks \X (1 .. MaxPer) /\ p[3] <= per[p[2]]
  BY DEF Pairs
<1>3. /\ p[1] \in Lefts /\ p[2] \in Blocks /\ p[3] \in 1 .. MaxPer
      /\ p = <<p[1], p[2], p[3]>>
  BY <1>2
<1>4. per[p[2]] \in 0 .. MaxPer
  BY <1>3 DEF TypeOK
<1>5. QED
  BY <1>1, <1>2, <1>3, <1>4 DEF Lefts, Blocks

\* Between the record chunk_scan leaves and the one it finds there is none.
LEMMA FindsIsNext ==
    ASSUME TypeOK, HasChunk, NEW c0 \in Nat, NEW t0 \in Nat,
           NEW c \in Chunk, NEW t \in 1 .. per[c], Finds(c0, t0, c, t),
           NEW d \in Blocks, NEW u \in 1 .. per[d]
    PROVE  /\ (d < c \/ (d = c /\ u <= t))
                <=> (d < c0 \/ (d = c0 /\ u <= t0) \/ (d = c /\ u = t))
           /\ ~(c < c0 \/ (c = c0 /\ t <= t0))
<1>1. /\ size \in Nat /\ MaxPer \in Nat /\ Blocks \subseteq Nat /\ c \in Blocks
  BY ProductAssumption DEF TypeOK, Chunk, HasChunk, Blocks
<1>2. per[c] \in Nat /\ per[d] \in Nat /\ per[d] >= 1 /\ d \in Nat /\ c \in Nat
  BY <1>1 DEF TypeOK
<1>3. CASE c = c0 /\ t = t0 + 1 /\ t0 < per[c0]
  BY <1>2, <1>3
<1>4. CASE /\ c > c0 /\ t = 1 /\ t0 >= per[c0]
           /\ \A e \in c0 + 1 .. c - 1 : per[e] = 0
  <2>1. ~(d > c0 /\ d < c)
    BY <1>2, <1>4
  <2>2. QED
    BY <1>2, <1>4, <2>1
<1>5. QED
  BY <1>3, <1>4 DEF Finds

LEMMA FindsNoneIsEnd ==
    ASSUME TypeOK, NEW c0 \in Nat, NEW t0 \in Nat, FindsNone(c0, t0),
           NEW d \in Blocks, NEW u \in 1 .. per[d], d <= last
    PROVE  d < c0 \/ (d = c0 /\ u <= t0)
<1>1. size \in Nat /\ MaxPer \in Nat /\ d \in Nat /\ last \in Int
  BY ProductAssumption DEF TypeOK, Blocks
<1>2. per[d] \in Nat /\ per[d] >= 1
  BY <1>1 DEF TypeOK
<1>3. CASE d > c0
  BY <1>1, <1>2, <1>3 DEF FindsNone
<1>4. CASE d = c0
  BY <1>2, <1>4 DEF FindsNone
<1>5. QED
  BY <1>1, <1>3, <1>4

LEMMA GivesExact ==
    ASSUME TypeOK, Exact, pc = "looking", HasChunk,
           NEW m \in Lefts, NEW c \in Chunk, NEW t \in 1 .. per[c],
           Gives(<<m, c, t>>), l' = m, b' = c, rec' = t,
           ~overrun /\ ~strayed =>
               /\ <<m, c, t>> \notin given
               /\ \A p \in Pairs : Reached(p)' <=> (Reached(p) \/ p = <<m, c, t>>)
    PROVE  Exact'
<1>1. UNCHANGED <<left, size, per, first, last, overrun, strayed, ended>> /\ pc' = "idle"
  BY DEF Gives, input, chunk
<1>2. Pairs' = Pairs /\ Lefts' = Lefts
  BY <1>1 DEF Pairs, Lefts, Blocks
<1>3. <<m, c, t>> \in Pairs
  <2>1. size \in Nat /\ MaxPer \in Nat /\ c \in Blocks
    BY ProductAssumption DEF TypeOK, Chunk, HasChunk, Blocks
  <2>2. per[c] \in 0 .. MaxPer
    BY <2>1 DEF TypeOK
  <2>3. t \in 1 .. MaxPer /\ t <= per[c]
    BY <2>1, <2>2
  <2>4. QED
    BY <2>1, <2>3 DEF Pairs
<1>4. SUFFICES ASSUME ~overrun, ~strayed PROVE Exact'
  BY <1>1 DEF Exact
<1>5. /\ given' = given \cup {<<m, c, t>>} /\ ~twice' /\ ~ended
      /\ given \subseteq Pairs /\ \A p \in Pairs : p \in given <=> Reached(p)
  BY <1>4 DEF Gives, Exact
<1>6. \A p \in Pairs : p \in given' <=> Reached(p)'
  BY <1>4, <1>5
<1>7. given' \subseteq Pairs
  BY <1>3, <1>5
<1>8. QED
  BY <1>1, <1>2, <1>5, <1>6, <1>7 DEF Exact

LEMMA NewChunkExact ==
    ASSUME Shape, Exact, NEW to \in {"idle", "looking"}, pc \in {"first", "chunk"},
           NewChunk(to), UNCHANGED seen
    PROVE  Exact'
<1>1. UNCHANGED <<left, size, per, given, twice, ended, overrun, strayed>>
  BY DEF NewChunk, input, seen
<1>2. Pairs' = Pairs /\ Lefts' = Lefts
  BY <1>1 DEF Pairs, Lefts, Blocks
<1>3. /\ first' = next_blk /\ l' = 1 /\ b' = next_blk /\ rec' = 0 /\ pc' = to
      /\ next_blk \in Nat /\ size \in Nat /\ left \in Nat
  BY ProductAssumption DEF NewChunk, Shape, TypeOK
<1>4. SUFFICES ASSUME ~overrun, ~strayed PROVE Exact'
  BY <1>1 DEF Exact
<1>5. given \subseteq Pairs /\ ~twice /\ ~ended
  BY <1>4 DEF Exact
<1>6. ASSUME NEW p \in Pairs PROVE p \in given <=> p[2] < next_blk
  <2>1. p[2] \in Nat
    BY PairParts DEF Shape
  <2>2. CASE pc = "first"
    BY <1>4, <2>1, <2>2 DEF Exact, Shape, ChunkOK
  <2>3. CASE pc = "chunk"
    <3>1. last = next_blk - 1
      BY <2>3 DEF Shape, ChunkOK
    <3>2. p \in given <=> p[2] <= last
      BY <1>4, <2>3 DEF Exact
    <3>3. QED
      BY <1>3, <2>1, <3>1, <3>2
  <2>4. QED
    BY <2>2, <2>3
<1>7. ASSUME NEW p \in Pairs PROVE Reached(p)' <=> p[2] < next_blk
  <2>1. p[1] \in Nat /\ p[1] >= 1 /\ p[2] \in Nat /\ p[3] \in Nat /\ p[3] >= 1
    BY PairParts DEF Shape
  <2>2. QED
    BY <1>3, <2>1 DEF Reached
<1>8. 1 \in Lefts
  BY <1>3 DEF Lefts
<1>9. \A p \in Pairs : p \in given' <=> Reached(p)'
  BY <1>1, <1>6, <1>7
<1>10. QED
  BY <1>1, <1>2, <1>3, <1>5, <1>8, <1>9 DEF Exact

LEMMA NextRightExact ==
    ASSUME Shape, Exact, NextRight
    PROVE  Exact'
<1>1. pc = "looking" /\ l' = l /\ HasChunk /\ TypeOK
  BY DEF NextRight, Shape, ChunkOK
<1>2. PICK c \in Chunk : \E t \in 1 .. per[c] :
          Finds(b, rec, c, t) /\ b' = c /\ rec' = t /\ Gives(<<l, c, t>>)
  BY DEF NextRight
<1>3. PICK t \in 1 .. per[c] :
          Finds(b, rec, c, t) /\ b' = c /\ rec' = t /\ Gives(<<l, c, t>>)
  BY <1>2
<1>4. CASE overrun \/ strayed
  BY <1>3, <1>4 DEF Gives, Exact
<1>5. CASE ~overrun /\ ~strayed
  <2>1. l \in Lefts /\ \A p \in Pairs : p \in given <=> Reached(p)
    BY <1>1, <1>5 DEF Exact
  <2>2. /\ b \in Nat /\ rec \in Nat /\ first \in Nat /\ last \in Nat /\ c \in Nat
        /\ first <= b /\ b <= last /\ first <= c /\ c <= last
        /\ left \in Nat /\ l \in Nat /\ c \in Blocks /\ per[c] \in Nat
    <3>1. size \in Nat /\ left \in Nat /\ MaxPer \in Nat
      BY <1>1, ProductAssumption DEF TypeOK
    <3>2. /\ b \in Nat /\ rec \in Nat /\ first \in Nat /\ last \in Nat /\ c \in Nat
          /\ first <= b /\ b <= last /\ first <= c /\ c <= last
          /\ left \in Nat /\ l \in Nat /\ c \in Blocks
      BY <1>1, <3>1 DEF TypeOK, Chunk, HasChunk, Blocks
    <3>3. per[c] \in 0 .. MaxPer
      BY <1>1, <3>2 DEF TypeOK
    <3>4. QED
      BY <3>1, <3>2, <3>3
  <2>3. ASSUME NEW p \in Pairs PROVE Reached(p)' <=> (Reached(p) \/ p = <<l, c, t>>)
    <3>1. /\ p[2] \in Blocks /\ p[3] \in 1 .. per[p[2]]
          /\ p[1] \in Nat /\ p[2] \in Nat /\ p[3] \in Nat
      BY <1>1, PairParts
    <3>2. p = <<p[1], p[2], p[3]>>
      BY <1>1, PairParts
    <3>3. (p[2] < c \/ (p[2] = c /\ p[3] <= t))
              <=> (p[2] < b \/ (p[2] = b /\ p[3] <= rec) \/ (p[2] = c /\ p[3] = t))
      BY <1>1, <1>3, <2>2, <3>1, FindsIsNext
    <3>4. p = <<l, c, t>> <=> p[1] = l /\ p[2] = c /\ p[3] = t
      BY <3>2
    <3>5. first' = first /\ last' = last
      BY <1>3 DEF Gives, chunk
    <3>6. QED
      BY <1>1, <1>3, <2>2, <3>1, <3>3, <3>4, <3>5 DEF Reached
  <2>4. <<l, c, t>> \notin given
    <3>1. ~(c < b \/ (c = b /\ t <= rec))
      BY <1>1, <1>3, <2>2, FindsIsNext
    <3>2. ~Reached(<<l, c, t>>)
      BY <2>2, <3>1 DEF Reached
    <3>3. given \subseteq Pairs
      BY <1>5 DEF Exact
    <3>4. QED
      BY <2>1, <3>2, <3>3
  <2>5. QED
    BY <1>1, <1>3, <2>1, <2>3, <2>4, GivesExact
<1>6. QED
  BY <1>4, <1>5

\* After the last record of a chunk beside the last of the left input.
LEMMA ChunkDoneExact ==
    ASSUME Shape, Exact, pc = "looking", pc' = "chunk",
           UNCHANGED <<input, factor, chunk, pinned, seen, threw>>,
           ~overrun /\ ~strayed =>
               \A p \in Pairs : Reached(p) <=> p[2] <= last
    PROVE  Exact'
<1>1. UNCHANGED <<left, size, per, first, last, given, twice, ended, overrun, strayed>>
  BY DEF input, chunk, seen
<1>2. Pairs' = Pairs /\ HasChunk
  BY <1>1 DEF Pairs, Lefts, Blocks, Shape, ChunkOK
<1>3. SUFFICES ASSUME ~overrun, ~strayed PROVE Exact'
  BY <1>1 DEF Exact
<1>4. /\ given \subseteq Pairs /\ ~twice /\ ~ended
      /\ \A p \in Pairs : p \in given <=> Reached(p)
  BY <1>2, <1>3 DEF Exact
<1>5. \A p \in Pairs : p \in given' <=> p[2] <= last'
  BY <1>1, <1>3, <1>4
<1>6. QED
  BY <1>1, <1>2, <1>4, <1>5 DEF Exact

LEMMA NextLeftExact ==
    ASSUME Shape, Exact, NextLeft
    PROVE  Exact'
<1>1. pc = "looking" /\ HasChunk /\ TypeOK /\ FindsNone(b, rec)
  BY DEF NextLeft, Shape, ChunkOK
<1>2. /\ b \in Nat /\ rec \in Nat /\ first \in Nat /\ last \in Nat
      /\ first <= b /\ b <= last /\ left \in Nat /\ l \in Nat /\ l <= left + 1
  <2>1. size \in Nat /\ left \in Nat /\ MaxPer \in Nat
    BY <1>1, ProductAssumption DEF TypeOK
  <2>2. QED
    BY <1>1, <2>1 DEF TypeOK, Chunk, HasChunk, Blocks
<1>3. ~overrun /\ ~strayed => l \in Lefts
  BY <1>1 DEF Exact
<1>4. ASSUME NEW p \in Pairs
      PROVE  /\ p[1] \in Lefts /\ p[2] \in Blocks /\ p[3] \in 1 .. per[p[2]]
             /\ p[1] \in Nat /\ p[1] >= 1 /\ p[2] \in Nat /\ p[3] \in Nat /\ p[3] >= 1
             /\ p[2] <= last => p[2] < b \/ (p[2] = b /\ p[3] <= rec)
  <2>1. /\ p[1] \in Lefts /\ p[2] \in Blocks /\ p[3] \in 1 .. per[p[2]]
        /\ p[1] \in Nat /\ p[1] >= 1 /\ p[2] \in Nat /\ p[3] \in Nat /\ p[3] >= 1
    BY <1>1, PairParts
  <2>2. QED
    BY <1>1, <1>2, <2>1, FindsNoneIsEnd
\* The pairs before the next record of the left input are those reached.
<1>5. ASSUME NEW p \in Pairs
      PROVE  Reached(p) <=> p[2] < first \/ (p[2] <= last /\ p[1] < l + 1)
  BY <1>2, <1>4 DEF Reached
<1>6. CASE /\ FindsNone(Begun[1], Begun[2]) /\ pc' = "chunk"
           /\ UNCHANGED <<input, factor, chunk, pinned, seen, threw>>
  <2>1. FindsNone(first, 0)
    BY <1>6 DEF Begun
  <2>2. ASSUME NEW p \in Pairs PROVE Reached(p) <=> p[2] <= last
    <3>1. p[2] <= last => p[2] < first
      BY <1>1, <1>2, <1>4, <2>1, FindsNoneIsEnd
    <3>2. QED
      BY <1>2, <1>4, <1>5, <3>1
  <2>3. QED
    BY <1>1, <1>6, <2>2, ChunkDoneExact
<1>7. ASSUME NEW c \in Chunk, NEW t \in 1 .. per[c], NEW m \in 1 .. left + 1,
             Finds(Begun[1], Begun[2], c, t), b' = c, rec' = t, LeftNext(m), l' = m,
             IF m <= left THEN Gives(<<m, c, t>>)
             ELSE /\ pc' = "chunk"
                  /\ UNCHANGED <<input, factor, chunk, pinned, seen, threw>>
      PROVE  Exact'
  <2>1. Finds(first, 0, c, t)
    BY <1>7 DEF Begun
  <2>2. CASE ~(m <= left)
    <3>1. ASSUME ~overrun, ~strayed, NEW p \in Pairs PROVE Reached(p) <=> p[2] <= last
      <4>1. l \in Lefts /\ p[1] \in Lefts
        BY <1>3, <1>4, <3>1
      <4>2. p[1] < l + 1
        BY <1>2, <1>7, <2>2, <4>1 DEF LeftNext, Lefts
      <4>3. QED
        BY <1>2, <1>4, <1>5, <4>2
    <3>2. QED
      BY <1>1, <1>7, <2>2, <3>1, ChunkDoneExact
  <2>3. CASE m <= left /\ (overrun \/ strayed)
    BY <1>7, <2>3 DEF Gives, Exact
  <2>4. CASE m <= left /\ ~overrun /\ ~strayed
    <3>1. m = l + 1 /\ m \in Lefts
      BY <1>2, <1>3, <1>7, <2>4 DEF LeftNext, Lefts
    <3>2. Gives(<<m, c, t>>) /\ first' = first /\ last' = last
      BY <1>7, <2>4 DEF Gives, chunk
    <3>3. c \in Nat /\ first <= c /\ c <= last /\ c \in Blocks
      BY <1>1, <1>2 DEF Chunk, TypeOK, Blocks
    <3>4. ASSUME NEW p \in Pairs PROVE Reached(p)' <=> (Reached(p) \/ p = <<m, c, t>>)
      <4>1. p = <<m, c, t>> <=> p[1] = m /\ p[2] = c /\ p[3] = t
        BY <1>1, PairParts
      <4>2. (p[2] < c \/ (p[2] = c /\ p[3] <= t))
                <=> (p[2] < first \/ (p[2] = first /\ p[3] <= 0) \/ (p[2] = c /\ p[3] = t))
        BY <1>1, <1>2, <1>4, <2>1, FindsIsNext
      <4>3. QED
        BY <1>2, <1>4, <1>5, <1>7, <3>1, <3>2, <3>3, <4>1, <4>2 DEF Reached
    <3>5. <<m, c, t>> \notin given
      <4>1. given \subseteq Pairs /\ \A p \in Pairs : p \in given <=> Reached(p)
        BY <1>1, <2>4 DEF Exact
      <4>2. <<m, c, t>> \in Pairs => ~Reached(<<m, c, t>>)
        BY <1>2, <1>5, <3>1, <3>3
      <4>3. QED
        BY <4>1, <4>2
    <3>6. QED
      BY <1>1, <1>7, <3>1, <3>2, <3>4, <3>5, GivesExact
  <2>5. QED
    BY <2>2, <2>3, <2>4
<1>8. QED
  BY <1>6, <1>7 DEF NextLeft

LEMMA ExactStep ==
    ASSUME Shape, Exact, [Next]_vars
    PROVE  Exact'
<1>1. CASE open
  BY <1>1 DEF open, Exact, Pairs, Lefts, Blocks, Reached, HasChunk, input, chunk, place, seen
<1>2. CASE best_factor
  BY <1>2 DEF best_factor, Exact, Pairs, Lefts, Blocks, Reached, HasChunk, input, chunk,
              place, seen
<1>3. CASE before_first
  <2>1. /\ pc' = "first" /\ given' = {} /\ ~twice' /\ ~ended'
    BY <1>3 DEF before_first
  <2>2. QED
    BY <2>1 DEF Exact
<1>4. ASSUME ChunkThrows PROVE Exact'
  BY <1>4 DEF ChunkThrows, Exact, Pairs, Lefts, Blocks, input, seen
<1>5. CASE FirstChunk
  <2>1. pc = "first"
    BY <1>5 DEF FirstChunk
  <2>2. CASE NewChunk("idle") /\ UNCHANGED seen
    BY <2>1, <2>2, NewChunkExact
  <2>3. CASE ChunkThrows
    BY <1>4, <2>3
  <2>4. CASE /\ next_blk >= size /\ pc' = "idle"
             /\ UNCHANGED <<input, factor, chunk, place, pinned, seen, threw>>
    <3>1. ~HasChunk'
      BY <2>1, <2>4, ProductAssumption
         DEF Shape, ChunkOK, TypeOK, Blocks, HasChunk, input, chunk
    <3>2. QED
      BY <2>1, <2>4, <3>1 DEF Exact, Pairs, Lefts, Blocks, input, seen
  <2>5. QED
    BY <1>5, <2>2, <2>3, <2>4 DEF FirstChunk
<1>6. CASE NextChunk
  <2>1. pc = "chunk"
    BY <1>6 DEF NextChunk
  <2>2. CASE NewChunk("looking") /\ UNCHANGED seen
    BY <2>1, <2>2, NewChunkExact
  <2>3. CASE ChunkThrows
    BY <1>4, <2>3
  <2>4. CASE /\ next_blk >= size /\ pc' = "idle" /\ ended' = TRUE
             /\ UNCHANGED <<input, factor, chunk, place, pinned, given, twice, overrun,
                            strayed, threw>>
    <3>1. UNCHANGED <<left, size, per, given, twice, overrun, strayed>>
      BY <2>4 DEF input
    <3>2. Pairs' = Pairs
      BY <3>1 DEF Pairs, Lefts, Blocks
    <3>3. SUFFICES ASSUME ~overrun, ~strayed PROVE Exact'
      BY <3>1 DEF Exact
    <3>4. /\ given \subseteq Pairs /\ ~twice
          /\ \A p \in Pairs : p \in given <=> p[2] <= last
      BY <2>1, <3>3 DEF Exact
    <3>5. ASSUME NEW p \in Pairs PROVE p[2] <= last
      <4>1. last = next_blk - 1 /\ next_blk \in Nat /\ next_blk >= size /\ size \in Nat
        BY <2>1, <2>4, ProductAssumption DEF Shape, ChunkOK, TypeOK
      <4>2. p[2] \in Blocks
        BY PairParts DEF Shape
      <4>3. QED
        BY <4>1, <4>2 DEF Blocks
    <3>6. given' = Pairs'
      BY <3>1, <3>2, <3>4, <3>5
    <3>7. QED
      BY <2>4, <3>1, <3>4, <3>6 DEF Exact
  <2>5. QED
    BY <1>6, <2>2, <2>3, <2>4 DEF NextChunk
<1>7. CASE next
  <2>1. /\ UNCHANGED <<left, size, per, first, last, l, b, rec, given, twice, ended, strayed>>
        /\ pc = "idle" /\ pc' = IF HasChunk THEN "looking" ELSE "crashed"
        /\ overrun' = (overrun \/ ended)
    BY <1>7 DEF next, input, chunk, place
  <2>2. Pairs' = Pairs /\ Lefts' = Lefts
    BY <2>1 DEF Pairs, Lefts, Blocks
  <2>3. \A p : Reached(p)' <=> Reached(p)
    BY <2>1 DEF Reached
  <2>4. QED
    BY <2>1, <2>2, <2>3 DEF Exact, HasChunk
<1>8. CASE NextRight
  BY <1>8, NextRightExact
<1>9. CASE NextLeft
  BY <1>9, NextLeftExact
<1>10. CASE Stray
  BY <1>10 DEF Stray, Exact
<1>11. CASE close
  BY <1>11 DEF close, Exact, Pairs, Lefts, Blocks, input, seen
<1>12. CASE NextThrows
  BY <1>12 DEF NextThrows, Exact, Pairs, Lefts, Blocks, input, seen
<1>13. CASE UNCHANGED vars
  BY <1>13 DEF vars, Exact, Pairs, Lefts, Blocks, Reached, HasChunk, input, chunk, place, seen
<1>14. QED
  BY <1>1, <1>2, <1>3, <1>5, <1>6, <1>7, <1>8, <1>9, <1>10, <1>11, <1>12, <1>13 DEF Next

\* Until next is called after its end or a block_id is no more what it was, next
\* stands at every record of the left input beside every record of the table, once,
\* whatever the inputs' sizes, the records of each block and the chunks.
THEOREM Exactness == Spec => []ProductIsExact
<1>1. Init => Exact
  BY DEF Init, Exact
<1>2. Shape /\ Exact /\ [Next]_vars => Exact'
  BY ExactStep
<1>3. Exact => ProductIsExact
  BY DEF Exact, ProductIsExact
<1>4. QED
  BY <1>1, <1>2, <1>3, ShapeAlways, PTL DEF Spec

-----------------------------------------------------------------------------

\* A set of naturals that is not empty has a least element.
LEMMA LeastOf ==
    ASSUME NEW S \in SUBSET Nat, S # {}
    PROVE  \E p \in S : \A j \in S : p <= j
<1> DEFINE R == OpToRel(<, Nat)
<1>1. IsWellFoundedOn(R, Nat)
  BY NatLessThanWellFounded
<1> HIDE DEF R
<1>2. PICK x \in S : \A y \in S : ~ (<<y, x>> \in R)
  BY <1>1, WFMin
<1>3. ASSUME NEW y \in S
      PROVE  x <= y
  <2>1. ~ (<<y, x>> \in R)
    BY <1>2
  <2>2. ~ (y < x)
    BY <2>1 DEF R, OpToRel
  <2>3. QED
    BY <2>2
<1>4. QED
  BY <1>3

LEMMA MinOf ==
    ASSUME NEW S \in SUBSET Nat, S # {}
    PROVE  Min(S) \in S /\ \A j \in S : Min(S) <= j
BY LeastOf DEF Min

-----------------------------------------------------------------------------

\* The rows the scan has not come to are as they were before the statement.
AheadIsBefore == \A p \in DOMAIN before : p > row_at => rows[p] = before[p] /\ p \in live

SelectionInv == SelectionTypeOK /\ AheadIsBefore /\ StatementIsExact

\* What the types are of.
LEMMA TypesOf ==
    ASSUME SelectionTypeOK
    PROVE  /\ DOMAIN pred = 1..Len(pred) /\ Len(pred) \in Nat
           /\ \A p \in DOMAIN pred : pred[p].lhs \in Names \cup Literals /\ pred[p].rhs \in Names \cup Literals
           /\ DOMAIN before = 1..Len(before) /\ Len(before) \in Nat
           /\ \A p \in DOMAIN before : before[p] \in Typed(sch)
           /\ stmt.kind \in {"select", "delete", "modify"}
           /\ stmt.target \in Names /\ stmt.new_value \in Names \cup Literals
           /\ DOMAIN sch \subseteq Names
<1> DEFINE Terms == [lhs : Names \cup Literals, rhs : Names \cup Literals]
<1>1. pred \in Seq(Terms)
  BY SelectionAssumption DEF SelectionTypeOK
<1>2. before \in Seq(Typed(sch))
  BY SelectionAssumption DEF SelectionTypeOK
<1>3. stmt \in [kind : {"select", "delete", "modify"}, list : Seq(Names), target : Names,
                new_value : Names \cup Literals]
  BY SelectionAssumption DEF SelectionTypeOK
<1>4. \A p \in DOMAIN pred : pred[p] \in Terms
  <2> HIDE DEF Terms
  <2>1. QED
    BY <1>1
<1>5. /\ DOMAIN pred = 1..Len(pred) /\ Len(pred) \in Nat
      /\ DOMAIN before = 1..Len(before) /\ Len(before) \in Nat
      /\ \A p \in DOMAIN before : before[p] \in Typed(sch)
  <2> HIDE DEF Terms
  <2>1. QED
    BY <1>1, <1>2
<1>6. DOMAIN sch \subseteq Names
  BY SelectionAssumption DEF SelectionTypeOK
<1>7. QED
  BY <1>3, <1>4, <1>5, <1>6

\* A predicate is that of all its terms, and throws only where one of them does.
LEMMA Satisfied ==
    ASSUME SelectionTypeOK, NEW rw
    PROVE  /\ is_satisfied(rw) \in {"true", "false", "throw"}
           /\ is_satisfied(rw) = "true" <=> \A j \in DOMAIN pred : TermHolds(pred[j], rw) = "true"
           /\ is_satisfied(rw) = "throw" => \E j \in DOMAIN pred : TermHolds(pred[j], rw) = "throw"
<1> DEFINE others == {p \in DOMAIN pred : TermHolds(pred[p], rw) # "true"}
<1>1. \A j \in DOMAIN pred : TermHolds(pred[j], rw) \in {"true", "false", "throw"}
  BY DEF TermHolds
<1>2. others \in SUBSET Nat
  BY TypesOf
<1>3. is_satisfied(rw) = IF others = {} THEN "true" ELSE TermHolds(pred[Min(others)], rw)
  BY DEF is_satisfied
<1>4. CASE others = {}
  BY <1>3, <1>4
<1>5. CASE others # {}
  <2>1. Min(others) \in others
    <3> HIDE DEF others
    <3>1. QED
      BY <1>2, <1>5, MinOf
  <2>2. QED
    BY <1>1, <1>3, <1>5, <2>1
<1>6. QED
  BY <1>4, <1>5

\* The scan leaves out the rows whose predicate is false, and stops at the first other.
LEMMA HitOf ==
    ASSUME SelectionTypeOK
    PROVE  \/ Hit = 0 /\ \A p \in live : p > row_at => is_satisfied(rows[p]) = "false"
           \/ /\ Hit \in live /\ Hit > row_at /\ is_satisfied(rows[Hit]) # "false"
              /\ \A p \in live : p > row_at /\ p < Hit => is_satisfied(rows[p]) = "false"
<1> DEFINE ahead == {p \in live : p > row_at /\ is_satisfied(rows[p]) # "false"}
<1>1. Hit = IF ahead = {} THEN 0 ELSE Min(ahead)
  BY DEF Hit
<1>2. live \in SUBSET Nat
  BY TypesOf DEF SelectionTypeOK
<1>3. ahead \in SUBSET Nat
  BY <1>2
<1>4. CASE ahead = {}
  BY <1>1, <1>4
<1>5. CASE ahead # {}
  <2>1. Min(ahead) \in ahead /\ \A j \in ahead : Min(ahead) <= j
    <3> HIDE DEF ahead
    <3>1. QED
      BY <1>3, <1>5, MinOf
  <2>2. ASSUME NEW p \in live, p > row_at, p < Hit
        PROVE  is_satisfied(rows[p]) = "false"
    <3>1. p \notin ahead
      BY <1>1, <1>2, <1>3, <1>5, <2>1, <2>2
    <3>2. QED
      BY <2>2, <3>1
  <2>3. Hit \in live /\ Hit > row_at /\ is_satisfied(rows[Hit]) # "false"
    BY <1>1, <1>5, <2>1
  <2>4. QED
    BY <2>2, <2>3
<1>6. QED
  BY <1>4, <1>5

\* A statement that goes on has come to one more of its rows, as it was before it.
LEMMA OneMore ==
    ASSUME SelectionInv, NEW what, At_next(what), UNCHANGED <<sch, pred, stmt, before>>
    PROVE  /\ stmt.kind = what /\ row_at' = Hit /\ ends = "row"
           /\ Hit \in DOMAIN before /\ Hit \in live /\ Hit > row_at /\ rows[Hit] = before[Hit]
           /\ Hits' = Hits /\ Done' = Done \cup {Hit} /\ Hit \notin Done
           /\ Cardinality(Done') = Cardinality(Done) + 1
           /\ \A p \in DOMAIN before : p > row_at' => p > row_at /\ p # Hit
<1>1. /\ stmt.kind = what /\ row_at' = Hit /\ ends = "row"
      /\ Hit # 0 /\ is_satisfied(rows[Hit]) = "true"
  BY DEF At_next
<1>2. SelectionTypeOK /\ AheadIsBefore
  BY DEF SelectionInv
<1>3. DOMAIN before \in SUBSET Nat /\ row_at \in Nat
  BY <1>2, TypesOf DEF SelectionTypeOK
<1>4. /\ Hit \in live /\ Hit > row_at
      /\ \A p \in live : p > row_at /\ p < Hit => is_satisfied(rows[p]) = "false"
  BY <1>1, <1>2, HitOf
<1>5. Hit \in DOMAIN before /\ rows[Hit] = before[Hit]
  BY <1>2, <1>4 DEF SelectionTypeOK, AheadIsBefore
<1>6. \A p \in DOMAIN before : p \in Hits <=> is_satisfied(before[p]) = "true"
  BY <1>2, Satisfied DEF Hits
<1>7. Hits' = Hits
  BY DEF Hits, TermHolds, Known, evaluate
<1>8. Done' = Done \cup {Hit}
  <2>1. ASSUME NEW p \in Hits
        PROVE  p <= Hit <=> p <= row_at \/ p = Hit
    <3>1. p \in DOMAIN before /\ is_satisfied(before[p]) = "true"
      BY <1>6 DEF Hits
    <3>2. CASE p > row_at /\ p < Hit
      <4>1. rows[p] = before[p] /\ p \in live
        BY <1>2, <3>1, <3>2 DEF AheadIsBefore
      <4>2. is_satisfied(rows[p]) = "false"
        BY <1>4, <3>2, <4>1
      <4>3. QED
        BY <3>1, <4>1, <4>2
    <3>3. CASE ~(p > row_at /\ p < Hit)
      BY <1>3, <1>4, <1>5, <3>1, <3>3
    <3>4. QED
      BY <3>2, <3>3
  <2>2. Hit \in Hits
    BY <1>1, <1>5, <1>6
  <2>3. QED
    BY <1>1, <1>3, <1>5, <1>7, <2>1, <2>2 DEF Done
<1>9. Hit \notin Done
  BY <1>3, <1>4, <1>5 DEF Done
<1>10. Cardinality(Done') = Cardinality(Done) + 1
  <2>1. Done \subseteq 1..Len(before) /\ Len(before) \in Nat
    BY <1>2, TypesOf DEF Done, Hits
  <2>2. IsFiniteSet(Done)
    <3>1. IsFiniteSet(1..Len(before))
      BY <2>1, FS_Interval
    <3>2. QED
      BY <2>1, <3>1, FS_Subset
  <2>3. QED
    BY <1>8, <1>9, <2>2, FS_AddElement
<1>11. \A p \in DOMAIN before : p > row_at' => p > row_at /\ p # Hit
  BY <1>1, <1>3, <1>4, <1>5
<1>12. QED
  BY <1>1, <1>4, <1>5, <1>7, <1>8, <1>9, <1>10, <1>11

\* A value for the field it is for is of the field's type.
LEMMA ValueFits ==
    ASSUME SelectionTypeOK, Fits, stmt.kind = "modify", NEW rw \in Typed(sch)
    PROVE  /\ Known(stmt.new_value) /\ stmt.target \in DOMAIN sch
           /\ evaluate(stmt.new_value, rw) \in sch[stmt.target]
<1>1. /\ stmt.target \in DOMAIN sch /\ Known(stmt.new_value)
      /\ IF stmt.new_value \in Names THEN sch[stmt.new_value] = sch[stmt.target]
                                     ELSE stmt.new_value \in sch[stmt.target]
  BY DEF Fits
<1>2. CASE stmt.new_value \in Names
  <2>1. stmt.new_value \in DOMAIN sch
    BY <1>1, <1>2 DEF Known
  <2>2. rw[stmt.new_value] \in sch[stmt.new_value]
    BY <2>1 DEF Typed
  <2>3. QED
    BY <1>1, <1>2, <2>2 DEF evaluate
<1>3. CASE stmt.new_value \notin Names
  BY <1>1, <1>3 DEF evaluate
<1>4. QED
  BY <1>2, <1>3

\* A predicate throws only for a name that is of no field.
LEMMA ThrowsForName ==
    ASSUME SelectionTypeOK, NEW rw, is_satisfied(rw) = "throw"
    PROVE  ~(PredNames \subseteq DOMAIN sch)
<1>1. PICK j \in DOMAIN pred : TermHolds(pred[j], rw) = "throw"
  BY Satisfied
<1>2. ~Known(pred[j].lhs) \/ ~Known(pred[j].rhs)
  BY <1>1 DEF TermHolds
<1>3. PICK e \in {pred[j].lhs, pred[j].rhs} : e \in Names /\ e \notin DOMAIN sch
  BY <1>2 DEF Known
<1>4. e \in PredNames
  <2>1. {pred[j].lhs, pred[j].rhs} \in {{pred[p].lhs, pred[p].rhs} : p \in DOMAIN pred}
    OBVIOUS
  <2>2. e \in UNION {{pred[p].lhs, pred[p].rhs} : p \in DOMAIN pred}
    BY <2>1
  <2>3. QED
    BY <1>3, <2>2 DEF PredNames
<1>5. QED
  BY <1>3, <1>4

LEMMA NextEndsStep ==
    ASSUME SelectionInv, next_ends
    PROVE  SelectionInv'
<1>1. /\ ends = "row" /\ (Hit # 0 => is_satisfied(rows[Hit]) = "throw")
      /\ ends' = IF Hit = 0 THEN "end" ELSE "throw"
      /\ UNCHANGED <<sch, pred, stmt, rows, live, row_at, selected, before>>
  BY DEF next_ends
<1>2. SelectionTypeOK
  BY DEF SelectionInv
<1>3. SelectionTypeOK' /\ AheadIsBefore'
  BY <1>1 DEF SelectionInv, SelectionTypeOK, AheadIsBefore
<1>4. Hits' = Hits /\ Done' = Done /\ (Fits' <=> Fits) /\ PredNames' = PredNames
  BY <1>1 DEF Hits, Done, TermHolds, Known, evaluate, Fits, PredNames
<1>5. ends' = "throw" => ~(Fits' /\ PredNames' \subseteq DOMAIN sch')
  <2>1. SUFFICES ASSUME ends' = "throw"
                 PROVE  ~(PredNames \subseteq DOMAIN sch)
    BY <1>1, <1>4
  <2>2. is_satisfied(rows[Hit]) = "throw"
    BY <1>1, <2>1
  <2>3. QED
    BY <1>2, <2>2, ThrowsForName
<1>6. ends' = "end" => Done' = Hits'
  <2>1. SUFFICES ASSUME ends' = "end", NEW p \in Hits
                 PROVE  p <= row_at
    BY <1>4 DEF Done
  <2>2. Hit = 0 /\ \A m \in live : m > row_at => is_satisfied(rows[m]) = "false"
    <3>1. Hit = 0
      BY <1>1, <2>1
    <3>2. row_at \in Nat
      BY <1>2, TypesOf DEF SelectionTypeOK
    <3>3. ~(Hit > row_at)
      BY <3>1, <3>2
    <3>4. QED
      BY <1>2, <3>1, <3>3, HitOf
  <2>3. p \in DOMAIN before /\ is_satisfied(before[p]) = "true"
    BY <1>2, Satisfied DEF Hits
  <2>4. ~(p > row_at)
    BY <2>2, <2>3 DEF SelectionInv, AheadIsBefore
  <2>5. p \in Nat /\ row_at \in Nat
    BY <1>2, <2>3, TypesOf DEF SelectionTypeOK
  <2>6. QED
    BY <2>4, <2>5
<1>7. evaluate(stmt.new_value, 0)' = evaluate(stmt.new_value, 0)
  BY <1>1 DEF evaluate
<1>8. StatementIsExact'
  BY <1>1, <1>4, <1>5, <1>6 DEF SelectionInv, StatementIsExact, PredNames, evaluate
<1>9. QED
  BY <1>3, <1>8 DEF SelectionInv

LEMMA SelectStep ==
    ASSUME SelectionInv, select_next
    PROVE  SelectionInv'
<1>1. /\ At_next("select") /\ UNCHANGED <<sch, pred, stmt, rows, live, before>>
      /\ IF ToSet(stmt.list) \subseteq DOMAIN sch
         THEN /\ selected' = Append(selected, [f \in ToSet(stmt.list) |-> rows[Hit][f]])
              /\ UNCHANGED ends
         ELSE ends' = "throw" /\ UNCHANGED selected
  BY DEF select_next
<1>2. /\ stmt.kind = "select" /\ row_at' = Hit /\ ends = "row" /\ Hit \in DOMAIN before
      /\ Hits' = Hits /\ Done' = Done \cup {Hit} /\ Hit \notin Done
      /\ Cardinality(Done') = Cardinality(Done) + 1
      /\ \A p \in DOMAIN before : p > row_at' => p > row_at /\ p # Hit
  BY <1>1, OneMore
<1>3. (Fits' <=> Fits) /\ (Fits => ToSet(stmt.list) \subseteq DOMAIN sch)
  BY <1>1, <1>2 DEF Fits, Known
<1> DEFINE Results == UNION {[list -> Literals] : list \in SUBSET Names}
<1>4. /\ selected' \in Seq(Results)
      /\ ToSet(stmt.list) \subseteq DOMAIN sch => Len(selected') = Len(selected) + 1
  <2>1. selected \in Seq(Results)
    BY DEF SelectionInv, SelectionTypeOK
  <2>2. CASE UNCHANGED selected /\ ~(ToSet(stmt.list) \subseteq DOMAIN sch)
    BY <2>1, <2>2
  <2>3. CASE ToSet(stmt.list) \subseteq DOMAIN sch
    <3> DEFINE x == [f \in ToSet(stmt.list) |-> rows[Hit][f]]
    <3>1. selected' = Append(selected, x)
      BY <1>1, <2>3
    <3>2. x \in Results
      <4>1. rows[Hit] \in Typed(sch) /\ ToSet(stmt.list) \in SUBSET Names
        BY <1>2, <2>3, TypesOf DEF SelectionInv, SelectionTypeOK
      <4>2. \A f \in ToSet(stmt.list) : rows[Hit][f] \in Literals
        BY <2>3, <4>1 DEF Typed
      <4>3. x \in [ToSet(stmt.list) -> Literals]
        BY <4>2
      <4>4. [ToSet(stmt.list) -> Literals] \in {[list -> Literals] : list \in SUBSET Names}
        BY <4>1
      <4> HIDE DEF x
      <4>5. QED
        BY <4>3, <4>4
    <3> HIDE DEF x, Results
    <3>3. QED
      BY <2>1, <3>1, <3>2
  <2>4. QED
    BY <1>1, <2>2, <2>3
<1>5. SelectionTypeOK'
  BY <1>1, <1>2, <1>4 DEF SelectionInv, SelectionTypeOK
<1>6. AheadIsBefore'
  BY <1>1, <1>2 DEF SelectionInv, AheadIsBefore
<1>7. StatementIsExact'
  <2>1. ends' # "end" /\ (ends' = "throw" => ~Fits')
    BY <1>1, <1>2, <1>3
  <2>2. ASSUME Fits'
        PROVE  /\ Len(selected') = Cardinality(Done') /\ live' = DOMAIN before
               /\ \A p \in DOMAIN before : rows'[p] = before[p]
    <3>1. Fits
      BY <1>3, <2>2
    <3>2. Len(selected) = Cardinality(Done)
      BY <1>2, <3>1 DEF SelectionInv, StatementIsExact
    <3>3. QED
      BY <1>1, <1>2, <1>3, <1>4, <3>1, <3>2 DEF SelectionInv, StatementIsExact
  <2>3. QED
    BY <1>1, <1>2, <2>1, <2>2 DEF StatementIsExact
<1>8. QED
  BY <1>5, <1>6, <1>7 DEF SelectionInv

LEMMA DeleteRowStep ==
    ASSUME SelectionInv, delete_next
    PROVE  SelectionInv'
<1>1. /\ At_next("delete") /\ live' = live \ {Hit}
      /\ UNCHANGED <<sch, pred, stmt, rows, ends, selected, before>>
  BY DEF delete_next
<1>2. /\ stmt.kind = "delete" /\ row_at' = Hit /\ ends = "row" /\ Hit \in DOMAIN before
      /\ Hits' = Hits /\ Done' = Done \cup {Hit}
      /\ \A p \in DOMAIN before : p > row_at' => p > row_at /\ p # Hit
  BY <1>1, OneMore
<1>3. Fits' <=> Fits
  BY <1>1 DEF Fits, Known
<1>4. SelectionTypeOK'
  BY <1>1, <1>2 DEF SelectionInv, SelectionTypeOK
<1>5. AheadIsBefore'
  BY <1>1, <1>2 DEF SelectionInv, AheadIsBefore
<1>6. StatementIsExact'
  <2>1. ends' = "row"
    BY <1>1, <1>2
  <2>2. ASSUME Fits'
        PROVE  /\ Len(selected') = 0 /\ live' = DOMAIN before \ Done'
               /\ \A p \in DOMAIN before : rows'[p] = before[p]
    <3>1. /\ Len(selected) = 0 /\ live = DOMAIN before \ Done
          /\ \A p \in DOMAIN before : rows[p] = before[p]
      BY <1>2, <1>3, <2>2 DEF SelectionInv, StatementIsExact
    <3>2. QED
      BY <1>1, <1>2, <3>1
  <2>3. QED
    BY <1>1, <1>2, <2>1, <2>2 DEF StatementIsExact
<1>7. QED
  BY <1>4, <1>5, <1>6 DEF SelectionInv

LEMMA ModifyRowStep ==
    ASSUME SelectionInv, modify_next
    PROVE  SelectionInv'
<1> DEFINE value == evaluate(stmt.new_value, rows[Hit])
           goes == Known(stmt.new_value) /\ stmt.target \in DOMAIN sch /\ value \in sch[stmt.target]
<1>1. /\ At_next("modify") /\ UNCHANGED <<sch, pred, stmt, live, selected, before>>
      /\ goes => rows' = [rows EXCEPT ![Hit][stmt.target] = value] /\ UNCHANGED ends
      /\ ~goes => ends' = "throw" /\ UNCHANGED rows
  BY DEF modify_next
<1>2. /\ stmt.kind = "modify" /\ row_at' = Hit /\ ends = "row"
      /\ Hit \in DOMAIN before /\ rows[Hit] = before[Hit]
      /\ Hits' = Hits /\ Done' = Done \cup {Hit} /\ Hit \notin Done
      /\ \A p \in DOMAIN before : p > row_at' => p > row_at /\ p # Hit
  BY <1>1, OneMore
<1>3. Fits' <=> Fits
  BY <1>1 DEF Fits, Known
<1>4. Fits => goes
  <2>1. before[Hit] \in Typed(sch)
    BY <1>2, TypesOf DEF SelectionInv
  <2>2. QED
    BY <1>2, <2>1, ValueFits DEF SelectionInv
<1>5. rows \in [DOMAIN before -> Typed(sch)] /\ DOMAIN rows = DOMAIN before
  BY DEF SelectionInv, SelectionTypeOK
<1>6. rows' \in [DOMAIN before -> Typed(sch)]
  <2>1. CASE ~goes
    BY <1>1, <1>5, <2>1
  <2>2. CASE goes
    <3>1. rows[Hit] \in Typed(sch)
      BY <1>2, <1>5
    <3>2. value \in Literals
      <4>1. sch \in [DOMAIN sch -> {Ints, Strs}]
        BY SelectionAssumption DEF SelectionInv, SelectionTypeOK
      <4>2. QED
        BY <2>2, <4>1 DEF Literals
    <3> HIDE DEF value
    <3>3. [rows[Hit] EXCEPT ![stmt.target] = value] \in Typed(sch)
      BY <2>2, <3>1, <3>2 DEF Typed
    <3>4. rows' = [rows EXCEPT ![Hit] = [rows[Hit] EXCEPT ![stmt.target] = value]]
      BY <1>1, <2>2
    <3>5. QED
      BY <1>5, <3>3, <3>4
  <2>3. QED
    BY <2>1, <2>2
<1> HIDE DEF goes, value
<1>7. /\ DOMAIN rows' = DOMAIN rows /\ \A p \in DOMAIN before : p # Hit => rows'[p] = rows[p]
      /\ goes => rows'[Hit] = [before[Hit] EXCEPT ![stmt.target] = value]
  BY <1>1, <1>2, <1>5
<1>8. SelectionTypeOK'
  BY <1>1, <1>2, <1>6 DEF SelectionInv, SelectionTypeOK
<1>9. AheadIsBefore'
  BY <1>1, <1>2, <1>7 DEF SelectionInv, AheadIsBefore
<1>10. StatementIsExact'
  <2>1. ends' # "end" /\ (ends' = "throw" => ~Fits')
    BY <1>1, <1>2, <1>3, <1>4
  <2>2. ASSUME Fits'
        PROVE  /\ Len(selected') = 0 /\ live' = DOMAIN before
               /\ \A p \in DOMAIN before :
                     rows'[p] = IF p \in Done'
                                THEN [before[p] EXCEPT ![stmt.target] = evaluate(stmt.new_value, before[p])]
                                ELSE before[p]
    <3>1. /\ Len(selected) = 0 /\ live = DOMAIN before
          /\ \A p \in DOMAIN before :
                rows[p] = IF p \in Done
                          THEN [before[p] EXCEPT ![stmt.target] = evaluate(stmt.new_value, before[p])]
                          ELSE before[p]
      BY <1>2, <1>3, <2>2 DEF SelectionInv, StatementIsExact
    <3>2. goes /\ value = evaluate(stmt.new_value, before[Hit])
      BY <1>2, <1>3, <1>4, <2>2 DEF value
    <3>3. QED
      BY <1>1, <1>2, <1>7, <3>1, <3>2
  <2>3. \A p \in DOMAIN before : evaluate(stmt.new_value, before[p])' = evaluate(stmt.new_value, before[p])
    BY <1>1 DEF evaluate
  <2>4. QED
    BY <1>1, <1>2, <2>1, <2>2, <2>3 DEF StatementIsExact
<1>11. QED
  BY <1>8, <1>9, <1>10 DEF SelectionInv

LEMMA InitSelectionInv == InitSelection => SelectionInv
<1> SUFFICES ASSUME InitSelection
             PROVE  SelectionInv
  OBVIOUS
<1>1. SelectionTypeOK
  <2>1. before \in Seq(Typed(sch))
    BY SelectionAssumption DEF InitSelection
  <2>2. before \in [DOMAIN before -> Typed(sch)]
    BY <2>1
  <2>3. QED
    BY <2>2 DEF InitSelection, SelectionTypeOK
<1>2. Done = {}
  BY <1>1, TypesOf DEF InitSelection, Done, Hits
<1>3. Cardinality(Done) = 0 /\ Len(selected) = 0
  BY <1>2, FS_EmptySet DEF InitSelection
<1>4. QED
  BY <1>1, <1>2, <1>3 DEF InitSelection, SelectionInv, AheadIsBefore, StatementIsExact

-----------------------------------------------------------------------------

\* What a term has in a rw of two tables it has in that of one, if it is of that one.
LEMMA TermOfOne ==
    ASSUME SelectionTypeOK, NEW other \in Schemas, DOMAIN other \cap DOMAIN sch = {},
           NEW r \in Typed(sch), NEW r2 \in Typed(other), NEW p \in DOMAIN pred
    PROVE  /\ applies_to(pred[p], sch) =>
                 /\ evaluate(pred[p].lhs, r) = evaluate(pred[p].lhs, Both(r, r2))
                 /\ evaluate(pred[p].rhs, r) = evaluate(pred[p].rhs, Both(r, r2))
           /\ applies_to(pred[p], other) =>
                 /\ evaluate(pred[p].lhs, r2) = evaluate(pred[p].lhs, Both(r, r2))
                 /\ evaluate(pred[p].rhs, r2) = evaluate(pred[p].rhs, Both(r, r2))
<1>1. DOMAIN r = DOMAIN sch /\ DOMAIN r2 = DOMAIN other
  BY DEF Typed
<1>2. \A f \in DOMAIN sch : Both(r, r2)[f] = r[f]
  BY <1>1 DEF Both
<1>3. \A f \in DOMAIN other : Both(r, r2)[f] = r2[f]
  BY <1>1 DEF Both
<1>4. QED
  BY <1>2, <1>3 DEF applies_to, evaluate

\* The parts have no term twice.
LEMMA PartsAreFew ==
    ASSUME SelectionTypeOK, NEW other
    PROVE  Cardinality(select_sub_pred(sch)) + Cardinality(join_sub_pred(sch, other)) <= Len(pred)
<1> DEFINE A == select_sub_pred(sch)
           B == join_sub_pred(sch, other)
           n == Len(pred)
<1>1. A \subseteq 1..n /\ B \subseteq 1..n /\ A \cap B = {} /\ n \in Nat
  BY TypesOf DEF select_sub_pred, join_sub_pred
<1> HIDE DEF A, B, n
<1>2. IsFiniteSet(1..n) /\ Cardinality(1..n) = n
  BY <1>1, FS_Interval
<1>3. IsFiniteSet(A) /\ IsFiniteSet(B) /\ IsFiniteSet(A \cup B)
  BY <1>1, <1>2, FS_Subset
<1>4. Cardinality(A \cup B) <= n
  BY <1>1, <1>2, FS_Subset
<1>5. Cardinality(A \cup B) = Cardinality(A) + Cardinality(B) - Cardinality(A \cap B)
  BY <1>3, FS_Union
<1>6. Cardinality(A \cap B) = 0 /\ Cardinality(A) \in Nat /\ Cardinality(B) \in Nat
  BY <1>1, <1>3, FS_EmptySet, FS_CardinalityType
<1>7. Cardinality(A) + Cardinality(B) <= n
  BY <1>4, <1>5, <1>6
<1>8. QED
  BY <1>7 DEF A, B, n

LEMMA SplitHolds == SelectionTypeOK => SplitIsExact
<1> SUFFICES ASSUME SelectionTypeOK, NEW other \in Schemas, DOMAIN other \cap DOMAIN sch = {},
                    NEW r \in Typed(sch), NEW r2 \in Typed(other),
                    \A p \in DOMAIN pred : applies_to(pred[p], Both(sch, other))
             PROVE  /\ Holds(DOMAIN pred, Both(r, r2)) <=>
                          /\ Holds(select_sub_pred(sch), r) /\ Holds(select_sub_pred(other), r2)
                          /\ Holds(join_sub_pred(sch, other), Both(r, r2))
                    /\ Holds(DOMAIN pred, Both(r, r2)) => \A f \in DOMAIN sch :
                          /\ equates_with_constant(f) \notin {"throw", ZeroInt} => r[f] = equates_with_constant(f)
                          /\ equates_with_field(f) # "none" => r[f] = Both(r, r2)[equates_with_field(f)]
  BY PartsAreFew DEF SplitIsExact
<1>1. Holds(DOMAIN pred, Both(r, r2)) <=>
          /\ Holds(select_sub_pred(sch), r) /\ Holds(select_sub_pred(other), r2)
          /\ Holds(join_sub_pred(sch, other), Both(r, r2))
  BY TermOfOne DEF Holds, select_sub_pred, join_sub_pred
<1>2. ASSUME Holds(DOMAIN pred, Both(r, r2)), NEW f \in DOMAIN sch
      PROVE  /\ equates_with_constant(f) \notin {"throw", ZeroInt} => r[f] = equates_with_constant(f)
             /\ equates_with_field(f) # "none" => r[f] = Both(r, r2)[equates_with_field(f)]
  <2>1. f \in Names /\ Both(r, r2)[f] = r[f]
    <3>1. DOMAIN r = DOMAIN sch
      BY DEF Typed
    <3>2. QED
      BY <3>1, TypesOf DEF Both
  <2>2. ASSUME NEW p \in DOMAIN pred, NEW others, Other(pred[p], f, others) # "none"
        PROVE  \/ pred[p].lhs = f /\ pred[p].rhs = Other(pred[p], f, others) /\ pred[p].rhs \in others
               \/ pred[p].rhs = f /\ pred[p].lhs = Other(pred[p], f, others) /\ pred[p].lhs \in others
    BY <2>2 DEF Other
  <2>3. ASSUME equates_with_constant(f) \notin {"throw", ZeroInt}
        PROVE  r[f] = equates_with_constant(f)
    <3> DEFINE c == Other(pred[1], f, Literals)
    <3>1. pred # <<>> /\ equates_with_constant(f) = c /\ c \in Ints
      BY <2>3 DEF equates_with_constant
    <3>2. 1 \in DOMAIN pred
      <4>1. pred \in Seq([lhs : Names \cup Literals, rhs : Names \cup Literals])
        BY SelectionAssumption DEF SelectionTypeOK
      <4>2. Len(pred) # 0
        BY <3>1, <4>1
      <4>3. QED
        BY <4>2, TypesOf
    <3>3. c # "none" /\ c \notin Names
      BY <3>1, SelectionAssumption DEF Literals
    <3>4. evaluate(pred[1].lhs, Both(r, r2)) = evaluate(pred[1].rhs, Both(r, r2))
      BY <1>2, <3>2 DEF Holds
    <3>5. evaluate(c, Both(r, r2)) = c /\ evaluate(f, Both(r, r2)) = r[f]
      BY <2>1, <3>3 DEF evaluate
    <3>6. \/ pred[1].lhs = f /\ pred[1].rhs = c
          \/ pred[1].rhs = f /\ pred[1].lhs = c
      BY <2>2, <3>2, <3>3
    <3>7. QED
      BY <3>1, <3>4, <3>5, <3>6
  <2>4. ASSUME equates_with_field(f) # "none"
        PROVE  r[f] = Both(r, r2)[equates_with_field(f)]
    <3> DEFINE those == {p \in DOMAIN pred : Other(pred[p], f, Names) # "none"}
               m == Min(those)
               g == Other(pred[m], f, Names)
    <3>1. those # {} /\ equates_with_field(f) = g
      BY <2>4 DEF equates_with_field
    <3>2. m \in those
      <4>1. those \in SUBSET Nat
        BY TypesOf
      <4> HIDE DEF those
      <4>2. QED
        BY <3>1, <4>1, MinOf
    <3>3. m \in DOMAIN pred /\ g # "none"
      BY <3>2
    <3> HIDE DEF those, m
    <3>4. evaluate(pred[m].lhs, Both(r, r2)) = evaluate(pred[m].rhs, Both(r, r2))
      BY <1>2, <3>3 DEF Holds
    <3>5. /\ g \in Names
          /\ \/ pred[m].lhs = f /\ pred[m].rhs = g
             \/ pred[m].rhs = f /\ pred[m].lhs = g
      BY <2>2, <3>3
    <3>6. evaluate(g, Both(r, r2)) = Both(r, r2)[g] /\ evaluate(f, Both(r, r2)) = r[f]
      BY <2>1, <3>5 DEF evaluate
    <3>7. QED
      BY <3>1, <3>4, <3>5, <3>6
  <2>5. QED
    BY <2>3, <2>4
<1>3. QED
  BY <1>1, <1>2

\* The scan of a statement has what it said done to the rows it has come to, and the rows
\* ahead are as they were.
THEOREM SelectionInvHolds == SelectionSpec => []SelectionInv
<1>1. SelectionInv /\ [NextSelection]_selectionVars => SelectionInv'
  <2> SUFFICES ASSUME SelectionInv, [NextSelection]_selectionVars
               PROVE  SelectionInv'
    OBVIOUS
  <2>1. CASE UNCHANGED selectionVars
    <3>1. UNCHANGED <<sch, pred, stmt, rows, live, row_at, ends, selected, before>>
      BY <2>1 DEF selectionVars
    <3>2. SelectionTypeOK' /\ AheadIsBefore'
      BY <3>1 DEF SelectionInv, SelectionTypeOK, AheadIsBefore
    <3>3. Hits' = Hits /\ Done' = Done /\ (Fits' <=> Fits) /\ PredNames' = PredNames
      BY <3>1 DEF Hits, Done, TermHolds, Known, evaluate, Fits, PredNames
    <3>4. \A p \in DOMAIN before : evaluate(stmt.new_value, before[p])' = evaluate(stmt.new_value, before[p])
      BY <3>1 DEF evaluate
    <3>5. StatementIsExact'
      BY <3>1, <3>3, <3>4 DEF SelectionInv, StatementIsExact
    <3>6. QED
      BY <3>2, <3>5 DEF SelectionInv
  <2>2. QED
    BY <2>1, NextEndsStep, SelectStep, DeleteRowStep, ModifyRowStep DEF NextSelection
<1>2. QED
  BY <1>1, InitSelectionInv, PTL DEF SelectionSpec

\* Statements do what they say to the rows of their predicate, each once and no other, and
\* planners split a predicate into parts that are all of it.
THEOREM SelectionsAreExact == SelectionSpec => []SelectionIsExact
<1>1. SelectionInv => SelectionIsExact
  BY SplitHolds DEF SelectionInv, SelectionIsExact
<1>2. QED
  BY <1>1, SelectionInvHolds, PTL

-----------------------------------------------------------------------------
\* Each of a set is at one place of one of some sequences, and nothing else is.
Each(all, set) ==
    /\ \A q \in DOMAIN all : all[q] \in Seq(set)
    /\ \A x \in set : \E q \in DOMAIN all : \E n \in 1..Len(all[q]) : all[q][n] = x
    /\ \A q, u \in DOMAIN all : \A n \in 1..Len(all[q]), m \in 1..Len(all[u]) :
          all[q][n] = all[u][m] => q = u /\ n = m

LEMMA EachOnce ==
    ASSUME NEW all, NEW set, Each(all, set), NEW q \in DOMAIN all, NEW u \in DOMAIN all,
           NEW n \in 1..Len(all[q]), NEW m \in 1..Len(all[u]), all[q][n] = all[u][m]
    PROVE  q = u /\ n = m
<1> DEFINE P(v, w) == \A x \in 1..Len(all[v]), y \in 1..Len(all[w]) : all[v][x] = all[w][y] => v = w /\ x = y
<1>1. \A v, w \in DOMAIN all : P(v, w) BY DEF Each
<1> HIDE DEF P
<1>2. P(q, u) BY <1>1
<1> QED BY <1>2 DEF P

\* One more, at the end of one of the sequences.
LEMMA EachAppended ==
    ASSUME NEW all, NEW set, Each(all, set), NEW q \in DOMAIN all, NEW x, x \notin set,
           NEW all2, DOMAIN all2 = DOMAIN all, all2[q] = Append(all[q], x),
           \A u \in DOMAIN all : u # q => all2[u] = all[u]
    PROVE  Each(all2, set \cup {x})
<1> DEFINE more == set \cup {x}
<1>1. /\ all[q] \in Seq(set) /\ all2[q] \in Seq(more) /\ Len(all2[q]) = Len(all[q]) + 1
      /\ Len(all[q]) \in Nat /\ all2[q][Len(all[q]) + 1] = x
      /\ \A n \in 1..Len(all[q]) : all2[q][n] = all[q][n]
  <2>1. all[q] \in Seq(set) BY DEF Each
  <2>2. all[q] \in Seq(more) BY <2>1
  <2> QED BY <2>1, <2>2
<1>2. \A u \in DOMAIN all2 : all2[u] \in Seq(more)
  <2> SUFFICES ASSUME NEW u \in DOMAIN all, u # q PROVE all2[u] \in Seq(more)
      BY <1>1
  <2>1. all[u] \in Seq(set) BY DEF Each
  <2> QED BY <2>1
<1>3. \A y \in more : \E u \in DOMAIN all2 : \E n \in 1..Len(all2[u]) : all2[u][n] = y
  <2> SUFFICES ASSUME NEW y \in more PROVE \E u \in DOMAIN all2 : \E n \in 1..Len(all2[u]) : all2[u][n] = y
      OBVIOUS
  <2>1. CASE y = x BY <1>1, <2>1
  <2>2. CASE y \in set
    <3>1. PICK u \in DOMAIN all : \E n \in 1..Len(all[u]) : all[u][n] = y BY <2>2 DEF Each
    <3>2. PICK n \in 1..Len(all[u]) : all[u][n] = y BY <3>1
    <3>3. n \in 1..Len(all2[u]) /\ all2[u][n] = y BY <3>2, <1>1
    <3> QED BY <3>3
  <2> QED BY <2>1, <2>2
<1>4. ASSUME NEW u \in DOMAIN all2, NEW v \in DOMAIN all2, NEW n \in 1..Len(all2[u]), NEW m \in 1..Len(all2[v]),
             all2[u][n] = all2[v][m]
      PROVE  u = v /\ n = m
  <2> DEFINE Old(w, j) == j \in 1..Len(all[w]) /\ all2[w][j] = all[w][j] /\ all[w][j] \in set
  <2>1. ASSUME NEW w \in DOMAIN all2, NEW j \in 1..Len(all2[w])
        PROVE  Old(w, j) \/ (w = q /\ j = Len(all[q]) + 1 /\ all2[w][j] = x)
    <3>1. all[w] \in Seq(set) BY DEF Each
    <3>2. CASE w = q BY <1>1, <3>2, <3>1
    <3>3. CASE w # q BY <3>3, <3>1
    <3> QED BY <3>2, <3>3
  <2>2. CASE Old(u, n) /\ Old(v, m) BY <2>2, <1>4, EachOnce
  <2>3. CASE ~(Old(u, n) /\ Old(v, m))
    <3> HIDE DEF Old
    <3>1. (u = q /\ n = Len(all[q]) + 1 /\ all2[u][n] = x) \/ Old(u, n) BY <2>1
    <3>2. (v = q /\ m = Len(all[q]) + 1 /\ all2[v][m] = x) \/ Old(v, m) BY <2>1
    <3>3. Old(u, n) => all2[u][n] \in set BY DEF Old
    <3>4. Old(v, m) => all2[v][m] \in set BY DEF Old
    <3> QED BY <3>1, <3>2, <3>3, <3>4, <2>3, <1>4
  <2> QED BY <2>2, <2>3
<1> QED BY <1>2, <1>3, <1>4 DEF Each

\* The first of one of the sequences is taken.
LEMMA EachCut ==
    ASSUME NEW all, NEW set, Each(all, set), NEW q \in DOMAIN all, all[q] # <<>>,
           NEW all2, DOMAIN all2 = DOMAIN all, all2[q] = Tail(all[q]),
           \A u \in DOMAIN all : u # q => all2[u] = all[u]
    PROVE  Head(all[q]) \in set /\ Each(all2, set \ {Head(all[q])})
<1> DEFINE x == Head(all[q])
           less == set \ {x}
<1>1. /\ all[q] \in Seq(set) /\ Len(all[q]) \in Nat \ {0} /\ x = all[q][1] /\ x \in set
      /\ Len(all2[q]) = Len(all[q]) - 1
      /\ \A n \in 1..Len(all2[q]) : n + 1 \in 1..Len(all[q]) /\ all2[q][n] = all[q][n + 1]
      /\ all2[q] \in Seq(set)
  <2>1. all[q] \in Seq(set) BY DEF Each
  <2> QED BY <2>1
<1>2. ASSUME NEW w \in DOMAIN all, NEW j \in 1..Len(all[w]), all[w][j] = x PROVE w = q /\ j = 1
      BY <1>1, <1>2, EachOnce
<1> DEFINE Was(w, j) == IF w = q THEN j + 1 ELSE j
<1>3. ASSUME NEW w \in DOMAIN all2, NEW j \in 1..Len(all2[w])
      PROVE  /\ Was(w, j) \in 1..Len(all[w]) /\ all2[w][j] = all[w][Was(w, j)]
             /\ all2[w][j] \in less
  <2>1. Was(w, j) \in 1..Len(all[w]) /\ all2[w][j] = all[w][Was(w, j)] BY <1>1
  <2>2. all[w] \in Seq(set) BY DEF Each
  <2>3. all2[w][j] \in set BY <2>1, <2>2
  <2>4. all2[w][j] # x
    <3> SUFFICES ASSUME all2[w][j] = x PROVE FALSE OBVIOUS
    <3>1. w = q /\ Was(w, j) = 1 BY <2>1, <1>2
    <3> QED BY <3>1, <1>1
  <2> QED BY <2>1, <2>3, <2>4
<1>4. \A w \in DOMAIN all2 : all2[w] \in Seq(less)
  <2> SUFFICES ASSUME NEW w \in DOMAIN all2 PROVE all2[w] \in Seq(less) OBVIOUS
  <2>1. all2[w] \in Seq(set) BY <1>1 DEF Each
  <2>2. \A j \in 1..Len(all2[w]) : all2[w][j] \in less BY <1>3
  <2> QED BY <2>1, <2>2
<1>5. ASSUME NEW y \in less PROVE \E w \in DOMAIN all2 : \E j \in 1..Len(all2[w]) : all2[w][j] = y
  <2>1. PICK w \in DOMAIN all : \E j \in 1..Len(all[w]) : all[w][j] = y BY DEF Each
  <2>2. PICK j \in 1..Len(all[w]) : all[w][j] = y BY <2>1
  <2>3. CASE w # q BY <2>2, <2>3
  <2>4. CASE w = q
    <3>1. j # 1 BY <2>2, <2>4, <1>1
    <3>2. j - 1 \in 1..Len(all2[q]) /\ all2[q][j - 1] = y BY <3>1, <2>2, <2>4, <1>1
    <3> QED BY <3>2
  <2> QED BY <2>3, <2>4
<1>6. ASSUME NEW u \in DOMAIN all2, NEW v \in DOMAIN all2, NEW n \in 1..Len(all2[u]), NEW m \in 1..Len(all2[v]),
             all2[u][n] = all2[v][m]
      PROVE  u = v /\ n = m
  <2>1. all[u][Was(u, n)] = all[v][Was(v, m)] /\ Was(u, n) \in 1..Len(all[u]) /\ Was(v, m) \in 1..Len(all[v])
        BY <1>3, <1>6
  <2>2. u = v /\ Was(u, n) = Was(v, m) BY <2>1, EachOnce
  <2>3. n \in Int /\ m \in Int OBVIOUS
  <2> QED BY <2>2, <2>3
<1> QED BY <1>1, <1>4, <1>5, <1>6 DEF Each

\* The sequences that are not empty are the same under other indexes.
LEMMA EachRenamed ==
    ASSUME NEW all, NEW set, Each(all, set), NEW all2, NEW old,
           \A q \in DOMAIN all2 : all2[q] # <<>> => old[q] \in DOMAIN all /\ all2[q] = all[old[q]],
           \A u \in DOMAIN all : all[u] # <<>> => \E q \in DOMAIN all2 : all2[q] = all[u],
           \A q, u \in DOMAIN all2 : all2[q] # <<>> /\ all2[u] # <<>> /\ old[q] = old[u] => q = u
    PROVE  Each(all2, set)
<1>1. ASSUME NEW q \in DOMAIN all2 PROVE all2[q] \in Seq(set)
  <2>1. CASE all2[q] = <<>> BY <2>1
  <2>2. CASE all2[q] # <<>> BY <2>2 DEF Each
  <2> QED BY <2>1, <2>2
<1>2. ASSUME NEW x \in set PROVE \E q \in DOMAIN all2 : \E n \in 1..Len(all2[q]) : all2[q][n] = x
  <2>1. PICK u \in DOMAIN all : \E n \in 1..Len(all[u]) : all[u][n] = x BY DEF Each
  <2>2. all[u] # <<>> BY <2>1
  <2>3. PICK q \in DOMAIN all2 : all2[q] = all[u] BY <2>2
  <2> QED BY <2>1, <2>3
<1>3. ASSUME NEW q \in DOMAIN all2, NEW u \in DOMAIN all2, NEW n \in 1..Len(all2[q]), NEW m \in 1..Len(all2[u]),
             all2[q][n] = all2[u][m]
      PROVE  q = u /\ n = m
  <2>1. all2[q] # <<>> /\ all2[u] # <<>> BY <1>1
  <2>2. old[q] \in DOMAIN all /\ old[u] \in DOMAIN all /\ all2[q] = all[old[q]] /\ all2[u] = all[old[u]]
        BY <2>1
  <2>3. old[q] = old[u] /\ n = m BY <2>2, <1>3, EachOnce
  <2> QED BY <2>1, <2>3
<1> QED BY <1>1, <1>2, <1>3 DEF Each

\* One more sequence, of one.
LEMMA EachAdded ==
    ASSUME NEW all, NEW set, Each(all, set), NEW q, q \notin DOMAIN all, NEW x, x \notin set,
           NEW all2, DOMAIN all2 = DOMAIN all \cup {q}, all2[q] = <<x>>,
           \A u \in DOMAIN all : all2[u] = all[u]
    PROVE  Each(all2, set \cup {x})
<1> DEFINE all1 == [u \in DOMAIN all \cup {q} |-> IF u = q THEN <<>> ELSE all[u]]
           old == [u \in DOMAIN all |-> u]
<1>1. Each(all1, set)
  <2>1. \A u \in DOMAIN all1 : all1[u] # <<>> => old[u] \in DOMAIN all /\ all1[u] = all[old[u]] OBVIOUS
  <2>2. \A u \in DOMAIN all : all[u] # <<>> => \E v \in DOMAIN all1 : all1[v] = all[u]
    <3> SUFFICES ASSUME NEW u \in DOMAIN all PROVE u \in DOMAIN all1 /\ all1[u] = all[u] OBVIOUS
    <3> QED OBVIOUS
  <2>3. \A u, v \in DOMAIN all1 : all1[u] # <<>> /\ all1[v] # <<>> /\ old[u] = old[v] => u = v OBVIOUS
  <2> HIDE DEF all1, old
  <2> QED BY <2>1, <2>2, <2>3, EachRenamed
<1>2. DOMAIN all2 = DOMAIN all1 /\ all2[q] = Append(all1[q], x) /\ q \in DOMAIN all1 OBVIOUS
<1>3. \A u \in DOMAIN all1 : u # q => all2[u] = all1[u] OBVIOUS
<1> HIDE DEF all1
<1> QED BY <1>1, <1>2, <1>3, EachAppended

-----------------------------------------------------------------------------
ScanSet == [runs : Seq(Seq(Nat)), pos : Seq(Nat), curr : Nat, more : [1..2 -> BOOLEAN]]

\* A scan of a table that has been sorted.
ScanOK(s, tab) ==
    /\ s \in ScanSet
    /\ Len(s.runs) \in 1..2 /\ Each(s.runs, DOMAIN tab)
    /\ Len(s.pos) = Len(s.runs) /\ \A q \in DOMAIN s.runs : s.runs[q] # <<>> /\ s.pos[q] <= Len(s.runs[q])
    /\ s.curr \in 0..Len(s.runs)

LEMMA AdvanceOK ==
    ASSUME NEW s, NEW tab, ScanOK(s, tab), NEW q \in DOMAIN s.runs
    PROVE  LET t == Advance(s, q)
           IN /\ ScanOK(t, tab) /\ t.runs = s.runs /\ t.curr = s.curr
              /\ t.pos[q] = (IF s.pos[q] < Len(s.runs[q]) THEN s.pos[q] + 1 ELSE 0) /\ (t.more[q] <=> t.pos[q] > 0)
              /\ \A u \in DOMAIN s.runs : u # q => t.pos[u] = s.pos[u]
              /\ \A u \in 1..2 : u # q => t.more[u] = s.more[u]
<1> DEFINE p == IF s.pos[q] < Len(s.runs[q]) THEN s.pos[q] + 1 ELSE 0
           t == Advance(s, q)
<1>1. s \in ScanSet /\ DOMAIN s.runs = 1..Len(s.runs) /\ Len(s.runs) \in 1..2 /\ Len(s.pos) = Len(s.runs)
      /\ s.curr \in 0..Len(s.runs) /\ Each(s.runs, DOMAIN tab)
      /\ \A u \in DOMAIN s.runs : s.runs[u] # <<>> /\ s.pos[u] <= Len(s.runs[u])
      BY DEF ScanOK, ScanSet
<1>2. s.pos[q] \in Nat /\ s.runs[q] \in Seq(Nat) /\ p \in Nat /\ p <= Len(s.runs[q]) /\ s.pos \in Seq(Nat)
      /\ q \in 1..2 /\ q \in 1..Len(s.pos)
      BY <1>1 DEF ScanSet
<1>3. t = [s EXCEPT !.pos = [s.pos EXCEPT ![q] = p], !.more = [s.more EXCEPT ![q] = p > 0]]
      BY DEF Advance
<1> HIDE DEF t, p
<1>4. /\ t.pos = [s.pos EXCEPT ![q] = p] /\ t.more = [s.more EXCEPT ![q] = p > 0] /\ t.runs = s.runs /\ t.curr = s.curr
      /\ t = [runs |-> t.runs, pos |-> t.pos, curr |-> t.curr, more |-> t.more]
      BY <1>1, <1>3 DEF ScanSet
<1>5. t.pos \in Seq(Nat) /\ Len(t.pos) = Len(s.pos) /\ \A u \in 1..Len(s.pos) : t.pos[u] = IF u = q THEN p ELSE s.pos[u]
      BY <1>2, <1>4
<1>6. t.more \in [1..2 -> BOOLEAN] /\ \A u \in 1..2 : t.more[u] = IF u = q THEN p > 0 ELSE s.more[u]
      BY <1>1, <1>2, <1>4 DEF ScanSet
<1>7. t \in ScanSet BY <1>1, <1>4, <1>5, <1>6 DEF ScanSet
<1>8. ScanOK(t, tab) BY <1>1, <1>2, <1>4, <1>5, <1>7 DEF ScanOK
<1> QED BY <1>1, <1>2, <1>4, <1>5, <1>6, <1>8 DEF p, t

LEMMA SortNextOK ==
    ASSUME NEW s, NEW tab, ScanOK(s, tab)
    PROVE  LET n == SortNext(s, tab)
           IN /\ n.found \in BOOLEAN /\ n.ok \in BOOLEAN
              /\ n.ok => /\ ScanOK(n.scan, tab) /\ n.scan.runs = s.runs
                         /\ n.found => Readable(n.scan, n.scan.curr) /\ Current(n.scan) \in DOMAIN tab
<1> DEFINE t == IF s.curr = 0 THEN s ELSE Advance(s, s.curr)
           both == t.more[1] /\ t.more[2]
           ok == both => Readable(t, 1) /\ Readable(t, 2)
           earlier == both => ok /\ ~Equal(tab[t.runs[1][t.pos[1]]], tab[t.runs[2][t.pos[2]]])
           c == IF t.more[1] /\ earlier THEN 1 ELSE 2
           found == t.more[1] \/ t.more[2]
           n == SortNext(s, tab)
<1>1. /\ n.scan = (IF found THEN [t EXCEPT !.curr = c] ELSE t) /\ n.found = found
      /\ n.ok = (ok /\ (found => Readable(t, c)))
      BY DEF SortNext
<1>2. s.curr \in 0..Len(s.runs) /\ DOMAIN s.runs = 1..Len(s.runs) /\ Len(s.runs) \in 1..2 BY DEF ScanOK, ScanSet
<1>3. ScanOK(t, tab) /\ t.runs = s.runs BY <1>2, AdvanceOK
<1>4. c \in 1..2 /\ t \in ScanSet BY <1>3 DEF ScanOK
<1> HIDE DEF t, c, n, ok
<1>5. found \in BOOLEAN BY <1>4 DEF ScanSet
<1> HIDE DEF found
<1>6. n.ok \in BOOLEAN BY <1>1 DEF Readable
<1>7. ASSUME n.ok, found PROVE ScanOK(n.scan, tab) /\ n.scan.runs = s.runs /\ Readable(n.scan, n.scan.curr)
  <2>1. Readable(t, c) BY <1>1, <1>7
  <2>2. n.scan = [t EXCEPT !.curr = c] BY <1>1, <1>7
  <2> DEFINE v == n.scan
  <2> HIDE DEF v
  <2>a. v = [t EXCEPT !.curr = c] /\ c \in Nat BY <2>2, <1>4 DEF v
  <2>b. v.curr = c /\ v.runs = t.runs /\ v.pos = t.pos /\ v.more = t.more BY <2>a, <1>4 DEF ScanSet
  <2>c. v \in ScanSet BY <2>a, <1>4 DEF ScanSet
  <2>3. n.scan.curr = c /\ n.scan.runs = t.runs /\ n.scan.pos = t.pos /\ n.scan.more = t.more /\ n.scan \in ScanSet
        BY <2>b, <2>c DEF v
  <2>4. c \in DOMAIN t.runs BY <2>1 DEF Readable
  <2>5. ScanOK(n.scan, tab) BY <2>3, <2>4, <1>3, <1>4 DEF ScanOK, ScanSet
  <2>6. Readable(n.scan, n.scan.curr) BY <2>1, <2>3 DEF Readable
  <2> QED BY <2>3, <2>5, <2>6, <1>3
<1>8. ASSUME n.ok, ~found PROVE ScanOK(n.scan, tab) /\ n.scan.runs = s.runs
      BY <1>1, <1>3, <1>8
<1>9. ASSUME NEW u, ScanOK(u, tab), Readable(u, u.curr) PROVE Current(u) \in DOMAIN tab
  <2>1. u \in ScanSet /\ u.curr \in DOMAIN u.runs /\ u.pos[u.curr] > 0 /\ u.pos[u.curr] <= Len(u.runs[u.curr])
        /\ Len(u.pos) = Len(u.runs)
        BY <1>9 DEF ScanOK, Readable
  <2>2. u.pos[u.curr] \in 1..Len(u.runs[u.curr]) BY <2>1 DEF ScanSet
  <2>3. u.runs[u.curr] \in Seq(DOMAIN tab) BY <1>9, <2>1 DEF ScanOK, Each
  <2> QED BY <2>2, <2>3 DEF Current
<1> QED BY <1>1, <1>5, <1>6, <1>7, <1>8, <1>9 DEF n

LEMMA BeforeFirstOK ==
    ASSUME NEW s \in ScanSet, NEW tab, Len(s.runs) \in 1..2, Each(s.runs, DOMAIN tab),
           \A q \in DOMAIN s.runs : s.runs[q] # <<>>
    PROVE  LET t == BeforeFirst(s)
           IN /\ ScanOK(t, tab) /\ t.runs = s.runs /\ t.curr = 0
              /\ \A q \in DOMAIN s.runs : t.pos[q] = 1 /\ t.more[q]
<1> DEFINE t == BeforeFirst(s)
           p == [q \in DOMAIN s.runs |-> 1]
           m == [q \in 1..2 |-> IF q \in DOMAIN s.runs THEN TRUE ELSE s.more[q]]
<1>1. t = [s EXCEPT !.curr = 0, !.pos = p, !.more = m] BY DEF BeforeFirst
<1>2. s.runs \in Seq(Seq(Nat)) /\ s.more \in [1..2 -> BOOLEAN] /\ DOMAIN s.runs = 1..Len(s.runs) BY DEF ScanSet
<1>3. p \in Seq(Nat) /\ Len(p) = Len(s.runs) /\ \A q \in DOMAIN s.runs : p[q] = 1
  <2>1. p \in [1..Len(s.runs) -> Nat] BY <1>2
  <2> QED BY <2>1, <1>2
<1>4. m \in [1..2 -> BOOLEAN] /\ \A q \in DOMAIN s.runs : m[q]
  <2>1. \A q \in 1..2 : s.more[q] \in BOOLEAN BY <1>2
  <2>2. \A q \in 1..2 : m[q] \in BOOLEAN BY <2>1
  <2>3. DOMAIN s.runs \subseteq 1..2 BY <1>2
  <2> QED BY <2>2, <2>3
<1> HIDE DEF t, p, m
<1>5. t.curr = 0 /\ t.pos = p /\ t.more = m /\ t.runs = s.runs BY <1>1 DEF ScanSet
<1>6. t \in ScanSet BY <1>1, <1>3, <1>4 DEF ScanSet
<1>7. \A q \in DOMAIN s.runs : s.runs[q] \in Seq(Nat) /\ Len(s.runs[q]) >= 1 BY <1>2
<1>8. ScanOK(t, tab)
  <2>1. \A q \in DOMAIN t.runs : t.runs[q] # <<>> /\ t.pos[q] <= Len(t.runs[q]) BY <1>3, <1>5, <1>7
  <2>2. t.curr \in 0..Len(t.runs) BY <1>2, <1>5
  <2> QED BY <1>3, <1>5, <1>6, <2>1, <2>2 DEF ScanOK
<1> QED BY <1>3, <1>4, <1>5, <1>8 DEF t

-----------------------------------------------------------------------------
\* Runs that are to be merged, and merged ones.
Kept == [x \in ({1} \X DOMAIN runs) \cup ({2} \X DOMAIN result) |-> IF x[1] = 1 THEN runs[x[2]] ELSE result[x[2]]]

RequestOK ==
    /\ kind \in {"sort", "group", "join", "index"} /\ fields \subseteq Fields
    /\ tables \in Seq(Seq(Records)) /\ Len(tables) = IF kind \in {"sort", "group"} THEN 1 ELSE 2
    /\ looping \in BOOLEAN /\ whole \in BOOLEAN /\ more_groups \in BOOLEAN /\ has_more \in Seq(BOOLEAN) /\ Len(has_more) = 2
    /\ m_join_val \in Nat /\ at \in Nat \X Nat
    /\ row \in {"none", "row", "end", "crash"}
    /\ looping => row # "crash" /\ kind \in {"group", "join"}
    /\ Opening => ~looping /\ ~whole /\ by = "new" /\ saved.pos = <<>>
    /\ kind = "index" /\ row # "crash" => tables[1] # <<>>

\* While a table is sorted, what has been read of it is in its runs: those before the two that
\* are merged have been copied, those behind them, and the merged ones, are not empty.
SortOK ==
    Opening =>
        /\ runs \in Seq(Seq(Nat)) /\ result \in Seq(Seq(Nat)) /\ Len(result) >= 1
        /\ read \in 0..Len(Source) /\ Each(Kept, 1..read)
        /\ read < Len(Source) \/ Len(runs) <= 2 => result = <<<<>>>>
        /\ Len(runs) > 2 => src2 <= Len(runs)
        /\ \A q \in DOMAIN runs : q > src2 \/ result = <<<<>>>> => runs[q] # <<>>
        /\ \A q \in DOMAIN runs : q < src1 => runs[q] = <<>>
        /\ \A q \in DOMAIN result : q < Len(result) => result[q] # <<>>
        /\ Len(runs) > 2 /\ result[Len(result)] = <<>> => runs[src1] # <<>>

ScansOK ==
    row # "crash" =>
        /\ scans \in Seq(ScanSet)
        /\ IF kind = "index" THEN scans = <<>> ELSE Len(scans) <= Len(tables)
        /\ \A j \in DOMAIN scans : ScanOK(scans[j], tables[j])

\* A position that has been saved is that of a record with the value of the last pairs.
SavedOK ==
    kind = "join" /\ row # "crash" /\ saved.pos # <<>> =>
        LET s == scans[2]
        IN /\ saved.pos \in Seq(Nat) /\ Len(saved.pos) = Len(s.runs) /\ Len(scans) = 2
           /\ \A q \in DOMAIN s.runs : saved.pos[q] <= Len(s.runs[q])
           /\ saved.curr \in DOMAIN s.runs /\ saved.pos[saved.curr] > 0
           /\ tables[2][s.runs[saved.curr][saved.pos[saved.curr]]][JoinField] = m_join_val

\* A scan that has more is at a record.
LoopOK ==
    kind = "join" /\ looping => \A j \in 1..2 : has_more[j] => Readable(scans[j], scans[j].curr)

MatTypes == RequestOK /\ SortOK /\ ScansOK /\ SavedOK /\ LoopOK

-----------------------------------------------------------------------------
\* Nothing else changes while a table is sorted.
LEMMA SortKeeps ==
    ASSUME MatTypes, Sort, UNCHANGED <<scans, row>>
    PROVE  /\ Opening /\ Opening' /\ Source' = Source /\ Source \in Seq(Records)
           /\ RequestOK' /\ ScansOK' /\ SavedOK' /\ LoopOK'
<1>1. UNCHANGED <<kind, fields, tables, looping, group, has_more, scans, more_groups, m_join_val, saved, at,
                  row, by, whole, out>>
      BY DEF Sort, request, loopState
<1>2. Opening /\ Opening' /\ Source' = Source BY <1>1 DEF Sort, Opening, Source
<1>3. Source \in Seq(Records)
  <2>1. Len(scans) + 1 \in 1..Len(tables)
    <3>1. scans \in Seq(ScanSet) BY <1>2 DEF MatTypes, ScansOK, Opening
    <3>2. Len(scans) \in Nat BY <3>1
    <3> QED BY <3>2, <1>2 DEF Opening, MatTypes, RequestOK
  <2> QED BY <2>1 DEF Source, MatTypes, RequestOK
<1>4. RequestOK' BY <1>1, <1>2 DEF MatTypes, RequestOK
<1>5. ScansOK' BY <1>1 DEF MatTypes, ScansOK
<1>6. SavedOK' BY <1>1 DEF MatTypes, SavedOK
<1>7. LoopOK' BY <1>1 DEF MatTypes, LoopOK, Readable
<1> QED BY <1>2, <1>3, <1>4, <1>5, <1>6, <1>7

LEMMA KeptIs ==
    /\ DOMAIN Kept = ({1} \X DOMAIN runs) \cup ({2} \X DOMAIN result)
    /\ \A q \in DOMAIN runs : Kept[<<1, q>>] = runs[q]
    /\ \A q \in DOMAIN result : Kept[<<2, q>>] = result[q]
BY DEF Kept

LEMMA SplitStep ==
    ASSUME MatTypes, split_into_runs
    PROVE  MatTypes'
<1>1. Sort /\ read < Len(Source) /\ read' = read + 1 /\ UNCHANGED <<result, scans, row>> BY DEF split_into_runs
<1>2. /\ Opening /\ Opening' /\ Source' = Source /\ Source \in Seq(Records)
      /\ RequestOK' /\ ScansOK' /\ SavedOK' /\ LoopOK'
      BY <1>1, SortKeeps
<1>3. /\ runs \in Seq(Seq(Nat)) /\ read \in 0..Len(Source) /\ Each(Kept, 1..read) /\ result = <<<<>>>>
      /\ \A q \in DOMAIN runs : runs[q] # <<>>
      BY <1>1, <1>2 DEF MatTypes, SortOK
<1>4. read + 1 \in 0..Len(Source) /\ read + 1 \in Nat /\ read + 1 \notin 1..read /\ 1..(read + 1) = (1..read) \cup {read + 1}
      BY <1>1, <1>2, <1>3
<1>5. DOMAIN result = {1} /\ result[1] = <<>> BY <1>3
<1>6. /\ runs' \in Seq(Seq(Nat)) /\ Each(Kept', 1..(read + 1)) /\ \A q \in DOMAIN runs' : runs'[q] # <<>>
  <2>1. CASE read > 0 /\ Equal(Source[read], Source[read + 1])
    <3> DEFINE n == Len(runs)
    <3>1. n \in DOMAIN runs
      <4>1. PICK x \in DOMAIN Kept : \E m \in 1..Len(Kept[x]) : Kept[x][m] = 1
            BY <2>1, <1>3 DEF Each
      <4>2. Kept[x] # <<>> BY <4>1, <1>3 DEF Each
      <4>3. \E q \in DOMAIN runs : x = <<1, q>> BY <4>2, <1>5, KeptIs
      <4> QED BY <4>3, <1>3
    <3>2. runs' = [runs EXCEPT ![n] = Append(runs[n], read + 1)] BY <2>1 DEF split_into_runs
    <3> HIDE DEF n
    <3>3. DOMAIN runs' = DOMAIN runs /\ runs'[n] = Append(runs[n], read + 1)
          /\ \A q \in DOMAIN runs : q # n => runs'[q] = runs[q]
          BY <3>1, <3>2
    <3>4. runs[n] \in Seq(Nat) BY <3>1, <1>3
    <3>5. Append(runs[n], read + 1) \in Seq(Nat) /\ Append(runs[n], read + 1) # <<>> BY <3>4, <1>4
    <3>6. runs' \in Seq(Seq(Nat)) BY <3>1, <3>2, <3>5, <1>3
    <3>7. <<1, n>> \in DOMAIN Kept /\ DOMAIN Kept' = DOMAIN Kept /\ Kept'[<<1, n>>] = Append(Kept[<<1, n>>], read + 1)
      <4>1. DOMAIN Kept' = DOMAIN Kept BY <3>3, <1>1, KeptIs DEF Kept
      <4> QED BY <4>1, <3>1, <3>3, KeptIs DEF Kept
    <3>8. \A x \in DOMAIN Kept : x # <<1, n>> => Kept'[x] = Kept[x] BY <3>3, <3>7, <1>1 DEF Kept
    <3> HIDE DEF Kept
    <3>9. Each(Kept', (1..read) \cup {read + 1}) BY <3>7, <3>8, <1>3, <1>4, EachAppended
    <3> QED BY <3>3, <3>5, <3>6, <3>9, <1>3, <1>4
  <2>2. CASE ~(read > 0 /\ Equal(Source[read], Source[read + 1]))
    <3> DEFINE n == Len(runs) + 1
    <3>1. runs' = Append(runs, <<read + 1>>) BY <2>2 DEF split_into_runs
    <3>2. <<read + 1>> \in Seq(Nat) BY <1>4
    <3>3. /\ DOMAIN runs' = DOMAIN runs \cup {n} /\ n \notin DOMAIN runs /\ runs'[n] = <<read + 1>>
          /\ \A q \in DOMAIN runs : runs'[q] = runs[q]
          /\ runs' \in Seq(Seq(Nat))
          BY <3>1, <3>2, <1>3
    <3> HIDE DEF n
    <3>4. DOMAIN Kept' = DOMAIN Kept \cup {<<1, n>>} /\ <<1, n>> \notin DOMAIN Kept /\ Kept'[<<1, n>>] = <<read + 1>>
      <4>1. DOMAIN Kept' = DOMAIN Kept \cup {<<1, n>>} BY <3>3, <1>1 DEF Kept
      <4>2. <<1, n>> \notin DOMAIN Kept BY <3>3 DEF Kept
      <4>3. Kept'[<<1, n>>] = runs'[n] BY <4>1, <3>3 DEF Kept
      <4> QED BY <4>1, <4>2, <4>3, <3>3
    <3>5. \A x \in DOMAIN Kept : Kept'[x] = Kept[x] BY <3>3, <3>4, <1>1 DEF Kept
    <3> HIDE DEF Kept
    <3>6. Each(Kept', (1..read) \cup {read + 1}) BY <3>4, <3>5, <1>3, <1>4, EachAdded
    <3>7. Each(Kept', 1..(read + 1)) BY <3>6, <1>4
    <3>8. \A q \in DOMAIN runs' : runs'[q] # <<>>
      <4>1. <<read + 1>> # <<>> OBVIOUS
      <4> QED BY <4>1, <3>3, <1>3
    <3> QED BY <3>3, <3>7, <3>8
  <2> QED BY <2>1, <2>2
<1>7. SortOK'
  <2>1. src1' = 1 /\ src2' = 2 /\ Len(result') = 1 /\ result' = <<<<>>>> BY <1>1, <1>3 DEF src1, src2
  <2>2. runs' \in Seq(Seq(Nat)) /\ DOMAIN runs' = 1..Len(runs') /\ Len(runs') \in Nat BY <1>6
  <2>3. read' \in 0..Len(Source') /\ Each(Kept', 1..read') BY <1>1, <1>2, <1>4, <1>6
  <2>4. result' \in Seq(Seq(Nat)) BY <2>1
  <2>5. \A q \in DOMAIN runs' : (q > 2 \/ result' = <<<<>>>> => runs'[q] # <<>>) /\ (q < 1 => runs'[q] = <<>>)
        BY <1>6, <2>2
  <2>6. \A q \in DOMAIN result' : q < Len(result') => result'[q] # <<>> BY <2>1
  <2>7. Len(runs') > 2 => 2 <= Len(runs') /\ runs'[1] # <<>>
    <3>1. Len(runs') > 2 => 1 \in DOMAIN runs' /\ 2 <= Len(runs') BY <2>2
    <3>2. 1 \in DOMAIN runs' => runs'[1] # <<>> BY <1>6
    <3> QED BY <3>1, <3>2
  <2> QED BY <2>1, <2>2, <2>3, <2>4, <2>5, <2>6, <2>7 DEF SortOK
<1> QED BY <1>2, <1>7 DEF MatTypes

LEMMA MergeStep ==
    ASSUME MatTypes, merge_two_runs
    PROVE  MatTypes'
<1>1. Merging /\ UNCHANGED <<read, scans, row>> /\ \E src \in {src1, src2} : copy(src) BY DEF merge_two_runs
<1>2. PICK src \in {src1, src2} : copy(src) BY <1>1
<1>3. /\ Opening /\ Opening' /\ Source' = Source /\ Source \in Seq(Records)
      /\ RequestOK' /\ ScansOK' /\ SavedOK' /\ LoopOK'
      BY <1>1, SortKeeps DEF Merging
<1>4. /\ runs \in Seq(Seq(Nat)) /\ result \in Seq(Seq(Nat)) /\ Len(result) >= 1
      /\ read \in 0..Len(Source) /\ Each(Kept, 1..read) /\ read = Len(Source)
      /\ Len(runs) > 2 /\ src2 <= Len(runs)
      /\ \A q \in DOMAIN runs : q > src2 => runs[q] # <<>>
      /\ \A q \in DOMAIN runs : q < src1 => runs[q] = <<>>
      /\ \A q \in DOMAIN result : q < Len(result) => result[q] # <<>>
      BY <1>1, <1>3 DEF MatTypes, SortOK, Merging
<1> DEFINE n == Len(result)
           x == Head(runs[src])
<1>5. n \in Nat /\ n \in DOMAIN result /\ src1 \in Nat /\ src2 = src1 + 1 /\ src2 = 2 * n /\ src \in DOMAIN runs
      BY <1>4 DEF src1, src2
<1>6. /\ runs[src] # <<>> /\ runs' = [runs EXCEPT ![src] = Tail(runs[src])]
      /\ result' = [result EXCEPT ![n] = Append(result[n], x)]
      BY <1>2 DEF copy
<1>7. runs[src] \in Seq(Nat) /\ result[n] \in Seq(Nat) BY <1>4, <1>5
<1>8. Tail(runs[src]) \in Seq(Nat) /\ x \in Nat BY <1>6, <1>7
<1>9. Append(result[n], x) \in Seq(Nat) /\ Append(result[n], x) # <<>> BY <1>7, <1>8
<1> HIDE DEF n, x
<1>10. /\ runs' \in Seq(Seq(Nat)) /\ Len(runs') = Len(runs) /\ DOMAIN runs' = DOMAIN runs
       /\ runs'[src] = Tail(runs[src]) /\ \A q \in DOMAIN runs : q # src => runs'[q] = runs[q]
  <2> DEFINE e == Tail(runs[src])
             S == Seq(Nat)
  <2>a. src \in 1..Len(runs) BY <1>4, <1>5
  <2>b. e \in S BY <1>8
  <2>c. runs \in Seq(S) BY <1>4
  <2>d. runs' = [runs EXCEPT ![src] = e] BY <1>6
  <2> HIDE DEF e, S
  <2>e. runs' \in Seq(S) BY <2>a, <2>b, <2>c, <2>d, ExceptSeq
  <2>1. runs' \in Seq(Seq(Nat)) BY <2>e DEF S
  <2>2. Len(runs') = Len(runs) BY <1>4, <1>5, <1>6, <1>8
  <2> QED BY <1>5, <1>6, <2>1, <2>2
<1>11. /\ result' \in Seq(Seq(Nat)) /\ Len(result') = Len(result) /\ DOMAIN result' = DOMAIN result
       /\ result'[n] = Append(result[n], x) /\ \A q \in DOMAIN result : q # n => result'[q] = result[q]
  <2> DEFINE e == Append(result[n], x)
             S == Seq(Nat)
  <2>a. n \in 1..Len(result) BY <1>4, <1>5
  <2>b. e \in S BY <1>9
  <2>c. result \in Seq(S) BY <1>4
  <2>d. result' = [result EXCEPT ![n] = e] BY <1>6
  <2> HIDE DEF e, S
  <2>e. result' \in Seq(S) BY <2>a, <2>b, <2>c, <2>d, ExceptSeq
  <2>1. result' \in Seq(Seq(Nat)) BY <2>e DEF S
  <2>2. Len(result') = Len(result) BY <1>4, <1>5, <1>6, <1>9
  <2> QED BY <1>5, <1>6, <2>1, <2>2
<1>12. Each(Kept', 1..read)
  <2> DEFINE from == <<1, src>>
             to == <<2, n>>
             one == [Kept EXCEPT ![from] = Tail(runs[src])]
  <2>1. from \in DOMAIN Kept /\ to \in DOMAIN Kept /\ from # to /\ Kept[from] = runs[src] /\ Kept[to] = result[n]
        BY <1>5 DEF Kept
  <2>2. DOMAIN one = DOMAIN Kept /\ one[from] = Tail(Kept[from]) /\ \A q \in DOMAIN Kept : q # from => one[q] = Kept[q]
        BY <2>1 DEF Kept
  <2>3. DOMAIN Kept' = DOMAIN Kept BY <1>10, <1>11 DEF Kept
  <2>4. Kept'[to] = Append(one[to], x)
    <3>1. Kept'[to] = result'[n] BY <2>1, <2>3 DEF Kept
    <3> QED BY <3>1, <2>1, <2>2, <1>11
  <2>5. ASSUME NEW q \in DOMAIN Kept, q # to PROVE Kept'[q] = one[q]
    <3>1. CASE q = from
      <4>1. Kept'[from] = runs'[src] BY <2>1, <2>3 DEF Kept
      <4> QED BY <4>1, <3>1, <2>1, <2>2, <1>10
    <3>2. CASE q # from
      <4>1. one[q] = Kept[q] BY <3>2, <2>2
      <4>2. Kept'[q] = IF q[1] = 1 THEN runs'[q[2]] ELSE result'[q[2]] BY <2>3 DEF Kept
      <4>3. CASE \E u \in DOMAIN runs : q = <<1, u>>
        <5>1. PICK u \in DOMAIN runs : q = <<1, u>> BY <4>3
        <5>2. u # src BY <5>1, <3>2
        <5> QED BY <5>1, <5>2, <4>1, <4>2, <1>10 DEF Kept
      <4>4. CASE \E u \in DOMAIN result : q = <<2, u>>
        <5>1. PICK u \in DOMAIN result : q = <<2, u>> BY <4>4
        <5>2. u # n BY <5>1, <2>5
        <5> QED BY <5>1, <5>2, <4>1, <4>2, <1>11 DEF Kept
      <4> QED BY <4>3, <4>4 DEF Kept
    <3> QED BY <3>1, <3>2
  <2> HIDE DEF one, from, to, Kept
  <2>6. x \in 1..read /\ Each(one, (1..read) \ {x})
    <3>1. Kept[from] # <<>> /\ x = Head(Kept[from]) BY <2>1, <1>6 DEF x
    <3> QED BY <3>1, <2>1, <2>2, <1>4, EachCut
  <2>7. x \notin (1..read) \ {x} /\ 1..read = ((1..read) \ {x}) \cup {x} BY <2>6
  <2>8. to \in DOMAIN one /\ DOMAIN Kept' = DOMAIN one BY <2>1, <2>2, <2>3
  <2>9. Each(Kept', ((1..read) \ {x}) \cup {x})
    <3> DEFINE less == (1..read) \ {x}
    <3>1. Each(one, less) /\ x \notin less BY <2>6
    <3> HIDE DEF less
    <3>2. Each(Kept', less \cup {x}) BY <3>1, <2>2, <2>4, <2>5, <2>8, EachAppended
    <3> QED BY <3>2 DEF less
  <2> QED BY <2>7, <2>9
<1>13. SortOK'
  <2>1. src1' = src1 /\ src2' = src2 BY <1>11 DEF src1, src2
  <2>2. result' # <<<<>>>> /\ result'[Len(result')] # <<>>
    <3>1. result'[n] # <<>> BY <1>9, <1>11
    <3> QED BY <3>1, <1>11 DEF n
  <2>3. \A q \in DOMAIN runs' : (q > src2 => runs'[q] # <<>>) /\ (q < src1 => runs'[q] = <<>>)
    <3> SUFFICES ASSUME NEW q \in DOMAIN runs PROVE (q > src2 => runs'[q] # <<>>) /\ (q < src1 => runs'[q] = <<>>)
        BY <1>10
    <3>1. q \in Nat BY <1>4
    <3>2. q > src2 \/ q < src1 => q # src BY <3>1, <1>5
    <3> QED BY <3>2, <1>4, <1>10
  <2>4. \A q \in DOMAIN result' : q < Len(result') => result'[q] # <<>> BY <1>4, <1>11 DEF n
  <2>5. read' \in 0..Len(Source') /\ Each(Kept', 1..read') /\ ~(read' < Len(Source')) BY <1>1, <1>3, <1>4, <1>12
  <2>6. Len(runs') > 2 /\ src2 <= Len(runs') BY <1>4, <1>10
  <2>7. ~(Len(runs') <= 2) BY <1>4, <1>10
  <2> QED BY <1>4, <1>10, <1>11, <2>1, <2>2, <2>3, <2>4, <2>5, <2>6, <2>7 DEF SortOK
<1> QED BY <1>3, <1>13 DEF MatTypes

LEMMA IterationStep ==
    ASSUME MatTypes, do_a_merge_iteration
    PROVE  MatTypes'
<1>1. Merging /\ Merged /\ UNCHANGED <<read, scans, row>> BY DEF do_a_merge_iteration
<1>2. /\ Opening /\ Opening' /\ Source' = Source /\ Source \in Seq(Records)
      /\ RequestOK' /\ ScansOK' /\ SavedOK' /\ LoopOK'
      BY <1>1, SortKeeps DEF Merging
<1>3. /\ runs \in Seq(Seq(Nat)) /\ result \in Seq(Seq(Nat)) /\ Len(result) >= 1
      /\ read \in 0..Len(Source) /\ Each(Kept, 1..read) /\ read = Len(Source)
      /\ Len(runs) > 2 /\ src2 <= Len(runs)
      /\ \A q \in DOMAIN runs : q > src2 => runs[q] # <<>>
      /\ \A q \in DOMAIN runs : q < src1 => runs[q] = <<>>
      /\ \A q \in DOMAIN result : q < Len(result) => result[q] # <<>>
      /\ result[Len(result)] = <<>> => runs[src1] # <<>>
      BY <1>1, <1>2 DEF MatTypes, SortOK, Merging
<1> DEFINE n == Len(result)
<1>4. /\ n \in Nat /\ n >= 1 /\ src1 \in Nat /\ src2 = src1 + 1 /\ src2 = 2 * n /\ DOMAIN runs = 1..Len(runs)
      /\ DOMAIN result = 1..n /\ Len(runs) \in Nat
      BY <1>3 DEF src1, src2
<1> HIDE DEF n
<1>5. \A q \in DOMAIN runs : q <= src2 => runs[q] = <<>>
  <2>1. runs[src1] = <<>> /\ runs[src2] = <<>> BY <1>1 DEF Merged
  <2>2. \A q \in DOMAIN runs : q <= src2 => q < src1 \/ q = src1 \/ q = src2 BY <1>4
  <2> QED BY <2>1, <2>2, <1>3
<1>6. \A q \in DOMAIN result : result[q] # <<>>
  <2>1. result[n] # <<>> BY <1>1, <1>3 DEF Merged, n
  <2>2. \A q \in DOMAIN result : q < n => result[q] # <<>> BY <1>3 DEF n
  <2> QED BY <2>1, <2>2, <1>4
<1>7. CASE src2 + 2 <= Len(runs)
  <2>1. result' = Append(result, <<>>) /\ runs' = runs BY <1>7 DEF do_a_merge_iteration
  <2>2. /\ result' \in Seq(Seq(Nat)) /\ Len(result') = n + 1 /\ DOMAIN result' = 1..(n + 1) /\ result'[n + 1] = <<>>
        /\ \A q \in DOMAIN result : result'[q] = result[q]
    <3>1. <<>> \in Seq(Nat) OBVIOUS
    <3> QED BY <3>1, <2>1, <1>3, <1>4 DEF n
  <2>3. Each(Kept', 1..read)
    <3> DEFINE old == [x \in DOMAIN Kept' |-> x]
    <3>1. DOMAIN Kept' = DOMAIN Kept \cup {<<2, n + 1>>} /\ Kept'[<<2, n + 1>>] = <<>>
      <4>1. DOMAIN Kept' = DOMAIN Kept \cup {<<2, n + 1>>} BY <2>1, <2>2, <1>4 DEF Kept
      <4>2. Kept'[<<2, n + 1>>] = result'[n + 1] BY <4>1 DEF Kept
      <4> QED BY <4>1, <4>2, <2>2
    <3>2. \A x \in DOMAIN Kept : Kept'[x] = Kept[x]
      <4> SUFFICES ASSUME NEW x \in DOMAIN Kept PROVE Kept'[x] = Kept[x] OBVIOUS
      <4>1. Kept'[x] = IF x[1] = 1 THEN runs'[x[2]] ELSE result'[x[2]] BY <3>1 DEF Kept
      <4>2. x[1] # 1 => x[2] \in DOMAIN result BY DEF Kept
      <4> QED BY <4>1, <4>2, <2>1, <2>2 DEF Kept
    <3> HIDE DEF Kept
    <3>3. \A x \in DOMAIN Kept' : Kept'[x] # <<>> => old[x] \in DOMAIN Kept /\ Kept'[x] = Kept[old[x]]
          BY <3>1, <3>2
    <3>4. \A x \in DOMAIN Kept : Kept[x] # <<>> => \E y \in DOMAIN Kept' : Kept'[y] = Kept[x]
      <4> SUFFICES ASSUME NEW x \in DOMAIN Kept PROVE x \in DOMAIN Kept' /\ Kept'[x] = Kept[x] OBVIOUS
      <4> QED BY <3>1, <3>2
    <3> DEFINE all == Kept
               all2 == Kept'
    <3>5. \A x, y \in DOMAIN all2 : all2[x] # <<>> /\ all2[y] # <<>> /\ old[x] = old[y] => x = y OBVIOUS
    <3>6. Each(all, 1..read) BY <1>3
    <3>7. \A x \in DOMAIN all2 : all2[x] # <<>> => old[x] \in DOMAIN all /\ all2[x] = all[old[x]] BY <3>3
    <3>8. \A x \in DOMAIN all : all[x] # <<>> => \E y \in DOMAIN all2 : all2[y] = all[x] BY <3>4
    <3> HIDE DEF all, all2, old
    <3>9. Each(all2, 1..read) BY <3>5, <3>6, <3>7, <3>8, EachRenamed
    <3> QED BY <3>9 DEF all2
  <2>4. src2' = src2 + 2 /\ src1' = src2 + 1
    <3>1. src2' = 2 * (n + 1) /\ src1' = 2 * (n + 1) - 1 BY <2>2 DEF src1, src2
    <3> QED BY <3>1, <1>4
  <2>5. \A q \in DOMAIN runs' : (q > src2' => runs'[q] # <<>>) /\ (q < src1' => runs'[q] = <<>>)
    <3> SUFFICES ASSUME NEW q \in DOMAIN runs PROVE (q > src2 + 2 => runs[q] # <<>>) /\ (q < src2 + 1 => runs[q] = <<>>)
        BY <2>1, <2>4
    <3>1. (q > src2 + 2 => q > src2) /\ (q < src2 + 1 => q <= src2) BY <1>4
    <3> QED BY <3>1, <1>3, <1>5
  <2>6. runs'[src1'] # <<>>
    <3>1. src2 + 1 \in DOMAIN runs /\ src2 + 1 > src2 BY <1>4, <1>7
    <3>2. runs[src2 + 1] # <<>> BY <3>1, <1>3
    <3> QED BY <3>2, <2>1, <2>4
  <2>7. \A q \in DOMAIN result' : q < Len(result') => result'[q] # <<>>
    <3>1. \A q \in DOMAIN result' : q < n + 1 => q \in DOMAIN result BY <2>2, <1>4
    <3> QED BY <3>1, <2>2, <1>6
  <2>8. result' # <<<<>>>>
    <3>1. Len(result') # 1 BY <2>2, <1>4
    <3>2. Len(<<<<>>>>) = 1 OBVIOUS
    <3> QED BY <3>1, <3>2
  <2>9. /\ read' \in 0..Len(Source') /\ Each(Kept', 1..read') /\ ~(read' < Len(Source'))
        /\ runs' \in Seq(Seq(Nat)) /\ ~(Len(runs') <= 2) /\ src2' <= Len(runs') /\ Len(result') >= 1
    <3>1. read' \in 0..Len(Source') /\ Each(Kept', 1..read') /\ ~(read' < Len(Source')) BY <1>1, <1>2, <1>3, <2>3
    <3>2. ~(Len(runs) <= 2) /\ n + 1 >= 1 BY <1>3, <1>4
    <3> QED BY <3>1, <3>2, <2>1, <2>2, <2>4, <1>3, <1>7
  <2>10. SortOK' BY <2>2, <2>5, <2>6, <2>7, <2>8, <2>9 DEF SortOK
  <2> QED BY <2>10, <1>2 DEF MatTypes
<1>8. CASE ~(src2 + 2 <= Len(runs))
  <2>1. /\ runs' = IF src2 + 1 = Len(runs) THEN Append(result, runs[src2 + 1]) ELSE result
        /\ result' = <<<<>>>>
        BY <1>8 DEF do_a_merge_iteration
  <2>2. src2 + 1 = Len(runs) => src2 + 1 \in DOMAIN runs /\ src2 + 1 > src2 BY <1>4
  <2>3. src2 + 1 = Len(runs) => runs[src2 + 1] \in Seq(Nat) /\ runs[src2 + 1] # <<>> BY <2>2, <1>3
  <2>4. /\ runs' \in Seq(Seq(Nat)) /\ \A q \in DOMAIN result : q \in DOMAIN runs' /\ runs'[q] = result[q]
        /\ src2 + 1 = Len(runs) => DOMAIN runs' = DOMAIN result \cup {n + 1} /\ runs'[n + 1] = runs[src2 + 1]
        /\ src2 + 1 # Len(runs) => DOMAIN runs' = DOMAIN result
    <3>1. CASE src2 + 1 = Len(runs)
      <4> DEFINE v == runs[src2 + 1]
      <4>1. runs' = Append(result, v) /\ v \in Seq(Nat) BY <3>1, <2>1, <2>3
      <4> HIDE DEF v
      <4>2. runs' \in Seq(Seq(Nat)) BY <4>1, <1>3
      <4>3. DOMAIN runs' = DOMAIN result \cup {n + 1} /\ runs'[n + 1] = v BY <4>1, <1>3, <1>4 DEF n
      <4>4. \A q \in DOMAIN result : q \in DOMAIN runs' /\ runs'[q] = result[q] BY <4>1, <1>3, <1>4 DEF n
      <4> QED BY <4>2, <4>3, <4>4, <3>1 DEF v
    <3>2. CASE src2 + 1 # Len(runs) BY <3>2, <2>1, <1>3
    <3> QED BY <3>1, <3>2
  <2>5. \A q \in DOMAIN runs' : runs'[q] # <<>>
    <3> SUFFICES ASSUME NEW q \in DOMAIN runs' PROVE runs'[q] # <<>> OBVIOUS
    <3>1. q \in DOMAIN result \/ (src2 + 1 = Len(runs) /\ q = n + 1) BY <2>4
    <3> QED BY <3>1, <2>3, <2>4, <1>6
  <2>6. Each(Kept', 1..read)
    <3> DEFINE old == [x \in DOMAIN Kept' |-> IF x[2] \in DOMAIN result THEN <<2, x[2]>> ELSE <<1, src2 + 1>>]
    <3>1. DOMAIN Kept' = ({1} \X DOMAIN runs') \cup {<<2, 1>>} /\ Kept'[<<2, 1>>] = <<>>
          /\ \A q \in DOMAIN runs' : Kept'[<<1, q>>] = runs'[q]
      <4>1. DOMAIN result' = {1} /\ result'[1] = <<>> BY <2>1
      <4>2. DOMAIN Kept' = ({1} \X DOMAIN runs') \cup {<<2, 1>>} BY <4>1 DEF Kept
      <4>3. Kept'[<<2, 1>>] = result'[1] BY <4>2 DEF Kept
      <4>4. \A q \in DOMAIN runs' : Kept'[<<1, q>>] = runs'[q] BY <4>2 DEF Kept
      <4> QED BY <4>1, <4>2, <4>3, <4>4
    <3>2. \A q \in DOMAIN result : <<2, q>> \in DOMAIN Kept /\ Kept[<<2, q>>] = result[q] BY DEF Kept
    <3>3. \A q \in DOMAIN runs : <<1, q>> \in DOMAIN Kept /\ Kept[<<1, q>>] = runs[q] BY DEF Kept
    <3>4. ASSUME NEW x \in DOMAIN Kept', Kept'[x] # <<>>
          PROVE  /\ x = <<1, x[2]>> /\ x[2] \in DOMAIN runs' /\ Kept'[x] = runs'[x[2]]
                 /\ old[x] \in DOMAIN Kept /\ Kept'[x] = Kept[old[x]]
                 /\ x[2] \notin DOMAIN result => x[2] = n + 1
      <4>1. PICK q \in DOMAIN runs' : x = <<1, q>> BY <3>1, <3>4
      <4>2. Kept'[x] = runs'[q] BY <4>1, <3>1
      <4>3. CASE q \in DOMAIN result
        <5>1. old[x] = <<2, q>> BY <4>1, <4>3
        <5> QED BY <5>1, <4>1, <4>2, <4>3, <2>4, <3>2
      <4>4. CASE q \notin DOMAIN result
        <5>1. old[x] = <<1, src2 + 1>> BY <4>1, <4>4
        <5>2. q = n + 1 /\ src2 + 1 = Len(runs) BY <4>4, <2>4
        <5>3. src2 + 1 \in DOMAIN runs BY <5>2, <2>2
        <5> QED BY <5>1, <5>2, <5>3, <4>1, <4>2, <2>4, <3>3
      <4> QED BY <4>3, <4>4
    <3>5. ASSUME NEW y \in DOMAIN Kept, Kept[y] # <<>>
          PROVE  \E x \in DOMAIN Kept' : Kept'[x] = Kept[y]
      <4>1. CASE \E q \in DOMAIN runs : y = <<1, q>>
        <5>1. PICK q \in DOMAIN runs : y = <<1, q>> BY <4>1
        <5>2. runs[q] # <<>> BY <5>1, <3>3, <3>5
        <5>3. ~(q <= src2) BY <5>2, <1>5
        <5>4. q = src2 + 1 /\ src2 + 1 = Len(runs)
          <6>1. q \in Nat /\ q <= Len(runs) /\ src2 \in Nat /\ Len(runs) \in Nat BY <1>4
          <6>2. Len(runs) < src2 + 2 BY <6>1, <1>8
          <6> HIDE DEF src2
          <6> QED BY <6>1, <6>2, <5>3
        <5>5. n + 1 \in DOMAIN runs' /\ runs'[n + 1] = runs[q] BY <5>4, <2>4
        <5>6. <<1, n + 1>> \in DOMAIN Kept' /\ Kept'[<<1, n + 1>>] = runs[q] BY <5>5, <3>1
        <5> QED BY <5>6, <5>1, <3>3
      <4>2. CASE \E q \in DOMAIN result : y = <<2, q>>
        <5>1. PICK q \in DOMAIN result : y = <<2, q>> BY <4>2
        <5>2. q \in DOMAIN runs' /\ runs'[q] = result[q] BY <2>4
        <5>3. <<1, q>> \in DOMAIN Kept' /\ Kept'[<<1, q>>] = result[q] BY <5>2, <3>1
        <5> QED BY <5>1, <5>3, <3>2
      <4>3. (\E q \in DOMAIN runs : y = <<1, q>>) \/ (\E q \in DOMAIN result : y = <<2, q>>)
            BY KeptIs
      <4> QED BY <4>1, <4>2, <4>3
    <3>6. ASSUME NEW x \in DOMAIN Kept', NEW y \in DOMAIN Kept', Kept'[x] # <<>>, Kept'[y] # <<>>, old[x] = old[y]
          PROVE  x = y
      <4>1. x = <<1, x[2]>> /\ (x[2] \notin DOMAIN result => x[2] = n + 1) BY <3>4, <3>6
      <4>2. y = <<1, y[2]>> /\ (y[2] \notin DOMAIN result => y[2] = n + 1) BY <3>4, <3>6
      <4>3. x[2] = y[2] BY <4>1, <4>2, <3>6
      <4> QED BY <4>1, <4>2, <4>3
    <3> DEFINE all == Kept
               all2 == Kept'
    <3>7. Each(all, 1..read) BY <1>3
    <3>8. \A x \in DOMAIN all2 : all2[x] # <<>> => old[x] \in DOMAIN all /\ all2[x] = all[old[x]] BY <3>4
    <3>9. \A y \in DOMAIN all : all[y] # <<>> => \E x \in DOMAIN all2 : all2[x] = all[y] BY <3>5
    <3>10. \A x, y \in DOMAIN all2 : all2[x] # <<>> /\ all2[y] # <<>> /\ old[x] = old[y] => x = y BY <3>6
    <3> HIDE DEF all, all2, old
    <3>11. Each(all2, 1..read) BY <3>7, <3>8, <3>9, <3>10, EachRenamed
    <3> QED BY <3>11 DEF all2
  <2>7. src1' = 1 /\ src2' = 2 /\ Len(result') = 1 /\ result' \in Seq(Seq(Nat)) BY <2>1 DEF src1, src2
  <2>8. read' \in 0..Len(Source') /\ Each(Kept', 1..read') BY <1>1, <1>2, <1>3, <2>6
  <2>9. DOMAIN runs' = 1..Len(runs') /\ Len(runs') \in Nat BY <2>4
  <2>10. \A q \in DOMAIN runs' : (q > 2 \/ result' = <<<<>>>> => runs'[q] # <<>>) /\ (q < 1 => runs'[q] = <<>>)
         BY <2>5, <2>9
  <2>11. \A q \in DOMAIN result' : q < Len(result') => result'[q] # <<>> BY <2>1
  <2>12. Len(runs') > 2 => 2 <= Len(runs') /\ runs'[1] # <<>>
    <3>1. Len(runs') > 2 => 1 \in DOMAIN runs' /\ 2 <= Len(runs') BY <2>9
    <3> QED BY <3>1, <2>5
  <2>13. SortOK' BY <2>1, <2>4, <2>7, <2>8, <2>10, <2>11, <2>12 DEF SortOK
  <2> QED BY <2>13, <1>2 DEF MatTypes
<1> QED BY <1>7, <1>8

LEMMA OpenStep ==
    ASSUME MatTypes, open_scan
    PROVE  MatTypes'
<1>1. /\ Opening /\ read = Len(Source) /\ Len(runs) <= 2 /\ read' = 0 /\ runs' = <<>> /\ result' = result
      /\ UNCHANGED <<kind, fields, tables, looping, group, has_more, more_groups, m_join_val, saved, at, by, whole, out>>
      BY DEF open_scan, Sort, request, loopState
<1>2. /\ runs \in Seq(Seq(Nat)) /\ read \in 0..Len(Source) /\ Each(Kept, 1..read) /\ result = <<<<>>>>
      /\ \A q \in DOMAIN runs : runs[q] # <<>>
      BY <1>1 DEF MatTypes, SortOK
<1>3. /\ ~looping /\ saved.pos = <<>> /\ row # "crash" /\ kind # "index" /\ Len(scans) < Len(tables)
      /\ scans \in Seq(ScanSet) /\ \A j \in DOMAIN scans : ScanOK(scans[j], tables[j])
      /\ tables \in Seq(Seq(Records))
      BY <1>1 DEF MatTypes, RequestOK, ScansOK, Opening
<1>4. LoopOK' /\ SavedOK' BY <1>1, <1>3 DEF LoopOK, SavedOK
<1>5. CASE runs = <<>>
  <2>1. row' = "crash" BY <1>5 DEF open_scan
  <2>2. ~Opening' BY <2>1 DEF Opening
  <2>3. RequestOK' BY <1>1, <1>3, <2>1, <2>2 DEF MatTypes, RequestOK
  <2>4. SortOK' /\ ScansOK' BY <2>1, <2>2 DEF SortOK, ScansOK
  <2> QED BY <1>4, <2>3, <2>4 DEF MatTypes
<1>6. CASE runs # <<>>
  <2>1. row' = row BY <1>6 DEF open_scan
  <2>2. PICK rhs \in BOOLEAN :
           scans' = Append(scans, BeforeFirst([runs |-> runs, pos |-> <<>>, curr |-> 0, more |-> <<rhs, rhs>>]))
        BY <1>6 DEF open_scan
  <2> DEFINE s0 == [runs |-> runs, pos |-> <<>>, curr |-> 0, more |-> <<rhs, rhs>>]
             s == BeforeFirst(s0)
             c == Len(scans) + 1
  <2>3. c \in 1..Len(tables) /\ Source = tables[c] /\ Source \in Seq(Records) /\ DOMAIN Source = 1..read
        BY <1>1, <1>3 DEF Source
  <2>4. s0 \in ScanSet /\ s0.runs = runs
    <3>1. <<rhs, rhs>> \in [1..2 -> BOOLEAN] OBVIOUS
    <3>2. <<>> \in Seq(Nat) OBVIOUS
    <3> QED BY <3>1, <3>2, <1>2 DEF ScanSet
  <2>5. Len(runs) \in 1..2
    <3> DEFINE S == Seq(Nat)
    <3>1. runs \in Seq(S) BY <1>2
    <3> HIDE DEF S
    <3>2. Len(runs) \in Nat /\ Len(runs) # 0 BY <3>1, <1>6, EmptySeq
    <3> DEFINE e == Len(runs)
    <3>3. e \in Nat /\ e # 0 /\ e <= 2 BY <3>2, <1>1
    <3> HIDE DEF e
    <3>4. e \in 1..2 BY <3>3
    <3> QED BY <3>4 DEF e
  <2>6. Each(runs, 1..read)
    <3> DEFINE all == Kept
               old == [q \in DOMAIN runs |-> <<1, q>>]
    <3>1. Each(all, 1..read) BY <1>2
    <3>2. \A q \in DOMAIN runs : runs[q] # <<>> => old[q] \in DOMAIN all /\ runs[q] = all[old[q]] BY KeptIs
    <3>3. \A y \in DOMAIN all : all[y] # <<>> => \E q \in DOMAIN runs : runs[q] = all[y]
      <4> SUFFICES ASSUME NEW y \in DOMAIN Kept, Kept[y] # <<>> PROVE \E q \in DOMAIN runs : runs[q] = Kept[y]
          OBVIOUS
      <4>1. DOMAIN result = {1} /\ result[1] = <<>> BY <1>2
      <4>2. PICK q \in DOMAIN runs : y = <<1, q>> BY <4>1, KeptIs
      <4> QED BY <4>2, KeptIs
    <3>4. \A q, u \in DOMAIN runs : runs[q] # <<>> /\ runs[u] # <<>> /\ old[q] = old[u] => q = u OBVIOUS
    <3> HIDE DEF all, old
    <3> QED BY <3>1, <3>2, <3>3, <3>4, EachRenamed
  <2> HIDE DEF s0
  <2>7. ScanOK(s, tables[c])
    <3>1. Each(s0.runs, DOMAIN tables[c]) BY <2>3, <2>4, <2>6
    <3>2. \A q \in DOMAIN s0.runs : s0.runs[q] # <<>> BY <2>4, <1>2
    <3> QED BY <3>1, <3>2, <2>4, <2>5, BeforeFirstOK
  <2> HIDE DEF s
  <2>8. scans' = Append(scans, s) /\ s \in ScanSet BY <2>2, <2>7 DEF ScanOK, s, s0
  <2>9. scans' \in Seq(ScanSet) /\ Len(scans') = c /\ DOMAIN scans' = DOMAIN scans \cup {c} /\ scans'[c] = s
        /\ \A j \in DOMAIN scans : scans'[j] = scans[j]
        BY <2>8, <1>3
  <2>10. ScansOK'
    <3>1. \A j \in DOMAIN scans' : ScanOK(scans'[j], tables[j]) BY <2>7, <2>9, <1>3
    <3> QED BY <3>1, <2>3, <2>9, <1>1, <1>3 DEF ScansOK
  <2>11. RequestOK' BY <1>1, <1>3, <2>1 DEF MatTypes, RequestOK
  <2>12. SortOK'
    <3>0. SUFFICES ASSUME Opening' PROVE SortOK' BY DEF SortOK
    <3>1. Len(Source') \in Nat
      <4>1. Len(scans') + 1 \in 1..Len(tables) BY <3>0, <2>3, <2>9, <1>1, <1>3 DEF Opening
      <4> QED BY <4>1, <1>1, <1>3 DEF Source
    <3>2. DOMAIN Kept' = {<<2, 1>>} /\ Kept'[<<2, 1>>] = <<>>
      <4>1. DOMAIN result' = {1} /\ result'[1] = <<>> /\ DOMAIN runs' = {} BY <1>1, <1>2
      <4>2. DOMAIN Kept' = {<<2, 1>>} BY <4>1 DEF Kept
      <4>3. Kept'[<<2, 1>>] = result'[1] BY <4>2 DEF Kept
      <4> QED BY <4>1, <4>2, <4>3
    <3> HIDE DEF Kept
    <3>3. Each(Kept', {})
      <4>1. Kept'[<<2, 1>>] \in Seq({}) BY <3>2
      <4> QED BY <3>2, <4>1 DEF Each
    <3>4. read' \in 0..Len(Source') /\ Each(Kept', 1..read')
      <4>1. 1..read' = {} BY <1>1
      <4> QED BY <4>1, <3>1, <3>3, <1>1
    <3>5. runs' \in Seq(Seq(Nat)) /\ result' \in Seq(Seq(Nat)) /\ Len(result') = 1 /\ result' = <<<<>>>>
          /\ Len(runs') = 0 /\ DOMAIN runs' = {}
          BY <1>1, <1>2
    <3>6. \A q \in DOMAIN result' : q < Len(result') => result'[q] # <<>> BY <3>5
    <3> QED BY <3>4, <3>5, <3>6 DEF SortOK
  <2> QED BY <1>4, <2>10, <2>11, <2>12 DEF MatTypes
<1> QED BY <1>5, <1>6

-----------------------------------------------------------------------------
\* All tables have been sorted.
LEMMA Opened ==
    ASSUME MatTypes, kind # "index", row # "crash", ~Opening
    PROVE  /\ Len(scans) = Len(tables) /\ scans \in Seq(ScanSet) /\ tables \in Seq(Seq(Records))
           /\ DOMAIN scans = DOMAIN tables /\ DOMAIN tables = 1..Len(tables)
           /\ Len(tables) = IF kind = "join" THEN 2 ELSE 1
           /\ \A j \in DOMAIN scans : ScanOK(scans[j], tables[j]) /\ tables[j] \in Seq(Records)
<1>1. /\ scans \in Seq(ScanSet) /\ Len(scans) <= Len(tables) /\ tables \in Seq(Seq(Records))
      /\ \A j \in DOMAIN scans : ScanOK(scans[j], tables[j])
      /\ Len(tables) = IF kind = "join" THEN 2 ELSE 1
  <2>1. kind \in {"sort", "group", "join"} BY DEF MatTypes, RequestOK
  <2> QED BY <2>1 DEF MatTypes, ScansOK, RequestOK
<1>2. ~(Len(scans) < Len(tables)) BY DEF Opening
<1>3. Len(scans) = Len(tables)
  <2>1. Len(scans) \in Nat /\ Len(tables) \in Nat BY <1>1
  <2> QED BY <2>1, <1>1, <1>2
<1>4. DOMAIN scans = 1..Len(scans) /\ DOMAIN tables = 1..Len(tables)
  <2> DEFINE S == Seq(Records)
  <2>1. scans \in Seq(ScanSet) /\ tables \in Seq(S) BY <1>1
  <2> HIDE DEF S
  <2> QED BY <2>1, LenProperties
<1>5. \A j \in DOMAIN tables : tables[j] \in Seq(Records) BY <1>1
<1> QED BY <1>1, <1>3, <1>4, <1>5

LEMMA CurrentOf ==
    ASSUME NEW s, NEW tab \in Seq(Records), ScanOK(s, tab), Readable(s, s.curr)
    PROVE  Current(s) \in DOMAIN tab /\ tab[Current(s)][JoinField] \in Nat
<1>1. s \in ScanSet /\ s.curr \in DOMAIN s.runs /\ s.pos[s.curr] > 0 /\ s.pos[s.curr] <= Len(s.runs[s.curr])
      /\ Len(s.pos) = Len(s.runs)
      BY DEF ScanOK, Readable
<1>2. s.pos[s.curr] \in 1..Len(s.runs[s.curr]) BY <1>1 DEF ScanSet
<1>3. s.runs[s.curr] \in Seq(DOMAIN tab) BY <1>1 DEF ScanOK, Each
<1>4. Current(s) \in DOMAIN tab BY <1>2, <1>3 DEF Current
<1>5. tab[Current(s)] \in Records BY <1>4
<1> QED BY <1>4, <1>5, MaterializeAssumption

\* A step that takes place when all tables have been sorted.
LEMMA StaysOpened ==
    ASSUME MatTypes, ~Opening, UNCHANGED request, row' # "crash" => row # "crash" /\ Len(scans') = Len(scans)
    PROVE  ~Opening' /\ SortOK'
BY DEF Opening, SortOK, request

LEMMA ReturnsTypes ==
    ASSUME MatTypes, NEW seq, NEW what, NEW how, Returns(seq, what, how)
    PROVE  row' = what /\ looping' = FALSE /\ whole' \in BOOLEAN /\ (whole' => whole /\ row # "end")
BY DEF Returns, MatTypes, RequestOK

LEMMA BeforeFirstTypes ==
    ASSUME MatTypes, before_first_rows
    PROVE  MatTypes'
<1> DEFINE fst == [q \in DOMAIN scans |-> BeforeFirst(scans[q])]
           ahead == SortNext(fst[1], tables[1])
<1>1. /\ kind \in {"sort", "group", "join"} /\ ~Opening /\ row # "crash" /\ ~looping /\ whole' = TRUE
      /\ UNCHANGED <<kind, fields, tables, looping, group, has_more, m_join_val, saved, at>>
      BY DEF before_first_rows, Ready, request, loopState
<1>2. /\ Len(scans) = Len(tables) /\ scans \in Seq(ScanSet) /\ tables \in Seq(Seq(Records))
      /\ DOMAIN scans = DOMAIN tables /\ DOMAIN tables = 1..Len(tables)
      /\ Len(tables) = IF kind = "join" THEN 2 ELSE 1
      /\ \A j \in DOMAIN scans : ScanOK(scans[j], tables[j]) /\ tables[j] \in Seq(Records)
  <2>1. kind # "index" /\ row # "crash" /\ ~Opening BY <1>1
  <2> HIDE DEF fst, ahead
  <2> QED BY <2>1, Opened
<1>3. \A q \in DOMAIN scans : ScanOK(fst[q], tables[q]) /\ fst[q].runs = scans[q].runs
  <2> SUFFICES ASSUME NEW q \in DOMAIN scans PROVE ScanOK(fst[q], tables[q]) /\ fst[q].runs = scans[q].runs
      OBVIOUS
  <2>1. /\ scans[q] \in ScanSet /\ Len(scans[q].runs) \in 1..2 /\ Each(scans[q].runs, DOMAIN tables[q])
        /\ \A u \in DOMAIN scans[q].runs : scans[q].runs[u] # <<>>
        BY <1>2 DEF ScanOK
  <2>2. fst[q] = BeforeFirst(scans[q]) OBVIOUS
  <2> HIDE DEF fst
  <2> QED BY <2>1, <2>2, BeforeFirstOK
<1>4. CASE kind = "group"
  <2>1. scans' = <<ahead.scan>> /\ more_groups' = ahead.found /\ row' = IF ahead.ok THEN "none" ELSE "crash"
        BY <1>4 DEF before_first_rows
  <2>2. ScanOK(fst[1], tables[1]) /\ Len(scans) = 1 BY <1>2, <1>3, <1>4
  <2> HIDE DEF fst
  <2>3. ahead.found \in BOOLEAN /\ (ahead.ok => ScanOK(ahead.scan, tables[1])) BY <2>2, SortNextOK
  <2> HIDE DEF ahead
  <2>4. ~Opening' /\ SortOK' BY <1>1, <1>2, <2>1, <2>2, StaysOpened DEF request
  <2>5. RequestOK' BY <1>1, <2>1, <2>3, <2>4 DEF MatTypes, RequestOK
  <2>6. ScansOK'
    <3> SUFFICES ASSUME row' # "crash" PROVE ScansOK' BY DEF ScansOK
    <3>1. ScanOK(ahead.scan, tables[1]) BY <2>1, <2>3
    <3>2. ahead.scan \in ScanSet BY <3>1 DEF ScanOK
    <3>3. scans' \in Seq(ScanSet) /\ Len(scans') = 1 /\ DOMAIN scans' = {1} /\ scans'[1] = ahead.scan BY <2>1, <3>2
    <3> QED BY <1>1, <1>2, <1>4, <3>1, <3>3 DEF ScansOK
  <2>7. SavedOK' /\ LoopOK' BY <1>1, <1>4 DEF SavedOK, LoopOK
  <2> QED BY <2>4, <2>5, <2>6, <2>7 DEF MatTypes
<1>5. CASE kind # "group"
  <2>1. scans' = fst /\ row' = "none" /\ more_groups' = more_groups BY <1>5 DEF before_first_rows
  <2>2. fst \in Seq(ScanSet) /\ Len(fst) = Len(scans) /\ DOMAIN fst = DOMAIN scans
    <3>1. \A q \in DOMAIN scans : fst[q] \in ScanSet BY <1>3 DEF ScanOK
    <3>2. fst \in [1..Len(scans) -> ScanSet] BY <3>1, <1>2
    <3> QED BY <3>2, <1>2
  <2> HIDE DEF fst
  <2>3. ~Opening' /\ SortOK' BY <1>1, <2>1, <2>2, StaysOpened DEF request
  <2>4. RequestOK' BY <1>1, <2>1, <2>3 DEF MatTypes, RequestOK
  <2>5. ScansOK' BY <1>1, <1>2, <1>3, <2>1, <2>2 DEF ScansOK
  <2>6. SavedOK'
    <3>1. CASE kind = "join"
      <4>1. fst[2].runs = scans[2].runs BY <1>2, <1>3, <3>1
      <4> QED BY <4>1, <3>1, <1>1, <2>1, <2>2 DEF MatTypes, SavedOK
    <3>2. CASE kind # "join" BY <3>2, <1>1 DEF SavedOK
    <3> QED BY <3>1, <3>2
  <2>7. LoopOK' BY <1>1 DEF LoopOK
  <2> QED BY <2>3, <2>4, <2>5, <2>6, <2>7 DEF MatTypes
<1> QED BY <1>4, <1>5

LEMMA SortNextTypes ==
    ASSUME MatTypes, sort_next
    PROVE  MatTypes'
<1> DEFINE n == SortNext(scans[1], tables[1])
<1>1. /\ kind = "sort" /\ ~Opening /\ row # "crash" /\ scans' = <<n.scan>>
      /\ UNCHANGED <<kind, fields, tables, group, has_more, more_groups, m_join_val, saved, at>>
      BY DEF sort_next, Ready, request
<1>2. ScanOK(scans[1], tables[1]) /\ Len(scans) = 1 /\ Len(tables) = 1
  <2>1. Len(tables) = 1 /\ Len(scans) = 1 /\ DOMAIN scans = 1..1 BY <1>1, Opened
  <2> QED BY <2>1, <1>1, Opened
<1>3. n.ok => ScanOK(n.scan, tables[1]) BY <1>2, SortNextOK
<1>4. \E seq, what : /\ Returns(seq, what, "sort") /\ what \in {"row", "end", "crash"} /\ (what # "crash" => n.ok)
      BY DEF sort_next, Crashes
<1> HIDE DEF n
<1>5. /\ row' \in {"row", "end", "crash"} /\ (row' # "crash" => n.ok) /\ looping' = FALSE
      /\ whole' \in BOOLEAN /\ (whole' => whole /\ row # "end")
      BY <1>4, ReturnsTypes
<1>6. ~Opening' /\ SortOK' BY <1>1, <1>2, StaysOpened DEF request
<1>7. RequestOK' BY <1>1, <1>5, <1>6 DEF MatTypes, RequestOK
<1>8. ScansOK'
  <2> SUFFICES ASSUME row' # "crash" PROVE ScansOK' BY DEF ScansOK
  <2>1. ScanOK(n.scan, tables[1]) BY <1>3, <1>5
  <2>2. n.scan \in ScanSet BY <2>1 DEF ScanOK
  <2>3. scans' \in Seq(ScanSet) /\ Len(scans') = 1 /\ DOMAIN scans' = {1} /\ scans'[1] = n.scan BY <1>1, <2>2
  <2> QED BY <1>1, <1>2, <2>1, <2>3 DEF ScansOK
<1>9. SavedOK' /\ LoopOK' BY <1>1 DEF SavedOK, LoopOK
<1> QED BY <1>6, <1>7, <1>8, <1>9 DEF MatTypes

LEMMA GroupNextTypes ==
    ASSUME MatTypes, group_next
    PROVE  MatTypes'
<1>1. /\ kind = "group" /\ ~Opening /\ row # "crash"
      /\ UNCHANGED <<kind, fields, tables, has_more, scans, more_groups, m_join_val, saved, at>>
      BY DEF group_next, Ready, request, scanState
<1>2. ~Opening' /\ SortOK' BY <1>1, StaysOpened DEF request
<1>3. ScansOK' /\ SavedOK' /\ LoopOK' BY <1>1 DEF MatTypes, ScansOK, SavedOK, LoopOK
<1>4. CASE more_groups
  <2>1. looping' = TRUE /\ UNCHANGED <<row, whole, by>> BY <1>4 DEF group_next, returnedRows
  <2> QED BY <1>1, <1>2, <1>3, <2>1 DEF MatTypes, RequestOK
<1>5. CASE ~more_groups
  <2>1. Returns(<<>>, "end", "group") BY <1>5 DEF group_next
  <2>2. row' = "end" /\ looping' = FALSE /\ whole' \in BOOLEAN BY <2>1, ReturnsTypes
  <2> QED BY <1>1, <1>2, <1>3, <2>2 DEF MatTypes, RequestOK
<1> QED BY <1>4, <1>5

LEMMA GatherTypes ==
    ASSUME MatTypes, gather
    PROVE  MatTypes'
<1> DEFINE n == SortNext(scans[1], tables[1])
<1>1. /\ kind = "group" /\ looping /\ scans' = <<n.scan>> /\ more_groups' = n.found
      /\ UNCHANGED <<kind, fields, tables, has_more, m_join_val, saved, at>>
      BY DEF gather, request
<1>2. ~Opening /\ row # "crash" BY <1>1 DEF MatTypes, RequestOK
<1>3. ScanOK(scans[1], tables[1]) /\ Len(scans) = 1 /\ Len(tables) = 1
  <2>1. Len(tables) = 1 /\ Len(scans) = 1 /\ DOMAIN scans = 1..1 BY <1>1, <1>2, Opened
  <2> QED BY <2>1, <1>1, <1>2, Opened
<1>4. n.found \in BOOLEAN /\ (n.ok => ScanOK(n.scan, tables[1])) BY <1>3, SortNextOK
<1>5. \/ n.ok /\ UNCHANGED <<looping, row, whole, by>>
      \/ \E seq, what : /\ Returns(seq, what, "group") /\ what \in {"row", "crash"} /\ (what # "crash" => n.ok)
      BY DEF gather, Crashes, returnedRows
<1> HIDE DEF n
<1>6. /\ row' \in {"none", "row", "end", "crash"} /\ (row' # "crash" => n.ok) /\ looping' \in BOOLEAN
      /\ looping' => row' # "crash"
      /\ whole' \in BOOLEAN
  <2>1. CASE n.ok /\ UNCHANGED <<looping, row, whole, by>> BY <2>1, <1>2 DEF MatTypes, RequestOK
  <2>2. CASE \E seq, what : /\ Returns(seq, what, "group") /\ what \in {"row", "crash"} /\ (what # "crash" => n.ok)
        BY <2>2, ReturnsTypes
  <2> QED BY <1>5, <2>1, <2>2
<1>7. ~Opening' /\ SortOK' BY <1>1, <1>2, <1>3, StaysOpened DEF request
<1>8. RequestOK' BY <1>1, <1>4, <1>6, <1>7 DEF MatTypes, RequestOK
<1>9. ScansOK'
  <2> SUFFICES ASSUME row' # "crash" PROVE ScansOK' BY DEF ScansOK
  <2>1. ScanOK(n.scan, tables[1]) BY <1>4, <1>6
  <2>2. n.scan \in ScanSet BY <2>1 DEF ScanOK
  <2>3. scans' \in Seq(ScanSet) /\ Len(scans') = 1 /\ DOMAIN scans' = {1} /\ scans'[1] = n.scan BY <1>1, <2>2
  <2> QED BY <1>1, <1>3, <2>1, <2>3 DEF ScansOK
<1>10. SavedOK' /\ LoopOK' BY <1>1 DEF SavedOK, LoopOK
<1> QED BY <1>7, <1>8, <1>9, <1>10 DEF MatTypes

-----------------------------------------------------------------------------
LEMMA PairTypes ==
    ASSUME MatTypes, NEW x, NEW y, NEW how, Pair(x, y, how)
    PROVE  /\ row' \in {"row", "crash"} /\ looping' = FALSE /\ whole' \in BOOLEAN /\ (whole' => whole /\ row # "end")
           /\ row' = "row" => Readable(x, x.curr) /\ Readable(y, y.curr)
<1>1. CASE Readable(x, x.curr) /\ Readable(y, y.curr)
  <2> DEFINE seq == <<<<Current(x), Current(y)>>>>
  <2>1. Returns(seq, "row", how) BY <1>1 DEF Pair
  <2> HIDE DEF seq
  <2>2. row' = "row" /\ looping' = FALSE /\ whole' \in BOOLEAN /\ (whole' => whole /\ row # "end")
        BY <2>1, ReturnsTypes
  <2> QED BY <2>2, <1>1
<1>2. CASE ~(Readable(x, x.curr) /\ Readable(y, y.curr))
  <2>1. Returns(<<>>, "crash", how) BY <1>2 DEF Pair, Crashes
  <2>2. row' = "crash" /\ looping' = FALSE /\ whole' \in BOOLEAN /\ (whole' => whole /\ row # "end")
        BY <2>1, ReturnsTypes
  <2> QED BY <2>2
<1> QED BY <1>1, <1>2

\* A step of a join that leaves two scans of the same runs.
LEMMA JoinKeeps ==
    ASSUME MatTypes, kind = "join", ~Opening, row # "crash", UNCHANGED <<kind, fields, tables, more_groups, at>>,
           NEW x, NEW y, scans' = <<x, y>>,
           row' # "crash" => ScanOK(x, tables[1]) /\ ScanOK(y, tables[2]) /\ y.runs = scans[2].runs,
           row' \in {"none", "row", "end", "crash"}, looping' \in BOOLEAN, looping' => row' # "crash",
           whole' \in BOOLEAN, has_more' \in Seq(BOOLEAN), Len(has_more') = 2, m_join_val' \in Nat
    PROVE  SortOK' /\ RequestOK' /\ ScansOK' /\ (UNCHANGED <<m_join_val, saved>> => SavedOK')
<1>1. Len(scans) = 2 /\ Len(tables) = 2 BY Opened
<1>2. Len(scans') = 2 OBVIOUS
<1>3. ~Opening' /\ SortOK' BY <1>1, <1>2, StaysOpened DEF request
<1>4. RequestOK' BY <1>3 DEF MatTypes, RequestOK
<1>5. ScansOK'
  <2> SUFFICES ASSUME row' # "crash" PROVE ScansOK' BY DEF ScansOK
  <2>1. x \in ScanSet /\ y \in ScanSet BY DEF ScanOK
  <2>2. scans' \in Seq(ScanSet) /\ DOMAIN scans' = 1..2 /\ scans'[1] = x /\ scans'[2] = y BY <2>1
  <2>3. \A j \in DOMAIN scans' : ScanOK(scans'[j], tables[j]) BY <2>2
  <2> QED BY <1>1, <1>2, <2>2, <2>3 DEF ScansOK
<1>6. UNCHANGED <<m_join_val, saved>> => SavedOK'
  <2> SUFFICES ASSUME UNCHANGED <<m_join_val, saved>>, row' # "crash", saved.pos # <<>> PROVE SavedOK' BY DEF SavedOK
  <2>1. scans'[2].runs = scans[2].runs OBVIOUS
  <2> QED BY <1>2, <2>1 DEF MatTypes, SavedOK
<1> QED BY <1>3, <1>4, <1>5, <1>6

LEMMA RestoredOK ==
    ASSUME MatTypes, kind = "join", row # "crash", saved.pos # <<>>,
           NEW s, ScanOK(s, tables[2]), s.runs = scans[2].runs
    PROVE  LET t == Restored(s) IN ScanOK(t, tables[2]) /\ t.runs = s.runs /\ t.curr = s.curr /\ t.pos = saved.pos
<1> DEFINE t == Restored(s)
<1>1. /\ saved.pos \in Seq(Nat) /\ Len(saved.pos) = Len(s.runs)
      /\ \A q \in DOMAIN s.runs : saved.pos[q] <= Len(s.runs[q])
      BY DEF MatTypes, SavedOK
<1>2. t = [s EXCEPT !.pos = saved.pos] BY DEF Restored
<1> HIDE DEF t
<1>3. s \in ScanSet BY DEF ScanOK
<1>4. t.runs = s.runs /\ t.curr = s.curr /\ t.pos = saved.pos /\ t.more = s.more BY <1>2, <1>3 DEF ScanSet
<1>5. t \in ScanSet BY <1>1, <1>2, <1>3 DEF ScanSet
<1>6. ScanOK(t, tables[2]) BY <1>1, <1>4, <1>5 DEF ScanOK
<1> QED BY <1>4, <1>6 DEF t

\* The two scans of a join.
LEMMA JoinScans ==
    ASSUME MatTypes, kind = "join", row # "crash", ~Opening
    PROVE  /\ Len(scans) = 2 /\ scans = <<scans[1], scans[2]>> /\ scans \in Seq(ScanSet)
           /\ ScanOK(scans[1], tables[1]) /\ ScanOK(scans[2], tables[2])
           /\ tables[1] \in Seq(Records) /\ tables[2] \in Seq(Records) /\ DOMAIN tables = 1..2
<1>1. Len(scans) = 2 /\ scans \in Seq(ScanSet) /\ DOMAIN scans = DOMAIN tables /\ DOMAIN tables = 1..2 BY Opened
<1>2. 1 \in DOMAIN scans /\ 2 \in DOMAIN scans BY <1>1
<1>3. ScanOK(scans[1], tables[1]) /\ tables[1] \in Seq(Records) BY <1>2, Opened
<1>4. ScanOK(scans[2], tables[2]) /\ tables[2] \in Seq(Records) BY <1>2, Opened
<1>5. scans = <<scans[1], scans[2]>> BY <1>1
<1> QED BY <1>1, <1>3, <1>4, <1>5

LEMMA JoinNextTypes ==
    ASSUME MatTypes, join_next
    PROVE  MatTypes'
<1> DEFINE r == SortNext(scans[2], tables[2])
           v == SortNext(scans[1], tables[1])
<1>1. /\ kind = "join" /\ ~Opening /\ row # "crash"
      /\ UNCHANGED <<kind, fields, tables, more_groups, at, m_join_val, saved>>
      BY DEF join_next, Ready, Join, request
<1>2. /\ Len(scans) = 2 /\ scans = <<scans[1], scans[2]>> /\ scans \in Seq(ScanSet)
      /\ ScanOK(scans[1], tables[1]) /\ ScanOK(scans[2], tables[2])
      BY <1>1, JoinScans
<1>3. /\ r.found \in BOOLEAN /\ (r.ok => ScanOK(r.scan, tables[2]) /\ r.scan.runs = scans[2].runs)
      /\ r.ok /\ r.found => Readable(r.scan, r.scan.curr)
      BY <1>2, SortNextOK
<1>4. /\ v.found \in BOOLEAN /\ (v.ok => ScanOK(v.scan, tables[1]))
      /\ v.ok /\ v.found => Readable(v.scan, v.scan.curr)
      BY <1>2, SortNextOK
<1>5. has_more \in Seq(BOOLEAN) /\ Len(has_more) = 2 /\ m_join_val \in Nat /\ m_join_val' \in Nat
      BY <1>1 DEF MatTypes, RequestOK
<1>6. CASE /\ r.ok /\ scans' = <<scans[1], r.scan>> /\ UNCHANGED has_more
           /\ Pair(scans[1], r.scan, "right")
  <2> HIDE DEF r, v
  <2>1. row' \in {"row", "crash"} /\ looping' = FALSE /\ whole' \in BOOLEAN BY <1>6, PairTypes
  <2>2. SortOK' /\ RequestOK' /\ ScansOK' /\ SavedOK' BY <1>1, <1>2, <1>3, <1>5, <1>6, <2>1, JoinKeeps
  <2>3. LoopOK' BY <2>1 DEF LoopOK
  <2> QED BY <2>2, <2>3 DEF MatTypes
<1>7. CASE /\ r.ok /\ v.ok
           /\ IF saved.pos = <<>> THEN Crashes("left") /\ UNCHANGED scans
              ELSE scans' = <<v.scan, Restored(r.scan)>> /\ Pair(v.scan, Restored(r.scan), "left")
           /\ UNCHANGED has_more
  <2> HIDE DEF r, v
  <2>1. CASE saved.pos = <<>>
    <3>1. Returns(<<>>, "crash", "left") /\ scans' = <<scans[1], scans[2]>> BY <1>7, <1>2, <2>1 DEF Crashes
    <3>2. row' = "crash" /\ looping' = FALSE /\ whole' \in BOOLEAN BY <3>1, ReturnsTypes
    <3>3. SortOK' /\ RequestOK' /\ ScansOK' /\ SavedOK' BY <1>1, <1>5, <1>7, <3>1, <3>2, JoinKeeps
    <3>4. LoopOK' BY <3>2 DEF LoopOK
    <3> QED BY <3>3, <3>4 DEF MatTypes
  <2>2. CASE saved.pos # <<>>
    <3> DEFINE y == Restored(r.scan)
    <3>1. ScanOK(y, tables[2]) /\ y.runs = scans[2].runs BY <1>1, <1>3, <1>7, <2>2, RestoredOK
    <3>2. scans' = <<v.scan, y>> /\ Pair(v.scan, y, "left") BY <1>7, <2>2
    <3> HIDE DEF y
    <3>3. row' \in {"row", "crash"} /\ looping' = FALSE /\ whole' \in BOOLEAN BY <3>2, PairTypes
    <3>4. SortOK' /\ RequestOK' /\ ScansOK' /\ SavedOK' BY <1>1, <1>4, <1>5, <1>7, <3>1, <3>2, <3>3, JoinKeeps
    <3>5. LoopOK' BY <3>3 DEF LoopOK
    <3> QED BY <3>4, <3>5 DEF MatTypes
  <2> QED BY <2>1, <2>2
<1>8. CASE /\ r.ok /\ v.ok
           /\ scans' = <<v.scan, r.scan>> /\ has_more' = <<v.found, r.found>>
           /\ looping' = TRUE /\ UNCHANGED returnedRows
  <2> HIDE DEF r, v
  <2>1. row' = row /\ whole' = whole /\ row \in {"none", "row", "end", "crash"} /\ whole \in BOOLEAN
        BY <1>8 DEF returnedRows, MatTypes, RequestOK
  <2>2. has_more' \in Seq(BOOLEAN) /\ Len(has_more') = 2 BY <1>3, <1>4, <1>8
  <2>3. SortOK' /\ RequestOK' /\ ScansOK' /\ SavedOK' BY <1>1, <1>3, <1>4, <1>5, <1>8, <2>1, <2>2, JoinKeeps
  <2>4. LoopOK'
    <3> SUFFICES ASSUME NEW j \in 1..2, has_more'[j] PROVE Readable(scans'[j], scans'[j].curr) BY DEF LoopOK
    <3>1. CASE j = 1 BY <3>1, <1>4, <1>8
    <3>2. CASE j = 2 BY <3>2, <1>3, <1>8
    <3> QED BY <3>1, <3>2
  <2> QED BY <2>3, <2>4 DEF MatTypes
<1>9. CASE Crashes("meet") /\ UNCHANGED <<scans, has_more>>
  <2> HIDE DEF r, v
  <2>1. Returns(<<>>, "crash", "meet") /\ scans' = <<scans[1], scans[2]>> /\ has_more' = has_more BY <1>9, <1>2 DEF Crashes
  <2>2. row' = "crash" /\ looping' = FALSE /\ whole' \in BOOLEAN BY <2>1, ReturnsTypes
  <2>3. SortOK' /\ RequestOK' /\ ScansOK' /\ SavedOK' BY <1>1, <1>5, <2>1, <2>2, JoinKeeps
  <2>4. LoopOK' BY <2>2 DEF LoopOK
  <2> QED BY <2>3, <2>4 DEF MatTypes
<1> QED BY <1>6, <1>7, <1>8, <1>9 DEF join_next

LEMMA MeetTypes ==
    ASSUME MatTypes, meet
    PROVE  MatTypes'
<1> DEFINE x == ValueAt(1, scans[1])
           y == ValueAt(2, scans[2])
           c == IF x < y THEN 1 ELSE 2
           n == SortNext(scans[c], tables[c])
           both == has_more[1] /\ has_more[2]
<1>1. /\ kind = "join" /\ looping /\ UNCHANGED <<kind, fields, tables, more_groups, at>>
      BY DEF meet, Join, request
<1>2. ~Opening /\ row # "crash" /\ has_more \in Seq(BOOLEAN) /\ Len(has_more) = 2 /\ m_join_val \in Nat
      BY <1>1 DEF MatTypes, RequestOK
<1>3. /\ Len(scans) = 2 /\ scans = <<scans[1], scans[2]>> /\ scans \in Seq(ScanSet)
      /\ ScanOK(scans[1], tables[1]) /\ ScanOK(scans[2], tables[2])
      /\ tables[1] \in Seq(Records) /\ tables[2] \in Seq(Records)
      BY <1>1, <1>2, JoinScans
<1>4. ~both /\ Returns(<<>>, "end", "meet") /\ UNCHANGED <<scans, has_more, m_join_val, saved>> => MatTypes'
  <2> HIDE DEF x, y, c, n
  <2> SUFFICES ASSUME Returns(<<>>, "end", "meet"), UNCHANGED <<scans, has_more, m_join_val, saved>> PROVE MatTypes'
      OBVIOUS
  <2>1. row' = "end" /\ looping' = FALSE /\ whole' \in BOOLEAN BY ReturnsTypes
  <2>2. scans' = <<scans[1], scans[2]>> /\ has_more' = has_more /\ m_join_val' = m_join_val BY <1>3
  <2>3. SortOK' /\ RequestOK' /\ ScansOK' /\ SavedOK' BY <1>1, <1>2, <1>3, <2>1, <2>2, JoinKeeps
  <2>4. LoopOK' BY <2>1 DEF LoopOK
  <2> QED BY <2>3, <2>4 DEF MatTypes
<1>5. ASSUME both, x # y,
             scans' = [scans EXCEPT ![c] = n.scan], has_more' = [has_more EXCEPT ![c] = n.found],
             IF n.ok THEN UNCHANGED <<looping, returnedRows>> ELSE Crashes("meet"),
             UNCHANGED <<m_join_val, saved>>
      PROVE  MatTypes'
  <2>1. c \in 1..2 OBVIOUS
  <2> HIDE DEF x, y, c
  <2>2. ScanOK(scans[c], tables[c]) BY <1>3, <2>1
  <2>3. /\ n.found \in BOOLEAN /\ (n.ok => ScanOK(n.scan, tables[c]) /\ n.scan.runs = scans[c].runs)
        /\ n.ok /\ n.found => Readable(n.scan, n.scan.curr)
        BY <2>2, SortNextOK
  <2>4. Readable(scans[1], scans[1].curr) /\ Readable(scans[2], scans[2].curr)
        BY <1>1, <1>5 DEF MatTypes, LoopOK
  <2> HIDE DEF n
  <2> DEFINE s1 == IF c = 1 THEN n.scan ELSE scans[1]
             s2 == IF c = 2 THEN n.scan ELSE scans[2]
  <2>5. scans' = <<s1, s2>>
    <3>1. scans' = [<<scans[1], scans[2]>> EXCEPT ![c] = n.scan] BY <1>3, <1>5
    <3>2. CASE c = 1 BY <3>1, <3>2
    <3>3. CASE c = 2 BY <3>1, <3>3
    <3> QED BY <2>1, <3>2, <3>3
  <2>6. has_more' \in Seq(BOOLEAN) /\ Len(has_more') = 2
        /\ \A j \in 1..2 : has_more'[j] = IF j = c THEN n.found ELSE has_more[j]
    <3> DEFINE f == n.found
               S == BOOLEAN
    <3>1. f \in S /\ c \in 1..Len(has_more) /\ has_more \in Seq(S) /\ Len(has_more) = 2 BY <1>2, <2>1, <2>3
    <3>2. has_more' = [has_more EXCEPT ![c] = f] BY <1>5
    <3> HIDE DEF f, S
    <3>3. /\ has_more' \in Seq(S) /\ Len(has_more') = Len(has_more)
          /\ \A j \in 1..Len(has_more) : has_more'[j] = IF j = c THEN f ELSE has_more[j]
          BY <3>1, <3>2, ExceptSeq
    <3> QED BY <3>1, <3>3 DEF f, S
  <2>7. m_join_val' \in Nat /\ UNCHANGED <<m_join_val, saved>> BY <1>2, <1>5
  <2>8. CASE n.ok
    <3>1. looping' = looping /\ row' = row /\ whole' = whole BY <1>5, <2>8 DEF returnedRows
    <3>2. row' \in {"none", "row", "end", "crash"} /\ looping' \in BOOLEAN /\ whole' \in BOOLEAN /\ row' # "crash"
          BY <3>1, <1>2 DEF MatTypes, RequestOK
    <3>3. ScanOK(s1, tables[1]) /\ ScanOK(s2, tables[2]) /\ s2.runs = scans[2].runs
          BY <1>3, <2>1, <2>3, <2>8
    <3>4. \A j \in 1..2 : has_more'[j] => Readable(IF j = 1 THEN s1 ELSE s2, (IF j = 1 THEN s1 ELSE s2).curr)
          BY <2>1, <2>3, <2>4, <2>6, <2>8
    <3>5. LoopOK'
      <4> SUFFICES ASSUME NEW j \in 1..2, has_more'[j] PROVE Readable(scans'[j], scans'[j].curr) BY DEF LoopOK
      <4>1. scans'[j] = IF j = 1 THEN s1 ELSE s2 BY <2>5
      <4> QED BY <4>1, <3>4
    <3> HIDE DEF s1, s2
    <3>6. SortOK' /\ RequestOK' /\ ScansOK' /\ SavedOK' BY <1>1, <1>2, <2>5, <2>6, <2>7, <3>2, <3>3, JoinKeeps
    <3> QED BY <3>5, <3>6 DEF MatTypes
  <2>9. CASE ~n.ok
    <3>1. Returns(<<>>, "crash", "meet") BY <1>5, <2>9 DEF Crashes
    <3>2. row' = "crash" /\ looping' = FALSE /\ whole' \in BOOLEAN BY <3>1, ReturnsTypes
    <3> HIDE DEF s1, s2
    <3>3. SortOK' /\ RequestOK' /\ ScansOK' /\ SavedOK' BY <1>1, <1>2, <2>5, <2>6, <2>7, <3>2, JoinKeeps
    <3>4. LoopOK' BY <3>2 DEF LoopOK
    <3> QED BY <3>3, <3>4 DEF MatTypes
  <2> QED BY <2>8, <2>9
<1>6. ASSUME both, x = y,
             IF Len(scans[2].runs) = 1 THEN Crashes("meet") /\ UNCHANGED <<m_join_val, saved>>
             ELSE /\ m_join_val' = y
                  /\ saved' = [pos |-> scans[2].pos, curr |-> scans[2].curr]
                  /\ Pair(scans[1], scans[2], "meet"),
             UNCHANGED <<scans, has_more>>
      PROVE  MatTypes'
  <2>1. Readable(scans[1], scans[1].curr) /\ Readable(scans[2], scans[2].curr)
        BY <1>1, <1>6 DEF MatTypes, LoopOK
  <2>2. y \in Nat BY <1>3, <2>1, CurrentOf DEF ValueAt
  <2> HIDE DEF x, y, c, n
  <2>3. m_join_val' \in Nat BY <1>2, <1>6, <2>2
  <2>4. row' \in {"row", "crash"} /\ looping' = FALSE /\ whole' \in BOOLEAN
    <3>1. CASE Len(scans[2].runs) = 1
      <4>1. Returns(<<>>, "crash", "meet") BY <1>6, <3>1 DEF Crashes
      <4> QED BY <4>1, ReturnsTypes
    <3>2. CASE Len(scans[2].runs) # 1
      <4>1. Pair(scans[1], scans[2], "meet") BY <1>6, <3>2
      <4> QED BY <4>1, PairTypes
    <3> QED BY <3>1, <3>2
  <2>5. scans' = <<scans[1], scans[2]>> /\ has_more' = has_more BY <1>3, <1>6
  <2>6. SortOK' /\ RequestOK' /\ ScansOK' BY <1>1, <1>2, <1>3, <2>3, <2>4, <2>5, JoinKeeps
  <2>7. LoopOK' BY <2>4 DEF LoopOK
  <2>8. SavedOK'
    <3>1. CASE Len(scans[2].runs) = 1
      <4>1. Returns(<<>>, "crash", "meet") BY <1>6, <3>1 DEF Crashes
      <4>2. row' = "crash" BY <4>1, ReturnsTypes
      <4> QED BY <4>2 DEF SavedOK
    <3>2. CASE Len(scans[2].runs) # 1
      <4>1. m_join_val' = tables[2][Current(scans[2])][JoinField] /\ saved'.pos = scans[2].pos /\ saved'.curr = scans[2].curr
            BY <1>6, <3>2 DEF y, ValueAt
      <4>2. /\ scans[2].pos \in Seq(Nat) /\ Len(scans[2].pos) = Len(scans[2].runs)
            /\ \A q \in DOMAIN scans[2].runs : scans[2].pos[q] <= Len(scans[2].runs[q])
            BY <1>3 DEF ScanOK, ScanSet
      <4>3. scans[2].curr \in DOMAIN scans[2].runs /\ scans[2].pos[scans[2].curr] > 0 BY <2>1 DEF Readable
      <4> QED BY <1>1, <1>3, <1>6, <4>1, <4>2, <4>3 DEF SavedOK, Current
    <3> QED BY <3>1, <3>2
  <2> QED BY <2>6, <2>7, <2>8 DEF MatTypes
<1> QED BY <1>4, <1>5, <1>6 DEF meet

-----------------------------------------------------------------------------
LEMMA IndexTypes ==
    ASSUME MatTypes, before_first_index \/ index_next
    PROVE  MatTypes'
<1>1. kind = "index" /\ ~Opening /\ row # "crash" /\ ~looping
      /\ UNCHANGED <<kind, fields, tables, has_more, scans, more_groups, saved>>
      BY DEF before_first_index, index_next, Indexed, Ready, request
<1>2. tables[1] \in Seq(Records) /\ tables[1] # <<>> /\ m_join_val \in Nat /\ at \in Nat \X Nat /\ tables[2] \in Seq(Records)
  <2> DEFINE S == Seq(Records)
  <2>1. tables \in Seq(S) /\ Len(tables) = 2 BY <1>1 DEF MatTypes, RequestOK
  <2> HIDE DEF S
  <2>2. tables[1] \in S /\ tables[2] \in S BY <2>1
  <2>3. tables[1] # <<>> /\ m_join_val \in Nat /\ at \in Nat \X Nat BY <1>1 DEF MatTypes, RequestOK
  <2> QED BY <2>2, <2>3 DEF S
<1>3. \A q \in DOMAIN tables[1] : tables[1][q][JoinField] \in Nat
  <2> SUFFICES ASSUME NEW q \in DOMAIN tables[1] PROVE tables[1][q][JoinField] \in Nat OBVIOUS
  <2>1. tables[1][q] \in Records BY <1>2
  <2> QED BY <2>1, MaterializeAssumption
<1>4. 1 \in DOMAIN tables[1] /\ Len(tables[1]) \in DOMAIN tables[1] /\ DOMAIN tables[1] \subseteq Nat /\ DOMAIN tables[2] \subseteq Nat
      BY <1>2
<1>5. ~Opening' /\ SortOK' BY <1>1, StaysOpened DEF request
<1>6. ScansOK' /\ SavedOK' /\ LoopOK' BY <1>1 DEF MatTypes, ScansOK, SavedOK, LoopOK
<1>7. CASE before_first_index
  <2>1. at' = <<1, 0>> /\ m_join_val' = tables[1][1][JoinField] /\ row' = "none" /\ whole' = TRUE /\ looping' = looping
        BY <1>7 DEF before_first_index
  <2>2. at' \in Nat \X Nat /\ m_join_val' \in Nat BY <2>1, <1>3, <1>4
  <2>3. RequestOK' BY <1>1, <1>5, <2>1, <2>2 DEF MatTypes, RequestOK
  <2> QED BY <1>5, <1>6, <2>3 DEF MatTypes
<1>8. CASE index_next
  <2>1. \E seq, what : Returns(seq, what, "index") /\ what \in {"row", "end", "crash"}
        BY <1>8 DEF index_next, Crashes
  <2>2. row' \in {"row", "end", "crash"} /\ looping' = FALSE /\ whole' \in BOOLEAN BY <2>1, ReturnsTypes
  <2>3. at' \in Nat \X Nat /\ m_join_val' \in Nat
    <3>1. CASE \E j \in Entries(m_join_val, at[2]) : at' = <<at[1], j>> /\ m_join_val' = m_join_val
          BY <3>1, <1>2, <1>4 DEF Entries
    <3>2. CASE \E q \in DOMAIN tables[1], j \in DOMAIN tables[2] : at' = <<q, j>> /\ m_join_val' = tables[1][q][JoinField]
          BY <3>2, <1>3, <1>4
    <3>3. CASE at' = <<0, 0>> /\ m_join_val' = tables[1][Len(tables[1])][JoinField]
          BY <3>3, <1>3, <1>4
    <3> QED BY <3>1, <3>2, <3>3, <1>8 DEF index_next
  <2>4. RequestOK' BY <1>1, <1>5, <2>2, <2>3 DEF MatTypes, RequestOK
  <2> QED BY <1>5, <1>6, <2>4 DEF MatTypes
<1> QED BY <1>7, <1>8

LEMMA InitTypes ==
    ASSUME InitMaterialize
    PROVE  MatTypes
<1>1. /\ kind \in {"sort", "group", "join", "index"} /\ fields \subseteq Fields /\ tables \in Seq(Seq(Records))
      /\ Len(tables) = IF kind \in {"sort", "group"} THEN 1 ELSE 2
  <2>1. CASE kind \in {"sort", "group"} /\ tables \in {<<t>> : t \in Sorted} /\ fields \in SUBSET Fields \ {{}}
    <3>1. PICK t \in Sorted : tables = <<t>> BY <2>1
    <3>2. t \in Seq(Records) BY MaterializeAssumption
    <3> QED BY <2>1, <3>1, <3>2
  <2>2. CASE kind \in {"join", "index"} /\ tables \in Left \X Right /\ fields = {JoinField}
    <3>1. PICK t \in Left, u \in Right : tables = <<t, u>> BY <2>2
    <3>2. t \in Seq(Records) /\ u \in Seq(Records) BY MaterializeAssumption
    <3>3. fields \subseteq Fields BY <2>2, MaterializeAssumption
    <3> QED BY <2>2, <3>1, <3>2, <3>3
  <2> QED BY <2>1, <2>2 DEF InitMaterialize
<1>2. /\ read = 0 /\ runs = <<>> /\ result = <<<<>>>> /\ scans = <<>>
      /\ looping = FALSE /\ has_more = <<FALSE, FALSE>> /\ more_groups = FALSE
      /\ row = IF kind = "index" /\ tables[1] = <<>> THEN "crash" ELSE "none"
      /\ m_join_val = IF kind = "index" /\ row = "none" THEN tables[1][1][JoinField] ELSE Zero
      /\ saved = [pos |-> <<>>, curr |-> 0] /\ at = <<1, 0>>
      /\ by = "new" /\ whole = FALSE
      BY DEF InitMaterialize
<1>3. m_join_val \in Nat
  <2>1. CASE kind = "index" /\ row = "none"
    <3> DEFINE S == Seq(Records)
    <3>1. tables[1] # <<>> BY <1>2, <2>1
    <3>2. tables \in Seq(S) /\ Len(tables) = 2 BY <1>1, <2>1
    <3> HIDE DEF S
    <3>3. tables[1] \in S BY <3>2
    <3>4. tables[1][1] \in Records BY <3>1, <3>3 DEF S
    <3> QED BY <3>4, <2>1, <1>2, MaterializeAssumption
  <2>2. CASE ~(kind = "index" /\ row = "none") BY <2>2, <1>2, MaterializeAssumption
  <2> QED BY <2>1, <2>2
<1>4. RequestOK
  <2>1. at \in Nat \X Nat /\ has_more \in Seq(BOOLEAN) /\ Len(has_more) = 2 BY <1>2
  <2>2. row \in {"none", "crash"} /\ (kind = "index" /\ row # "crash" => tables[1] # <<>>) /\ saved.pos = <<>> BY <1>2
  <2> QED BY <1>1, <1>2, <1>3, <2>1, <2>2 DEF RequestOK
<1>5. SortOK
  <2> SUFFICES ASSUME Opening PROVE SortOK BY DEF SortOK
  <2>1. Len(Source) \in Nat
    <3> DEFINE S == Seq(Records)
    <3>1. tables \in Seq(S) /\ Len(scans) + 1 \in 1..Len(tables) /\ Len(tables) \in 1..2
      <4>1. Len(tables) \in 1..2 BY <1>1
      <4> QED BY <4>1, <1>1, <1>2 DEF Opening
    <3> HIDE DEF S
    <3>2. tables[Len(scans) + 1] \in S BY <3>1
    <3> QED BY <3>2 DEF S, Source
  <2>2. DOMAIN Kept = {<<2, 1>>} /\ Kept[<<2, 1>>] = <<>>
    <3>1. DOMAIN result = {1} /\ result[1] = <<>> /\ DOMAIN runs = {} BY <1>2
    <3>2. DOMAIN Kept = {<<2, 1>>} BY <3>1 DEF Kept
    <3>3. Kept[<<2, 1>>] = result[1] BY <3>2 DEF Kept
    <3> QED BY <3>1, <3>2, <3>3
  <2> HIDE DEF Kept
  <2>3. Each(Kept, {})
    <3>1. Kept[<<2, 1>>] \in Seq({}) BY <2>2
    <3> QED BY <2>2, <3>1 DEF Each
  <2>4. read \in 0..Len(Source) /\ Each(Kept, 1..read)
    <3>1. 1..read = {} BY <1>2
    <3> QED BY <3>1, <2>1, <2>3, <1>2
  <2>5. runs \in Seq(Seq(Nat)) /\ result \in Seq(Seq(Nat)) /\ Len(result) = 1 /\ result = <<<<>>>>
        /\ Len(runs) = 0 /\ DOMAIN runs = {}
        BY <1>2
  <2>6. \A q \in DOMAIN result : q < Len(result) => result[q] # <<>> BY <2>5
  <2> QED BY <2>4, <2>5, <2>6 DEF SortOK
<1>6. ScansOK
  <2>1. Len(tables) \in 1..2 BY <1>1
  <2> QED BY <2>1, <1>2 DEF ScansOK
<1>7. SavedOK /\ LoopOK BY <1>2 DEF SavedOK, LoopOK
<1> QED BY <1>4, <1>5, <1>6, <1>7 DEF MatTypes

LEMMA StutterTypes ==
    ASSUME MatTypes, UNCHANGED materializeVars
    PROVE  MatTypes'
<1>1. UNCHANGED <<kind, fields, tables, read, runs, result, scans, looping, group, has_more, more_groups, m_join_val,
                  saved, at, row, by, whole, out>>
      BY DEF materializeVars, request, sortState, loopState, scanState, returnedRows
<1>2. Opening' = Opening /\ Source' = Source /\ Kept' = Kept /\ src1' = src1 /\ src2' = src2
      BY <1>1 DEF Opening, Source, Kept, src1, src2
<1>3. RequestOK' BY <1>1, <1>2 DEF MatTypes, RequestOK
<1>4. SortOK' BY <1>1, <1>2 DEF MatTypes, SortOK
<1>5. ScansOK' /\ SavedOK' BY <1>1 DEF MatTypes, ScansOK, SavedOK
<1>6. LoopOK' BY <1>1 DEF MatTypes, LoopOK
<1> QED BY <1>3, <1>4, <1>5, <1>6 DEF MatTypes

\* The state of sorts, their scans and joins is well typed: each record is in one of the runs,
\* each position in its run, and the saved one of a join at a record with its value.
THEOREM MaterializeTypes == MaterializeSpec => []MatTypes
<1>1. InitMaterialize => MatTypes BY InitTypes
<1>2. MatTypes /\ [NextMaterialize]_materializeVars => MatTypes'
      BY SplitStep, MergeStep, IterationStep, OpenStep, BeforeFirstTypes, SortNextTypes, GroupNextTypes, GatherTypes,
         JoinNextTypes, MeetTypes, IndexTypes, StutterTypes DEF NextMaterialize
<1> QED BY <1>1, <1>2, PTL DEF MaterializeSpec

-----------------------------------------------------------------------------
Sequence(seq) == seq \in Seq({seq[n] : n \in DOMAIN seq})

\* A sequence with one more at its end.
OneMoreRow(seq, x, new) ==
    /\ Sequence(new) /\ Len(seq) \in Nat /\ DOMAIN seq = 1..Len(seq) /\ Len(new) = Len(seq) + 1
    /\ DOMAIN new = 1..(Len(seq) + 1) /\ new[Len(seq) + 1] = x /\ \A n \in DOMAIN seq : new[n] = seq[n]

LEMMA OneRowMore ==
    ASSUME NEW seq, Sequence(seq), NEW x, NEW new, new = seq \o <<x>>
    PROVE  OneMoreRow(seq, x, new)
<1> DEFINE S == {seq[n] : n \in DOMAIN seq}
           T == S \cup {x}
<1>1. seq \in Seq(S) BY DEF Sequence
<1> HIDE DEF S
<1>2. seq \in Seq(T) /\ <<x>> \in Seq(T) BY <1>1
<1>3. /\ Len(seq) \in Nat /\ DOMAIN seq = 1..Len(seq) /\ Len(new) = Len(seq) + 1 /\ DOMAIN new = 1..(Len(seq) + 1)
      /\ new[Len(seq) + 1] = x /\ \A n \in DOMAIN seq : new[n] = seq[n]
      BY <1>2
<1>4. Sequence(new)
  <2> DEFINE R == {new[n] : n \in DOMAIN new}
  <2>1. \A n \in 1..Len(new) : new[n] \in R BY <1>3
  <2>2. new \in Seq(T) BY <1>2
  <2> HIDE DEF R
  <2>3. new \in Seq(R) BY <2>1, <2>2
  <2> QED BY <2>3 DEF Sequence, R
<1> QED BY <1>3, <1>4 DEF OneMoreRow

LEMMA ExactlyOneMore ==
    ASSUME NEW seq, Sequence(seq), NEW set, Exactly(seq, set), NEW x, x \notin set
    PROVE  Sequence(seq \o <<x>>) /\ Exactly(seq \o <<x>>, set \cup {x})
<1> DEFINE new == seq \o <<x>>
           c == Len(seq) + 1
<1>1. /\ Sequence(new) /\ c \in Nat \ {0} /\ DOMAIN seq = 1..(c - 1) /\ DOMAIN new = 1..c
      /\ new[c] = x /\ \A n \in DOMAIN seq : new[n] = seq[n]
  <2> HIDE DEF new, c
  <2>1. /\ Sequence(new) /\ Len(seq) \in Nat /\ DOMAIN seq = 1..Len(seq)
        /\ DOMAIN new = 1..(Len(seq) + 1) /\ new[Len(seq) + 1] = x /\ \A n \in DOMAIN seq : new[n] = seq[n]
    <3>1. new = seq \o <<x>> BY DEF new
    <3>2. OneMoreRow(seq, x, new) BY <3>1, OneRowMore
    <3> QED BY <3>2 DEF OneMoreRow
  <2>2. c \in Nat \ {0} /\ c - 1 = Len(seq) /\ c = Len(seq) + 1 BY <2>1 DEF c
  <2> QED BY <2>1, <2>2
<1> HIDE DEF new, c
<1>2. c \in DOMAIN new /\ c \notin DOMAIN seq /\ DOMAIN new = DOMAIN seq \cup {c} BY <1>1
<1>3. \A n \in DOMAIN new : new[n] \in set \cup {x} BY <1>1, <1>2 DEF Exactly
<1>4. ASSUME NEW y \in set \cup {x} PROVE \E n \in DOMAIN new : \A m \in DOMAIN new : new[m] = y <=> m = n
  <2>1. CASE y = x
    <3>1. \A m \in DOMAIN new : new[m] = y <=> m = c BY <1>1, <1>2, <2>1 DEF Exactly
    <3> QED BY <3>1, <1>2
  <2>2. CASE y \in set
    <3>1. PICK n \in DOMAIN seq : \A m \in DOMAIN seq : seq[m] = y <=> m = n BY <2>2 DEF Exactly
    <3>2. new[c] # y BY <1>1, <2>2
    <3>3. \A m \in DOMAIN new : new[m] = y <=> m = n BY <1>1, <1>2, <3>1, <3>2
    <3> QED BY <1>2, <3>3
  <2> QED BY <2>1, <2>2
<1> QED BY <1>1, <1>3, <1>4 DEF Exactly, new

-----------------------------------------------------------------------------
\* What is at the first so many places of each of some sequences.
Heads(all, upto, set) == {x \in set : \E q \in DOMAIN all : \E n \in 1..upto[q] : all[q][n] = x}

LEMMA OneHeadMore ==
    ASSUME NEW all, NEW set, Each(all, set), \A q \in DOMAIN all : Len(all[q]) \in Nat,
           NEW p, NEW p2, \A q \in DOMAIN all : p[q] \in 0..Len(all[q]),
           NEW c \in DOMAIN all, p[c] + 1 <= Len(all[c]), p2[c] = p[c] + 1,
           \A q \in DOMAIN all : q # c => p2[q] = p[q]
    PROVE  /\ all[c][p[c] + 1] \in set \ Heads(all, p, set)
           /\ Heads(all, p2, set) = Heads(all, p, set) \cup {all[c][p[c] + 1]}
<1> DEFINE x == all[c][p[c] + 1]
<1>1. p[c] + 1 \in 1..Len(all[c]) /\ p[c] \in Nat
  <2>1. Len(all[c]) \in Nat /\ p[c] \in 0..Len(all[c]) OBVIOUS
  <2> QED BY <2>1
<1>2. x \in set
  <2>1. all[c] \in Seq(set) BY DEF Each
  <2> QED BY <2>1, <1>1
<1>3. \A q \in DOMAIN all : p[q] \in Nat /\ 1..p[q] \subseteq 1..Len(all[q]) OBVIOUS
<1>4. x \notin Heads(all, p, set)
  <2> SUFFICES ASSUME NEW q \in DOMAIN all, NEW n \in 1..p[q], all[q][n] = x PROVE FALSE BY DEF Heads
  <2>1. n \in 1..Len(all[q]) BY <1>3
  <2>2. q = c /\ n = p[c] + 1 BY <2>1, <1>1, EachOnce
  <2> QED BY <2>2, <1>1
<1>5. ASSUME NEW y \in set PROVE y \in Heads(all, p2, set) <=> y \in Heads(all, p, set) \/ y = x
  <2>1. ASSUME NEW q \in DOMAIN all, NEW n \in 1..p2[q], all[q][n] = y PROVE y \in Heads(all, p, set) \/ y = x
    <3>1. CASE q # c BY <3>1, <2>1 DEF Heads
    <3>2. CASE q = c /\ n = p[c] + 1 BY <3>2, <2>1
    <3>3. CASE q = c /\ n # p[c] + 1
      <4>1. n \in 1..p[c] BY <3>3, <1>1
      <4> QED BY <4>1, <3>3, <2>1 DEF Heads
    <3> QED BY <3>1, <3>2, <3>3
  <2>2. ASSUME NEW q \in DOMAIN all, NEW n \in 1..p[q], all[q][n] = y PROVE y \in Heads(all, p2, set)
    <3>1. n \in 1..p2[q] BY <1>1
    <3> QED BY <3>1, <2>2 DEF Heads
  <2>3. y = x => y \in Heads(all, p2, set)
    <3>1. p[c] + 1 \in 1..p2[c] BY <1>1
    <3> QED BY <3>1 DEF Heads
  <2> QED BY <2>1, <2>2, <2>3 DEF Heads
<1>6. Heads(all, p2, set) \subseteq set /\ Heads(all, p, set) \subseteq set BY DEF Heads
<1> HIDE DEF x
<1>7. Heads(all, p2, set) = Heads(all, p, set) \cup {x} BY <1>2, <1>5, <1>6
<1> QED BY <1>2, <1>4, <1>7 DEF x

\* In a pass: a run that has more is at a record, one that has not is at its end.
Passing(s) ==
    /\ \A q \in DOMAIN s.runs : s.pos[q] > 0 <=> s.more[q]
    /\ IF s.curr = 0 THEN \A q \in DOMAIN s.runs : s.pos[q] = 1 ELSE \A q \in 1..2 \ DOMAIN s.runs : ~s.more[q]

\* To be asked for its next record.
Live(s) == s.curr # 0 => s.more[s.curr]

\* The records of each run that it has come to, and of all.
Passed(s) ==
    [q \in DOMAIN s.runs |-> IF ~s.more[q] THEN Len(s.runs[q]) ELSE IF q = s.curr THEN s.pos[q] ELSE s.pos[q] - 1]
Behind(s, tab) == Heads(s.runs, Passed(s), DOMAIN tab)

LEMMA PassStep ==
    ASSUME NEW s, NEW tab, ScanOK(s, tab), Passing(s), Live(s), SortNext(s, tab).ok
    PROVE  LET n == SortNext(s, tab)
           IN /\ Passing(n.scan)
              /\ n.found => /\ n.scan.curr # 0 /\ n.scan.more[n.scan.curr] /\ Current(n.scan) \in DOMAIN tab \ Behind(s, tab)
                            /\ Behind(n.scan, tab) = Behind(s, tab) \cup {Current(n.scan)}
              /\ ~n.found => Behind(s, tab) = DOMAIN tab /\ Behind(n.scan, tab) = DOMAIN tab
<1> DEFINE t == IF s.curr = 0 THEN s ELSE Advance(s, s.curr)
           both == t.more[1] /\ t.more[2]
           ok == both => Readable(t, 1) /\ Readable(t, 2)
           earlier == both => ok /\ ~Equal(tab[t.runs[1][t.pos[1]]], tab[t.runs[2][t.pos[2]]])
           c == IF t.more[1] /\ earlier THEN 1 ELSE 2
           found == t.more[1] \/ t.more[2]
           n == SortNext(s, tab)
           p == Passed(s)
<1>1. /\ n.scan = (IF found THEN [t EXCEPT !.curr = c] ELSE t) /\ n.found = found
      /\ ok /\ (found => Readable(t, c))
      BY DEF SortNext
<1>2. /\ s \in ScanSet /\ s.curr \in 0..Len(s.runs) /\ DOMAIN s.runs = 1..Len(s.runs) /\ Len(s.runs) \in 1..2
      /\ \A q \in DOMAIN s.runs : /\ s.runs[q] \in Seq(Nat) /\ s.runs[q] # <<>> /\ s.pos[q] <= Len(s.runs[q])
                                   /\ s.pos[q] \in Nat /\ Len(s.runs[q]) \in Nat /\ s.more[q] \in BOOLEAN
      /\ Each(s.runs, DOMAIN tab) /\ \A q \in 1..2 : s.more[q] \in BOOLEAN
  <2>1. s \in ScanSet /\ s.curr \in 0..Len(s.runs) /\ Len(s.pos) = Len(s.runs) /\ Len(s.runs) \in 1..2
        /\ Each(s.runs, DOMAIN tab) /\ \A q \in DOMAIN s.runs : s.runs[q] # <<>> /\ s.pos[q] <= Len(s.runs[q])
        BY DEF ScanOK
  <2>2. s.runs \in Seq(Seq(Nat)) /\ s.pos \in Seq(Nat) /\ s.more \in [1..2 -> BOOLEAN] BY <2>1 DEF ScanSet
  <2>3. DOMAIN s.runs = 1..Len(s.runs) /\ DOMAIN s.runs \subseteq 1..2 BY <2>1, <2>2
  <2>4. ASSUME NEW q \in DOMAIN s.runs
        PROVE  s.runs[q] \in Seq(Nat) /\ s.pos[q] \in Nat /\ Len(s.runs[q]) \in Nat /\ s.more[q] \in BOOLEAN
    <3>1. s.runs[q] \in Seq(Nat) BY <2>2
    <3>2. s.pos[q] \in Nat BY <2>1, <2>2, <2>3
    <3>3. q \in 1..2 BY <2>3
    <3>4. s.more[q] \in BOOLEAN BY <3>3, <2>2
    <3>5. Len(s.runs[q]) \in Nat BY <3>1
    <3> QED BY <3>1, <3>2, <3>4, <3>5
  <2>5. \A q \in 1..2 : s.more[q] \in BOOLEAN BY <2>2
  <2> QED BY <2>1, <2>2, <2>3, <2>4, <2>5
<1>3. /\ t.runs = s.runs /\ t.curr = s.curr /\ t \in ScanSet
      /\ \A q \in DOMAIN s.runs : t.pos[q] \in 0..Len(s.runs[q]) /\ (t.pos[q] > 0 <=> t.more[q])
                                  /\ p[q] = IF t.more[q] THEN t.pos[q] - 1 ELSE Len(s.runs[q])
      /\ s.curr # 0 => \A q \in 1..2 \ DOMAIN s.runs : ~t.more[q]
      /\ s.curr = 0 => t.more[1]
  <2>1. CASE s.curr = 0
    <3>1. t = s BY <2>1
    <3>2. \A q \in DOMAIN s.runs : s.pos[q] = 1 /\ s.more[q] /\ q # 0 BY <1>2, <2>1 DEF Passing
    <3>3. 1 \in DOMAIN s.runs
      <4> DEFINE d == Len(s.runs)
      <4>1. d \in 1..2 /\ DOMAIN s.runs = 1..d BY <1>2
      <4> HIDE DEF d
      <4> QED BY <4>1
    <3> QED BY <1>2, <2>1, <3>1, <3>2, <3>3 DEF Passed
  <2>2. CASE s.curr # 0
    <3> DEFINE u == s.curr
    <3>1. u \in DOMAIN s.runs /\ t = Advance(s, u) BY <1>2, <2>2
    <3>2. s.more[u] /\ s.pos[u] > 0 BY <2>2, <3>1 DEF Passing, Live
    <3> HIDE DEF t
    <3>3. /\ ScanOK(t, tab) /\ t.runs = s.runs /\ t.curr = s.curr
          /\ t.pos[u] = (IF s.pos[u] < Len(s.runs[u]) THEN s.pos[u] + 1 ELSE 0) /\ (t.more[u] <=> t.pos[u] > 0)
          /\ \A q \in DOMAIN s.runs : q # u => t.pos[q] = s.pos[q]
          /\ \A q \in 1..2 : q # u => t.more[q] = s.more[q]
          BY <3>1, AdvanceOK
    <3>4. t \in ScanSet BY <3>3 DEF ScanOK
    <3>5. \A q \in 1..2 \ DOMAIN s.runs : ~t.more[q] BY <3>1, <3>3, <2>2 DEF Passing
    <3>6. ASSUME NEW q \in DOMAIN s.runs
          PROVE  /\ t.pos[q] \in 0..Len(s.runs[q]) /\ (t.pos[q] > 0 <=> t.more[q])
                 /\ p[q] = IF t.more[q] THEN t.pos[q] - 1 ELSE Len(s.runs[q])
      <4>1. CASE q = u
        <5>1. p[q] = s.pos[u] BY <3>1, <3>2, <4>1 DEF Passed
        <5> DEFINE e == Len(s.runs[u])
                   z == s.pos[u]
        <5>2. z \in Nat /\ e \in Nat /\ z <= e /\ z > 0 BY <3>1, <3>2, <1>2
        <5>3. t.pos[u] = (IF z < e THEN z + 1 ELSE 0) /\ (t.more[u] <=> t.pos[u] > 0) /\ p[u] = z BY <3>3, <4>1, <5>1
        <5> HIDE DEF e, z
        <5>4. t.pos[u] \in 0..e /\ (t.pos[u] > 0 <=> z < e) BY <5>2, <5>3
        <5>5. CASE z < e
          <6>1. t.pos[u] = z + 1 /\ t.more[u] BY <5>2, <5>3, <5>5
          <6>2. z + 1 \in 0..e /\ z + 1 > 0 /\ (z + 1) - 1 = z BY <5>2, <5>5
          <6> QED BY <6>1, <6>2, <5>3, <4>1 DEF e
        <5>6. CASE ~(z < e)
          <6>1. t.pos[u] = 0 /\ ~t.more[u] /\ z = e BY <5>2, <5>3, <5>6
          <6>2. 0 \in 0..e /\ ~(0 > 0) BY <5>2
          <6> QED BY <6>1, <6>2, <5>3, <4>1 DEF e
        <5> QED BY <5>5, <5>6
      <4>2. CASE q # u
        <5>1. p[q] = IF ~s.more[q] THEN Len(s.runs[q]) ELSE s.pos[q] - 1 BY <4>2 DEF Passed
        <5>2. t.pos[q] = s.pos[q] /\ t.more[q] = s.more[q] BY <4>2, <3>3, <1>2
        <5>3. s.pos[q] > 0 <=> s.more[q] BY DEF Passing
        <5> QED BY <5>1, <5>2, <5>3, <1>2
      <4> QED BY <4>1, <4>2
    <3> QED BY <2>2, <3>3, <3>4, <3>5, <3>6
  <2> QED BY <2>1, <2>2
<1> HIDE DEF t, n, p, c
<1>4. \A q \in 1..2 \ DOMAIN s.runs : ~t.more[q]
  <2> SUFFICES ASSUME s.curr = 0, NEW q \in 1..2 \ DOMAIN s.runs, t.more[q] PROVE FALSE BY <1>3
  <2>1. q = 2 BY <1>2
  <2>2. Readable(t, 2) BY <2>1, <1>1, <1>3
  <2> QED BY <2>1, <2>2, <1>3 DEF Readable
<1>5. ASSUME found
      PROVE  /\ Passing(n.scan) /\ n.scan.curr # 0 /\ n.scan.more[n.scan.curr]
             /\ Current(n.scan) \in DOMAIN tab \ Behind(s, tab)
             /\ Behind(n.scan, tab) = Behind(s, tab) \cup {Current(n.scan)}
  <2> DEFINE v == n.scan
             p2 == Passed(v)
  <2>1. v = [t EXCEPT !.curr = c] /\ Readable(t, c) /\ c \in 1..2 BY <1>1, <1>5 DEF c
  <2> HIDE DEF v
  <2>2. v.runs = s.runs /\ v.pos = t.pos /\ v.more = t.more /\ v.curr = c BY <2>1, <1>3 DEF ScanSet
  <2>3. c \in DOMAIN s.runs /\ t.pos[c] > 0 /\ t.more[c] BY <2>1, <1>3 DEF Readable
  <2>4. Passing(v) BY <2>1, <2>2, <1>3, <1>4 DEF Passing
  <2>5. \A q \in DOMAIN s.runs : p2[q] = IF ~t.more[q] THEN Len(s.runs[q]) ELSE IF q = c THEN t.pos[q] ELSE t.pos[q] - 1
        BY <2>2 DEF Passed
  <2> HIDE DEF p2
  <2>6. p[c] = t.pos[c] - 1 /\ p2[c] = t.pos[c] /\ t.pos[c] \in Nat BY <2>3, <2>5, <1>3
  <2>7. \A q \in DOMAIN s.runs : q # c => p2[q] = p[q] BY <2>5, <1>3
  <2>8. \A q \in DOMAIN s.runs : p[q] \in 0..Len(s.runs[q]) BY <1>2, <1>3
  <2>9. p[c] + 1 = t.pos[c] /\ p2[c] = p[c] + 1 /\ p[c] + 1 <= Len(s.runs[c]) BY <2>3, <2>6, <1>3, <1>2
  <2> DEFINE D == DOMAIN tab
             rs == s.runs
  <2>10. /\ Each(rs, D) /\ c \in DOMAIN rs /\ \A q \in DOMAIN rs : Len(rs[q]) \in Nat
         BY <1>2, <2>3
  <2> HIDE DEF D
  <2>11. /\ rs[c][p[c] + 1] \in D \ Heads(rs, p, D)
         /\ Heads(rs, p2, D) = Heads(rs, p, D) \cup {rs[c][p[c] + 1]}
    <3> HIDE DEF rs
    <3>1. \A q \in DOMAIN rs : p[q] \in 0..Len(rs[q]) BY <2>8 DEF rs
    <3>2. p[c] + 1 <= Len(rs[c]) /\ p2[c] = p[c] + 1 BY <2>9 DEF rs
    <3>3. \A q \in DOMAIN rs : q # c => p2[q] = p[q] BY <2>7 DEF rs
    <3> QED BY <2>10, <3>1, <3>2, <3>3, OneHeadMore
  <2>12. Current(v) = s.runs[c][p[c] + 1] BY <2>2, <2>9 DEF Current
  <2>13. Behind(s, tab) = Heads(s.runs, p, D) /\ Behind(v, tab) = Heads(s.runs, p2, D) BY <2>2 DEF Behind, p, p2, D
  <2>14. v.curr # 0 /\ v.more[v.curr] BY <2>1, <2>2, <2>3
  <2> QED BY <2>4, <2>11, <2>12, <2>13, <2>14 DEF v, D
<1>6. ASSUME ~found
      PROVE  Passing(n.scan) /\ Behind(s, tab) = DOMAIN tab /\ Behind(n.scan, tab) = DOMAIN tab
  <2> DEFINE v == n.scan
             p2 == Passed(v)
  <2>1. v = t BY <1>1, <1>6
  <2>2. \A q \in DOMAIN s.runs : ~t.more[q]
    <3>1. ~t.more[1] /\ ~t.more[2] BY <1>6
    <3> QED BY <3>1, <1>2
  <2>3. s.curr # 0 BY <1>3, <1>6
  <2> HIDE DEF v
  <2>4. Passing(v)
    <3>1. v.runs = s.runs /\ v.pos = t.pos /\ v.more = t.more /\ v.curr = s.curr BY <2>1, <1>3
    <3> QED BY <3>1, <2>2, <2>3, <1>3, <1>4 DEF Passing
  <2>5. \A q \in DOMAIN s.runs : p[q] = Len(s.runs[q]) /\ p2[q] = Len(s.runs[q])
        BY <2>1, <2>2, <1>3 DEF Passed
  <2> HIDE DEF p2
  <2>6. ASSUME NEW p3, \A q \in DOMAIN s.runs : p3[q] = Len(s.runs[q])
        PROVE  Heads(s.runs, p3, DOMAIN tab) = DOMAIN tab
    <3> SUFFICES ASSUME NEW x \in DOMAIN tab PROVE \E q \in DOMAIN s.runs : \E m \in 1..p3[q] : s.runs[q][m] = x
        BY DEF Heads
    <3>1. PICK q \in DOMAIN s.runs : \E m \in 1..Len(s.runs[q]) : s.runs[q][m] = x BY <1>2 DEF Each
    <3> QED BY <3>1, <2>6
  <2>7. Behind(s, tab) = Heads(s.runs, p, DOMAIN tab) /\ Behind(v, tab) = Heads(s.runs, p2, DOMAIN tab)
        BY <2>1, <1>3 DEF Behind, p, p2
  <2> QED BY <2>4, <2>5, <2>6, <2>7 DEF v
<1> QED BY <1>1, <1>5, <1>6 DEF n

\* After before_first.
LEMMA FirstPass ==
    ASSUME NEW s, NEW tab, ScanOK(s, tab)
    PROVE  LET t == BeforeFirst(s)
           IN ScanOK(t, tab) /\ Passing(t) /\ Live(t) /\ Behind(t, tab) = {}
<1> DEFINE t == BeforeFirst(s)
<1>1. s \in ScanSet /\ Len(s.runs) \in 1..2 /\ Each(s.runs, DOMAIN tab) /\ \A q \in DOMAIN s.runs : s.runs[q] # <<>>
      BY DEF ScanOK
<1>2. ScanOK(t, tab) /\ t.runs = s.runs /\ t.curr = 0 /\ \A q \in DOMAIN s.runs : t.pos[q] = 1 /\ t.more[q]
      BY <1>1, BeforeFirstOK
<1> HIDE DEF t
<1>3. Passing(t) /\ Live(t) BY <1>2 DEF Passing, Live
<1>4. Behind(t, tab) = {}
  <2> DEFINE p == Passed(t)
  <2>1. \A q \in DOMAIN t.runs : q # 0
    <3>1. s.runs \in Seq(Seq(Nat)) BY <1>1 DEF ScanSet
    <3> QED BY <3>1, <1>2
  <2>2. \A q \in DOMAIN t.runs : p[q] = 0 BY <1>2, <2>1 DEF Passed
  <2> HIDE DEF p
  <2>3. Heads(t.runs, p, DOMAIN tab) = {} BY <2>2 DEF Heads
  <2> QED BY <2>3 DEF Behind, p
<1> QED BY <1>2, <1>3, <1>4 DEF t

LEMMA ReturnsRows ==
    ASSUME NEW seq, NEW what, NEW how, Returns(seq, what, how)
    PROVE  /\ row' = what /\ by' = how /\ looping' = FALSE
           /\ whole' => whole /\ row # "end" /\ out' = out \o seq
BY DEF Returns

\* None, once more.
LEMMA NoMoreRows ==
    ASSUME NEW seq, Sequence(seq)
    PROVE  seq \o <<>> = seq
<1> DEFINE S == {seq[n] : n \in DOMAIN seq}
<1>1. seq \in Seq(S) BY DEF Sequence
<1> HIDE DEF S
<1> QED BY <1>1

LEMMA NoneIsExact ==
    Sequence(<<>>) /\ Exactly(<<>>, {})
<1>1. <<>> \in Seq({<<>>[n] : n \in DOMAIN <<>>}) OBVIOUS
<1>2. DOMAIN <<>> = {} OBVIOUS
<1> QED BY <1>1, <1>2 DEF Sequence, Exactly

\* No pass begins while sort_plan::open runs, and a request stays what it is.
LEMMA Steps ==
    ASSUME MatTypes, [NextMaterialize]_materializeVars
    PROVE  /\ UNCHANGED request
           /\ \/ ~whole'
              \/ before_first_rows \/ sort_next \/ group_next \/ gather \/ join_next \/ meet
              \/ before_first_index \/ index_next \/ UNCHANGED materializeVars
<1>1. ASSUME split_into_runs \/ merge_two_runs \/ do_a_merge_iteration \/ open_scan PROVE UNCHANGED request /\ ~whole'
  <2>1. Sort BY <1>1 DEF split_into_runs, merge_two_runs, do_a_merge_iteration, open_scan, Merging
  <2> QED BY <2>1 DEF Sort, MatTypes, RequestOK
<1>2. ASSUME \/ before_first_rows \/ sort_next \/ group_next \/ gather \/ join_next \/ meet
             \/ before_first_index \/ index_next
      PROVE  UNCHANGED request
      BY <1>2 DEF before_first_rows, sort_next, group_next, gather, join_next, meet, Join, before_first_index,
                  index_next, Indexed
<1>3. UNCHANGED materializeVars => UNCHANGED request BY DEF materializeVars
<1> QED BY <1>1, <1>2, <1>3 DEF NextMaterialize

-----------------------------------------------------------------------------
\* What a sort has returned is what its scan has come to.
SortExact ==
    kind = "sort" /\ whole /\ row # "crash" =>
        /\ Sequence(out) /\ Passing(scans[1]) /\ Exactly(out, Behind(scans[1], tables[1]))
        /\ row = "end" => Behind(scans[1], tables[1]) = DOMAIN tables[1]
        /\ row # "end" => Live(scans[1])

LEMMA OneScan ==
    ASSUME MatTypes, kind \in {"sort", "group"}, row # "crash", ~Opening
    PROVE  ScanOK(scans[1], tables[1]) /\ Len(scans) = 1 /\ Len(tables) = 1 /\ DOMAIN scans = {1}
<1>1. Len(tables) = 1 /\ Len(scans) = 1 /\ DOMAIN scans = 1..1 BY Opened
<1> QED BY <1>1, Opened

LEMMA SortStep ==
    ASSUME MatTypes, SortExact, [NextMaterialize]_materializeVars
    PROVE  SortExact'
<1> SUFFICES ASSUME kind' = "sort", whole', row' # "crash"
             PROVE  /\ Sequence(out') /\ Passing(scans'[1]) /\ Exactly(out', Behind(scans'[1], tables'[1]))
                    /\ row' = "end" => Behind(scans'[1], tables'[1]) = DOMAIN tables'[1]
                    /\ row' # "end" => Live(scans'[1])
    BY DEF SortExact
<1>1. kind = "sort" /\ tables' = tables BY Steps DEF request
<1>2. before_first_rows \/ sort_next \/ UNCHANGED materializeVars
  <2>1. ~(group_next \/ gather \/ join_next \/ meet \/ before_first_index \/ index_next)
        BY <1>1 DEF group_next, gather, join_next, meet, before_first_index, index_next, Ready
  <2> QED BY <2>1, Steps
<1>3. CASE before_first_rows
  <2>1. ~Opening /\ row # "crash" BY <1>3 DEF before_first_rows, Ready
  <2>2. ScanOK(scans[1], tables[1]) /\ DOMAIN scans = {1} BY <1>1, <2>1, OneScan
  <2>3. scans'[1] = BeforeFirst(scans[1]) /\ row' = "none" /\ out' = <<>> BY <1>1, <1>3, <2>2 DEF before_first_rows
  <2> QED BY <1>1, <2>2, <2>3, FirstPass, NoneIsExact
<1>4. CASE sort_next
  <2> DEFINE n == SortNext(scans[1], tables[1])
             tab == tables[1]
             seen2 == Behind(scans[1], tab)
  <2>1. ~Opening /\ row # "crash" BY <1>4 DEF sort_next, Ready
  <2>2. ScanOK(scans[1], tab) BY <1>1, <2>1, OneScan
  <2>3. scans'[1] = n.scan BY <1>4 DEF sort_next
  <2>4. n.ok /\ IF n.found THEN Returns(<<Current(n.scan)>>, "row", "sort") ELSE Returns(<<>>, "end", "sort")
    <3>1. ~Crashes("sort")
      <4> SUFFICES ASSUME Returns(<<>>, "crash", "sort") PROVE FALSE BY DEF Crashes
      <4> QED BY ReturnsRows
    <3> QED BY <1>4, <3>1 DEF sort_next
  <2>5. whole /\ row # "end"
    <3>1. CASE n.found
      <4> DEFINE seq == <<Current(n.scan)>>
      <4>1. Returns(seq, "row", "sort") BY <2>4, <3>1
      <4> HIDE DEF seq
      <4> QED BY <4>1, ReturnsRows
    <3>2. CASE ~n.found
      <4>1. Returns(<<>>, "end", "sort") BY <2>4, <3>2
      <4> QED BY <4>1, ReturnsRows
    <3> QED BY <3>1, <3>2
  <2>6. Sequence(out) /\ Passing(scans[1]) /\ Exactly(out, seen2) /\ Live(scans[1])
        BY <1>1, <2>1, <2>5 DEF SortExact
  <2>7. /\ Passing(n.scan)
        /\ n.found => /\ n.scan.curr # 0 /\ n.scan.more[n.scan.curr] /\ Current(n.scan) \in DOMAIN tab \ seen2
                      /\ Behind(n.scan, tab) = seen2 \cup {Current(n.scan)}
        /\ ~n.found => seen2 = DOMAIN tab /\ Behind(n.scan, tab) = DOMAIN tab
        BY <2>2, <2>4, <2>6, PassStep
  <2> HIDE DEF n, seen2, tab
  <2>8. CASE n.found
    <3> DEFINE x == Current(n.scan)
    <3>1. Returns(<<x>>, "row", "sort") BY <2>4, <2>8
    <3> HIDE DEF x
    <3>2. row' = "row" /\ out' = out \o <<x>>
      <4> DEFINE seq == <<x>>
      <4>1. Returns(seq, "row", "sort") BY <3>1
      <4> HIDE DEF seq
      <4>2. row' = "row" /\ out' = out \o seq BY <4>1, ReturnsRows
      <4> QED BY <4>2 DEF seq
    <3>3. x \notin seen2 /\ Behind(n.scan, tab) = seen2 \cup {x} BY <2>7, <2>8 DEF x
    <3>4. Sequence(out') /\ Exactly(out', seen2 \cup {x}) BY <2>6, <3>2, <3>3, ExactlyOneMore
    <3>5. Live(n.scan) BY <2>7, <2>8 DEF Live
    <3> QED BY <1>1, <2>3, <2>7, <3>2, <3>3, <3>4, <3>5 DEF tab
  <2>9. CASE ~n.found
    <3>1. Returns(<<>>, "end", "sort") BY <2>4, <2>9
    <3>2. row' = "end" /\ out' = out \o <<>> BY <3>1, ReturnsRows
    <3>3. out' = out BY <2>6, <3>2, NoMoreRows
    <3> QED BY <1>1, <2>3, <2>6, <2>7, <2>9, <3>2, <3>3 DEF tab
  <2> QED BY <2>8, <2>9
<1>5. CASE UNCHANGED materializeVars
      BY <1>5, <1>1 DEF SortExact, materializeVars, scanState, returnedRows
<1> QED BY <1>2, <1>3, <1>4, <1>5

-----------------------------------------------------------------------------
\* Groups of records of a table by some of the fields.
Of(p, g, tab, fs) == \A f \in fs : tab[p][f] = g.vals[f]

GroupOK(g, tab, fs) ==
    /\ g.of \subseteq DOMAIN tab /\ IsFiniteSet(g.of) /\ g.count = Cardinality(g.of) /\ g.max \in Nat
    /\ \A p \in g.of : Of(p, g, tab, fs) /\ tab[p][JoinField] <= g.max
    /\ \E p \in g.of : tab[p][JoinField] = g.max

GroupsOK(seq, tab, fs, set) ==
    /\ \A n \in DOMAIN seq : GroupOK(seq[n], tab, fs) /\ seq[n].of \subseteq set
    /\ \A p \in set : \E n \in DOMAIN seq : \A m \in DOMAIN seq : p \in seq[m].of <=> m = n
    /\ \A n \in 1..(Len(seq) - 1) : seq[n].vals # seq[n + 1].vals

LEMMA NewGroup ==
    ASSUME tables[1] \in Seq(Records), NEW p \in DOMAIN tables[1]
    PROVE  GroupOK(Group(p), tables[1], fields) /\ Group(p).of = {p}
<1> DEFINE r == tables[1][p]
           g == Group(p)
<1>1. r[JoinField] \in Nat
  <2>1. r \in Records OBVIOUS
  <2> QED BY <2>1, MaterializeAssumption
<1>2. g.vals = [f \in fields |-> r[f]] /\ g.count = 1 /\ g.max = r[JoinField] /\ g.of = {p} BY DEF Group
<1>3. IsFiniteSet({p}) /\ Cardinality({p}) = 1 BY FS_Singleton
<1> HIDE DEF g
<1>4. Of(p, g, tables[1], fields) BY <1>2 DEF Of
<1>5. tables[1][p][JoinField] <= g.max BY <1>1, <1>2
<1> QED BY <1>1, <1>2, <1>3, <1>4, <1>5 DEF GroupOK, g

LEMMA MoreOfAGroup ==
    ASSUME tables[1] \in Seq(Records), NEW g, GroupOK(g, tables[1], fields), NEW p \in DOMAIN tables[1], p \notin g.of,
           InGroup(p, g)
    PROVE  GroupOK(Counted(p, g), tables[1], fields) /\ Counted(p, g).of = g.of \cup {p} /\ Counted(p, g).vals = g.vals
<1> DEFINE new == tables[1][p][JoinField]
           h == Counted(p, g)
<1>1. new \in Nat
  <2>1. tables[1][p] \in Records OBVIOUS
  <2> QED BY <2>1, MaterializeAssumption
<1>2. h.vals = g.vals /\ h.count = g.count + 1 /\ h.max = (IF new > g.max THEN new ELSE g.max) /\ h.of = g.of \cup {p}
      BY DEF Counted
<1>3. IsFiniteSet(h.of) /\ h.count = Cardinality(h.of)
  <2>1. IsFiniteSet(g.of) /\ g.count = Cardinality(g.of) BY DEF GroupOK
  <2>2. IsFiniteSet(g.of \cup {p}) /\ Cardinality(g.of \cup {p}) = Cardinality(g.of) + 1 BY <2>1, FS_AddElement
  <2> QED BY <1>2, <2>1, <2>2
<1> HIDE DEF h, new
<1>4. h.max \in Nat /\ g.max <= h.max /\ new <= h.max /\ (h.max = g.max \/ h.max = new) BY <1>1, <1>2 DEF GroupOK
<1>5. ASSUME NEW q \in h.of PROVE Of(q, h, tables[1], fields) /\ tables[1][q][JoinField] <= h.max
  <2>1. CASE q = p BY <1>2, <1>4, <2>1 DEF Of, InGroup, new
  <2>2. CASE q \in g.of
    <3>1. Of(q, g, tables[1], fields) /\ tables[1][q][JoinField] <= g.max BY <2>2 DEF GroupOK
    <3>2. Of(q, h, tables[1], fields) BY <1>2, <3>1 DEF Of
    <3>3. tables[1][q][JoinField] \in Nat
      <4>1. tables[1][q] \in Records BY <2>2 DEF GroupOK
      <4> QED BY <4>1, MaterializeAssumption
    <3>4. g.max \in Nat BY DEF GroupOK
    <3> QED BY <3>1, <3>2, <3>3, <3>4, <1>4
  <2> QED BY <1>2, <2>1, <2>2
<1>6. \E q \in h.of : tables[1][q][JoinField] = h.max
  <2>1. PICK q \in g.of : tables[1][q][JoinField] = g.max BY DEF GroupOK
  <2> QED BY <1>2, <1>4, <2>1 DEF new
<1>7. h.of \subseteq DOMAIN tables[1] BY <1>2 DEF GroupOK
<1>8. GroupOK(h, tables[1], fields) BY <1>3, <1>4, <1>5, <1>6, <1>7 DEF GroupOK
<1> QED BY <1>2, <1>8 DEF h

\* One more group, of one record.
LEMMA OneGroupMore ==
    ASSUME NEW seq, Sequence(seq), NEW tab, NEW fs, NEW set, GroupsOK(seq, tab, fs, set),
           NEW p, p \notin set, NEW g, GroupOK(g, tab, fs), g.of = {p},
           seq # <<>> => seq[Len(seq)].vals # g.vals
    PROVE  GroupsOK(seq \o <<g>>, tab, fs, set \cup {p})
<1> DEFINE new == seq \o <<g>>
           c == Len(seq)
<1>1. /\ c \in Nat /\ DOMAIN seq = 1..c /\ DOMAIN new = 1..(c + 1) /\ Len(new) = c + 1
      /\ new[c + 1] = g /\ \A n \in DOMAIN seq : new[n] = seq[n]
  <2> HIDE DEF new
  <2>1. new = seq \o <<g>> BY DEF new
  <2>2. OneMoreRow(seq, g, new) BY <2>1, OneRowMore
  <2> QED BY <2>2 DEF OneMoreRow
<1>2. c > 0 => seq # <<>> OBVIOUS
<1>3. c > 0 => seq[c].vals # g.vals BY <1>2
<1> HIDE DEF new, c
<1>4. DOMAIN new = DOMAIN seq \cup {c + 1} /\ c + 1 \notin DOMAIN seq BY <1>1
<1>5. ASSUME NEW n \in DOMAIN new PROVE GroupOK(new[n], tab, fs) /\ new[n].of \subseteq set \cup {p}
  <2>1. CASE n = c + 1 BY <2>1, <1>1
  <2>2. CASE n \in DOMAIN seq BY <2>2, <1>1 DEF GroupsOK
  <2> QED BY <1>4, <2>1, <2>2
<1>6. ASSUME NEW x \in set \cup {p} PROVE \E n \in DOMAIN new : \A m \in DOMAIN new : x \in new[m].of <=> m = n
  <2>1. CASE x = p
    <3>1. \A m \in DOMAIN seq : x \notin seq[m].of BY <2>1 DEF GroupsOK
    <3>2. \A m \in DOMAIN new : x \in new[m].of <=> m = c + 1 BY <1>1, <1>4, <2>1, <3>1
    <3> QED BY <1>4, <3>2
  <2>2. CASE x \in set
    <3>1. PICK n \in DOMAIN seq : \A m \in DOMAIN seq : x \in seq[m].of <=> m = n BY <2>2 DEF GroupsOK
    <3>2. x \notin new[c + 1].of BY <1>1, <2>2
    <3>3. \A m \in DOMAIN new : x \in new[m].of <=> m = n BY <1>1, <1>4, <3>1, <3>2
    <3> QED BY <1>4, <3>3
  <2> QED BY <2>1, <2>2
<1>7. ASSUME NEW n \in 1..(Len(new) - 1) PROVE new[n].vals # new[n + 1].vals
  <2>1. n \in 1..c BY <1>1
  <2>2. CASE n = c BY <1>1, <1>3, <2>1, <2>2
  <2>3. CASE n # c
    <3>1. n \in 1..(c - 1) /\ n \in DOMAIN seq /\ n + 1 \in DOMAIN seq BY <1>1, <2>1, <2>3
    <3>2. seq[n].vals # seq[n + 1].vals BY <3>1 DEF GroupsOK, c
    <3> QED BY <1>1, <3>1, <3>2
  <2> QED BY <2>2, <2>3
<1> QED BY <1>5, <1>6, <1>7 DEF GroupsOK, new

\* One more record of the last group.
LEMMA LastGroupGrows ==
    ASSUME NEW seq, Sequence(seq), NEW tab, NEW fs, NEW set, NEW g, GroupsOK(seq \o <<g>>, tab, fs, set),
           NEW p, p \notin set, NEW h, GroupOK(h, tab, fs), h.of = g.of \cup {p}, h.vals = g.vals
    PROVE  GroupsOK(seq \o <<h>>, tab, fs, set \cup {p})
<1> DEFINE was == seq \o <<g>>
           new == seq \o <<h>>
           c == Len(seq) + 1
<1>1. /\ c \in Nat \ {0} /\ DOMAIN seq = 1..(c - 1) /\ DOMAIN new = 1..c /\ Len(new) = c
      /\ DOMAIN was = 1..c /\ Len(was) = c
      /\ new[c] = h /\ was[c] = g /\ \A n \in 1..(c - 1) : new[n] = was[n]
  <2> HIDE DEF new, was
  <2>1. new = seq \o <<h>> /\ was = seq \o <<g>> BY DEF new, was
  <2>2. OneMoreRow(seq, h, new) /\ OneMoreRow(seq, g, was) BY <2>1, OneRowMore
  <2> QED BY <2>2 DEF OneMoreRow
<1>2. GroupsOK(was, tab, fs, set) OBVIOUS
<1> HIDE DEF new, was, c
<1>3. \A n \in 1..c : new[n].vals = was[n].vals /\ new[n].of = (IF n = c THEN was[n].of \cup {p} ELSE was[n].of)
  <2> SUFFICES ASSUME NEW n \in 1..c, n # c PROVE new[n] = was[n] BY <1>1
  <2>1. n \in 1..(c - 1) BY <1>1
  <2> QED BY <1>1, <2>1
<1>4. \A n \in 1..c : was[n].of \subseteq set BY <1>1, <1>2 DEF GroupsOK
<1>5. ASSUME NEW n \in 1..c PROVE GroupOK(new[n], tab, fs) /\ new[n].of \subseteq set \cup {p}
  <2>1. CASE n = c BY <2>1, <1>1, <1>3, <1>4
  <2>2. CASE n # c
    <3>1. n \in 1..(c - 1) BY <1>1, <2>2
    <3> QED BY <3>1, <1>1, <1>2, <1>4 DEF GroupsOK
  <2> QED BY <2>1, <2>2
<1>6. ASSUME NEW x \in set \cup {p} PROVE \E n \in 1..c : \A m \in 1..c : x \in new[m].of <=> m = n
  <2>1. CASE x = p
    <3>1. \A m \in 1..c : x \in new[m].of <=> m = c BY <1>3, <1>4, <2>1
    <3> QED BY <1>1, <3>1
  <2>2. CASE x \in set
    <3>1. \A y \in set : \E n \in DOMAIN was : \A m \in DOMAIN was : y \in was[m].of <=> m = n BY <1>2 DEF GroupsOK
    <3>2. DOMAIN was = 1..c BY <1>1
    <3>3. PICK n \in 1..c : \A m \in 1..c : x \in was[m].of <=> m = n BY <2>2, <3>1, <3>2
    <3> QED BY <1>3, <3>3, <2>2
  <2> QED BY <2>1, <2>2
<1>7. ASSUME NEW n \in 1..(Len(new) - 1) PROVE new[n].vals # new[n + 1].vals
  <2>1. n \in 1..c /\ n + 1 \in 1..c /\ n \in 1..(Len(was) - 1) BY <1>1
  <2>2. was[n].vals # was[n + 1].vals BY <1>2, <2>1 DEF GroupsOK
  <2> QED BY <1>3, <2>1, <2>2
<1>8. DOMAIN new = 1..c BY <1>1
<1>9. \A n \in DOMAIN new : GroupOK(new[n], tab, fs) /\ new[n].of \subseteq set \cup {p} BY <1>5, <1>8
<1>10. \A x \in set \cup {p} : \E n \in DOMAIN new : \A m \in DOMAIN new : x \in new[m].of <=> m = n BY <1>6, <1>8
<1>11. GroupsOK(new, tab, fs, set \cup {p}) BY <1>7, <1>9, <1>10 DEF GroupsOK
<1> QED BY <1>11 DEF new

LEMMA NoGroups ==
    ASSUME NEW tab, NEW fs
    PROVE  Sequence(<<>>) /\ GroupsOK(<<>>, tab, fs, {})
BY NoneIsExact DEF GroupsOK

\* What a grouping has returned, and the group it gathers, are what its scan has come to; the
\* record that the scan is at between two groups begins the next one.
GroupExact ==
    kind = "group" /\ whole /\ row # "crash" =>
        LET s == scans[1]
            tab == tables[1]
        IN /\ Sequence(out) /\ Passing(s)
           /\ more_groups => Live(s)
           /\ ~more_groups => Behind(s, tab) = DOMAIN tab
           /\ row = "end" => ~looping /\ ~more_groups
           /\ looping => more_groups /\ GroupsOK(out \o <<group>>, tab, fields, Behind(s, tab))
           /\ ~looping /\ ~more_groups => GroupsOK(out, tab, fields, Behind(s, tab))
           /\ ~looping /\ more_groups =>
                /\ Current(s) \in Behind(s, tab) /\ GroupsOK(out, tab, fields, Behind(s, tab) \ {Current(s)})
                /\ out # <<>> => ~Of(Current(s), out[Len(out)], tab, fields)

\* The same of other values, and without the hypothesis.
GroupsAre(s, tab, fs, rows_, more_, loop, g) ==
    /\ Sequence(rows_) /\ Passing(s)
    /\ more_ => Live(s)
    /\ ~more_ => Behind(s, tab) = DOMAIN tab
    /\ loop => more_ /\ GroupsOK(rows_ \o <<g>>, tab, fs, Behind(s, tab))
    /\ ~loop /\ ~more_ => GroupsOK(rows_, tab, fs, Behind(s, tab))
    /\ ~loop /\ more_ =>
         /\ Current(s) \in Behind(s, tab) /\ GroupsOK(rows_, tab, fs, Behind(s, tab) \ {Current(s)})
         /\ rows_ # <<>> => ~Of(Current(s), rows_[Len(rows_)], tab, fs)

LEMMA OfIs ==
    ASSUME NEW p, NEW g
    PROVE  InGroup(p, g) <=> Of(p, g, tables[1], fields)
BY DEF InGroup, Of

LEMMA BehindIn ==
    ASSUME NEW s, NEW tab
    PROVE  Behind(s, tab) \subseteq DOMAIN tab
BY DEF Behind, Heads

LEMMA GroupStep ==
    ASSUME MatTypes, GroupExact, [NextMaterialize]_materializeVars
    PROVE  GroupExact'
<1> SUFFICES ASSUME kind' = "group", whole', row' # "crash"
             PROVE  /\ GroupsAre(scans'[1], tables'[1], fields', out', more_groups', looping', group')
                    /\ row' = "end" => ~looping' /\ ~more_groups'
    BY DEF GroupExact, GroupsAre
<1>1. kind = "group" /\ tables' = tables /\ fields' = fields BY Steps DEF request
<1>2. before_first_rows \/ group_next \/ gather \/ UNCHANGED materializeVars
  <2>1. ~(sort_next \/ join_next \/ meet \/ before_first_index \/ index_next)
        BY <1>1 DEF sort_next, join_next, meet, before_first_index, index_next, Ready
  <2> QED BY <2>1, Steps
<1>3. ~Opening => tables[1] \in Seq(Records)
  <2>1. Len(tables) = 1 /\ tables \in Seq(Seq(Records)) BY <1>1 DEF MatTypes, RequestOK
  <2> QED BY <2>1
<1> DEFINE tab == tables[1]
           fs == fields
           s == scans[1]
           behind == Behind(s, tab)
<1>4. CASE before_first_rows
  <2> DEFINE t == BeforeFirst(s)
             n == SortNext(t, tab)
  <2>1. ~Opening /\ row # "crash" /\ ~looping BY <1>4 DEF before_first_rows, Ready
  <2>2. ScanOK(s, tab) /\ DOMAIN scans = {1} BY <1>1, <2>1, OneScan
  <2>3. /\ scans' = <<n.scan>> /\ more_groups' = n.found /\ n.ok
        /\ row' = "none" /\ out' = <<>> /\ UNCHANGED <<looping, group>>
    <3>1. [j \in DOMAIN scans |-> BeforeFirst(scans[j])][1] = t BY <2>2
    <3> QED BY <1>1, <1>4, <3>1 DEF before_first_rows, loopState
  <2>4. ScanOK(t, tab) /\ Passing(t) /\ Live(t) /\ Behind(t, tab) = {} BY <2>2, FirstPass
  <2>5. n.found \in BOOLEAN BY <2>4, SortNextOK
  <2>6. /\ Passing(n.scan)
        /\ n.found => /\ n.scan.curr # 0 /\ n.scan.more[n.scan.curr] /\ Current(n.scan) \in DOMAIN tab \ Behind(t, tab)
                      /\ Behind(n.scan, tab) = Behind(t, tab) \cup {Current(n.scan)}
        /\ ~n.found => Behind(t, tab) = DOMAIN tab /\ Behind(n.scan, tab) = DOMAIN tab
        BY <2>3, <2>4, PassStep
  <2>7. Sequence(<<>>) /\ GroupsOK(<<>>, tab, fs, {}) BY NoGroups
  <2> HIDE DEF n, t, tab, fs
  <2>8. scans'[1] = n.scan BY <2>3
  <2>9. CASE n.found
    <3>1. Live(n.scan) BY <2>6, <2>9 DEF Live
    <3>2. Behind(n.scan, tab) = {Current(n.scan)} BY <2>4, <2>6, <2>9
    <3>3. Behind(n.scan, tab) \ {Current(n.scan)} = {} BY <3>2
    <3>4. GroupsAre(n.scan, tab, fs, <<>>, TRUE, FALSE, group') BY <2>6, <2>7, <3>1, <3>2, <3>3 DEF GroupsAre
    <3>5. more_groups' = TRUE /\ looping' = FALSE BY <2>1, <2>3, <2>5, <2>9 DEF MatTypes, RequestOK
    <3> QED BY <1>1, <2>3, <2>8, <3>4, <3>5 DEF tab, fs
  <2>10. CASE ~n.found
    <3>1. Behind(n.scan, tab) = {} /\ DOMAIN tab = {} BY <2>4, <2>6, <2>10
    <3>2. GroupsAre(n.scan, tab, fs, <<>>, FALSE, FALSE, group') BY <2>6, <2>7, <3>1 DEF GroupsAre
    <3>3. more_groups' = FALSE /\ looping' = FALSE BY <2>1, <2>3, <2>5, <2>10 DEF MatTypes, RequestOK
    <3> QED BY <1>1, <2>3, <2>8, <3>2, <3>3 DEF tab, fs
  <2> QED BY <2>9, <2>10
<1>5. CASE group_next
  <2>1. ~Opening /\ row # "crash" /\ ~looping BY <1>5 DEF group_next, Ready
  <2>2. UNCHANGED <<scans, more_groups>> BY <1>5 DEF group_next, scanState
  <2>3. CASE more_groups
    <3> DEFINE p == Current(s)
    <3>1. group' = Group(p) /\ looping' = TRUE /\ whole /\ row' = row /\ out' = out
          BY <1>5, <2>3 DEF group_next, returnedRows
    <3>2. /\ Sequence(out) /\ Passing(s) /\ Live(s) /\ p \in behind /\ GroupsOK(out, tab, fs, behind \ {p})
          /\ row # "end" /\ (out # <<>> => ~Of(p, out[Len(out)], tab, fs))
          BY <1>1, <2>1, <2>3, <3>1 DEF GroupExact
    <3>3. p \in DOMAIN tab BY <3>2, BehindIn
    <3>4. GroupOK(Group(p), tab, fs) /\ Group(p).of = {p} BY <1>3, <2>1, <3>3, NewGroup
    <3>5. out # <<>> => out[Len(out)].vals # Group(p).vals BY <3>2 DEF Of, Group
    <3>6. (behind \ {p}) \cup {p} = behind BY <3>2
    <3> DEFINE g == Group(p)
               b0 == behind \ {p}
    <3> HIDE DEF g, behind, p, s, b0, tab, fs
    <3>7. GroupsOK(out \o <<g>>, tab, fs, b0 \cup {p})
      <4>1. GroupOK(g, tab, fs) /\ g.of = {p} BY <3>4 DEF g, tab, fs
      <4>2. out # <<>> => out[Len(out)].vals # g.vals BY <3>5 DEF g
      <4>3. p \notin b0 /\ GroupsOK(out, tab, fs, b0) BY <3>2 DEF b0
      <4>4. Sequence(out) BY <3>2
      <4> QED BY <4>1, <4>2, <4>3, <4>4, OneGroupMore
    <3>8. GroupsOK(out \o <<g>>, tab, fs, behind) BY <3>6, <3>7 DEF b0
    <3>9. GroupsAre(s, tab, fs, out, TRUE, TRUE, g) BY <3>2, <3>8 DEF GroupsAre, behind
    <3> QED BY <1>1, <2>2, <2>3, <3>1, <3>2, <3>9 DEF g, s, tab, fs
  <2>4. CASE ~more_groups
    <3>1. Returns(<<>>, "end", "group") BY <1>5, <2>4 DEF group_next
    <3>2. whole /\ row # "end" /\ out' = out \o <<>> /\ row' = "end" /\ looping' = FALSE BY <3>1, ReturnsRows
    <3>3. Sequence(out) /\ Passing(s) /\ behind = DOMAIN tab /\ GroupsOK(out, tab, fs, behind)
          BY <1>1, <2>1, <2>4, <3>2 DEF GroupExact
    <3>4. out' = out BY <3>2, <3>3, NoMoreRows
    <3>5. GroupsAre(s, tab, fs, out, FALSE, FALSE, group') BY <3>3 DEF GroupsAre
    <3>6. more_groups' = FALSE BY <2>2, <2>4 DEF MatTypes, RequestOK
    <3> QED BY <1>1, <2>2, <3>2, <3>4, <3>5, <3>6
  <2> QED BY <2>3, <2>4
<1>6. CASE gather
  <2> DEFINE n == SortNext(s, tab)
             p == Current(n.scan)
  <2>1. looping /\ scans' = <<n.scan>> /\ more_groups' = n.found BY <1>6 DEF gather
  <2>2. row # "crash" /\ ~Opening BY <2>1 DEF MatTypes, RequestOK
  <2>3. ScanOK(s, tab) BY <1>1, <2>2, OneScan
  <2>4. n.found \in BOOLEAN /\ n.ok \in BOOLEAN BY <2>3, SortNextOK
  <2>5. \/ /\ n.ok /\ n.found /\ InGroup(p, group) /\ group' = Counted(p, group) /\ UNCHANGED <<looping, returnedRows>>
        \/ /\ n.ok /\ (n.found => ~InGroup(p, group)) /\ Returns(<<group>>, "row", "group")
    <3>1. ~Crashes("group")
      <4> SUFFICES ASSUME Returns(<<>>, "crash", "group") PROVE FALSE BY DEF Crashes
      <4> QED BY ReturnsRows
    <3> QED BY <1>6, <3>1 DEF gather
  <2>6. whole
    <3>1. CASE UNCHANGED <<looping, returnedRows>> BY <3>1 DEF returnedRows
    <3>2. CASE Returns(<<group>>, "row", "group")
      <4> DEFINE seq == <<group>>
      <4>1. Returns(seq, "row", "group") BY <3>2
      <4> HIDE DEF seq
      <4> QED BY <4>1, ReturnsRows
    <3> QED BY <2>5, <3>1, <3>2
  <2>7. Sequence(out) /\ Passing(s) /\ Live(s) /\ GroupsOK(out \o <<group>>, tab, fs, behind)
        BY <1>1, <2>1, <2>2, <2>6 DEF GroupExact
  <2>8. /\ Passing(n.scan)
        /\ n.found => /\ n.scan.curr # 0 /\ n.scan.more[n.scan.curr] /\ p \in DOMAIN tab \ behind
                      /\ Behind(n.scan, tab) = behind \cup {p}
        /\ ~n.found => behind = DOMAIN tab /\ Behind(n.scan, tab) = DOMAIN tab
        BY <2>3, <2>5, <2>7, PassStep
  <2>9. tab \in Seq(Records) BY <1>3, <2>2
  <2>10. n.found => Live(n.scan) BY <2>8 DEF Live
  <2>11. InGroup(p, group) <=> Of(p, group, tab, fs) BY OfIs
  <2> DEFINE v == n.scan
  <2> HIDE DEF n
  <2>12. scans'[1] = v BY <2>1
  <2>13. CASE n.ok /\ n.found /\ InGroup(p, group) /\ group' = Counted(p, group) /\ UNCHANGED <<looping, returnedRows>>
    <3> DEFINE h == Counted(p, group)
    <3>1. GroupOK(group, tab, fs) /\ group.of \subseteq behind
      <4> DEFINE new == out \o <<group>>
                 c == Len(out) + 1
      <4>1. c \in DOMAIN new /\ new[c] = group
        <5> HIDE DEF new, c
        <5>1. new = out \o <<group>> BY DEF new
        <5>2. OneMoreRow(out, group, new) BY <2>7, <5>1, OneRowMore
        <5>3. Len(out) \in Nat /\ DOMAIN new = 1..(Len(out) + 1) /\ new[Len(out) + 1] = group BY <5>2 DEF OneMoreRow
        <5> QED BY <5>3 DEF c
      <4>2. GroupsOK(new, tab, fs, behind) BY <2>7
      <4> HIDE DEF new, c, behind, tab, fs
      <4> QED BY <4>1, <4>2 DEF GroupsOK
    <3>2. p \in DOMAIN tab /\ p \notin behind /\ p \notin group.of BY <2>8, <2>13, <3>1
    <3>3. GroupOK(h, tab, fs) /\ h.of = group.of \cup {p} /\ h.vals = group.vals
          BY <2>9, <2>13, <3>1, <3>2, MoreOfAGroup
    <3> HIDE DEF h, behind, p, tab, fs, s
    <3>4. GroupsOK(out \o <<h>>, tab, fs, behind \cup {p}) BY <2>7, <3>2, <3>3, LastGroupGrows
    <3>5. GroupsOK(out \o <<h>>, tab, fs, Behind(v, tab)) BY <2>8, <2>13, <3>4
    <3>6. Passing(v) /\ Live(v) BY <2>8, <2>10, <2>13
    <3>7. GroupsAre(v, tab, fs, out, TRUE, TRUE, h) BY <2>7, <3>5, <3>6 DEF GroupsAre
    <3>8. out' = out /\ row' = row /\ looping' = TRUE /\ more_groups' = TRUE /\ group' = h
          BY <2>1, <2>4, <2>13 DEF returnedRows, h, MatTypes, RequestOK
    <3>9. row # "end" BY <1>1, <2>1, <2>2, <2>6 DEF GroupExact
    <3> QED BY <1>1, <2>12, <3>7, <3>8, <3>9 DEF tab, fs
  <2>14. CASE n.ok /\ (n.found => ~InGroup(p, group)) /\ Returns(<<group>>, "row", "group")
    <3> DEFINE new == out \o <<group>>
    <3>1. row' = "row" /\ out' = new /\ looping' = FALSE
      <4> DEFINE seq == <<group>>
      <4>1. Returns(seq, "row", "group") BY <2>14
      <4> HIDE DEF seq
      <4>2. row' = "row" /\ out' = out \o seq /\ looping' = FALSE BY <4>1, ReturnsRows
      <4> QED BY <4>2 DEF seq
    <3>2. Sequence(new) /\ new[Len(new)] = group
      <4> HIDE DEF new
      <4>1. new = out \o <<group>> BY DEF new
      <4>2. OneMoreRow(out, group, new) BY <2>7, <4>1, OneRowMore
      <4> QED BY <4>2 DEF OneMoreRow
    <3>3. GroupsOK(new, tab, fs, behind) BY <2>7
    <3> HIDE DEF new, behind, p, tab, fs, s
    <3>4. CASE n.found
      <4>1. p \in Behind(v, tab) /\ Behind(v, tab) \ {p} = behind BY <2>8, <3>4
      <4>2. ~Of(p, new[Len(new)], tab, fs) BY <2>11, <2>14, <3>2, <3>4
      <4>3. GroupsOK(new, tab, fs, Behind(v, tab) \ {Current(v)}) /\ Current(v) \in Behind(v, tab)
            /\ ~Of(Current(v), new[Len(new)], tab, fs)
            BY <3>3, <4>1, <4>2 DEF p
      <4>4. GroupsAre(v, tab, fs, new, TRUE, FALSE, group') BY <2>8, <2>10, <3>2, <3>4, <4>3 DEF GroupsAre
      <4> QED BY <1>1, <2>1, <2>4, <2>12, <3>1, <3>4, <4>4 DEF tab, fs
    <3>5. CASE ~n.found
      <4>1. GroupsOK(new, tab, fs, Behind(v, tab)) /\ Behind(v, tab) = DOMAIN tab BY <2>8, <3>3, <3>5
      <4>2. GroupsAre(v, tab, fs, new, FALSE, FALSE, group') BY <2>8, <3>2, <4>1 DEF GroupsAre
      <4>3. more_groups' = FALSE BY <2>1, <2>4, <3>5
      <4> QED BY <1>1, <2>12, <3>1, <4>2, <4>3 DEF tab, fs
    <3> QED BY <3>4, <3>5
  <2> QED BY <2>5, <2>13, <2>14
<1>7. CASE UNCHANGED materializeVars
  <2>1. UNCHANGED <<kind, whole, row, scans, tables, fields, out, more_groups, looping, group>>
        BY <1>7 DEF materializeVars, request, scanState, loopState, returnedRows
  <2> QED BY <1>1, <2>1 DEF GroupExact, GroupsAre
<1> QED BY <1>2, <1>4, <1>5, <1>6, <1>7

-----------------------------------------------------------------------------
\* The pairs of the join up to one of places, that may be none of them.
UpTo(a, c) == {x \in Matching : x[1] < a \/ (x[1] = a /\ x[2] <= c)}
After(x, a, c) == x[1] > a \/ (x[1] = a /\ x[2] > c)

IsNext(d, e, a, c) ==
    /\ <<d, e>> \in Matching /\ After(<<d, e>>, a, c)
    /\ \A x \in Matching : After(x, a, c) => d < x[1] \/ (d = x[1] /\ e <= x[2])

OneMorePair(d, e, a, c) == <<d, e>> \notin UpTo(a, c) /\ UpTo(d, e) = UpTo(a, c) \cup {<<d, e>>}

PlacesOfPairs == Matching \subseteq Nat \X Nat

\* A pair of the join is the next one, or there is none.
LEMMA NextPair ==
    ASSUME NEW a \in Nat, NEW c \in Nat, NEW d \in Nat, NEW e \in Nat, PlacesOfPairs,
           IsNext(d, e, a, c)
    PROVE  OneMorePair(d, e, a, c)
<1>1. <<d, e>>[1] = d /\ <<d, e>>[2] = e OBVIOUS
<1>2. <<d, e>> \notin UpTo(a, c) BY <1>1 DEF UpTo, After, IsNext
<1>3. ASSUME NEW x \in Matching PROVE x \in UpTo(d, e) <=> x \in UpTo(a, c) \/ x = <<d, e>>
  <2>1. x = <<x[1], x[2]>> /\ x[1] \in Nat /\ x[2] \in Nat BY DEF PlacesOfPairs
  <2> DEFINE y == x[1]
             z == x[2]
  <2>2. x = <<y, z>> /\ y \in Nat /\ z \in Nat BY <2>1
  <2>3. x \in UpTo(d, e) <=> y < d \/ (y = d /\ z <= e) BY DEF UpTo
  <2>4. x \in UpTo(a, c) <=> y < a \/ (y = a /\ z <= c) BY DEF UpTo
  <2>5. (y > a \/ (y = a /\ z > c)) => d < y \/ (d = y /\ e <= z) BY DEF After, IsNext
  <2>6. d > a \/ (d = a /\ e > c) BY <1>1 DEF After, IsNext
  <2>7. x = <<d, e>> <=> y = d /\ z = e BY <2>2
  <2> HIDE DEF y, z
  <2> QED BY <2>2, <2>3, <2>4, <2>5, <2>6, <2>7
<1>4. UpTo(d, e) \subseteq Matching /\ UpTo(a, c) \subseteq Matching /\ <<d, e>> \in Matching BY DEF UpTo, IsNext
<1> QED BY <1>2, <1>3, <1>4 DEF OneMorePair

LEMMA NoPairLeft ==
    ASSUME NEW a \in Nat, NEW c \in Nat, PlacesOfPairs, \A x \in Matching : ~After(x, a, c)
    PROVE  UpTo(a, c) = Matching
<1> SUFFICES ASSUME NEW x \in Matching PROVE x \in UpTo(a, c) BY DEF UpTo
<1>1. x[1] \in Nat /\ x[2] \in Nat BY DEF PlacesOfPairs
<1> QED BY <1>1 DEF UpTo, After

\* What a join through an index has returned is the pairs up to the one that it is at.
IndexExact ==
    kind = "index" /\ row # "crash" =>
        /\ tables[1] # <<>>
        /\ whole =>
            /\ Sequence(out)
            /\ row = "row" => at \in Matching /\ out # <<>> /\ out[Len(out)] = at
            /\ row # "end" => at[1] \in DOMAIN tables[1] /\ m_join_val = tables[1][at[1]][JoinField]
            /\ row = "end" => Exactly(out, Matching)
            /\ row # "end" => Exactly(out, UpTo(at[1], at[2]))

LEMMA TwoTables ==
    ASSUME MatTypes, kind \in {"join", "index"}
    PROVE  /\ tables[1] \in Seq(Records) /\ tables[2] \in Seq(Records)
           /\ DOMAIN tables[1] \subseteq Nat \ {0} /\ DOMAIN tables[2] \subseteq Nat \ {0}
           /\ PlacesOfPairs
<1>1. Len(tables) = 2 /\ tables \in Seq(Seq(Records)) BY DEF MatTypes, RequestOK
<1>2. tables[1] \in Seq(Records) /\ tables[2] \in Seq(Records)
  <2> DEFINE R == Seq(Records)
  <2>1. tables \in Seq(R) /\ Len(tables) = 2 BY <1>1
  <2> HIDE DEF R
  <2>2. tables[1] \in R /\ tables[2] \in R BY <2>1
  <2> QED BY <2>2 DEF R
<1>3. DOMAIN tables[1] \subseteq Nat \ {0} /\ DOMAIN tables[2] \subseteq Nat \ {0} BY <1>2
<1> QED BY <1>2, <1>3 DEF Matching, PlacesOfPairs

LEMMA RowAdded ==
    ASSUME NEW x, NEW how, NEW set, Returns(<<x>>, "row", how), whole', Sequence(out), Exactly(out, set), x \notin set
    PROVE  /\ row' = "row" /\ Sequence(out') /\ Exactly(out', set \cup {x}) /\ out' # <<>> /\ out'[Len(out')] = x
<1> DEFINE seq == <<x>>
<1>1. Returns(seq, "row", how) OBVIOUS
<1> HIDE DEF seq
<1>2. row' = "row" /\ out' = out \o seq BY <1>1, ReturnsRows
<1>3. out' = out \o <<x>> BY <1>2 DEF seq
<1>4. OneMoreRow(out, x, out')
  <2> DEFINE new == out'
  <2>1. new = out \o <<x>> BY <1>3
  <2> HIDE DEF new
  <2>2. OneMoreRow(out, x, new) BY <2>1, OneRowMore
  <2> QED BY <2>2 DEF new
<1>5. Sequence(out') /\ Exactly(out', set \cup {x}) BY <1>3, ExactlyOneMore
<1>6. out'[Len(out')] = x /\ DOMAIN out' # {} BY <1>4 DEF OneMoreRow
<1>7. out' # <<>> BY <1>6
<1> QED BY <1>2, <1>5, <1>6, <1>7

LEMMA IndexStep ==
    ASSUME MatTypes, MatTypes', IndexExact, [NextMaterialize]_materializeVars
    PROVE  IndexExact'
<1> SUFFICES ASSUME kind' = "index", row' # "crash" PROVE IndexExact' BY DEF IndexExact
<1>1. kind = "index" /\ tables' = tables BY Steps DEF request
<1>2. before_first_index \/ index_next \/ UNCHANGED materializeVars
  <2>1. ~(split_into_runs \/ merge_two_runs \/ do_a_merge_iteration \/ open_scan)
        BY <1>1 DEF split_into_runs, merge_two_runs, do_a_merge_iteration, open_scan, Merging, Sort, Opening
  <2>2. ~(before_first_rows \/ sort_next \/ group_next \/ gather \/ join_next \/ meet)
        BY <1>1 DEF before_first_rows, sort_next, group_next, gather, join_next, meet, Ready
  <2> QED BY <2>1, <2>2 DEF NextMaterialize
<1>3. Matching' = Matching BY <1>1 DEF Matching
<1> DEFINE S == tables[1]
           T == tables[2]
<1>4. S \in Seq(Records) /\ T \in Seq(Records) /\ DOMAIN S \subseteq Nat \ {0} /\ DOMAIN T \subseteq Nat \ {0}
      /\ PlacesOfPairs
      BY <1>1, TwoTables
<1>5. at = <<at[1], at[2]>> /\ at[1] \in Nat /\ at[2] \in Nat BY DEF MatTypes, RequestOK
<1>6. CASE before_first_index
  <2>1. /\ row # "crash" /\ at' = <<1, 0>> /\ m_join_val' = S[1][JoinField] /\ row' = "none" /\ out' = <<>>
        BY <1>6 DEF before_first_index, Ready
  <2>2. S # <<>> BY <1>1, <2>1 DEF IndexExact
  <2>3. 1 \in DOMAIN S BY <1>4, <2>2
  <2>4. UpTo(1, 0) = {}
    <3> SUFFICES ASSUME NEW x \in Matching PROVE ~(x[1] < 1 \/ (x[1] = 1 /\ x[2] <= 0)) BY DEF UpTo
    <3>1. x[1] \in Nat \ {0} /\ x[2] \in Nat \ {0} BY <1>4 DEF Matching
    <3> QED BY <3>1
  <2>5. at'[1] = 1 /\ at'[2] = 0 BY <2>1
  <2>6. UpTo(at[1], at[2])' = {} BY <1>3, <2>4, <2>5 DEF UpTo
  <2> QED BY <1>1, <2>1, <2>2, <2>3, <2>5, <2>6, NoneIsExact DEF IndexExact
<1>7. CASE index_next
  <2> DEFINE Key(q) == S[q][JoinField]
             more == Entries(m_join_val, at[2])
             ahead == {q \in DOMAIN S : q > at[1] /\ Entries(Key(q), 0) # {}}
             a == at[1]
             c == at[2]
  <2>1. row # "crash" BY <1>7 DEF index_next, Ready
  <2>2. S # <<>> BY <1>1, <2>1 DEF IndexExact
  <2> SUFFICES ASSUME whole'
               PROVE  /\ Sequence(out')
                      /\ row' = "row" => at' \in Matching /\ out' # <<>> /\ out'[Len(out')] = at'
                      /\ row' # "end" => at'[1] \in DOMAIN S /\ m_join_val' = S[at'[1]][JoinField]
                      /\ row' = "end" => Exactly(out', Matching)
                      /\ row' # "end" => Exactly(out', UpTo(at'[1], at'[2]))
    <3>1. UpTo(at[1], at[2])' = UpTo(at'[1], at'[2]) BY <1>3 DEF UpTo
    <3> QED BY <1>1, <1>3, <2>1, <2>2, <3>1 DEF IndexExact
  <2>3. ASSUME NEW seq, NEW what, Returns(seq, what, "index")
        PROVE  /\ a \in DOMAIN S /\ m_join_val = S[a][JoinField] /\ Sequence(out) /\ Exactly(out, UpTo(a, c))
    <3>1. whole /\ row # "end" BY <2>3, ReturnsRows
    <3> QED BY <1>1, <2>1, <3>1 DEF IndexExact
  <2>4. ASSUME NEW d \in DOMAIN S, NEW e \in DOMAIN T, at' = <<d, e>>, Returns(<<at'>>, "row", "index"),
               m_join_val' = S[d][JoinField], T[e][JoinField] = S[d][JoinField], d > a \/ (d = a /\ e > c),
               \A x \in Matching : After(x, a, c) => d < x[1] \/ (d = x[1] /\ e <= x[2])
        PROVE  /\ Sequence(out')
               /\ row' = "row" /\ at' \in Matching /\ out' # <<>> /\ out'[Len(out')] = at'
               /\ at'[1] \in DOMAIN S /\ m_join_val' = S[at'[1]][JoinField]
               /\ Exactly(out', UpTo(at'[1], at'[2]))
    <3> DEFINE p == <<d, e>>
    <3>1. p \in Matching /\ p[1] = d /\ p[2] = e BY <2>4 DEF Matching
    <3>2. After(<<d, e>>, a, c) BY <2>4 DEF After
    <3>3. d \in Nat /\ e \in Nat BY <1>4
    <3> HIDE DEF a, c
    <3>4. a \in Nat /\ c \in Nat BY <1>5 DEF a, c
    <3>5. p \notin UpTo(a, c) /\ UpTo(d, e) = UpTo(a, c) \cup {p} 
      <4>1. \A x \in Matching : After(x, a, c) => d < x[1] \/ (d = x[1] /\ e <= x[2]) BY <2>4 DEF a, c
      <4>2. <<d, e>> \in Matching BY <3>1
      <4>3. <<d, e>> \notin UpTo(a, c) /\ UpTo(d, e) = UpTo(a, c) \cup {<<d, e>>}
        <5>1. PlacesOfPairs BY <1>4
        <5>2. IsNext(d, e, a, c) BY <3>2, <4>1, <4>2 DEF IsNext
        <5>3. OneMorePair(d, e, a, c) BY <5>1, <5>2, <3>3, <3>4, NextPair
        <5> QED BY <5>3 DEF OneMorePair
      <4> QED BY <4>3
    <3>6. Returns(<<p>>, "row", "index") BY <2>4
    <3>7. Sequence(out) /\ Exactly(out, UpTo(a, c))
      <4> DEFINE seq == <<p>>
      <4>1. Returns(seq, "row", "index") BY <3>6
      <4> HIDE DEF seq
      <4> QED BY <4>1, <2>3
    <3> HIDE DEF p
    <3>8. /\ row' = "row" /\ Sequence(out') /\ Exactly(out', UpTo(a, c) \cup {p}) /\ out' # <<>> /\ out'[Len(out')] = p
          BY <3>5, <3>6, <3>7, RowAdded
    <3>9. at' = p BY <2>4 DEF p
    <3> QED BY <2>4, <3>1, <3>5, <3>8, <3>9
  <2>5. \/ \E j \in more : /\ IsFirst(j, more) /\ at' = <<a, j>> /\ m_join_val' = m_join_val
                           /\ IF a = 0 THEN Crashes("index") ELSE Returns(<<at'>>, "row", "index")
        \/ /\ more = {}
           /\ \E q \in ahead, j \in DOMAIN T :
                 /\ IsFirst(q, ahead) /\ IsFirst(j, Entries(Key(q), 0)) /\ at' = <<q, j>> /\ m_join_val' = Key(q)
                 /\ Returns(<<at'>>, "row", "index")
        \/ more = {} /\ ahead = {} /\ at' = <<0, 0>> /\ Returns(<<>>, "end", "index")
    <3>1. \/ /\ \E j \in more : IsFirst(j, more) /\ at' = <<at[1], j>>
             /\ UNCHANGED m_join_val
             /\ IF at[1] = 0 THEN Crashes("index") ELSE Returns(<<at'>>, "row", "index")
          \/ /\ more = {}
             /\ \E q \in ahead, j \in DOMAIN tables[2] :
                   IsFirst(q, ahead) /\ IsFirst(j, Entries(Key(q), 0)) /\ at' = <<q, j>> /\ m_join_val' = Key(q)
             /\ Returns(<<at'>>, "row", "index")
          \/ /\ more = {} /\ ahead = {}
             /\ at' = <<0, 0>>
             /\ Returns(<<>>, "end", "index")
          BY <1>7 DEF index_next
    <3> HIDE DEF more, ahead, Key
    <3> QED BY <3>1
  <2>6. ASSUME NEW j \in more, IsFirst(j, more), at' = <<a, j>>, m_join_val' = m_join_val,
               IF a = 0 THEN Crashes("index") ELSE Returns(<<at'>>, "row", "index")
        PROVE  Sequence(out') /\ row' = "row" /\ at' \in Matching /\ out' # <<>> /\ out'[Len(out')] = at'
               /\ at'[1] \in DOMAIN S /\ m_join_val' = S[at'[1]][JoinField] /\ Exactly(out', UpTo(at'[1], at'[2]))
    <3>1. ~Crashes("index")
      <4> SUFFICES ASSUME Returns(<<>>, "crash", "index") PROVE FALSE BY DEF Crashes
      <4> QED BY ReturnsRows
    <3>2. Returns(<<at'>>, "row", "index") BY <2>6, <3>1
    <3>3. a \in DOMAIN S /\ m_join_val = S[a][JoinField]
      <4> DEFINE seq == <<at'>>
      <4>1. Returns(seq, "row", "index") BY <3>2
      <4> HIDE DEF seq
      <4> QED BY <4>1, <2>3
    <3>4. j \in DOMAIN T /\ j > c /\ T[j][JoinField] = m_join_val BY DEF Entries
    <3>5. ASSUME NEW x \in Matching, After(x, a, c) PROVE a < x[1] \/ (a = x[1] /\ j <= x[2])
      <4>1. x[1] \in DOMAIN S /\ x[2] \in DOMAIN T /\ S[x[1]][JoinField] = T[x[2]][JoinField] BY DEF Matching
      <4>2. CASE x[1] > a BY <1>4, <1>5, <4>1, <4>2
      <4>3. CASE x[1] = a /\ x[2] > c
        <5>1. x[2] \in more BY <3>3, <4>1, <4>3 DEF Entries
        <5> QED BY <2>6, <4>3, <5>1 DEF IsFirst
      <4> QED BY <3>5, <4>2, <4>3 DEF After
    <3> QED BY <2>6, <2>4, <3>2, <3>3, <3>4, <3>5
  <2>7. ASSUME more = {}, NEW q \in ahead, NEW j \in DOMAIN T, IsFirst(q, ahead), IsFirst(j, Entries(Key(q), 0)),
               at' = <<q, j>>, m_join_val' = Key(q), Returns(<<at'>>, "row", "index")
        PROVE  Sequence(out') /\ row' = "row" /\ at' \in Matching /\ out' # <<>> /\ out'[Len(out')] = at'
               /\ at'[1] \in DOMAIN S /\ m_join_val' = S[at'[1]][JoinField] /\ Exactly(out', UpTo(at'[1], at'[2]))
    <3>1. m_join_val = S[a][JoinField] /\ a \in DOMAIN S
      <4> DEFINE seq == <<at'>>
      <4>1. Returns(seq, "row", "index") BY <2>7
      <4> HIDE DEF seq
      <4> QED BY <4>1, <2>3
    <3>2. q \in DOMAIN S /\ q > a BY DEF ahead
    <3>3. T[j][JoinField] = Key(q) BY <2>7 DEF IsFirst, Entries
    <3>4. ASSUME NEW x \in Matching, After(x, a, c) PROVE q < x[1] \/ (q = x[1] /\ j <= x[2])
      <4>1. x[1] \in DOMAIN S /\ x[2] \in DOMAIN T /\ S[x[1]][JoinField] = T[x[2]][JoinField] BY DEF Matching
      <4>2. ~(x[1] = a /\ x[2] > c)
        <5> SUFFICES ASSUME x[1] = a /\ x[2] > c PROVE x[2] \in more BY <2>7
        <5> QED BY <3>1, <4>1 DEF Entries
      <4>3. x[1] > a BY <3>4, <4>2 DEF After
      <4>4. x[2] \in Entries(Key(x[1]), 0) BY <1>4, <4>1 DEF Entries
      <4>5. x[1] \in ahead BY <4>1, <4>3, <4>4
      <4>6. q <= x[1] /\ q \in Nat /\ x[1] \in Nat BY <1>4, <2>7, <3>2, <4>1, <4>5 DEF IsFirst
      <4>7. q = x[1] => j <= x[2] BY <2>7, <4>4 DEF IsFirst
      <4> QED BY <4>6, <4>7
    <3> QED BY <2>7, <2>4, <3>2, <3>3, <3>4
  <2>8. ASSUME more = {}, ahead = {}, at' = <<0, 0>>, Returns(<<>>, "end", "index")
        PROVE  row' = "end" /\ Sequence(out') /\ Exactly(out', Matching)
    <3>1. a \in DOMAIN S /\ m_join_val = S[a][JoinField] /\ Sequence(out) /\ Exactly(out, UpTo(a, c)) BY <2>3, <2>8
    <3>2. row' = "end" /\ out' = out \o <<>> BY <2>8, ReturnsRows
    <3>3. out' = out BY <3>1, <3>2, NoMoreRows
    <3>4. ASSUME NEW x \in Matching, After(x, a, c) PROVE FALSE
      <4>1. x[1] \in DOMAIN S /\ x[2] \in DOMAIN T /\ S[x[1]][JoinField] = T[x[2]][JoinField] BY DEF Matching
      <4>2. ~(x[1] = a /\ x[2] > c)
        <5> SUFFICES ASSUME x[1] = a /\ x[2] > c PROVE x[2] \in more BY <2>8
        <5> QED BY <3>1, <4>1 DEF Entries
      <4>3. x[1] > a BY <3>4, <4>2 DEF After
      <4>4. x[2] \in Entries(Key(x[1]), 0) BY <1>4, <4>1 DEF Entries
      <4> QED BY <2>8, <4>1, <4>3, <4>4
    <3>5. UpTo(a, c) = Matching
      <4> HIDE DEF a, c
      <4>1. a \in Nat /\ c \in Nat BY <1>5 DEF a, c
      <4> QED BY <1>4, <3>4, <4>1, NoPairLeft
    <3> QED BY <3>1, <3>2, <3>3, <3>5
  <2> HIDE DEF more, ahead, Key, a, c, S, T
  <2> QED BY <2>5, <2>6, <2>7, <2>8
<1>8. CASE UNCHANGED materializeVars
  <2>1. UNCHANGED <<kind, whole, row, tables, out, at, m_join_val>>
        BY <1>8 DEF materializeVars, request, scanState, returnedRows
  <2> QED BY <1>1, <1>3, <2>1 DEF IndexExact, UpTo
<1> QED BY <1>2, <1>6, <1>7, <1>8

-----------------------------------------------------------------------------
\* A pair that a join has just returned matches, unless the right scan has been taken back
\* while it is in the other run; the left scan is at a record of m_join_val.
JoinExact ==
    kind = "join" /\ whole /\ row # "crash" =>
        /\ Sequence(out)
        /\ ~looping /\ row = "none" => scans[1].curr = 0
        /\ ~looping /\ row = "row" =>
             /\ Readable(scans[1], scans[1].curr) /\ ValueAt(1, scans[1]) = m_join_val /\ out # <<>>
             /\ out[Len(out)] \in Matching \/ (by = "left" /\ scans[2].curr # saved.curr)

LEMMA PairRows ==
    ASSUME NEW x, NEW y, NEW how, Pair(x, y, how), row' # "crash"
    PROVE  /\ Readable(x, x.curr) /\ Readable(y, y.curr) /\ row' = "row" /\ by' = how /\ looping' = FALSE
           /\ whole' => whole /\ row # "end"
           /\ whole' /\ Sequence(out) =>
                Sequence(out') /\ out' # <<>> /\ out'[Len(out')] = <<Current(x), Current(y)>>
                /\ out' = out \o <<<<Current(x), Current(y)>>>>
<1> DEFINE p == <<Current(x), Current(y)>>
           seq == <<p>>
<1>1. Readable(x, x.curr) /\ Readable(y, y.curr) /\ Returns(seq, "row", how)
  <2>1. ~Crashes(how)
    <3> SUFFICES ASSUME Returns(<<>>, "crash", how) PROVE FALSE BY DEF Crashes
    <3> QED BY ReturnsRows
  <2> QED BY <2>1 DEF Pair
<1> HIDE DEF seq
<1>2. /\ row' = "row" /\ by' = how /\ looping' = FALSE
      /\ whole' => whole /\ row # "end" /\ out' = out \o seq
      BY <1>1, ReturnsRows
<1> HIDE DEF p
<1>3. ASSUME whole', Sequence(out) PROVE Sequence(out') /\ out' # <<>> /\ out'[Len(out')] = p /\ out' = out \o <<p>>
  <2> DEFINE new == out'
  <2>1. new = out \o <<p>> BY <1>2, <1>3 DEF seq
  <2> HIDE DEF new
  <2>2. OneMoreRow(out, p, new) BY <1>3, <2>1, OneRowMore
  <2>3. Sequence(new) /\ DOMAIN new # {} /\ new[Len(new)] = p BY <2>2 DEF OneMoreRow
  <2>4. new # <<>> BY <2>3
  <2> QED BY <2>1, <2>3, <2>4 DEF new
<1> QED BY <1>1, <1>2, <1>3 DEF p

LEMMA NotCrashed ==
    ASSUME NEW how, Crashes(how)
    PROVE  row' = "crash"
BY ReturnsRows DEF Crashes

\* The steps of merge_join_scan that do not crash.
JoinRight(r) ==
    /\ Has(2, r) /\ r.ok /\ scans' = <<scans[1], r.scan>> /\ UNCHANGED <<m_join_val, saved, has_more>>
    /\ Pair(scans[1], r.scan, "right")
JoinLeft(v, r) ==
    /\ v.ok /\ r.ok /\ ~Has(2, r) /\ Has(1, v) /\ saved.pos # <<>>
    /\ scans' = <<v.scan, Restored(r.scan)>> /\ UNCHANGED <<m_join_val, saved, has_more>>
    /\ Pair(v.scan, Restored(r.scan), "left")
JoinOn(v, r) ==
    /\ v.ok /\ r.ok /\ ~Has(2, r) /\ ~Has(1, v)
    /\ scans' = <<v.scan, r.scan>> /\ has_more' = <<v.found, r.found>> /\ looping' = TRUE
    /\ UNCHANGED <<m_join_val, saved, returnedRows>>

LEMMA JoinNextSteps ==
    ASSUME join_next, row' # "crash"
    PROVE  LET r == SortNext(scans[2], tables[2])
               v == SortNext(scans[1], tables[1])
           IN JoinRight(r) \/ JoinLeft(v, r) \/ JoinOn(v, r)
<1> DEFINE r == SortNext(scans[2], tables[2])
           v == SortNext(scans[1], tables[1])
<1> HIDE DEF r, v
<1>1. \A how \in {"left", "meet"} : ~Crashes(how) BY NotCrashed
<1>2. UNCHANGED <<m_join_val, saved>> BY DEF join_next
<1>3. \/ /\ r.ok /\ Has(2, r)
         /\ scans' = <<scans[1], r.scan>> /\ UNCHANGED has_more
         /\ Pair(scans[1], r.scan, "right")
      \/ /\ r.ok /\ ~Has(2, r) /\ v.ok /\ Has(1, v)
         /\ IF saved.pos = <<>> THEN Crashes("left") /\ UNCHANGED scans
            ELSE scans' = <<v.scan, Restored(r.scan)>> /\ Pair(v.scan, Restored(r.scan), "left")
         /\ UNCHANGED has_more
      \/ /\ r.ok /\ ~Has(2, r) /\ v.ok /\ ~Has(1, v)
         /\ scans' = <<v.scan, r.scan>> /\ has_more' = <<v.found, r.found>>
         /\ looping' = TRUE /\ UNCHANGED returnedRows
      \/ /\ r.ok => ~Has(2, r) /\ ~v.ok
         /\ Crashes("meet")
         /\ UNCHANGED <<scans, has_more>>
      BY DEF join_next, r, v
<1> QED BY <1>1, <1>2, <1>3 DEF JoinRight, JoinLeft, JoinOn, r, v

MeetEnds == ~(has_more[1] /\ has_more[2]) /\ Returns(<<>>, "end", "meet") /\ UNCHANGED <<scans, has_more, m_join_val, saved>>
MeetGoesOn(c) ==
    LET n == SortNext(scans[c], tables[c])
    IN /\ has_more[1] /\ has_more[2] /\ ValueAt(1, scans[1]) # ValueAt(2, scans[2])
       /\ c = (IF ValueAt(1, scans[1]) < ValueAt(2, scans[2]) THEN 1 ELSE 2)
       /\ n.ok /\ scans' = [scans EXCEPT ![c] = n.scan] /\ has_more' = [has_more EXCEPT ![c] = n.found]
       /\ UNCHANGED <<looping, returnedRows, m_join_val, saved>>
MeetFound ==
    /\ has_more[1] /\ has_more[2] /\ ValueAt(1, scans[1]) = ValueAt(2, scans[2]) /\ Len(scans[2].runs) # 1
    /\ m_join_val' = ValueAt(2, scans[2]) /\ saved' = [pos |-> scans[2].pos, curr |-> scans[2].curr]
    /\ Pair(scans[1], scans[2], "meet") /\ UNCHANGED <<scans, has_more>>

LEMMA MeetSteps ==
    ASSUME meet, row' # "crash"
    PROVE  MeetEnds \/ MeetFound \/ \E c \in 1..2 : MeetGoesOn(c)
<1> DEFINE x == ValueAt(1, scans[1])
           y == ValueAt(2, scans[2])
           c == IF x < y THEN 1 ELSE 2
           n == SortNext(scans[c], tables[c])
           both == has_more[1] /\ has_more[2]
<1>1. ~Crashes("meet") BY NotCrashed
<1>2. c \in 1..2 OBVIOUS
<1> HIDE DEF x, y, c, n, both
<1>3. \/ ~both /\ Returns(<<>>, "end", "meet") /\ UNCHANGED <<scans, has_more, m_join_val, saved>>
      \/ /\ both /\ x # y
         /\ scans' = [scans EXCEPT ![c] = n.scan] /\ has_more' = [has_more EXCEPT ![c] = n.found]
         /\ IF n.ok THEN UNCHANGED <<looping, returnedRows>> ELSE Crashes("meet")
         /\ UNCHANGED <<m_join_val, saved>>
      \/ /\ both /\ x = y
         /\ IF Len(scans[2].runs) = 1 THEN Crashes("meet") /\ UNCHANGED <<m_join_val, saved>>
            ELSE /\ m_join_val' = y
                 /\ saved' = [pos |-> scans[2].pos, curr |-> scans[2].curr]
                 /\ Pair(scans[1], scans[2], "meet")
         /\ UNCHANGED <<scans, has_more>>
      BY DEF meet, x, y, c, n, both
<1>4. CASE ~both /\ Returns(<<>>, "end", "meet") /\ UNCHANGED <<scans, has_more, m_join_val, saved>>
      BY <1>4 DEF MeetEnds, both
<1>5. CASE /\ both /\ x # y
           /\ scans' = [scans EXCEPT ![c] = n.scan] /\ has_more' = [has_more EXCEPT ![c] = n.found]
           /\ IF n.ok THEN UNCHANGED <<looping, returnedRows>> ELSE Crashes("meet")
           /\ UNCHANGED <<m_join_val, saved>>
  <2>1. n.ok /\ UNCHANGED <<looping, returnedRows>> BY <1>1, <1>5
  <2>2. c = (IF ValueAt(1, scans[1]) < ValueAt(2, scans[2]) THEN 1 ELSE 2) BY DEF c, x, y
  <2>3. MeetGoesOn(c) BY <1>5, <2>1, <2>2 DEF MeetGoesOn, n, both, x, y
  <2> QED BY <1>2, <2>3
<1>6. CASE /\ both /\ x = y
           /\ IF Len(scans[2].runs) = 1 THEN Crashes("meet") /\ UNCHANGED <<m_join_val, saved>>
              ELSE /\ m_join_val' = y
                   /\ saved' = [pos |-> scans[2].pos, curr |-> scans[2].curr]
                   /\ Pair(scans[1], scans[2], "meet")
           /\ UNCHANGED <<scans, has_more>>
      BY <1>1, <1>6 DEF MeetFound, both, x, y
<1> QED BY <1>3, <1>4, <1>5, <1>6

LEMMA JoinStep ==
    ASSUME MatTypes, MatTypes', JoinExact, [NextMaterialize]_materializeVars
    PROVE  JoinExact'
<1> SUFFICES ASSUME kind' = "join", whole', row' # "crash"
             PROVE  /\ Sequence(out')
                    /\ ~looping' /\ row' = "none" => scans'[1].curr = 0
                    /\ ~looping' /\ row' = "row" =>
                         /\ Readable(scans'[1], scans'[1].curr) /\ ValueAt(1, scans[1])' = m_join_val' /\ out' # <<>>
                         /\ out'[Len(out')] \in Matching' \/ (by' = "left" /\ scans'[2].curr # saved'.curr)
    BY DEF JoinExact, Readable
<1>1. kind = "join" /\ tables' = tables BY Steps DEF request
<1>2. before_first_rows \/ join_next \/ meet \/ UNCHANGED materializeVars
  <2>1. ~(sort_next \/ group_next \/ gather \/ before_first_index \/ index_next)
        BY <1>1 DEF sort_next, group_next, gather, before_first_index, index_next, Ready
  <2> QED BY <2>1, Steps
<1>3. Matching' = Matching BY <1>1 DEF Matching
<1> DEFINE S == tables[1]
           T == tables[2]
<1>4. ASSUME row # "crash", ~Opening
      PROVE  /\ Len(scans) = 2 /\ scans = <<scans[1], scans[2]>>
             /\ ScanOK(scans[1], S) /\ ScanOK(scans[2], T) /\ S \in Seq(Records) /\ T \in Seq(Records)
      BY <1>1, <1>4, JoinScans
<1>5. ASSUME NEW x, NEW y, ScanOK(x, S), ScanOK(y, T), Readable(x, x.curr), Readable(y, y.curr),
             S \in Seq(Records), T \in Seq(Records),
             S[Current(x)][JoinField] = T[Current(y)][JoinField]
      PROVE  <<Current(x), Current(y)>> \in Matching
  <2>1. Current(x) \in DOMAIN S /\ Current(y) \in DOMAIN T BY <1>5, CurrentOf
  <2> QED BY <1>5, <2>1 DEF Matching
<1>6. CASE before_first_rows
  <2>1. ~Opening /\ row # "crash" /\ ~looping BY <1>6 DEF before_first_rows, Ready
  <2>2. /\ Len(scans) = 2 /\ ScanOK(scans[1], S) BY <1>4, <2>1
  <2>3. /\ scans' = [j \in DOMAIN scans |-> BeforeFirst(scans[j])] /\ row' = "none" /\ out' = <<>>
        BY <1>1, <1>6 DEF before_first_rows
  <2>4. 1 \in DOMAIN scans
    <3>1. scans \in Seq(ScanSet) BY <1>1, <2>1, JoinScans
    <3> QED BY <2>2, <3>1
  <2>5. scans'[1] = BeforeFirst(scans[1]) BY <2>3, <2>4
  <2>6. scans'[1].curr = 0
    <3>1. scans[1] \in ScanSet BY <2>2 DEF ScanOK
    <3> QED BY <2>5, <3>1 DEF BeforeFirst, ScanSet
  <2> QED BY <2>3, <2>6, NoneIsExact
<1>7. CASE join_next
  <2> DEFINE r == SortNext(scans[2], T)
             v == SortNext(scans[1], S)
  <2>1. ~Opening /\ row # "crash" /\ ~looping BY <1>7 DEF join_next, Ready
  <2>2. /\ ScanOK(scans[1], S) /\ ScanOK(scans[2], T) /\ S \in Seq(Records) /\ T \in Seq(Records)
        BY <1>4, <2>1
  <2>3. /\ r.ok => ScanOK(r.scan, T) /\ r.scan.runs = scans[2].runs
        BY <2>2, SortNextOK
  <2>4. v.ok => ScanOK(v.scan, S) BY <2>2, SortNextOK
  <2>5. JoinRight(r) \/ JoinLeft(v, r) \/ JoinOn(v, r) BY <1>7, JoinNextSteps
  <2>6. whole => Sequence(out) BY <1>1, <2>1 DEF JoinExact
  <2> HIDE DEF r, v
  <2>7. CASE JoinRight(r)
    <3>1. Pair(scans[1], r.scan, "right") /\ scans' = <<scans[1], r.scan>> /\ r.ok /\ Has(2, r)
          /\ m_join_val' = m_join_val
          BY <2>7 DEF JoinRight
    <3>2. /\ Readable(scans[1], scans[1].curr) /\ Readable(r.scan, r.scan.curr) /\ row' = "row"
          /\ whole /\ row # "end"
          /\ Sequence(out) => Sequence(out') /\ out' # <<>> /\ out'[Len(out')] = <<Current(scans[1]), Current(r.scan)>>
          BY <3>1, PairRows
    <3>3. row \in {"none", "row"} BY <2>1, <3>2 DEF MatTypes, RequestOK
    <3>4. row # "none"
      <4> SUFFICES ASSUME row = "none" PROVE FALSE OBVIOUS
      <4>1. scans[1].curr = 0 BY <1>1, <2>1, <3>2 DEF JoinExact
      <4>2. 0 \notin DOMAIN scans[1].runs
        <5>1. scans[1].runs \in Seq(Seq(Nat)) BY <2>2 DEF ScanOK, ScanSet
        <5> QED BY <5>1
      <4> QED BY <3>2, <4>1, <4>2 DEF Readable
    <3>5. ValueAt(1, scans[1]) = m_join_val BY <1>1, <2>1, <3>2, <3>3, <3>4 DEF JoinExact
    <3>6. S[Current(scans[1])][JoinField] = T[Current(r.scan)][JoinField] BY <3>1, <3>5 DEF Has, ValueAt
    <3>7. <<Current(scans[1]), Current(r.scan)>> \in Matching BY <1>5, <2>2, <2>3, <3>1, <3>2, <3>6
    <3>8. ValueAt(1, scans[1])' = m_join_val' BY <1>1, <3>1, <3>5 DEF ValueAt, Current
    <3> QED BY <1>3, <2>6, <3>1, <3>2, <3>7, <3>8
  <2>8. CASE JoinLeft(v, r)
    <3> DEFINE y == Restored(r.scan)
    <3>1. /\ Pair(v.scan, y, "left") /\ scans' = <<v.scan, y>> /\ r.ok /\ v.ok /\ Has(1, v) /\ saved.pos # <<>>
          /\ m_join_val' = m_join_val /\ saved' = saved
          BY <2>8 DEF JoinLeft
    <3>2. ScanOK(y, T) /\ y.runs = scans[2].runs /\ y.pos = saved.pos BY <1>1, <2>1, <2>3, <3>1, RestoredOK
    <3> HIDE DEF y
    <3>3. /\ Readable(v.scan, v.scan.curr) /\ Readable(y, y.curr) /\ row' = "row" /\ by' = "left"
          /\ whole /\ row # "end"
          /\ Sequence(out) => Sequence(out') /\ out' # <<>> /\ out'[Len(out')] = <<Current(v.scan), Current(y)>>
          BY <3>1, PairRows
    <3>4. S[Current(v.scan)][JoinField] = m_join_val BY <3>1 DEF Has, ValueAt
    <3>5. ValueAt(1, scans[1])' = m_join_val' BY <1>1, <3>1, <3>4 DEF ValueAt, Current
    <3>6. CASE y.curr = saved.curr
      <4>1. T[Current(y)][JoinField] = m_join_val
            BY <1>1, <2>1, <3>1, <3>2, <3>6 DEF MatTypes, SavedOK, Current
      <4>2. <<Current(v.scan), Current(y)>> \in Matching BY <1>5, <2>2, <2>4, <3>1, <3>2, <3>3, <3>4, <4>1
      <4> QED BY <1>3, <2>6, <3>1, <3>3, <3>5, <4>2
    <3>7. CASE y.curr # saved.curr BY <1>3, <2>6, <3>1, <3>3, <3>5, <3>7
    <3> QED BY <3>6, <3>7
  <2>9. CASE JoinOn(v, r)
    <3>1. looping' = TRUE /\ whole /\ out' = out BY <2>9 DEF JoinOn, returnedRows
    <3> QED BY <2>6, <3>1
  <2> QED BY <2>5, <2>7, <2>8, <2>9
<1>8. CASE meet
  <2>1. looping BY <1>8 DEF meet
  <2>2. ~Opening /\ row # "crash" BY <2>1 DEF MatTypes, RequestOK
  <2>3. /\ ScanOK(scans[1], S) /\ ScanOK(scans[2], T) /\ S \in Seq(Records) /\ T \in Seq(Records)
        BY <1>4, <2>2
  <2>4. whole => Sequence(out) BY <1>1, <2>2 DEF JoinExact
  <2>5. CASE MeetEnds
    <3>1. Returns(<<>>, "end", "meet") BY <2>5 DEF MeetEnds
    <3>2. row' = "end" /\ whole /\ out' = out \o <<>> BY <3>1, ReturnsRows
    <3>3. out' = out BY <2>4, <3>2, NoMoreRows
    <3> QED BY <2>4, <3>2, <3>3
  <2>6. CASE MeetFound
    <3>1. /\ Pair(scans[1], scans[2], "meet") /\ ValueAt(1, scans[1]) = ValueAt(2, scans[2])
          /\ m_join_val' = ValueAt(2, scans[2]) /\ scans' = scans
          BY <2>6 DEF MeetFound
    <3>2. /\ Readable(scans[1], scans[1].curr) /\ Readable(scans[2], scans[2].curr) /\ row' = "row" /\ whole
          /\ Sequence(out) => Sequence(out') /\ out' # <<>> /\ out'[Len(out')] = <<Current(scans[1]), Current(scans[2])>>
          BY <3>1, PairRows
    <3>3. <<Current(scans[1]), Current(scans[2])>> \in Matching BY <1>5, <2>3, <3>1, <3>2 DEF ValueAt
    <3>4. ValueAt(1, scans[1])' = m_join_val' BY <1>1, <3>1 DEF ValueAt, Current
    <3> QED BY <1>3, <2>4, <3>1, <3>2, <3>3, <3>4
  <2>7. CASE \E c \in 1..2 : MeetGoesOn(c)
    <3>1. looping' = looping /\ whole /\ out' = out BY <2>7 DEF MeetGoesOn, returnedRows
    <3> QED BY <2>1, <2>4, <3>1 DEF MatTypes, RequestOK
  <2> QED BY <1>8, <2>5, <2>6, <2>7, MeetSteps
<1>9. CASE UNCHANGED materializeVars
  <2>1. UNCHANGED <<kind, whole, row, tables, scans, out, by, saved, looping, m_join_val>>
        BY <1>9 DEF materializeVars, request, scanState, loopState, returnedRows
  <2> QED BY <1>1, <1>3, <2>1 DEF JoinExact, ValueAt, Current
<1> QED BY <1>2, <1>6, <1>7, <1>8, <1>9

-----------------------------------------------------------------------------
MaterializeInv == MatTypes /\ SortExact /\ GroupExact /\ IndexExact /\ JoinExact

LEMMA InitExact ==
    ASSUME InitMaterialize
    PROVE  MaterializeInv
<1>1. MatTypes BY InitTypes
<1>2. whole = FALSE BY DEF InitMaterialize
<1>3. kind = "index" /\ row # "crash" => tables[1] # <<>> BY DEF InitMaterialize
<1> QED BY <1>1, <1>2, <1>3 DEF MaterializeInv, SortExact, GroupExact, IndexExact, JoinExact

\* The passes of the materialised scans: MatTypes, and what each has returned.
THEOREM MaterializeInvHolds == MaterializeSpec => []MaterializeInv
<1>1. InitMaterialize => MaterializeInv BY InitExact
<1>2. ASSUME MaterializeInv, MatTypes', [NextMaterialize]_materializeVars
      PROVE  MaterializeInv'
      BY <1>2, SortStep, GroupStep, IndexStep, JoinStep DEF MaterializeInv
<1>3. MaterializeInv /\ MatTypes' /\ [NextMaterialize]_materializeVars => MaterializeInv' BY <1>2
<1>4. MaterializeSpec => []MatTypes BY MaterializeTypes
<1> QED BY <1>1, <1>3, <1>4, PTL DEF MaterializeSpec

\* A pair of records that a merge join or a join through an index returns is of records with
\* the same value, but where merge_join_scan has taken the right scan back into the other run.
THEOREM JoinedPairsMatch == MaterializeSpec => []PairsMatch
<1>1. ASSUME MaterializeInv PROVE PairsMatch
  <2> SUFFICES ASSUME whole, ~looping, kind \in {"join", "index"}, row = "row"
               PROVE  out[Len(out)] \in Matching \/ (by = "left" /\ scans[2].curr # saved.curr)
      BY DEF PairsMatch
  <2>1. CASE kind = "join" BY <1>1, <2>1 DEF MaterializeInv, JoinExact
  <2>2. CASE kind = "index" BY <1>1, <2>2 DEF MaterializeInv, IndexExact
  <2> QED BY <2>1, <2>2
<1> QED BY <1>1, MaterializeInvHolds, PTL

\* What the rows of a pass that has ended are, of a sort, a grouping and a join through an
\* index.
LEMMA EndedIsComplete ==
    ASSUME MaterializeInv, kind # "join"
    PROVE  ReadsAreComplete
<1> SUFFICES ASSUME whole, row = "end"
             PROVE  CASE kind = "sort" -> Exactly(out, DOMAIN tables[1])
                      [] kind = "group" ->
                           /\ \A p \in DOMAIN tables[1] : \E n \in DOMAIN out : \A m \in DOMAIN out : p \in out[m].of <=> m = n
                           /\ \A n \in DOMAIN out :
                                 LET g == out[n]
                                 IN /\ g.of \subseteq DOMAIN tables[1] /\ g.count = Cardinality(g.of)
                                    /\ \A p \in g.of : InGroup(p, g) /\ tables[1][p][JoinField] <= g.max
                                    /\ \E p \in g.of : tables[1][p][JoinField] = g.max
                           /\ \A n \in 1..(Len(out) - 1) : out[n].vals # out[n + 1].vals
                      [] kind = "join" -> Increasing(tables[1]) /\ NotDecreasing(tables[2]) => Exactly(out, Matching)
                      [] kind = "index" -> Exactly(out, Matching)
    BY DEF ReadsAreComplete
<1>1. kind \in {"sort", "group", "index"} BY DEF MaterializeInv, MatTypes, RequestOK
<1>2. CASE kind = "sort"
  <2>1. Exactly(out, DOMAIN tables[1]) BY <1>2 DEF MaterializeInv, SortExact
  <2> QED BY <1>2, <2>1
<1>3. CASE kind = "index"
  <2>1. Exactly(out, Matching) BY <1>3 DEF MaterializeInv, IndexExact
  <2> QED BY <1>3, <2>1
<1>4. CASE kind = "group"
  <2>1. GroupsOK(out, tables[1], fields, DOMAIN tables[1]) BY <1>4 DEF MaterializeInv, GroupExact
  <2>2. ASSUME NEW n \in DOMAIN out, NEW g, g = out[n]
        PROVE  /\ g.of \subseteq DOMAIN tables[1] /\ g.count = Cardinality(g.of)
               /\ \A p \in g.of : InGroup(p, g) /\ tables[1][p][JoinField] <= g.max
               /\ \E p \in g.of : tables[1][p][JoinField] = g.max
        BY <2>1, <2>2, OfIs DEF GroupsOK, GroupOK
  <2>3. \A p \in DOMAIN tables[1] : \E n \in DOMAIN out : \A m \in DOMAIN out : p \in out[m].of <=> m = n
        BY <2>1 DEF GroupsOK
  <2>4. \A n \in 1..(Len(out) - 1) : out[n].vals # out[n + 1].vals BY <2>1 DEF GroupsOK
  <2> QED BY <1>4, <2>2, <2>3, <2>4
<1> QED BY <1>1, <1>2, <1>3, <1>4

-----------------------------------------------------------------------------
\* The runs of a table that is sorted as it comes: one behind the other, with other values.
RunsSorted(rs, tab) ==
    /\ \A q \in DOMAIN rs : \A n, m \in 1..Len(rs[q]) : n < m => rs[q][n] < rs[q][m]
    /\ 2 \in DOMAIN rs => \A n \in 1..Len(rs[1]), m \in 1..Len(rs[2]) :
         rs[1][n] < rs[2][m] /\ tab[rs[1][n]][JoinField] # tab[rs[2][m]][JoinField]

\* Nothing is between two places, and they follow each other.
NoneBetween(c, d, tab) == \A p \in DOMAIN tab : p <= c \/ p >= d

LEMMA Follows ==
    ASSUME NEW tab \in Seq(Records), NEW c \in Nat, NEW d \in DOMAIN tab, c < d, NoneBetween(c, d, tab)
    PROVE  d = c + 1
<1>1. DOMAIN tab = 1..Len(tab) /\ Len(tab) \in Nat OBVIOUS
<1>2. c + 1 \in DOMAIN tab BY <1>1
<1>3. c + 1 <= c \/ c + 1 >= d BY <1>2 DEF NoneBetween
<1> QED BY <1>1, <1>3

LEMMA RunsFollow ==
    ASSUME NEW tab \in Seq(Records), NEW rs \in Seq(Seq(Nat)), Len(rs) \in 1..2, Each(rs, DOMAIN tab),
           \A q \in DOMAIN rs : rs[q] # <<>>, RunsSorted(rs, tab)
    PROVE  /\ \A q \in DOMAIN rs : \A n \in 1..Len(rs[q]) : n + 1 <= Len(rs[q]) => rs[q][n + 1] = rs[q][n] + 1
           /\ rs[1][1] = 1
           /\ 2 \in DOMAIN rs => rs[2][1] = rs[1][Len(rs[1])] + 1
           /\ rs[Len(rs)][Len(rs[Len(rs)])] = Len(tab)
<1> DEFINE At(q, n) == rs[q][n]
<1>1. DOMAIN rs = 1..Len(rs) /\ Len(rs) \in 1..2
  <2> DEFINE S == Seq(Nat)
  <2>1. rs \in Seq(S) OBVIOUS
  <2> HIDE DEF S
  <2> QED BY <2>1, LenProperties
<1>a. \A q \in DOMAIN rs : q = 1 \/ q = 2
  <2> DEFINE e == Len(rs)
  <2>1. DOMAIN rs = 1..e /\ e \in 1..2 BY <1>1
  <2> HIDE DEF e
  <2> QED BY <2>1
<1>2. ASSUME NEW q \in DOMAIN rs PROVE Len(rs[q]) \in Nat \ {0} /\ rs[q] \in Seq(DOMAIN tab)
  <2>1. rs[q] \in Seq(DOMAIN tab) BY DEF Each
  <2>2. rs[q] # <<>> OBVIOUS
  <2> QED BY <2>1, <2>2
<1>3. ASSUME NEW q \in DOMAIN rs, NEW n \in 1..Len(rs[q]) PROVE At(q, n) \in DOMAIN tab /\ At(q, n) \in Nat
  <2>1. rs[q] \in Seq(DOMAIN tab) BY <1>2
  <2> QED BY <2>1
<1>4. ASSUME NEW p \in DOMAIN tab PROVE \E q \in DOMAIN rs : \E n \in 1..Len(rs[q]) : At(q, n) = p
      BY DEF Each
<1>5. ASSUME NEW q \in DOMAIN rs, NEW n \in 1..Len(rs[q]), NEW u \in DOMAIN rs, NEW m \in 1..Len(rs[u])
      PROVE  /\ q = u /\ n < m => At(q, n) < At(u, m)
             /\ q < u => At(q, n) < At(u, m)
  <2>1. q = u /\ n < m => At(q, n) < At(u, m) BY DEF RunsSorted
  <2>2. CASE q < u
    <3>1. q = 1 /\ u = 2 BY <1>a, <2>2
    <3> QED BY <3>1, <2>2 DEF RunsSorted
  <2> QED BY <2>1, <2>2
<1> HIDE DEF At
<1>6. ASSUME NEW q \in DOMAIN rs, NEW n \in 1..Len(rs[q]), n + 1 <= Len(rs[q])
      PROVE  At(q, n + 1) = At(q, n) + 1
  <2>0. n \in Nat /\ n + 1 \in 1..Len(rs[q]) BY <1>2, <1>6
  <2>1. At(q, n) < At(q, n + 1) /\ At(q, n) \in Nat /\ At(q, n + 1) \in DOMAIN tab /\ At(q, n + 1) \in Nat
        BY <2>0, <1>3, <1>5
  <2>2. NoneBetween(At(q, n), At(q, n + 1), tab)
    <3> SUFFICES ASSUME NEW p \in DOMAIN tab PROVE p <= At(q, n) \/ p >= At(q, n + 1) BY DEF NoneBetween
    <3>1a. PICK u \in DOMAIN rs : \E m \in 1..Len(rs[u]) : At(u, m) = p BY <1>4
    <3>1. PICK m \in 1..Len(rs[u]) : At(u, m) = p BY <3>1a
    <3>2. p \in Nat BY <3>1, <1>3
    <3>3. CASE u < q BY <3>1, <3>2, <3>3, <2>1, <1>5
    <3>4. CASE q < u BY <3>1, <3>2, <3>4, <2>0, <2>1, <1>5
    <3>5. CASE u = q
      <4>1. m \in Nat BY <1>2
      <4>2. CASE m < n BY <4>2, <3>1, <3>2, <3>5, <2>1, <1>5
      <4>3. CASE m = n BY <4>3, <3>1, <3>2, <3>5, <2>1
      <4>4. CASE m = n + 1 BY <4>4, <3>1, <3>2, <3>5, <2>1
      <4>5. CASE m > n + 1 BY <4>5, <3>1, <3>2, <3>5, <2>0, <2>1, <1>5
      <4>6. m < n \/ m = n \/ m = n + 1 \/ m > n + 1 BY <4>1, <2>0
      <4> QED BY <4>2, <4>3, <4>4, <4>5, <4>6
    <3>6. u < q \/ q < u \/ u = q BY <1>a
    <3> QED BY <3>3, <3>4, <3>5, <3>6
  <2> QED BY <2>1, <2>2, Follows
<1>7. 1 \in DOMAIN rs /\ 1 \in 1..Len(rs[1])
  <2>1. 1 \in DOMAIN rs BY <1>1
  <2> QED BY <2>1, <1>2
<1>8. At(1, 1) = 1
  <2>1. At(1, 1) \in DOMAIN tab /\ At(1, 1) \in Nat /\ 0 < At(1, 1)
    <3>1. At(1, 1) \in DOMAIN tab BY <1>3, <1>7
    <3> QED BY <3>1
  <2>2. NoneBetween(0, At(1, 1), tab)
    <3> SUFFICES ASSUME NEW p \in DOMAIN tab PROVE p >= At(1, 1) BY DEF NoneBetween
    <3>1a. PICK u \in DOMAIN rs : \E m \in 1..Len(rs[u]) : At(u, m) = p BY <1>4
    <3>1. PICK m \in 1..Len(rs[u]) : At(u, m) = p BY <3>1a
    <3>2. p \in Nat /\ m \in Nat BY <3>1, <1>2, <1>3
    <3>3. CASE u = 1 /\ m = 1 BY <3>1, <3>2, <3>3, <2>1
    <3>4. CASE u = 1 /\ m > 1 BY <3>1, <3>2, <3>4, <2>1, <1>5, <1>7
    <3>5. CASE u > 1 BY <3>1, <3>2, <3>5, <2>1, <1>5, <1>7
    <3> QED BY <3>2, <3>3, <3>4, <3>5, <1>1
  <2> QED BY <2>1, <2>2, Follows
<1>9. ASSUME 2 \in DOMAIN rs PROVE At(2, 1) = At(1, Len(rs[1])) + 1
  <2> DEFINE c == Len(rs[1])
  <2>1. c \in Nat /\ c \in 1..Len(rs[1]) /\ 1 \in 1..Len(rs[2]) BY <1>2, <1>7, <1>9
  <2> HIDE DEF c
  <2>2. At(1, c) \in Nat /\ At(2, 1) \in DOMAIN tab /\ At(2, 1) \in Nat /\ At(1, c) < At(2, 1)
        BY <2>1, <1>3, <1>5, <1>7, <1>9
  <2>3. NoneBetween(At(1, c), At(2, 1), tab)
    <3> SUFFICES ASSUME NEW p \in DOMAIN tab PROVE p <= At(1, c) \/ p >= At(2, 1) BY DEF NoneBetween
    <3>1a. PICK u \in DOMAIN rs : \E m \in 1..Len(rs[u]) : At(u, m) = p BY <1>4
    <3>1. PICK m \in 1..Len(rs[u]) : At(u, m) = p BY <3>1a
    <3>2. p \in Nat /\ m \in Nat BY <3>1, <1>2, <1>3
    <3>3. CASE u = 1 /\ m < c BY <3>1, <3>2, <3>3, <2>1, <2>2, <1>5, <1>7
    <3>4. CASE u = 1 /\ m = c BY <3>1, <3>2, <3>4, <2>2
    <3>5. CASE u = 2 /\ m = 1 BY <3>1, <3>2, <3>5, <2>2
    <3>6. CASE u = 2 /\ m > 1 BY <3>1, <3>2, <3>6, <2>1, <2>2, <1>5, <1>9
    <3>7. u = 1 => m <= c
      <4>1. u = 1 => m \in 1..c BY DEF c
      <4> QED BY <4>1, <2>1
    <3>8. u \in 1..2 /\ m >= 1 BY <1>1, <1>2
    <3> QED BY <2>1, <3>2, <3>3, <3>4, <3>5, <3>6, <3>7, <3>8
  <2>4. At(2, 1) = At(1, c) + 1 BY <2>2, <2>3, Follows
  <2> QED BY <2>4 DEF c
<1>10. At(Len(rs), Len(rs[Len(rs)])) = Len(tab)
  <2> DEFINE d == Len(rs)
             c == Len(rs[d])
  <2>a. DOMAIN rs = 1..d /\ d \in Nat /\ 1 \in 1..d BY <1>1, <1>7
  <2>b. d \in DOMAIN rs
    <3> HIDE DEF d
    <3> QED BY <2>a
  <2>c. c \in Nat \ {0}
    <3> HIDE DEF d
    <3> QED BY <1>2, <2>b
  <2>1. d \in DOMAIN rs /\ c \in 1..Len(rs[d]) /\ c \in Nat /\ DOMAIN rs = 1..d /\ d \in Nat
    <3> DEFINE e == Len(rs[d])
    <3> HIDE DEF d
    <3>1. c = e OBVIOUS
    <3> HIDE DEF c, e
    <3>2. c \in 1..e BY <2>c, <3>1
    <3> QED BY <2>a, <2>b, <2>c, <3>2 DEF e
  <2>2. At(d, c) \in DOMAIN tab BY <2>1, <1>3
  <2>3. DOMAIN tab = 1..Len(tab) /\ Len(tab) \in Nat OBVIOUS
  <2>4. Len(tab) \in DOMAIN tab BY <2>2, <2>3
  <2>5a. PICK u \in DOMAIN rs : \E m \in 1..Len(rs[u]) : At(u, m) = Len(tab) BY <2>4, <1>4
  <2>5. PICK m \in 1..Len(rs[u]) : At(u, m) = Len(tab) BY <2>5a
  <2>6. m \in Nat /\ (u = d => m <= c) BY <1>2
  <2> HIDE DEF c, d
  <2>7. u < d \/ (u = d /\ m < c) \/ (u = d /\ m = c) BY <2>1, <2>5, <2>6
  <2>8. ~(u < d) BY <2>1, <2>2, <2>3, <2>5, <1>5
  <2>9. ~(u = d /\ m < c) BY <2>1, <2>2, <2>3, <2>5, <1>5
  <2>10. At(d, c) = Len(tab) BY <2>5, <2>7, <2>8, <2>9
  <2> QED BY <2>10 DEF c, d
<1> QED BY <1>6, <1>8, <1>9, <1>10 DEF At

\* What sort_scan::next makes of a scan of such runs: the second run's records come when the
\* first run has no more.
AfterMove(s, c, t) ==
    /\ c = 0 => t.pos = s.pos /\ t.more = s.more
    /\ c # 0 => /\ t.pos[c] = (IF s.pos[c] < Len(s.runs[c]) THEN s.pos[c] + 1 ELSE 0) /\ (t.more[c] <=> t.pos[c] > 0)
                /\ \A u \in DOMAIN s.runs : u # c => t.pos[u] = s.pos[u]
                /\ \A u \in 1..2 : u # c => t.more[u] = s.more[u]

LEMMA SortNextIs ==
    ASSUME fields = {JoinField}, NEW tab \in Seq(Records), NEW s, ScanOK(s, tab), RunsSorted(s.runs, tab),
           SortNext(s, tab).ok
    PROVE  LET n == SortNext(s, tab)
               t == n.scan
           IN /\ ScanOK(t, tab) /\ t.runs = s.runs /\ AfterMove(s, s.curr, t)
              /\ n.found <=> t.more[1] \/ t.more[2]
              /\ n.found => t.curr = (IF t.more[1] THEN 1 ELSE 2) /\ Readable(t, t.curr)
              /\ ~n.found => t.curr = s.curr
              /\ t.more[1] /\ t.more[2] => Len(s.runs) = 2
<1> DEFINE t == IF s.curr = 0 THEN s ELSE Advance(s, s.curr)
           both == t.more[1] /\ t.more[2]
           ok == both => Readable(t, 1) /\ Readable(t, 2)
           earlier == both => ok /\ ~Equal(tab[t.runs[1][t.pos[1]]], tab[t.runs[2][t.pos[2]]])
           c == IF t.more[1] /\ earlier THEN 1 ELSE 2
           found == t.more[1] \/ t.more[2]
           n == SortNext(s, tab)
<1>1. /\ n.scan = (IF found THEN [t EXCEPT !.curr = c] ELSE t) /\ n.found = found
      /\ n.ok = (ok /\ (found => Readable(t, c)))
      BY DEF SortNext
<1>2. s.curr \in 0..Len(s.runs) /\ DOMAIN s.runs = 1..Len(s.runs) /\ Len(s.runs) \in 1..2 BY DEF ScanOK, ScanSet
<1>3. s.curr # 0 => s.curr \in DOMAIN s.runs BY <1>2
<1>4. ScanOK(t, tab) /\ t.runs = s.runs /\ t.curr = s.curr /\ AfterMove(s, s.curr, t)
      BY <1>3, AdvanceOK DEF AfterMove
<1>5. n.ok OBVIOUS
<1> HIDE DEF n, t
<1>6. ok /\ (found => Readable(t, c)) BY <1>1, <1>5
<1>7. ASSUME both PROVE earlier /\ Len(s.runs) = 2
  <2>1. Readable(t, 1) /\ Readable(t, 2) BY <1>6, <1>7
  <2>2. 2 \in DOMAIN s.runs /\ 1 \in DOMAIN s.runs BY <1>4, <2>1 DEF Readable
  <2>3. /\ t.pos \in Seq(Nat) /\ Len(t.pos) = Len(s.runs)
        /\ t.pos[1] <= Len(s.runs[1]) /\ t.pos[2] <= Len(s.runs[2])
        BY <1>4, <2>2 DEF ScanOK, ScanSet
  <2>4. t.pos[1] \in Nat /\ t.pos[2] \in Nat BY <2>2, <2>3, <1>2
  <2>5. t.pos[1] \in 1..Len(s.runs[1]) /\ t.pos[2] \in 1..Len(s.runs[2])
    <3>1. t.pos[1] > 0 /\ t.pos[2] > 0 BY <2>1 DEF Readable
    <3> QED BY <3>1, <2>3, <2>4, <2>2, <1>2
  <2>6. tab[s.runs[1][t.pos[1]]][JoinField] # tab[s.runs[2][t.pos[2]]][JoinField]
        BY <2>2, <2>5 DEF RunsSorted
  <2>7. ~Equal(tab[t.runs[1][t.pos[1]]], tab[t.runs[2][t.pos[2]]]) BY <2>6, <1>4 DEF Equal
  <2>8. Len(s.runs) = 2
    <3> DEFINE e == Len(s.runs)
    <3>1. e \in 1..2 /\ 2 \in 1..e BY <2>2, <1>2
    <3> HIDE DEF e
    <3>2. e = 2 BY <3>1
    <3> QED BY <3>2 DEF e
  <2> QED BY <1>6, <2>7, <2>8
<1>8. c = IF t.more[1] THEN 1 ELSE 2 BY <1>7
<1> HIDE DEF c, ok, earlier
<1>9. CASE found
  <2>1. t \in ScanSet BY <1>4 DEF ScanOK
  <2> DEFINE v == n.scan
  <2> HIDE DEF v
  <2>2. v = [t EXCEPT !.curr = c] /\ c \in Nat BY <1>1, <1>8, <1>9 DEF v
  <2>3. v.curr = c /\ v.runs = t.runs /\ v.pos = t.pos /\ v.more = t.more /\ v \in ScanSet BY <2>1, <2>2 DEF ScanSet
  <2>4. Readable(v, c) BY <1>6, <1>9, <2>3 DEF Readable
  <2>5. c \in DOMAIN v.runs BY <2>4 DEF Readable
  <2>6. c \in 0..Len(v.runs) BY <2>3, <2>5, <1>2, <1>4
  <2>7. ScanOK(v, tab) BY <1>4, <2>3, <2>6 DEF ScanOK
  <2>8. AfterMove(s, s.curr, v) BY <1>4, <2>3 DEF AfterMove
  <2>9. n.found /\ (v.more[1] \/ v.more[2]) BY <1>1, <1>9, <2>3
  <2> QED BY <1>4, <1>7, <1>8, <2>3, <2>4, <2>7, <2>8, <2>9 DEF n, v
<1>10. CASE ~found
  <2>1. n.scan = t /\ ~n.found BY <1>1, <1>10
  <2> QED BY <1>4, <1>10, <2>1 DEF n
<1> QED BY <1>9, <1>10

-----------------------------------------------------------------------------
\* A scan in a pass over such runs, and one that is at its end.
Going(s) ==
    \/ s.curr = 0 /\ \A q \in DOMAIN s.runs : s.pos[q] = 1 /\ s.more[q]
    \/ s.curr = 1 /\ s.pos[1] > 0 /\ s.more[1] /\ (Len(s.runs) = 2 => s.pos[2] = 1) /\ (s.more[2] <=> Len(s.runs) = 2)
    \/ s.curr = 2 /\ s.pos[1] = 0 /\ ~s.more[1] /\ s.pos[2] > 0 /\ s.more[2]
Ended(s) == s.curr = Len(s.runs) /\ (\A q \in DOMAIN s.runs : s.pos[q] = 0) /\ ~s.more[1] /\ ~s.more[2]

\* The place in the table that it has come to.
Place(s) == IF s.curr = 0 THEN 0 ELSE Current(s)

LEMMA GoingNext ==
    ASSUME fields = {JoinField}, NEW tab \in Seq(Records), NEW s, ScanOK(s, tab), RunsSorted(s.runs, tab), Going(s),
           SortNext(s, tab).ok
    PROVE  LET n == SortNext(s, tab)
           IN /\ n.found => /\ Going(n.scan) /\ n.scan.curr # 0 /\ Current(n.scan) = Place(s) + 1
                            /\ n.scan.curr = 1 => s.curr \in {0, 1}
              /\ ~n.found => Ended(n.scan) /\ Place(s) = Len(tab) /\ s.curr = Len(s.runs)
<1> DEFINE n == SortNext(s, tab)
           t == n.scan
           rs == s.runs
<1>1. /\ ScanOK(t, tab) /\ t.runs = rs /\ AfterMove(s, s.curr, t)
      /\ n.found <=> t.more[1] \/ t.more[2]
      /\ n.found => t.curr = (IF t.more[1] THEN 1 ELSE 2) /\ Readable(t, t.curr)
      /\ ~n.found => t.curr = s.curr
      /\ t.more[1] /\ t.more[2] => Len(rs) = 2
      BY SortNextIs
<1> HIDE DEF n, t
<1>2. /\ \A q \in DOMAIN rs : \A m \in 1..Len(rs[q]) : m + 1 <= Len(rs[q]) => rs[q][m + 1] = rs[q][m] + 1
      /\ rs[1][1] = 1 /\ (2 \in DOMAIN rs => rs[2][1] = rs[1][Len(rs[1])] + 1)
      /\ rs[Len(rs)][Len(rs[Len(rs)])] = Len(tab)
      BY RunsFollow, ZenonT(60) DEF ScanOK, ScanSet
<1>3. /\ Len(rs) \in 1..2 /\ DOMAIN rs = 1..Len(rs) /\ s.pos \in Seq(Nat) /\ Len(s.pos) = Len(rs)
      /\ s.more \in [1..2 -> BOOLEAN] /\ \A q \in DOMAIN rs : s.pos[q] <= Len(rs[q]) /\ rs[q] # <<>> /\ rs[q] \in Seq(Nat)
      BY DEF ScanOK, ScanSet
<1>4. \A q \in DOMAIN rs : s.pos[q] \in Nat /\ Len(rs[q]) \in Nat \ {0} BY <1>3
<1>5. t.more \in [1..2 -> BOOLEAN] BY <1>1 DEF ScanOK, ScanSet
<1>6. (Len(rs) = 1 /\ DOMAIN rs = {1}) \/ (Len(rs) = 2 /\ DOMAIN rs = {1, 2})
  <2> DEFINE e == Len(rs)
  <2>1. e \in 1..2 /\ DOMAIN rs = 1..e BY <1>3
  <2> HIDE DEF e
  <2>2. (e = 1 /\ DOMAIN rs = {1}) \/ (e = 2 /\ DOMAIN rs = {1, 2}) BY <2>1
  <2> QED BY <2>2 DEF e
<1> HIDE DEF rs
<1>7. CASE s.curr = 0
  <2>1. \A q \in DOMAIN rs : s.pos[q] = 1 /\ s.more[q] BY <1>7 DEF Going, rs
  <2>2. t.pos = s.pos /\ t.more = s.more BY <1>1, <1>7 DEF AfterMove
  <2>3. n.found /\ t.curr = 1 BY <1>1, <1>6, <2>1, <2>2
  <2>4. t.more[2] <=> Len(rs) = 2
    <3>1. Len(rs) = 2 => t.more[2] BY <1>6, <2>1, <2>2
    <3> QED BY <3>1, <1>1, <1>6, <2>1, <2>2
  <2>5. Going(t)
    <3>1. t.pos[1] = 1 /\ t.more[1] /\ (Len(t.runs) = 2 => t.pos[2] = 1) BY <1>1, <1>6, <2>1, <2>2
    <3> QED BY <1>1, <2>3, <2>4, <3>1 DEF Going
  <2>6. Current(t) = 1 BY <1>1, <1>2, <1>6, <2>1, <2>2, <2>3 DEF Current
  <2>7. Place(s) = 0 BY <1>7 DEF Place
  <2> QED BY <1>7, <2>3, <2>5, <2>6, <2>7 DEF n, t
<1>8. CASE s.curr = 1
  <2>1. s.pos[1] > 0 /\ s.more[1] /\ (Len(rs) = 2 => s.pos[2] = 1) /\ (s.more[2] <=> Len(rs) = 2)
        BY <1>8 DEF Going, rs
  <2>2. /\ t.pos[1] = (IF s.pos[1] < Len(rs[1]) THEN s.pos[1] + 1 ELSE 0) /\ (t.more[1] <=> t.pos[1] > 0)
        /\ Len(rs) = 2 => t.pos[2] = s.pos[2]
        /\ t.more[2] = s.more[2]
    <3>1. Len(rs) = 2 => 2 \in DOMAIN rs BY <1>6
    <3> QED BY <1>1, <1>8, <3>1 DEF AfterMove, rs
  <2>3. s.pos[1] \in Nat /\ Len(rs[1]) \in Nat /\ s.pos[1] <= Len(rs[1]) /\ 1 \in DOMAIN rs BY <1>3, <1>4, <1>6
  <2>4. Place(s) = rs[1][s.pos[1]] BY <1>8 DEF Place, Current, rs
  <2>5. CASE s.pos[1] < Len(rs[1])
    <3>1. t.pos[1] = s.pos[1] + 1 /\ t.more[1] BY <2>2, <2>3, <2>5
    <3>2. n.found /\ t.curr = 1 BY <1>1, <3>1
    <3>3. Going(t) BY <1>1, <2>1, <2>2, <2>3, <3>1, <3>2 DEF Going
    <3>4. Current(t) = rs[1][s.pos[1] + 1] BY <1>1, <3>1, <3>2 DEF Current
    <3>5. rs[1][s.pos[1] + 1] = rs[1][s.pos[1]] + 1
      <4>1. s.pos[1] \in 1..Len(rs[1]) /\ s.pos[1] + 1 <= Len(rs[1]) BY <2>1, <2>3, <2>5
      <4> QED BY <4>1, <2>3, <1>2
    <3> QED BY <1>8, <2>4, <3>2, <3>3, <3>4, <3>5 DEF n, t
  <2>6. CASE ~(s.pos[1] < Len(rs[1])) /\ Len(rs) = 2
    <3>1. t.pos[1] = 0 /\ ~t.more[1] /\ t.more[2] /\ t.pos[2] = 1 BY <2>1, <2>2, <2>6
    <3>2. n.found /\ t.curr = 2 BY <1>1, <3>1
    <3>3. Going(t) BY <3>1, <3>2 DEF Going
    <3>4. Current(t) = rs[2][1] BY <1>1, <3>1, <3>2 DEF Current
    <3>5. s.pos[1] = Len(rs[1]) BY <2>3, <2>6
    <3>6. 2 \in DOMAIN rs BY <1>6, <2>6
    <3> QED BY <1>2, <2>4, <3>2, <3>3, <3>4, <3>5, <3>6 DEF n, t
  <2>7. CASE ~(s.pos[1] < Len(rs[1])) /\ Len(rs) = 1
    <3>1. t.pos[1] = 0 /\ ~t.more[1] /\ ~t.more[2]
      <4>1. ~s.more[2] BY <2>1, <2>7
      <4> QED BY <4>1, <2>2, <2>7
    <3>2. ~n.found /\ t.curr = 1 BY <1>1, <1>8, <3>1
    <3>3. Ended(t) BY <1>1, <1>6, <2>7, <3>1, <3>2 DEF Ended
    <3>4. s.pos[1] = Len(rs[1]) BY <2>3, <2>7
    <3>5. Place(s) = Len(tab) BY <1>2, <2>4, <2>7, <3>4
    <3> QED BY <1>8, <2>7, <3>2, <3>3, <3>5 DEF n, t, rs
  <2> QED BY <1>6, <2>5, <2>6, <2>7
<1>9. CASE s.curr = 2
  <2>0. Len(rs) = 2
    <3> DEFINE e == Len(rs)
    <3>1. 2 \in 0..e BY <1>9 DEF ScanOK, rs
    <3>2. e = 1 \/ e = 2 BY <1>6
    <3> HIDE DEF e
    <3>3. e = 2 BY <3>1, <3>2
    <3> QED BY <3>3 DEF e
  <2>1. s.pos[1] = 0 /\ ~s.more[1] /\ s.pos[2] > 0 /\ s.more[2] BY <1>9 DEF Going
  <2>2. /\ t.pos[2] = (IF s.pos[2] < Len(rs[2]) THEN s.pos[2] + 1 ELSE 0) /\ (t.more[2] <=> t.pos[2] > 0)
        /\ t.pos[1] = s.pos[1] /\ t.more[1] = s.more[1]
    <3>1. 1 \in DOMAIN rs BY <1>6
    <3> QED BY <1>1, <1>9, <3>1 DEF AfterMove, rs
  <2>3. s.pos[2] \in Nat /\ Len(rs[2]) \in Nat /\ s.pos[2] <= Len(rs[2]) /\ 2 \in DOMAIN rs BY <1>3, <1>4, <1>6, <2>0
  <2>4. Place(s) = rs[2][s.pos[2]] BY <1>9 DEF Place, Current, rs
  <2>5. CASE s.pos[2] < Len(rs[2])
    <3>1. t.pos[2] = s.pos[2] + 1 /\ t.more[2] /\ ~t.more[1] /\ t.pos[1] = 0 BY <2>1, <2>2, <2>3, <2>5
    <3>2. n.found /\ t.curr = 2 BY <1>1, <3>1
    <3>3. Going(t) BY <2>3, <3>1, <3>2 DEF Going
    <3>4. Current(t) = rs[2][s.pos[2] + 1] BY <1>1, <3>1, <3>2 DEF Current
    <3>5. rs[2][s.pos[2] + 1] = rs[2][s.pos[2]] + 1
      <4>1. s.pos[2] \in 1..Len(rs[2]) /\ s.pos[2] + 1 <= Len(rs[2]) BY <2>1, <2>3, <2>5
      <4> QED BY <4>1, <2>3, <1>2
    <3> QED BY <2>4, <3>2, <3>3, <3>4, <3>5 DEF n, t
  <2>6. CASE ~(s.pos[2] < Len(rs[2]))
    <3>1. t.pos[2] = 0 /\ ~t.more[2] /\ ~t.more[1] /\ t.pos[1] = 0 BY <2>1, <2>2, <2>6
    <3>2. ~n.found /\ t.curr = 2 BY <1>1, <1>9, <3>1
    <3>3. Ended(t) BY <1>1, <1>6, <2>0, <3>1, <3>2 DEF Ended
    <3>4. s.pos[2] = Len(rs[2]) BY <2>3, <2>6
    <3>5. Place(s) = Len(tab) BY <1>2, <2>0, <2>4, <3>4
    <3> QED BY <1>9, <2>0, <3>2, <3>3, <3>5 DEF n, t, rs
  <2> QED BY <2>5, <2>6
<1> QED BY <1>7, <1>8, <1>9 DEF Going

\* After the end it begins the last run again.
LEMMA EndedNext ==
    ASSUME fields = {JoinField}, NEW tab \in Seq(Records), NEW s, ScanOK(s, tab), RunsSorted(s.runs, tab), Ended(s),
           SortNext(s, tab).ok
    PROVE  LET n == SortNext(s, tab)
           IN n.found /\ Going(n.scan) /\ n.scan.curr = Len(s.runs) /\ n.scan.pos[Len(s.runs)] = 1
<1> DEFINE n == SortNext(s, tab)
           t == n.scan
           rs == s.runs
           c == Len(rs)
<1>1. /\ ScanOK(t, tab) /\ t.runs = rs /\ AfterMove(s, s.curr, t)
      /\ n.found <=> t.more[1] \/ t.more[2]
      /\ n.found => t.curr = (IF t.more[1] THEN 1 ELSE 2) /\ Readable(t, t.curr)
      BY SortNextIs
<1> HIDE DEF n, t
<1>2. c \in 1..2 /\ DOMAIN rs = 1..c /\ \A q \in DOMAIN rs : rs[q] # <<>> /\ rs[q] \in Seq(Nat)
      BY DEF ScanOK, ScanSet
<1>3. s.curr = c /\ (\A q \in DOMAIN rs : s.pos[q] = 0) /\ ~s.more[1] /\ ~s.more[2] BY DEF Ended
<1> HIDE DEF rs
<1>4. c \in DOMAIN rs BY <1>2
<1>5. Len(rs[c]) \in Nat \ {0} BY <1>2, <1>4
<1>6. /\ t.pos[c] = 1 /\ t.more[c]
      /\ \A u \in DOMAIN rs : u # c => t.pos[u] = 0
      /\ \A u \in 1..2 : u # c => ~t.more[u]
  <2>0. c # 0
    <3> HIDE DEF c
    <3> QED BY <1>2
  <2>1. t.pos[c] = (IF s.pos[c] < Len(rs[c]) THEN s.pos[c] + 1 ELSE 0) /\ (t.more[c] <=> t.pos[c] > 0)
        BY <1>1, <1>3, <2>0 DEF AfterMove, rs
  <2>2. s.pos[c] = 0 BY <1>3, <1>4
  <2>3. t.pos[c] = 1 /\ t.more[c] BY <1>5, <2>1, <2>2
  <2>4. /\ \A u \in DOMAIN rs : u # c => t.pos[u] = s.pos[u]
        /\ \A u \in 1..2 : u # c => t.more[u] = s.more[u]
        BY <1>1, <1>3, <2>0 DEF AfterMove, rs
  <2>5. \A u \in 1..2 : u # c => ~t.more[u]
    <3>1. \A u \in 1..2 : ~s.more[u]
      <4>1. \A u \in 1..2 : u = 1 \/ u = 2 OBVIOUS
      <4> QED BY <4>1, <1>3
    <3> QED BY <2>4, <3>1
  <2> QED BY <1>3, <2>3, <2>4, <2>5
<1>7. n.found /\ t.curr = c BY <1>1, <1>2, <1>6
<1>8. Going(t)
  <2>1. CASE c = 1 BY <1>1, <1>6, <1>7, <2>1 DEF Going
  <2>2. CASE c = 2
    <3>1. 1 \in DOMAIN rs BY <1>2, <2>2
    <3> QED BY <1>1, <1>6, <1>7, <2>2, <3>1 DEF Going
  <2> QED BY <1>2, <2>1, <2>2
<1> QED BY <1>6, <1>7, <1>8 DEF n, t, rs

-----------------------------------------------------------------------------
\* A merge join of tables that are sorted as they come, with no value twice on the left.
MayJoin == kind = "join" /\ Increasing(tables[1]) /\ NotDecreasing(tables[2])
FieldsOK == kind = "join" => fields = {JoinField}

\* Of what is kept, merged runs come before those that are to be merged. The records of a run
\* come before those of the next, and have other values, but of the run that is written and
\* those it is merged from.
Precedes(x, y) == x[1] > y[1] \/ (x[1] = y[1] /\ x[2] < y[2])
Apart(p, q, tab) == tab[p][JoinField] # tab[q][JoinField]
Ordered(all, tab, together) ==
    \A x, y \in DOMAIN all : \A n \in 1..Len(all[x]), m \in 1..Len(all[y]) :
        /\ Precedes(x, y) \/ (x = y /\ n < m) => all[x][n] < all[y][m]
        /\ Precedes(x, y) /\ <<x, y>> \notin together => Apart(all[x][n], all[y][m], tab)
Together == {<<2, Len(result)>>} \X {<<1, src1>>, <<1, src2>>}
SortedOK == MayJoin /\ Opening => Ordered(Kept, Source, Together)
ScansSorted == MayJoin /\ row # "crash" => \A j \in DOMAIN scans : RunsSorted(scans[j].runs, tables[j])

\* Where a record can be written: behind what precedes the run, in front of what it precedes.
FitsIn(p, q, all, tab, together) ==
    \A u \in DOMAIN all : \A n \in 1..Len(all[u]) :
        /\ Precedes(u, q) \/ u = q => all[u][n] < p
        /\ Precedes(q, u) => p < all[u][n]
        /\ Precedes(u, q) /\ <<u, q>> \notin together => Apart(all[u][n], p, tab)
        /\ Precedes(q, u) /\ <<q, u>> \notin together => Apart(p, all[u][n], tab)

LEMMA OrderedAt ==
    ASSUME NEW all, NEW tab, NEW together, Ordered(all, tab, together),
           NEW x \in DOMAIN all, NEW y \in DOMAIN all, NEW n \in 1..Len(all[x]), NEW m \in 1..Len(all[y])
    PROVE  /\ Precedes(x, y) \/ (x = y /\ n < m) => all[x][n] < all[y][m]
           /\ Precedes(x, y) /\ <<x, y>> \notin together => Apart(all[x][n], all[y][m], tab)
<1> DEFINE P(u, v) ==
      \A h \in 1..Len(all[u]), j \in 1..Len(all[v]) :
        /\ Precedes(u, v) \/ (u = v /\ h < j) => all[u][h] < all[v][j]
        /\ Precedes(u, v) /\ <<u, v>> \notin together => Apart(all[u][h], all[v][j], tab)
<1>1. \A u, v \in DOMAIN all : P(u, v) BY DEF Ordered
<1> HIDE DEF P
<1>2. P(x, y) BY <1>1
<1> QED BY <1>2 DEF P

LEMMA FitsAt ==
    ASSUME NEW all, NEW tab, NEW together, NEW p, NEW q, FitsIn(p, q, all, tab, together),
           NEW u \in DOMAIN all, NEW n \in 1..Len(all[u])
    PROVE  /\ Precedes(u, q) \/ u = q => all[u][n] < p
           /\ Precedes(q, u) => p < all[u][n]
           /\ Precedes(u, q) /\ <<u, q>> \notin together => Apart(all[u][n], p, tab)
           /\ Precedes(q, u) /\ <<q, u>> \notin together => Apart(p, all[u][n], tab)
<1> DEFINE P(v) ==
      \A h \in 1..Len(all[v]) :
        /\ Precedes(v, q) \/ v = q => all[v][h] < p
        /\ Precedes(q, v) => p < all[v][h]
        /\ Precedes(v, q) /\ <<v, q>> \notin together => Apart(all[v][h], p, tab)
        /\ Precedes(q, v) /\ <<q, v>> \notin together => Apart(p, all[v][h], tab)
<1>1. \A v \in DOMAIN all : P(v) BY DEF FitsIn
<1> HIDE DEF P
<1>2. P(u) BY <1>1
<1> QED BY <1>2 DEF P

\* Places of runs, in kept ones.
Keys(all) == \A x \in DOMAIN all : x = <<x[1], x[2]>> /\ x[1] \in Nat /\ x[2] \in Nat

LEMMA OrderedAppended ==
    ASSUME NEW all, NEW set, Each(all, set), NEW tab, NEW together, Ordered(all, tab, together), Keys(all),
           NEW q \in DOMAIN all, NEW p, FitsIn(p, q, all, tab, together),
           NEW all2, DOMAIN all2 = DOMAIN all, all2[q] = Append(all[q], p),
           \A u \in DOMAIN all : u # q => all2[u] = all[u]
    PROVE  Ordered(all2, tab, together)
<1> DEFINE c == Len(all[q]) + 1
           Old(u, n) == n \in 1..Len(all[u]) /\ all2[u][n] = all[u][n]
<1>1. /\ Len(all[q]) \in Nat /\ Len(all2[q]) = c /\ all2[q][c] = p
      /\ \A n \in 1..Len(all[q]) : all2[q][n] = all[q][n]
  <2>1. all[q] \in Seq(set) BY DEF Each
  <2> DEFINE T == set \cup {p}
  <2>2. all[q] \in Seq(T) /\ p \in T BY <2>1
  <2> HIDE DEF T
  <2> QED BY <2>2
<1>2. ASSUME NEW u \in DOMAIN all, NEW n \in 1..Len(all2[u])
      PROVE  Old(u, n) \/ (u = q /\ n = c /\ all2[u][n] = p)
  <2>1. CASE u # q BY <2>1
  <2>2. CASE u = q BY <2>2, <1>1
  <2> QED BY <2>1, <2>2
<1>3. ~Precedes(q, q)
  <2>1. q[1] \in Nat /\ q[2] \in Nat BY DEF Keys
  <2> QED BY <2>1 DEF Precedes
<1> SUFFICES ASSUME NEW x \in DOMAIN all, NEW y \in DOMAIN all, NEW n \in 1..Len(all2[x]), NEW m \in 1..Len(all2[y])
             PROVE  /\ Precedes(x, y) \/ (x = y /\ n < m) => all2[x][n] < all2[y][m]
                    /\ Precedes(x, y) /\ <<x, y>> \notin together => Apart(all2[x][n], all2[y][m], tab)
    BY DEF Ordered
<1> HIDE DEF Old, c
<1>4. CASE Old(x, n) /\ Old(y, m) BY <1>4, OrderedAt DEF Old
<1>5. CASE Old(x, n) /\ y = q /\ m = c /\ all2[y][m] = p BY <1>5, FitsAt DEF Old
<1>6. CASE x = q /\ n = c /\ all2[x][n] = p /\ Old(y, m)
  <2>1. x = y => ~(n < m) BY <1>1, <1>6 DEF Old, c
  <2> QED BY <2>1, <1>6, FitsAt DEF Old
<1>7. CASE x = q /\ n = c /\ y = q /\ m = c
  <2>1. ~(n < m) BY <1>1, <1>7 DEF c
  <2> QED BY <2>1, <1>3, <1>7
<1> QED BY <1>2, <1>4, <1>5, <1>6, <1>7

\* The runs that are not empty are the same, and come in the same order.
LEMMA OrderedRenamed ==
    ASSUME NEW all, NEW tab, NEW together, Ordered(all, tab, together), NEW all2, NEW old, NEW together2,
           \A q \in DOMAIN all2 : all2[q] # <<>> => old[q] \in DOMAIN all /\ all2[q] = all[old[q]],
           \A q \in DOMAIN all2 : all2[q] = <<>> \/ Len(all2[q]) # 0,
           \A q, u \in DOMAIN all2 : all2[q] # <<>> /\ all2[u] # <<>> /\ Precedes(q, u) =>
               /\ Precedes(old[q], old[u])
               /\ <<q, u>> \notin together2 => <<old[q], old[u]>> \notin together
    PROVE  Ordered(all2, tab, together2)
<1> SUFFICES ASSUME NEW x \in DOMAIN all2, NEW y \in DOMAIN all2, NEW n \in 1..Len(all2[x]), NEW m \in 1..Len(all2[y])
             PROVE  /\ Precedes(x, y) \/ (x = y /\ n < m) => all2[x][n] < all2[y][m]
                    /\ Precedes(x, y) /\ <<x, y>> \notin together2 => Apart(all2[x][n], all2[y][m], tab)
    BY DEF Ordered
<1>1. all2[x] # <<>> /\ all2[y] # <<>> OBVIOUS
<1>2. old[x] \in DOMAIN all /\ all2[x] = all[old[x]] /\ old[y] \in DOMAIN all /\ all2[y] = all[old[y]] BY <1>1
<1>3. CASE Precedes(x, y)
  <2>1. Precedes(old[x], old[y]) /\ (<<x, y>> \notin together2 => <<old[x], old[y]>> \notin together)
        BY <1>1, <1>3
  <2> DEFINE a == old[x]
             e == old[y]
  <2>2. n \in 1..Len(all[a]) /\ m \in 1..Len(all[e]) /\ a \in DOMAIN all /\ e \in DOMAIN all BY <1>2
  <2> HIDE DEF a, e
  <2>3. /\ Precedes(a, e) => all[a][n] < all[e][m]
        /\ Precedes(a, e) /\ <<a, e>> \notin together => Apart(all[a][n], all[e][m], tab)
        BY <2>2, OrderedAt
  <2> QED BY <1>2, <2>1, <2>3 DEF a, e
<1>4. CASE ~Precedes(x, y)
  <2> SUFFICES ASSUME x = y, n < m PROVE all2[x][n] < all2[y][m] BY <1>4
  <2> DEFINE a == old[x]
  <2>1. n \in 1..Len(all[a]) /\ m \in 1..Len(all[a]) /\ a \in DOMAIN all BY <1>2
  <2> HIDE DEF a
  <2>2. all[a][n] < all[a][m] BY <2>1, OrderedAt
  <2> QED BY <1>2, <2>2 DEF a
<1> QED BY <1>3, <1>4

\* The first of one run is taken.
LEMMA OrderedCut ==
    ASSUME NEW all, NEW set, Each(all, set), NEW tab, NEW together, Ordered(all, tab, together),
           NEW q \in DOMAIN all, all[q] # <<>>,
           NEW all2, DOMAIN all2 = DOMAIN all, all2[q] = Tail(all[q]),
           \A u \in DOMAIN all : u # q => all2[u] = all[u]
    PROVE  /\ Ordered(all2, tab, together)
           /\ \A n \in 1..Len(all2[q]) : Head(all[q]) < all2[q][n]
<1>1. /\ Len(all[q]) \in Nat \ {0} /\ Head(all[q]) = all[q][1] /\ Len(all2[q]) = Len(all[q]) - 1
      /\ \A n \in 1..Len(all2[q]) : n + 1 \in 1..Len(all[q]) /\ all2[q][n] = all[q][n + 1]
  <2>1. all[q] \in Seq(set) BY DEF Each
  <2> QED BY <2>1
<1> DEFINE Was(w, j) == IF w = q THEN j + 1 ELSE j
<1>2. ASSUME NEW w \in DOMAIN all2, NEW j \in 1..Len(all2[w])
      PROVE  /\ Was(w, j) \in 1..Len(all[w]) /\ all2[w][j] = all[w][Was(w, j)]
             BY <1>1
<1>3. \A n \in 1..Len(all2[q]) : Head(all[q]) < all2[q][n]
  <2> SUFFICES ASSUME NEW n \in 1..Len(all2[q]) PROVE all[q][1] < all2[q][n] BY <1>1
  <2>1. n + 1 \in 1..Len(all[q]) /\ all2[q][n] = all[q][n + 1] /\ 1 \in 1..Len(all[q]) /\ 1 < n + 1 BY <1>1
  <2> DEFINE e == n + 1
  <2> HIDE DEF e
  <2>2. all[q][1] < all[q][e] BY <2>1, OrderedAt DEF e
  <2> QED BY <2>1, <2>2 DEF e
<1>4. Ordered(all2, tab, together)
  <2> SUFFICES ASSUME NEW x \in DOMAIN all, NEW y \in DOMAIN all, NEW n \in 1..Len(all2[x]), NEW m \in 1..Len(all2[y])
               PROVE  /\ Precedes(x, y) \/ (x = y /\ n < m) => all2[x][n] < all2[y][m]
                      /\ Precedes(x, y) /\ <<x, y>> \notin together => Apart(all2[x][n], all2[y][m], tab)
      BY DEF Ordered
  <2> DEFINE h == Was(x, n)
             j == Was(y, m)
  <2>1. h \in 1..Len(all[x]) /\ j \in 1..Len(all[y]) /\ all2[x][n] = all[x][h] /\ all2[y][m] = all[y][j] BY <1>2
  <2>2. x = y /\ n < m => h < j OBVIOUS
  <2> HIDE DEF h, j
  <2>3. /\ Precedes(x, y) \/ (x = y /\ h < j) => all[x][h] < all[y][j]
        /\ Precedes(x, y) /\ <<x, y>> \notin together => Apart(all[x][h], all[y][j], tab)
        BY <2>1, OrderedAt
  <2> QED BY <2>1, <2>2, <2>3
<1> QED BY <1>3, <1>4

LEMMA SourceSorted ==
    ASSUME MatTypes, MayJoin, Opening
    PROVE  /\ Source \in Seq(Records) /\ \A p \in DOMAIN Source : p \in Nat /\ Source[p][JoinField] \in Nat
           /\ \A p, q \in DOMAIN Source : p < q => Source[p][JoinField] <= Source[q][JoinField]
           /\ Source = tables[Len(scans) + 1] /\ Len(scans) + 1 \in 1..2
<1>1. kind = "join" /\ tables \in Seq(Seq(Records)) /\ Len(tables) = 2 /\ Len(scans) < 2 /\ scans \in Seq(ScanSet)
      BY DEF MatTypes, RequestOK, ScansOK, MayJoin, Opening
<1>2. Len(scans) + 1 \in 1..2
  <2>1. Len(scans) \in Nat BY <1>1
  <2> QED BY <1>1, <2>1
<1>3. Source = tables[1] \/ Source = tables[2]
  <2> DEFINE c == Len(scans) + 1
  <2>1. c \in 1..2 /\ Source = tables[c] BY <1>2 DEF Source
  <2> HIDE DEF c
  <2>2. c = 1 \/ c = 2 BY <2>1
  <2> QED BY <2>1, <2>2
<1>4. Source \in Seq(Records) BY <1>1, <1>3, TwoTables
<1>5. \A p \in DOMAIN Source : p \in Nat /\ Source[p][JoinField] \in Nat
  <2> SUFFICES ASSUME NEW p \in DOMAIN Source PROVE p \in Nat /\ Source[p][JoinField] \in Nat OBVIOUS
  <2>1. Source[p] \in Records BY <1>4
  <2> QED BY <1>4, <2>1, MaterializeAssumption
<1>6. ASSUME NEW p \in DOMAIN Source, NEW q \in DOMAIN Source, p < q
      PROVE  Source[p][JoinField] <= Source[q][JoinField]
  <2>1. CASE Source = tables[2] BY <1>6, <2>1 DEF MayJoin, NotDecreasing
  <2>2. CASE Source = tables[1]
    <3>1. Source[p][JoinField] < Source[q][JoinField] BY <1>6, <2>2 DEF MayJoin, Increasing
    <3> QED BY <3>1, <1>5
  <2> QED BY <1>3, <2>1, <2>2
<1> QED BY <1>2, <1>4, <1>5, <1>6 DEF Source

LEMMA KeptKeys ==
    ASSUME MatTypes, Opening
    PROVE  /\ Keys(Kept) /\ \A x \in DOMAIN Kept : Kept[x] \in Seq(1..read) /\ (Kept[x] = <<>> \/ Len(Kept[x]) # 0)
           /\ DOMAIN runs \subseteq Nat /\ DOMAIN result \subseteq Nat
           /\ DOMAIN runs = 1..Len(runs) /\ DOMAIN result = 1..Len(result) /\ Len(runs) \in Nat /\ Len(result) \in Nat
<1>1. runs \in Seq(Seq(Nat)) /\ result \in Seq(Seq(Nat)) /\ Each(Kept, 1..read) BY DEF MatTypes, SortOK
<1>2. /\ DOMAIN runs \subseteq Nat /\ DOMAIN result \subseteq Nat
      /\ DOMAIN runs = 1..Len(runs) /\ DOMAIN result = 1..Len(result) /\ Len(runs) \in Nat /\ Len(result) \in Nat
      BY <1>1
<1>3. Keys(Kept)
  <2> SUFFICES ASSUME NEW x \in DOMAIN Kept PROVE x = <<x[1], x[2]>> /\ x[1] \in Nat /\ x[2] \in Nat BY DEF Keys
  <2>1. x \in ({1} \X DOMAIN runs) \cup ({2} \X DOMAIN result) BY KeptIs
  <2> QED BY <2>1, <1>2
<1>4. ASSUME NEW x \in DOMAIN Kept PROVE Kept[x] \in Seq(1..read) /\ (Kept[x] = <<>> \/ Len(Kept[x]) # 0)
  <2>1. Kept[x] \in Seq(1..read) BY <1>1 DEF Each
  <2> QED BY <2>1
<1> QED BY <1>2, <1>3, <1>4

LEMMA SplitOrdered ==
    ASSUME MatTypes, FieldsOK, SortedOK, split_into_runs, MayJoin
    PROVE  Ordered(Kept', Source, Together)
<1>1. Sort /\ read < Len(Source) /\ read' = read + 1 /\ UNCHANGED <<result, scans, row>> BY DEF split_into_runs
<1>2. Opening BY <1>1, SortKeeps
<1>3. /\ runs \in Seq(Seq(Nat)) /\ read \in 0..Len(Source) /\ Each(Kept, 1..read) /\ result = <<<<>>>>
      /\ \A q \in DOMAIN runs : runs[q] # <<>>
      BY <1>1, <1>2 DEF MatTypes, SortOK
<1>4. /\ Source \in Seq(Records) /\ \A p \in DOMAIN Source : p \in Nat /\ Source[p][JoinField] \in Nat
      /\ \A p, q \in DOMAIN Source : p < q => Source[p][JoinField] <= Source[q][JoinField]
      BY <1>2, SourceSorted
<1>5. read \in Nat /\ read + 1 \in DOMAIN Source /\ 1..read \subseteq DOMAIN Source BY <1>1, <1>3, <1>4
<1>6. DOMAIN result = {1} /\ result[1] = <<>> BY <1>3
<1>7. Ordered(Kept, Source, Together) BY <1>2 DEF SortedOK
<1>8. /\ Keys(Kept) /\ \A x \in DOMAIN Kept : Kept[x] \in Seq(1..read) /\ (Kept[x] = <<>> \/ Len(Kept[x]) # 0)
      /\ DOMAIN runs = 1..Len(runs) /\ Len(runs) \in Nat
      BY <1>2, KeptKeys
<1> DEFINE p == read + 1
           n == Len(runs)
<1>9. ASSUME NEW u \in DOMAIN Kept, NEW j \in 1..Len(Kept[u])
      PROVE  /\ u = <<1, u[2]>> /\ u[1] = 1 /\ u[2] \in 1..n /\ Kept[u][j] \in 1..read /\ Kept[u][j] < p
  <2>1. Kept[u] # <<>> BY <1>8
  <2>2. PICK q \in DOMAIN runs : u = <<1, q>> BY <2>1, <1>6, KeptIs
  <2>3. Kept[u][j] \in 1..read
    <3> DEFINE T == 1..read
               w == Kept[u]
    <3>1. w \in Seq(T) /\ j \in 1..Len(w) BY <1>8
    <3> HIDE DEF T, w
    <3>2. w[j] \in T BY <3>1
    <3> QED BY <3>2 DEF T, w
  <2> QED BY <2>2, <2>3, <1>5, <1>8
<1>10. CASE read > 0 /\ Equal(Source[read], Source[read + 1])
  <2>1. n \in DOMAIN runs /\ \E z \in DOMAIN runs : \E m \in 1..Len(runs[z]) : runs[z][m] = read
    <3>0. read \in 1..read BY <1>5, <1>10
    <3>1. PICK x \in DOMAIN Kept : \E m \in 1..Len(Kept[x]) : Kept[x][m] = read BY <3>0, <1>3 DEF Each
    <3>2. x = <<1, x[2]>> /\ x[2] \in 1..n BY <3>1, <1>9
    <3>3. Kept[x] = runs[x[2]] BY <3>2, <1>8, KeptIs
    <3> QED BY <3>1, <3>2, <3>3, <1>8
  <2> DEFINE q == <<1, n>>
  <2>2. q \in DOMAIN Kept /\ Kept[q] = runs[n] /\ q[1] = 1 /\ q[2] = n BY <2>1, KeptIs
  <2>3. runs' = [runs EXCEPT ![n] = Append(runs[n], p)] BY <1>10 DEF split_into_runs
  <2>4. DOMAIN Kept' = DOMAIN Kept /\ Kept'[q] = Append(Kept[q], p)
        /\ \A u \in DOMAIN Kept : u # q => Kept'[u] = Kept[u]
    <3>1. DOMAIN runs' = DOMAIN runs /\ runs'[n] = Append(runs[n], p)
          /\ \A z \in DOMAIN runs : z # n => runs'[z] = runs[z]
          BY <2>1, <2>3
    <3> HIDE DEF n, p
    <3>2. DOMAIN Kept' = DOMAIN Kept BY <3>1, <1>1, KeptIs DEF Kept
    <3>3. Kept'[q] = Append(Kept[q], p) BY <2>1, <3>1, <3>2, KeptIs DEF Kept
    <3>4. \A u \in DOMAIN Kept : u # q => Kept'[u] = Kept[u] BY <3>1, <3>2, <1>1 DEF Kept
    <3> QED BY <3>2, <3>3, <3>4
  <2>5. \E m \in 1..Len(Kept[q]) : Kept[q][m] = read
    <3>1. PICK z \in DOMAIN runs : \E m \in 1..Len(runs[z]) : runs[z][m] = read BY <2>1
    <3>2. PICK m \in 1..Len(runs[z]) : runs[z][m] = read BY <3>1
    <3>3. CASE z = n BY <3>2, <3>3, <2>2
    <3>4. CASE z # n
      <4> DEFINE u == <<1, z>>
      <4>1. u \in DOMAIN Kept /\ Kept[u] = runs[z] /\ z < n /\ u[1] = 1 /\ u[2] = z BY <3>4, <1>8, KeptIs
      <4>2. Precedes(u, q) BY <4>1, <2>2 DEF Precedes
      <4>3. 1 \in 1..Len(Kept[q])
        <5>1. Kept[q] \in Seq(1..read) /\ Kept[q] # <<>> BY <2>1, <2>2, <1>3, <1>8
        <5> QED BY <5>1
      <4> HIDE DEF u, q
      <4>4. Kept[u][m] < Kept[q][1] BY <4>1, <4>2, <4>3, <3>2, <2>2, <1>7, OrderedAt
      <4>5. Kept[q][1] \in 1..read BY <4>3, <2>2, <1>9
      <4> QED BY <4>1, <4>4, <4>5, <3>2, <1>5
    <3> QED BY <3>3, <3>4
  <2>6. Source[read][JoinField] = Source[p][JoinField] BY <1>10 DEF Equal, FieldsOK, MayJoin
  <2> HIDE DEF n, p
  <2>7. FitsIn(p, q, Kept, Source, Together)
    <3> SUFFICES ASSUME NEW u \in DOMAIN Kept, NEW j \in 1..Len(Kept[u])
                 PROVE  /\ Precedes(u, q) \/ u = q => Kept[u][j] < p
                        /\ Precedes(q, u) => p < Kept[u][j]
                        /\ Precedes(u, q) /\ <<u, q>> \notin Together => Apart(Kept[u][j], p, Source)
                        /\ Precedes(q, u) /\ <<q, u>> \notin Together => Apart(p, Kept[u][j], Source)
        BY DEF FitsIn
    <3>1. u = <<1, u[2]>> /\ u[1] = 1 /\ u[2] \in 1..n /\ Kept[u][j] < p BY <1>9
    <3>2. ~Precedes(q, u)
      <4>1. u[2] <= n BY <3>1
      <4>2. n \in Nat /\ u[2] \in Nat BY <1>8, <3>1 DEF n
      <4> QED BY <4>1, <4>2, <3>1, <2>2 DEF Precedes
    <3>3. ASSUME Precedes(u, q) PROVE Apart(Kept[u][j], p, Source)
      <4>1. <<u, q>> \notin Together BY <3>1 DEF Together
      <4>2. PICK m \in 1..Len(Kept[q]) : Kept[q][m] = read BY <2>5
      <4> HIDE DEF q
      <4>3. Apart(Kept[u][j], Kept[q][m], Source) BY <4>1, <3>3, <2>2, <1>7, OrderedAt
      <4> QED BY <4>2, <4>3, <2>6 DEF Apart
    <3> QED BY <3>1, <3>2, <3>3
  <2> HIDE DEF q, Kept
  <2>8. Ordered(Kept', Source, Together) BY <2>2, <2>4, <2>7, <1>3, <1>7, <1>8, OrderedAppended
  <2> QED BY <2>8
<1>11. CASE ~(read > 0 /\ Equal(Source[read], Source[read + 1]))
  <2> DEFINE q == <<1, n + 1>>
             all1 == [u \in DOMAIN Kept \cup {q} |-> IF u = q THEN <<>> ELSE Kept[u]]
             old == [u \in DOMAIN Kept |-> u]
  <2>1. runs' = Append(runs, <<p>>) BY <1>11 DEF split_into_runs
  <2>2. /\ DOMAIN runs' = DOMAIN runs \cup {n + 1} /\ n + 1 \notin DOMAIN runs /\ runs'[n + 1] = <<p>>
        /\ \A z \in DOMAIN runs : runs'[z] = runs[z]
    <3>1. <<p>> \in Seq(Nat) BY <1>5
    <3> DEFINE v == <<p>>
               T == Seq(Nat)
    <3>2. runs' = Append(runs, v) /\ v \in T /\ runs \in Seq(T) BY <2>1, <3>1, <1>3
    <3> HIDE DEF v, T, p
    <3> QED BY <3>2 DEF v
  <2>3. q \notin DOMAIN Kept /\ q[1] = 1 /\ q[2] = n + 1
    <3> HIDE DEF n
    <3> QED BY <2>2 DEF Kept
  <2>4. DOMAIN Kept' = DOMAIN all1 /\ q \in DOMAIN all1 /\ Kept'[q] = Append(all1[q], p)
        /\ \A u \in DOMAIN all1 : u # q => Kept'[u] = all1[u]
    <3> HIDE DEF n, p
    <3>1. DOMAIN Kept' = DOMAIN Kept \cup {q} BY <2>2, <1>1 DEF Kept
    <3>2. Kept'[q] = <<p>> BY <3>1, <2>2 DEF Kept
    <3>3. \A u \in DOMAIN Kept : Kept'[u] = Kept[u] BY <2>2, <3>1, <1>1 DEF Kept
    <3>4. Append(all1[q], p) = <<p>> OBVIOUS
    <3> HIDE DEF Kept
    <3> QED BY <3>1, <3>2, <3>3, <3>4, <2>3
  <2>5. Each(all1, 1..read) /\ Ordered(all1, Source, Together) /\ Keys(all1)
    <3>1. \A u \in DOMAIN all1 : all1[u] # <<>> => old[u] \in DOMAIN Kept /\ all1[u] = Kept[old[u]] BY <2>3
    <3>2. \A u \in DOMAIN Kept : Kept[u] # <<>> => \E v \in DOMAIN all1 : all1[v] = Kept[u]
      <4> SUFFICES ASSUME NEW u \in DOMAIN Kept PROVE u \in DOMAIN all1 /\ all1[u] = Kept[u] OBVIOUS
      <4> QED BY <2>3
    <3>3. \A u, v \in DOMAIN all1 : all1[u] # <<>> /\ all1[v] # <<>> /\ old[u] = old[v] => u = v BY <2>3
    <3>4. \A u \in DOMAIN all1 : all1[u] = <<>> \/ Len(all1[u]) # 0 BY <1>8
    <3>5. \A u, v \in DOMAIN all1 : all1[u] # <<>> /\ all1[v] # <<>> /\ Precedes(u, v) =>
             /\ Precedes(old[u], old[v])
             /\ <<u, v>> \notin Together => <<old[u], old[v]>> \notin Together
      <4> SUFFICES ASSUME NEW u \in DOMAIN all1, all1[u] # <<>> PROVE old[u] = u OBVIOUS
      <4> QED BY <2>3
    <3>6. Keys(all1) BY <1>8, <2>3 DEF Keys
    <3> DEFINE all == Kept
    <3>a. Each(all, 1..read) BY <1>3
    <3>b. \A u \in DOMAIN all1 : all1[u] # <<>> => old[u] \in DOMAIN all /\ all1[u] = all[old[u]] BY <3>1
    <3>c. \A u \in DOMAIN all : all[u] # <<>> => \E v \in DOMAIN all1 : all1[v] = all[u] BY <3>2
    <3> HIDE DEF all1, old, all
    <3>7. Each(all1, 1..read) BY <3>a, <3>b, <3>c, <3>3, EachRenamed
    <3>8. Ordered(all1, Source, Together) BY <3>1, <3>4, <3>5, <1>7, OrderedRenamed
    <3> QED BY <3>6, <3>7, <3>8
  <2>6. FitsIn(p, q, all1, Source, Together)
    <3> SUFFICES ASSUME NEW u \in DOMAIN all1, NEW j \in 1..Len(all1[u])
                 PROVE  /\ Precedes(u, q) \/ u = q => all1[u][j] < p
                        /\ Precedes(q, u) => p < all1[u][j]
                        /\ Precedes(u, q) /\ <<u, q>> \notin Together => Apart(all1[u][j], p, Source)
                        /\ Precedes(q, u) /\ <<q, u>> \notin Together => Apart(p, all1[u][j], Source)
        BY DEF FitsIn
    <3>1. u # q /\ u \in DOMAIN Kept /\ all1[u] = Kept[u]
      <4>1. u = q => all1[u] = <<>> OBVIOUS
      <4>2. u # q
        <5> SUFFICES ASSUME u = q PROVE FALSE OBVIOUS
        <5>1. all1[u] = <<>> BY <4>1
        <5> HIDE DEF all1
        <5> QED BY <5>1
      <4> QED BY <4>2
    <3> HIDE DEF all1
    <3>2. u = <<1, u[2]>> /\ u[1] = 1 /\ u[2] \in 1..n /\ Kept[u][j] \in 1..read /\ Kept[u][j] < p BY <3>1, <1>9
    <3>3. ~Precedes(q, u)
      <4>1. n \in Nat BY <1>8
      <4> HIDE DEF n
      <4> QED BY <4>1, <3>2, <2>3 DEF Precedes
    <3>4. Apart(Kept[u][j], p, Source)
      <4> DEFINE e == Kept[u][j]
                 V(h) == Source[h][JoinField]
      <4>1. e \in DOMAIN Source /\ read \in DOMAIN Source /\ p \in DOMAIN Source /\ read > 0 /\ e \in 1..read BY <3>2, <1>5
      <4>2. V(read) # V(p) BY <4>1, <1>11 DEF Equal, FieldsOK, MayJoin
      <4>3. V(read) <= V(p) /\ (e < read => V(e) <= V(read)) /\ V(e) \in Nat /\ V(read) \in Nat /\ V(p) \in Nat
        <5>1. read < p BY <1>5
        <5> HIDE DEF e, p
        <5> QED BY <5>1, <4>1, <1>4
      <4>4. e < read \/ e = read BY <4>1, <1>5
      <4> HIDE DEF V, e, p
      <4>5. V(e) # V(p) BY <4>2, <4>3, <4>4
      <4> QED BY <4>5 DEF Apart, V, e
    <3> QED BY <3>1, <3>2, <3>3, <3>4
  <2> HIDE DEF q, Kept, all1, p
  <2> DEFINE all2 == Kept'
  <2>7. DOMAIN all2 = DOMAIN all1 /\ all2[q] = Append(all1[q], p)
        /\ \A u \in DOMAIN all1 : u # q => all2[u] = all1[u] BY <2>4
  <2> HIDE DEF all2
  <2>8. Ordered(all2, Source, Together) BY <2>4, <2>5, <2>6, <2>7, OrderedAppended
  <2> QED BY <2>8 DEF all2
<1> QED BY <1>10, <1>11

\* What is kept when a record has been copied: one run without its first, and one with one more.
LEMMA CopiedKept ==
    ASSUME MatTypes, Merging, Opening, NEW src \in {src1, src2}, copy(src)
    PROVE  LET x == Head(runs[src])
               from == <<1, src>>
               to == <<2, Len(result)>>
               one == [Kept EXCEPT ![from] = Tail(runs[src])]
           IN /\ src \in DOMAIN runs /\ runs[src] # <<>> /\ src1 \in Nat /\ src2 = src1 + 1 /\ src1 \in DOMAIN runs
              /\ from \in DOMAIN Kept /\ to \in DOMAIN Kept /\ from # to /\ Kept[from] = runs[src]
              /\ DOMAIN one = DOMAIN Kept /\ one[from] = Tail(Kept[from])
              /\ \A q \in DOMAIN Kept : q # from => one[q] = Kept[q]
              /\ DOMAIN Kept' = DOMAIN Kept /\ Kept'[to] = Append(one[to], x)
              /\ \A q \in DOMAIN Kept : q # to => Kept'[q] = one[q]
              /\ Len(result') = Len(result)
<1> DEFINE x == Head(runs[src])
           n == Len(result)
           from == <<1, src>>
           to == <<2, n>>
           one == [Kept EXCEPT ![from] = Tail(runs[src])]
<1>1. /\ runs \in Seq(Seq(Nat)) /\ result \in Seq(Seq(Nat)) /\ Len(result) >= 1
      /\ Len(runs) > 2 /\ src2 <= Len(runs)
      BY DEF MatTypes, SortOK, Merging
<1>2. n \in Nat /\ n \in DOMAIN result /\ src1 \in Nat /\ src2 = src1 + 1 /\ src \in DOMAIN runs /\ src1 \in DOMAIN runs
      BY <1>1 DEF src1, src2
<1>3. /\ runs[src] # <<>> /\ runs' = [runs EXCEPT ![src] = Tail(runs[src])]
      /\ result' = [result EXCEPT ![n] = Append(result[n], x)]
      BY DEF copy
<1>4. /\ DOMAIN runs' = DOMAIN runs
      /\ runs'[src] = Tail(runs[src]) /\ \A q \in DOMAIN runs : q # src => runs'[q] = runs[q]
      BY <1>2, <1>3
<1> HIDE DEF n, x
<1>5. /\ DOMAIN result' = DOMAIN result /\ Len(result') = Len(result)
      /\ result'[n] = Append(result[n], x) /\ \A q \in DOMAIN result : q # n => result'[q] = result[q]
  <2>1. Append(result[n], x) \in Seq(Nat)
    <3>1. runs[src] \in Seq(Nat) /\ result[n] \in Seq(Nat) BY <1>1, <1>2
    <3> QED BY <3>1, <1>3 DEF x
  <2>2. Len(result') = Len(result) BY <2>1, <1>1, <1>2, <1>3
  <2> QED BY <2>2, <1>2, <1>3
<1>6. from \in DOMAIN Kept /\ to \in DOMAIN Kept /\ from # to /\ Kept[from] = runs[src] /\ Kept[to] = result[n]
      BY <1>2 DEF Kept
<1>7. DOMAIN one = DOMAIN Kept /\ one[from] = Tail(Kept[from]) /\ \A q \in DOMAIN Kept : q # from => one[q] = Kept[q]
      BY <1>6 DEF Kept
<1>8. DOMAIN Kept' = DOMAIN Kept BY <1>4, <1>5 DEF Kept
<1>9. Kept'[to] = Append(one[to], x)
  <2>1. Kept'[to] = result'[n] BY <1>6, <1>8 DEF Kept
  <2> QED BY <2>1, <1>5, <1>6, <1>7
<1>10. ASSUME NEW q \in DOMAIN Kept, q # to PROVE Kept'[q] = one[q]
  <2>1. CASE q = from
    <3>1. Kept'[from] = runs'[src] BY <1>6, <1>8 DEF Kept
    <3> QED BY <3>1, <2>1, <1>4, <1>6, <1>7
  <2>2. CASE q # from
    <3>1. one[q] = Kept[q] BY <2>2, <1>7
    <3>2. Kept'[q] = IF q[1] = 1 THEN runs'[q[2]] ELSE result'[q[2]] BY <1>8 DEF Kept
    <3>3. CASE \E u \in DOMAIN runs : q = <<1, u>>
      <4>1. PICK u \in DOMAIN runs : q = <<1, u>> BY <3>3
      <4>2. u # src BY <4>1, <2>2
      <4> QED BY <4>1, <4>2, <3>1, <3>2, <1>4 DEF Kept
    <3>4. CASE \E u \in DOMAIN result : q = <<2, u>>
      <4>1. PICK u \in DOMAIN result : q = <<2, u>> BY <3>4
      <4>2. u # n BY <4>1, <1>10
      <4> QED BY <4>1, <4>2, <3>1, <3>2, <1>5 DEF Kept
    <3> QED BY <3>3, <3>4 DEF Kept
  <2> QED BY <2>1, <2>2
<1> HIDE DEF one, from, to
<1> QED BY <1>2, <1>3, <1>5, <1>6, <1>7, <1>8, <1>9, <1>10 DEF one, from, to, x, n

LEMMA MergeOrdered ==
    ASSUME MatTypes, FieldsOK, SortedOK, merge_two_runs, MayJoin
    PROVE  Ordered(Kept', Source, Together)
<1>1. Merging /\ Opening
  <2>1. Sort /\ Merging /\ UNCHANGED <<scans, row>> BY DEF merge_two_runs, Merging
  <2> QED BY <2>1, SortKeeps
<1>2. /\ Each(Kept, 1..read) /\ \A q \in DOMAIN runs : q < src1 => runs[q] = <<>>
      BY <1>1 DEF MatTypes, SortOK, Merging
<1>3. Ordered(Kept, Source, Together) BY <1>1 DEF SortedOK
<1>4. /\ Keys(Kept) /\ \A x \in DOMAIN Kept : Kept[x] \in Seq(1..read)
      /\ DOMAIN result = 1..Len(result) /\ Len(result) \in Nat
      BY <1>1, KeptKeys
<1>5. \/ copy(src1)
      \/ /\ copy(src2)
         /\ runs[src1] # <<>> /\ runs[src2] # <<>> => Equal(Source[Head(runs[src1])], Source[Head(runs[src2])])
      BY DEF merge_two_runs
<1>6. PICK src \in {src1, src2} :
        copy(src) /\ (src = src1 \/ (src = src2 /\ (runs[src1] # <<>> /\ runs[src2] # <<>> =>
                                                      Equal(Source[Head(runs[src1])], Source[Head(runs[src2])]))))
      BY <1>5
<1> DEFINE x == Head(runs[src])
           n == Len(result)
           from == <<1, src>>
           to == <<2, n>>
           one == [Kept EXCEPT ![from] = Tail(runs[src])]
<1>7. /\ src \in DOMAIN runs /\ runs[src] # <<>> /\ src1 \in Nat /\ src2 = src1 + 1 /\ src1 \in DOMAIN runs
      /\ from \in DOMAIN Kept /\ to \in DOMAIN Kept /\ from # to /\ Kept[from] = runs[src]
      /\ DOMAIN one = DOMAIN Kept /\ one[from] = Tail(Kept[from])
      /\ \A q \in DOMAIN Kept : q # from => one[q] = Kept[q]
      /\ DOMAIN Kept' = DOMAIN Kept /\ Kept'[to] = Append(one[to], x)
      /\ \A q \in DOMAIN Kept : q # to => Kept'[q] = one[q]
      BY <1>1, <1>6, CopiedKept
<1>8. x = Kept[from][1] /\ x = Head(Kept[from]) /\ 1 \in 1..Len(Kept[from]) /\ Kept[from] # <<>>
  <2>1. Kept[from] \in Seq(1..read) BY <1>4, <1>7
  <2> DEFINE T == 1..read
             w == Kept[from]
  <2>2. w \in Seq(T) /\ w # <<>> /\ x = Head(w) BY <2>1, <1>7
  <2> HIDE DEF T, w, x
  <2>3. x = w[1] /\ 1 \in 1..Len(w) BY <2>2
  <2> QED BY <2>2, <2>3 DEF w
\* Heads of runs that precede each other are never equal.
<1>9. src = src2 => runs[src1] = <<>>
  <2> SUFFICES ASSUME src = src2, runs[src1] # <<>> PROVE FALSE OBVIOUS
  <2> DEFINE fst == <<1, src1>>
  <2>1. fst \in DOMAIN Kept /\ Kept[fst] = runs[src1] /\ fst[1] = 1 /\ fst[2] = src1 BY <1>7, KeptIs
  <2>2. Kept[fst] \in Seq(1..read) BY <2>1, <1>4
  <2>3. Head(runs[src1]) = Kept[fst][1] /\ 1 \in 1..Len(Kept[fst])
    <3> DEFINE T == 1..read
               w == Kept[fst]
    <3>1. w \in Seq(T) /\ w # <<>> /\ w = runs[src1] BY <2>1, <2>2
    <3> HIDE DEF T, w
    <3>2. Head(w) = w[1] /\ 1 \in 1..Len(w) BY <3>1
    <3> QED BY <3>1, <3>2 DEF w
  <2>4. Precedes(fst, from) BY <1>7, <2>1 DEF Precedes
  <2>5. <<fst, from>> \notin Together BY <2>1 DEF Together
  <2> HIDE DEF fst, from
  <2>6. Apart(Kept[fst][1], Kept[from][1], Source) BY <2>1, <2>3, <2>4, <2>5, <1>3, <1>7, <1>8, OrderedAt
  <2>7. src1 # src2 BY <1>7
  <2>8. Equal(Source[Head(runs[src1])], Source[x]) BY <2>7, <1>6, <1>7
  <2> QED BY <2>3, <2>6, <2>8, <1>8 DEF Equal, Apart, FieldsOK, MayJoin
<1>10. /\ Ordered(one, Source, Together) /\ \A h \in 1..Len(one[from]) : x < one[from][h]
  <2> DEFINE all == Kept
             set == 1..read
  <2>1. /\ Each(all, set) /\ Ordered(all, Source, Together) /\ from \in DOMAIN all /\ all[from] # <<>>
        /\ DOMAIN one = DOMAIN all /\ one[from] = Tail(all[from]) /\ \A q \in DOMAIN all : q # from => one[q] = all[q]
        BY <1>2, <1>3, <1>7, <1>8
  <2>2. x = Head(all[from]) BY <1>8
  <2> HIDE DEF all, one, from, set, x
  <2>3. Ordered(one, Source, Together) /\ \A h \in 1..Len(one[from]) : Head(all[from]) < one[from][h]
        BY <2>1, OrderedCut
  <2> QED BY <2>2, <2>3
<1>11. x \in 1..read /\ Each(one, (1..read) \ {x})
  <2> DEFINE all == Kept
             set == 1..read
  <2>1. /\ Each(all, set) /\ from \in DOMAIN all /\ all[from] # <<>>
        /\ DOMAIN one = DOMAIN all /\ one[from] = Tail(all[from]) /\ \A q \in DOMAIN all : q # from => one[q] = all[q]
        BY <1>2, <1>7, <1>8
  <2>2. x = Head(all[from]) BY <1>8
  <2> HIDE DEF all, one, from, set, x
  <2>3. x \in set /\ Each(one, set \ {x}) BY <2>1, <2>2, EachCut
  <2> QED BY <2>3 DEF set
<1>12. FitsIn(x, to, one, Source, Together)
  <2> SUFFICES ASSUME NEW u \in DOMAIN one, NEW h \in 1..Len(one[u])
               PROVE  /\ Precedes(u, to) \/ u = to => one[u][h] < x
                      /\ Precedes(to, u) => x < one[u][h]
                      /\ Precedes(u, to) /\ <<u, to>> \notin Together => Apart(one[u][h], x, Source)
                      /\ Precedes(to, u) /\ <<to, u>> \notin Together => Apart(x, one[u][h], Source)
      BY DEF FitsIn
  <2>1. u \in DOMAIN Kept /\ (u # from => one[u] = Kept[u]) BY <1>7
  <2>2. from[1] = 1 /\ from[2] = src /\ to[1] = 2 /\ to[2] = n /\ src \in Nat BY <1>7
  <2>3. (\E z \in DOMAIN runs : u = <<1, z>>) \/ (\E z \in DOMAIN result : u = <<2, z>>) BY <2>1, KeptIs
  <2> HIDE DEF x, n, one
  <2>4. CASE \E z \in DOMAIN result : u = <<2, z>>
    <3>1. PICK z \in DOMAIN result : u = <<2, z>> BY <2>4
    <3>2. u[1] = 2 /\ u[2] = z /\ z <= n /\ u # from /\ z \in Nat /\ n \in Nat BY <3>1, <1>4 DEF n
    <3>3. Precedes(u, from) BY <3>2, <2>2 DEF Precedes
    <3>4. ~Precedes(to, u) BY <3>2, <2>2 DEF Precedes
    <3>5. Precedes(u, to) => <<u, from>> \notin Together
      <4>1. Precedes(u, to) => z # n BY <3>2, <2>2 DEF Precedes
      <4> QED BY <4>1, <3>1 DEF Together, n
    <3> HIDE DEF from, to
    <3>6. one[u][h] = Kept[u][h] /\ h \in 1..Len(Kept[u]) BY <2>1, <3>2
    <3>7. /\ Kept[u][h] < Kept[from][1]
          /\ <<u, from>> \notin Together => Apart(Kept[u][h], Kept[from][1], Source)
          BY <3>3, <3>6, <2>1, <1>3, <1>7, <1>8, OrderedAt
    <3> QED BY <3>4, <3>5, <3>6, <3>7, <1>8
  <2>5. CASE \E z \in DOMAIN runs : u = <<1, z>>
    <3>1. PICK z \in DOMAIN runs : u = <<1, z>> BY <2>5
    <3>2. u[1] = 1 /\ u[2] = z /\ u # to /\ ~Precedes(u, to) /\ z \in Nat
      <4>1. u[1] = 1 /\ u[2] = z BY <3>1
      <4>2. z \in Nat BY <1>1, KeptKeys
      <4> QED BY <4>1, <4>2, <2>2 DEF Precedes
    <3>3. CASE u = from
      <4>1. <<to, from>> \in Together
        <5>1. from = <<1, src1>> \/ from = <<1, src2>> OBVIOUS
        <5> QED BY <5>1 DEF Together, n
      <4> HIDE DEF from, to
      <4>2. x < one[u][h] BY <1>10, <3>3
      <4> QED BY <3>2, <3>3, <4>1, <4>2
    <3>4. CASE u # from
      <4>1. z # src BY <3>1, <3>4
      <4>2. one[u][h] = Kept[u][h] /\ h \in 1..Len(Kept[u]) BY <2>1, <3>4
      <4>3. runs[z] # <<>>
        <5>1. Kept[u] = runs[z] BY <3>1, KeptIs
        <5>2. Kept[u] # <<>>
          <6> SUFFICES ASSUME Kept[u] = <<>> PROVE FALSE OBVIOUS
          <6> HIDE DEF from
          <6> QED BY <4>2
        <5> QED BY <5>1, <5>2
      <4>4. z > src
        <5>1. ~(z < src1) BY <4>3, <1>2
        <5>2. src = src2 => z # src1 BY <4>3, <1>9
        <5>3. src1 \in Nat /\ src2 = src1 + 1 BY <1>7
        <5> QED BY <5>1, <5>2, <5>3, <4>1, <3>2, <1>6
      <4>5. Precedes(from, u) BY <4>4, <3>2, <2>2 DEF Precedes
      <4>6. <<from, u>> \notin Together BY <2>2 DEF Together
      <4> HIDE DEF from, to
      <4>7. Kept[from][1] < Kept[u][h] /\ Apart(Kept[from][1], Kept[u][h], Source)
            BY <4>2, <4>5, <4>6, <2>1, <1>3, <1>7, <1>8, OrderedAt
      <4> QED BY <4>2, <4>7, <3>2, <1>8
    <3> QED BY <3>3, <3>4
  <2> QED BY <2>3, <2>4, <2>5
<1> DEFINE all2 == Kept'
           less == (1..read) \ {x}
<1>13. /\ Each(one, less) /\ DOMAIN all2 = DOMAIN one /\ all2[to] = Append(one[to], x) /\ to \in DOMAIN one
       /\ \A u \in DOMAIN one : u # to => all2[u] = one[u]
       BY <1>7, <1>11
<1>14. Keys(one)
  <2> HIDE DEF one
  <2> QED BY <1>4, <1>7 DEF Keys
<1> HIDE DEF one, all2, x, to, from, less
<1>15. Ordered(all2, Source, Together) BY <1>10, <1>12, <1>13, <1>14, OrderedAppended
<1> QED BY <1>15 DEF all2

\* The runs that are kept after an iteration are the ones before it, in the same order.
OldRuns(all, all2, old, together) ==
    /\ \A x \in DOMAIN all2 : all2[x] # <<>> => old[x] \in DOMAIN all /\ all2[x] = all[old[x]]
    /\ \A y \in DOMAIN all : all[y] # <<>> => \E x \in DOMAIN all2 : all2[x] = all[y]
    /\ \A x, y \in DOMAIN all2 : all2[x] # <<>> /\ all2[y] # <<>> =>
          /\ old[x] = old[y] => x = y
          /\ Precedes(x, y) => Precedes(old[x], old[y]) /\ <<old[x], old[y]>> \notin together
    /\ \A x \in DOMAIN all2 : all2[x] = <<>> \/ Len(all2[x]) # 0

LEMMA IterationKept ==
    ASSUME MatTypes, do_a_merge_iteration, Opening
    PROVE  \E old : OldRuns(Kept, Kept', old, Together)
<1> DEFINE n == Len(result)
<1>1. /\ runs \in Seq(Seq(Nat)) /\ result \in Seq(Seq(Nat)) /\ n >= 1
      /\ \A q \in DOMAIN runs : q < src1 => runs[q] = <<>>
      /\ Merging /\ Merged
      BY DEF MatTypes, SortOK, Merging, do_a_merge_iteration
<1>2. /\ n \in Nat /\ n \in DOMAIN result /\ DOMAIN result = 1..n /\ src1 \in Nat /\ src2 = src1 + 1 /\ src2 \in Nat
      /\ Len(runs) \in Nat /\ DOMAIN runs = 1..Len(runs)
      BY <1>1 DEF src1, src2
<1>3. \A q \in DOMAIN runs : q <= src2 => runs[q] = <<>>
  <2>1. runs[src1] = <<>> /\ runs[src2] = <<>> BY <1>1 DEF Merged
  <2>2. \A q \in DOMAIN runs : q <= src2 => q < src1 \/ q = src1 \/ q = src2 BY <1>2
  <2> QED BY <2>1, <2>2, <1>1
<1>4. /\ \A q \in DOMAIN result : <<2, q>> \in DOMAIN Kept /\ Kept[<<2, q>>] = result[q]
      /\ \A q \in DOMAIN runs : <<1, q>> \in DOMAIN Kept /\ Kept[<<1, q>>] = runs[q]
      BY DEF Kept
<1> HIDE DEF n
<1>5. CASE src2 + 2 <= Len(runs)
  <2>1. result' = Append(result, <<>>) /\ runs' = runs BY <1>5 DEF do_a_merge_iteration
  <2>2. /\ Len(result') = n + 1 /\ DOMAIN result' = 1..(n + 1) /\ result'[n + 1] = <<>>
        /\ \A q \in DOMAIN result : result'[q] = result[q]
    <3>1. <<>> \in Seq(Nat) OBVIOUS
    <3> QED BY <3>1, <2>1, <1>1, <1>2 DEF n
  <2> DEFINE old == [x \in DOMAIN Kept' |-> x]
  <2>3. DOMAIN Kept' = DOMAIN Kept \cup {<<2, n + 1>>} /\ Kept'[<<2, n + 1>>] = <<>>
    <3>1. DOMAIN Kept' = DOMAIN Kept \cup {<<2, n + 1>>} BY <2>1, <2>2, <1>2 DEF Kept
    <3>2. Kept'[<<2, n + 1>>] = result'[n + 1] BY <3>1 DEF Kept
    <3> QED BY <3>1, <3>2, <2>2
  <2>4. \A x \in DOMAIN Kept : Kept'[x] = Kept[x]
    <3> SUFFICES ASSUME NEW x \in DOMAIN Kept PROVE Kept'[x] = Kept[x] OBVIOUS
    <3>1. Kept'[x] = IF x[1] = 1 THEN runs'[x[2]] ELSE result'[x[2]] BY <2>3 DEF Kept
    <3>2. x[1] # 1 => x[2] \in DOMAIN result BY DEF Kept
    <3> QED BY <3>1, <3>2, <2>1, <2>2 DEF Kept
  <2>5. \A x \in DOMAIN Kept' : Kept'[x] # <<>> => x \in DOMAIN Kept /\ Kept'[x] = Kept[x] /\ old[x] = x
        BY <2>3, <2>4
  <2>6. \A x, y \in DOMAIN Kept' : Kept'[x] # <<>> /\ Kept'[y] # <<>> => <<x, y>> \notin Together
    <3> SUFFICES ASSUME NEW x \in DOMAIN Kept', NEW y \in DOMAIN Kept', Kept'[y] # <<>>, <<x, y>> \in Together PROVE FALSE
        OBVIOUS
    <3>1. y \in DOMAIN Kept /\ Kept[y] # <<>> BY <2>5
    <3>2. y = <<1, src1>> \/ y = <<1, src2>> BY DEF Together
    <3>3. PICK q \in DOMAIN runs : y = <<1, q>> /\ (q = src1 \/ q = src2) BY <3>1, <3>2 DEF Kept
    <3>4. runs[q] = <<>> BY <3>3, <1>2, <1>3
    <3> QED BY <3>1, <3>3, <3>4, <1>4
  <2>7. \A x \in DOMAIN Kept' : Kept'[x] = <<>> \/ Len(Kept'[x]) # 0
    <3> SUFFICES ASSUME NEW x \in DOMAIN Kept', Kept'[x] # <<>> PROVE Len(Kept'[x]) # 0 OBVIOUS
    <3>1. x \in DOMAIN Kept /\ Kept'[x] = Kept[x] BY <2>5
    <3> QED BY <3>1, KeptKeys
  <2>8. \A y \in DOMAIN Kept : Kept[y] # <<>> => \E x \in DOMAIN Kept' : Kept'[x] = Kept[y]
    <3> SUFFICES ASSUME NEW y \in DOMAIN Kept PROVE y \in DOMAIN Kept' /\ Kept'[y] = Kept[y] OBVIOUS
    <3> QED BY <2>3, <2>4
  <2> HIDE DEF old
  <2>9. OldRuns(Kept, Kept', old, Together) BY <2>5, <2>6, <2>7, <2>8 DEF OldRuns
  <2> QED BY <2>9
<1>6. CASE ~(src2 + 2 <= Len(runs))
  <2>1. /\ runs' = IF src2 + 1 = Len(runs) THEN Append(result, runs[src2 + 1]) ELSE result
        /\ result' = <<<<>>>>
        BY <1>6 DEF do_a_merge_iteration
  <2>2. src2 + 1 = Len(runs) => src2 + 1 \in DOMAIN runs BY <1>2
  <2>3. /\ \A q \in DOMAIN result : q \in DOMAIN runs' /\ runs'[q] = result[q]
        /\ src2 + 1 = Len(runs) => DOMAIN runs' = DOMAIN result \cup {n + 1} /\ runs'[n + 1] = runs[src2 + 1]
        /\ src2 + 1 # Len(runs) => DOMAIN runs' = DOMAIN result
        /\ DOMAIN runs' \subseteq Nat
    <3>1. CASE src2 + 1 = Len(runs)
      <4> DEFINE v == runs[src2 + 1]
      <4>1. runs' = Append(result, v) /\ v \in Seq(Nat) BY <3>1, <2>1, <2>2, <1>1
      <4> HIDE DEF v
      <4>2. DOMAIN runs' = DOMAIN result \cup {n + 1} /\ runs'[n + 1] = v BY <4>1, <1>1, <1>2 DEF n
      <4>3. \A q \in DOMAIN result : q \in DOMAIN runs' /\ runs'[q] = result[q] BY <4>1, <1>1, <1>2 DEF n
      <4>4. DOMAIN runs' \subseteq Nat BY <4>2, <1>2
      <4> QED BY <4>2, <4>3, <4>4, <3>1 DEF v
    <3>2. CASE src2 + 1 # Len(runs) BY <3>2, <2>1, <1>1
    <3> QED BY <3>1, <3>2
  <2> DEFINE old == [x \in DOMAIN Kept' |-> IF x[2] \in DOMAIN result THEN <<2, x[2]>> ELSE <<1, src2 + 1>>]
  <2>4. DOMAIN Kept' = ({1} \X DOMAIN runs') \cup {<<2, 1>>} /\ Kept'[<<2, 1>>] = <<>>
        /\ \A q \in DOMAIN runs' : Kept'[<<1, q>>] = runs'[q]
    <3>1. DOMAIN result' = {1} /\ result'[1] = <<>> BY <2>1
    <3>2. DOMAIN Kept' = ({1} \X DOMAIN runs') \cup {<<2, 1>>} BY <3>1 DEF Kept
    <3>3. Kept'[<<2, 1>>] = result'[1] BY <3>2 DEF Kept
    <3>4. \A q \in DOMAIN runs' : Kept'[<<1, q>>] = runs'[q] BY <3>2 DEF Kept
    <3> QED BY <3>1, <3>2, <3>3, <3>4
  <2>5. ASSUME NEW x \in DOMAIN Kept', Kept'[x] # <<>>
        PROVE  /\ x = <<1, x[2]>> /\ x[2] \in DOMAIN runs' /\ Kept'[x] = runs'[x[2]]
               /\ old[x] \in DOMAIN Kept /\ Kept'[x] = Kept[old[x]]
               /\ x[2] \notin DOMAIN result => x[2] = n + 1
    <3>1. PICK q \in DOMAIN runs' : x = <<1, q>> BY <2>4, <2>5
    <3>2. Kept'[x] = runs'[q] BY <3>1, <2>4
    <3>3. CASE q \in DOMAIN result
      <4>1. old[x] = <<2, q>> BY <3>1, <3>3
      <4> QED BY <4>1, <3>1, <3>2, <3>3, <2>3, <1>4
    <3>4. CASE q \notin DOMAIN result
      <4>1. old[x] = <<1, src2 + 1>> BY <3>1, <3>4
      <4>2. q = n + 1 /\ src2 + 1 = Len(runs) BY <3>4, <2>3
      <4>3. src2 + 1 \in DOMAIN runs BY <4>2, <2>2
      <4> QED BY <4>1, <4>2, <4>3, <3>1, <3>2, <2>3, <1>4
    <3> QED BY <3>3, <3>4
  <2>6. ASSUME NEW y \in DOMAIN Kept, Kept[y] # <<>>
        PROVE  \E x \in DOMAIN Kept' : Kept'[x] = Kept[y]
    <3>1. CASE \E q \in DOMAIN runs : y = <<1, q>>
      <4>1. PICK q \in DOMAIN runs : y = <<1, q>> BY <3>1
      <4>2. runs[q] # <<>> BY <4>1, <1>4, <2>6
      <4>3. ~(q <= src2) BY <4>2, <1>3
      <4>4. q = src2 + 1 /\ src2 + 1 = Len(runs)
        <5>1. q \in Nat /\ q <= Len(runs) /\ src2 \in Nat /\ Len(runs) \in Nat BY <1>2
        <5>2. Len(runs) < src2 + 2 BY <5>1, <1>6
        <5> HIDE DEF src2
        <5> QED BY <5>1, <5>2, <4>3
      <4>5. n + 1 \in DOMAIN runs' /\ runs'[n + 1] = runs[q] BY <4>4, <2>3
      <4>6. <<1, n + 1>> \in DOMAIN Kept' /\ Kept'[<<1, n + 1>>] = runs[q] BY <4>5, <2>4
      <4> QED BY <4>6, <4>1, <1>4
    <3>2. CASE \E q \in DOMAIN result : y = <<2, q>>
      <4>1. PICK q \in DOMAIN result : y = <<2, q>> BY <3>2
      <4>2. q \in DOMAIN runs' /\ runs'[q] = result[q] BY <2>3
      <4>3. <<1, q>> \in DOMAIN Kept' /\ Kept'[<<1, q>>] = result[q] BY <4>2, <2>4
      <4> QED BY <4>1, <4>3, <1>4
    <3>3. (\E q \in DOMAIN runs : y = <<1, q>>) \/ (\E q \in DOMAIN result : y = <<2, q>>)
          BY KeptIs
    <3> QED BY <3>1, <3>2, <3>3
  <2>7. ASSUME NEW x \in DOMAIN Kept', NEW y \in DOMAIN Kept', Kept'[x] # <<>>, Kept'[y] # <<>>
        PROVE  /\ old[x] = old[y] => x = y
               /\ Precedes(x, y) => Precedes(old[x], old[y]) /\ <<old[x], old[y]>> \notin Together
    <3> DEFINE a == x[2]
               e == y[2]
    <3>1. x = <<1, a>> /\ a \in DOMAIN runs' /\ (a \notin DOMAIN result => a = n + 1) BY <2>5, <2>7
    <3>2. y = <<1, e>> /\ e \in DOMAIN runs' /\ (e \notin DOMAIN result => e = n + 1) BY <2>5, <2>7
    <3>3. old[x] = (IF a \in DOMAIN result THEN <<2, a>> ELSE <<1, src2 + 1>>) OBVIOUS
    <3>4. old[y] = (IF e \in DOMAIN result THEN <<2, e>> ELSE <<1, src2 + 1>>) OBVIOUS
    <3>5. x[1] = 1 /\ y[1] = 1 /\ a \in Nat /\ e \in Nat BY <3>1, <3>2, <2>3
    <3> HIDE DEF old, a, e
    <3>6. old[x] = old[y] => x = y BY <3>1, <3>2, <3>3, <3>4
    <3>7. Precedes(x, y) => a < e BY <3>5 DEF Precedes, a, e
    <3>8. ASSUME a < e PROVE Precedes(old[x], old[y]) /\ <<old[x], old[y]>> \notin Together
      <4>1. a \in DOMAIN result
        <5> SUFFICES ASSUME a \notin DOMAIN result PROVE FALSE OBVIOUS
        <5>1. a = n + 1 BY <3>1
        <5>2. e <= n + 1 BY <3>2, <3>5, <1>2
        <5> QED BY <5>1, <5>2, <3>5, <3>8, <1>2
      <4>2. old[x] = <<2, a>> BY <3>3, <4>1
      <4>3. CASE e \in DOMAIN result
        <5>1. old[y] = <<2, e>> BY <3>4, <4>3
        <5>2. Precedes(<<2, a>>, <<2, e>>) BY <3>5, <3>8 DEF Precedes
        <5>3. <<<<2, a>>, <<2, e>>>> \notin Together BY DEF Together
        <5> QED BY <5>1, <5>2, <5>3, <4>2
      <4>4. CASE e \notin DOMAIN result
        <5>1. old[y] = <<1, src2 + 1>> BY <3>4, <4>4
        <5>2. Precedes(<<2, a>>, <<1, src2 + 1>>) BY DEF Precedes
        <5>3. <<<<2, a>>, <<1, src2 + 1>>>> \notin Together
          <6>1. src2 + 1 # src1 /\ src2 + 1 # src2 BY <1>2
          <6> HIDE DEF src1, src2
          <6> QED BY <6>1 DEF Together
        <5> QED BY <5>1, <5>2, <5>3, <4>2
      <4> QED BY <4>3, <4>4
    <3> QED BY <3>6, <3>7, <3>8
  <2>8. \A x \in DOMAIN Kept' : Kept'[x] = <<>> \/ Len(Kept'[x]) # 0
    <3> SUFFICES ASSUME NEW x \in DOMAIN Kept', Kept'[x] # <<>> PROVE Len(Kept'[x]) # 0 OBVIOUS
    <3>1. old[x] \in DOMAIN Kept /\ Kept'[x] = Kept[old[x]] BY <2>5
    <3> HIDE DEF old
    <3> QED BY <3>1, KeptKeys
  <2> HIDE DEF old
  <2>9. OldRuns(Kept, Kept', old, Together) BY <2>5, <2>6, <2>7, <2>8 DEF OldRuns
  <2> QED BY <2>9
<1> QED BY <1>5, <1>6

LEMMA IterationOrdered ==
    ASSUME MatTypes, SortedOK, do_a_merge_iteration, Opening, MayJoin
    PROVE  Ordered(Kept', Source, Together')
<1>1. PICK old : OldRuns(Kept, Kept', old, Together) BY IterationKept
<1> DEFINE all == Kept
           all2 == Kept'
           together2 == Together'
<1>2. OldRuns(all, all2, old, Together) /\ Ordered(all, Source, Together) BY <1>1 DEF SortedOK
<1> HIDE DEF all, all2, together2
<1>3. /\ \A q \in DOMAIN all2 : all2[q] # <<>> => old[q] \in DOMAIN all /\ all2[q] = all[old[q]]
      /\ \A q \in DOMAIN all2 : all2[q] = <<>> \/ Len(all2[q]) # 0
      /\ \A q, u \in DOMAIN all2 : all2[q] # <<>> /\ all2[u] # <<>> /\ Precedes(q, u) =>
               /\ Precedes(old[q], old[u])
               /\ <<q, u>> \notin together2 => <<old[q], old[u]>> \notin Together
      BY <1>2 DEF OldRuns
<1>4. Ordered(all2, Source, together2) BY <1>2, <1>3, OrderedRenamed
<1> QED BY <1>4 DEF all2, together2

LEMMA OpenRunsSorted ==
    ASSUME MatTypes, SortedOK, open_scan, MayJoin
    PROVE  RunsSorted(runs, Source)
<1>1. Opening BY DEF open_scan, Sort
<1>2. Ordered(Kept, Source, Together) BY <1>1 DEF SortedOK
<1>3. \A q \in DOMAIN runs : <<1, q>> \in DOMAIN Kept /\ Kept[<<1, q>>] = runs[q] /\ <<1, q>>[1] = 1 /\ <<1, q>>[2] = q
      BY KeptIs
<1>4. ASSUME NEW q \in DOMAIN runs, NEW n \in 1..Len(runs[q]), NEW m \in 1..Len(runs[q]), n < m
      PROVE  runs[q][n] < runs[q][m]
  <2> DEFINE x == <<1, q>>
  <2>1. x \in DOMAIN Kept /\ Kept[x] = runs[q] BY <1>3
  <2> HIDE DEF x
  <2>2. Kept[x][n] < Kept[x][m] BY <2>1, <1>2, <1>4, OrderedAt
  <2> QED BY <2>1, <2>2
<1>5. ASSUME 2 \in DOMAIN runs, NEW n \in 1..Len(runs[1]), NEW m \in 1..Len(runs[2])
      PROVE  runs[1][n] < runs[2][m] /\ Source[runs[1][n]][JoinField] # Source[runs[2][m]][JoinField]
  <2> DEFINE x == <<1, 1>>
             y == <<1, 2>>
  <2>1. 1 \in DOMAIN runs
    <3>1. DOMAIN runs = 1..Len(runs) BY <1>1, KeptKeys
    <3> QED BY <3>1, <1>5
  <2>2. x \in DOMAIN Kept /\ Kept[x] = runs[1] /\ y \in DOMAIN Kept /\ Kept[y] = runs[2] BY <2>1, <1>3, <1>5
  <2>3. Precedes(x, y) BY DEF Precedes
  <2>4. <<x, y>> \notin Together BY DEF Together
  <2> HIDE DEF x, y
  <2>5. Kept[x][n] < Kept[y][m] /\ Apart(Kept[x][n], Kept[y][m], Source) BY <2>2, <2>3, <2>4, <1>2, <1>5, OrderedAt
  <2> QED BY <2>2, <2>5 DEF Apart
<1> QED BY <1>4, <1>5 DEF RunsSorted

\* A step of a join keeps the runs of its scans.
LEMMA JoinMoves ==
    ASSUME MatTypes, kind = "join", row' # "crash", before_first_rows \/ join_next \/ meet
    PROVE  /\ row # "crash" /\ ~Opening /\ scans = <<scans[1], scans[2]>> /\ scans' = <<scans'[1], scans'[2]>>
           /\ DOMAIN scans = 1..2 /\ DOMAIN scans' = 1..2
           /\ \A j \in 1..2 : scans'[j].runs = scans[j].runs
<1>1. row # "crash" /\ ~Opening
  <2>1. looping \/ (~Opening /\ row # "crash") BY DEF before_first_rows, join_next, meet, Ready
  <2> QED BY <2>1 DEF MatTypes, RequestOK
<1>2. /\ Len(scans) = 2 /\ scans = <<scans[1], scans[2]>> /\ scans \in Seq(ScanSet)
      /\ ScanOK(scans[1], tables[1]) /\ ScanOK(scans[2], tables[2])
      BY <1>1, JoinScans
<1>3. DOMAIN scans = 1..2 BY <1>2
<1>4. ASSUME NEW x, NEW y, scans' = <<x, y>>, x.runs = scans[1].runs, y.runs = scans[2].runs
      PROVE  scans' = <<scans'[1], scans'[2]>> /\ DOMAIN scans' = 1..2 /\ \A j \in 1..2 : scans'[j].runs = scans[j].runs
  <2>1. scans'[1] = x /\ scans'[2] = y /\ DOMAIN scans' = 1..2 BY <1>4
  <2>2. \A j \in 1..2 : j = 1 \/ j = 2 OBVIOUS
  <2> QED BY <1>4, <2>1, <2>2
<1>5. CASE before_first_rows
  <2>1. scans' = [j \in DOMAIN scans |-> BeforeFirst(scans[j])] BY <1>5 DEF before_first_rows
  <2> DEFINE B(j) == BeforeFirst(scans[j])
  <2>2. \A j \in 1..2 : B(j).runs = scans[j].runs
    <3> SUFFICES ASSUME NEW j \in 1..2 PROVE B(j).runs = scans[j].runs OBVIOUS
    <3>1. scans[j] \in ScanSet BY <1>2
    <3> QED BY <3>1 DEF BeforeFirst, ScanSet
  <2> HIDE DEF B
  <2>3. scans' = [j \in 1..2 |-> B(j)] BY <2>1, <1>3 DEF B
  <2>4. scans' = <<B(1), B(2)>> BY <2>3
  <2>5. B(1).runs = scans[1].runs /\ B(2).runs = scans[2].runs BY <2>2
  <2> QED BY <1>1, <1>2, <1>3, <1>4, <2>4, <2>5
<1>6. CASE join_next
  <2> DEFINE r == SortNext(scans[2], tables[2])
             v == SortNext(scans[1], tables[1])
  <2>1. r.ok => ScanOK(r.scan, tables[2]) /\ r.scan.runs = scans[2].runs BY <1>2, SortNextOK
  <2>2. v.ok => v.scan.runs = scans[1].runs BY <1>2, SortNextOK
  <2>3. JoinRight(r) \/ JoinLeft(v, r) \/ JoinOn(v, r) BY <1>6, JoinNextSteps
  <2> HIDE DEF r, v
  <2>4. CASE JoinRight(r) BY <2>1, <2>4, <1>1, <1>2, <1>3, <1>4 DEF JoinRight
  <2>5. CASE JoinLeft(v, r)
    <3> DEFINE y == Restored(r.scan)
    <3>1. r.ok /\ v.ok /\ saved.pos # <<>> /\ scans' = <<v.scan, y>> BY <2>5 DEF JoinLeft
    <3>2. y.runs = scans[2].runs BY <3>1, <2>1, <1>1, RestoredOK
    <3> HIDE DEF y
    <3> QED BY <3>1, <3>2, <2>2, <1>1, <1>2, <1>3, <1>4
  <2>6. CASE JoinOn(v, r) BY <2>1, <2>2, <2>6, <1>1, <1>2, <1>3, <1>4 DEF JoinOn
  <2> QED BY <2>3, <2>4, <2>5, <2>6
<1>7. CASE meet
  <2>1. CASE MeetEnds \/ MeetFound
    <3>1. scans' = scans BY <2>1 DEF MeetEnds, MeetFound
    <3> QED BY <3>1, <1>1, <1>2, <1>3
  <2>2. CASE \E c \in 1..2 : MeetGoesOn(c)
    <3>1. PICK c \in 1..2 : MeetGoesOn(c) BY <2>2
    <3> DEFINE n == SortNext(scans[c], tables[c])
    <3>2. n.ok /\ scans' = [scans EXCEPT ![c] = n.scan] BY <3>1 DEF MeetGoesOn
    <3>3. c = 1 \/ c = 2 OBVIOUS
    <3>4. ScanOK(scans[c], tables[c]) BY <1>2, <3>3
    <3>5. n.scan.runs = scans[c].runs BY <3>2, <3>4, SortNextOK
    <3> HIDE DEF n
    <3>6. DOMAIN scans' = 1..2 /\ \A j \in 1..2 : scans'[j].runs = scans[j].runs BY <3>2, <3>3, <3>5, <1>3
    <3>7. scans' = <<scans'[1], scans'[2]>>
      <4>1. scans' = [<<scans[1], scans[2]>> EXCEPT ![c] = n.scan] BY <3>2, <1>2
      <4>2. CASE c = 1 BY <4>1, <4>2
      <4>3. CASE c = 2 BY <4>1, <4>3
      <4> QED BY <3>3, <4>2, <4>3
    <3> QED BY <3>6, <3>7, <1>1, <1>2, <1>3
  <2> QED BY <1>7, <2>1, <2>2, MeetSteps
<1> QED BY <1>5, <1>6, <1>7

LEMMA SortingStep ==
    ASSUME MatTypes, MatTypes', FieldsOK, SortedOK, ScansSorted, [NextMaterialize]_materializeVars
    PROVE  FieldsOK' /\ SortedOK' /\ ScansSorted' /\ (MayJoin' <=> MayJoin)
<1>1. kind' = kind /\ tables' = tables /\ fields' = fields BY Steps DEF request
<1>2. FieldsOK' /\ (MayJoin' <=> MayJoin) BY <1>1 DEF FieldsOK, MayJoin
<1> SUFFICES ASSUME MayJoin PROVE SortedOK' /\ ScansSorted' BY <1>1, <1>2 DEF SortedOK, ScansSorted
<1>3. kind = "join" BY DEF MayJoin
<1>4. CASE split_into_runs
  <2>1. Sort /\ UNCHANGED <<result, scans, row>> BY <1>4 DEF split_into_runs
  <2>2. Source' = Source BY <2>1, SortKeeps
  <2>3. Together' = Together BY <2>1 DEF Together, src1, src2
  <2>4. Ordered(Kept', Source, Together) BY <1>4, SplitOrdered
  <2>5. SortedOK' BY <2>2, <2>3, <2>4 DEF SortedOK
  <2>6. ScansSorted' BY <1>1, <1>2, <2>1 DEF ScansSorted
  <2> QED BY <2>5, <2>6
<1>5. CASE merge_two_runs
  <2>1. Sort /\ Merging /\ UNCHANGED <<scans, row>> BY <1>5 DEF merge_two_runs, Merging
  <2>2. Source' = Source /\ Opening BY <2>1, SortKeeps
  <2>3. Len(result') = Len(result)
    <3>1. PICK src \in {src1, src2} : copy(src) BY <1>5 DEF merge_two_runs
    <3> QED BY <3>1, <2>1, <2>2, CopiedKept
  <2>4. Together' = Together BY <2>3 DEF Together, src1, src2
  <2>5. Ordered(Kept', Source, Together) BY <1>5, MergeOrdered
  <2>6. SortedOK' BY <2>2, <2>4, <2>5 DEF SortedOK
  <2>7. ScansSorted' BY <1>1, <1>2, <2>1 DEF ScansSorted
  <2> QED BY <2>6, <2>7
<1>6. CASE do_a_merge_iteration
  <2>1. Sort /\ Merging /\ UNCHANGED <<scans, row>> BY <1>6 DEF do_a_merge_iteration, Merging
  <2>2. Source' = Source /\ Opening BY <2>1, SortKeeps
  <2>3. Ordered(Kept', Source, Together') BY <1>6, <2>2, IterationOrdered
  <2>4. SortedOK' BY <2>2, <2>3 DEF SortedOK
  <2>5. ScansSorted' BY <1>1, <1>2, <2>1 DEF ScansSorted
  <2> QED BY <2>4, <2>5
<1>7. CASE open_scan
  <2>1. Opening /\ runs' = <<>> /\ result' = result /\ read = Len(Source) /\ Len(runs) <= 2
        BY <1>7 DEF open_scan, Sort
  <2>2. row # "crash" /\ scans \in Seq(ScanSet) /\ result = <<<<>>>> /\ runs \in Seq(Seq(Nat))
        BY <2>1 DEF MatTypes, ScansOK, SortOK, Opening
  <2>3. SortedOK'
    <3>1. DOMAIN Kept' = {<<2, 1>>} /\ Kept'[<<2, 1>>] = <<>>
      <4>1. DOMAIN result' = {1} /\ result'[1] = <<>> /\ DOMAIN runs' = {} BY <2>1, <2>2
      <4>2. DOMAIN Kept' = {<<2, 1>>} BY <4>1 DEF Kept
      <4>3. Kept'[<<2, 1>>] = result'[1] BY <4>2 DEF Kept
      <4> QED BY <4>1, <4>2, <4>3
    <3> HIDE DEF Kept
    <3>2. \A x \in DOMAIN Kept' : 1..Len(Kept'[x]) = {} BY <3>1
    <3>3. Ordered(Kept', Source', Together') BY <3>2 DEF Ordered
    <3> QED BY <3>3 DEF SortedOK
  <2>4. ScansSorted'
    <3> SUFFICES ASSUME row' # "crash" PROVE \A j \in DOMAIN scans' : RunsSorted(scans'[j].runs, tables[j])
        BY <1>1 DEF ScansSorted
    <3>1. runs # <<>> BY <1>7 DEF open_scan
    <3>2. PICK rhs \in BOOLEAN :
             scans' = Append(scans, BeforeFirst([runs |-> runs, pos |-> <<>>, curr |-> 0, more |-> <<rhs, rhs>>]))
          BY <1>7, <3>1 DEF open_scan
    <3> DEFINE s0 == [runs |-> runs, pos |-> <<>>, curr |-> 0, more |-> <<rhs, rhs>>]
               s == BeforeFirst(s0)
               c == Len(scans) + 1
    <3>3. s0 \in ScanSet /\ s0.runs = runs
      <4>1. <<rhs, rhs>> \in [1..2 -> BOOLEAN] OBVIOUS
      <4>2. <<>> \in Seq(Nat) OBVIOUS
      <4> QED BY <4>1, <4>2, <2>2 DEF ScanSet
    <3>4. scans' = Append(scans, s) BY <3>2
    <3>5. s.runs = runs /\ s = s
      <4> HIDE DEF s0
      <4> QED BY <3>3 DEF BeforeFirst, ScanSet
    <3> HIDE DEF s, s0
    <3>6. DOMAIN scans' = DOMAIN scans \cup {c} /\ scans'[c] = s /\ \A j \in DOMAIN scans : scans'[j] = scans[j]
          BY <3>4, <2>2
    <3>7. RunsSorted(s.runs, tables[c]) BY <1>7, <3>5, OpenRunsSorted DEF Source
    <3>8. \A j \in DOMAIN scans : RunsSorted(scans[j].runs, tables[j]) BY <2>2 DEF ScansSorted
    <3> HIDE DEF c
    <3> QED BY <3>6, <3>7, <3>8
  <2> QED BY <2>3, <2>4
<1>8. CASE before_first_rows \/ join_next \/ meet
  <2>1. ~Opening'
    <3>1. Opening' => by' = "new" /\ ~looping' BY DEF MatTypes, RequestOK
    <3>2. CASE before_first_rows BY <3>1, <3>2 DEF before_first_rows
    <3>3. CASE join_next \/ meet
      <4> SUFFICES ASSUME row' # "crash" PROVE ~Opening' BY DEF Opening
      <4>1. DOMAIN scans' = 1..2 /\ scans' = <<scans'[1], scans'[2]>> BY <1>3, <3>3, JoinMoves
      <4>2. Len(scans') = 2 BY <4>1
      <4>3. Len(tables') = 2 BY <1>1, <1>3 DEF MatTypes, RequestOK
      <4> QED BY <4>2, <4>3 DEF Opening
    <3> QED BY <1>8, <3>2, <3>3
  <2>2. SortedOK' BY <2>1 DEF SortedOK
  <2>3. ScansSorted'
    <3> SUFFICES ASSUME row' # "crash" PROVE \A j \in DOMAIN scans' : RunsSorted(scans'[j].runs, tables[j])
        BY <1>1 DEF ScansSorted
    <3>1. /\ row # "crash" /\ DOMAIN scans = 1..2 /\ DOMAIN scans' = 1..2
          /\ \A j \in 1..2 : scans'[j].runs = scans[j].runs
          BY <1>3, <1>8, JoinMoves
    <3> QED BY <3>1 DEF ScansSorted
  <2> QED BY <2>2, <2>3
<1>9. CASE UNCHANGED materializeVars
  <2>1. /\ UNCHANGED <<kind, tables, scans, row, runs, result>>
        BY <1>9 DEF materializeVars, request, sortState, scanState, returnedRows
  <2>2. Opening' = Opening /\ Source' = Source /\ Together' = Together /\ Kept' = Kept
        BY <2>1 DEF Opening, Source, Together, Kept, src1, src2
  <2> QED BY <1>2, <2>1, <2>2 DEF SortedOK, ScansSorted
<1>10. ~(sort_next \/ group_next \/ gather \/ before_first_index \/ index_next)
       BY <1>3 DEF sort_next, group_next, gather, before_first_index, index_next, Ready
<1> QED BY <1>4, <1>5, <1>6, <1>7, <1>8, <1>9, <1>10 DEF NextMaterialize

\* Where the scans of a join are: before the first records, at a pair, or looking for one.
LeftOK ==
    MayJoin /\ row # "crash" /\ by # "new" =>
        /\ Going(scans[1]) \/ Ended(scans[1])
        /\ row = "none" /\ ~looping => scans[1].curr = 0 /\ scans[2].curr = 0 /\ Going(scans[1]) /\ Going(scans[2])
        /\ looping => (has_more[1] <=> Going(scans[1])) /\ (has_more[1] => scans[1].curr # 0)
        /\ row = "row" /\ ~looping => Going(scans[1]) /\ scans[1].curr # 0

\* No position has been saved before the first pass.
Started == kind = "join" /\ row # "crash" /\ by = "new" => ~looping /\ saved.pos = <<>>

\* What a join begins with and goes on with.
Joins == MatTypes /\ FieldsOK /\ ScansSorted /\ MayJoin /\ Started /\ row # "crash" /\ ~Opening

LEMMA StartedStep ==
    ASSUME MatTypes, MatTypes', Started, [NextMaterialize]_materializeVars
    PROVE  Started'
<1> SUFFICES ASSUME kind' = "join", row' # "crash", by' = "new" PROVE ~looping' /\ saved'.pos = <<>> BY DEF Started
<1>1. kind = "join" BY Steps DEF request
<1>2. ASSUME Sort PROVE ~looping' /\ saved'.pos = <<>>
  <2>1. looping' = looping /\ saved' = saved BY <1>2 DEF Sort, loopState
  <2> QED BY <1>2, <2>1 DEF Sort, MatTypes, RequestOK
<1>4. CASE before_first_rows BY <1>4 DEF before_first_rows
<1>5. CASE join_next
  <2> DEFINE r == SortNext(scans[2], tables[2])
             v == SortNext(scans[1], tables[1])
  <2>1. by # "new" BY <1>5 DEF join_next
  <2>2. JoinRight(r) \/ JoinLeft(v, r) \/ JoinOn(v, r) BY <1>5, JoinNextSteps
  <2> HIDE DEF r, v
  <2>3. JoinRight(r) => by' = "right" BY PairRows DEF JoinRight
  <2>4. JoinLeft(v, r) => by' = "left"
    <3> DEFINE y == Restored(r.scan)
    <3> SUFFICES ASSUME Pair(v.scan, y, "left") PROVE by' = "left" BY DEF JoinLeft
    <3> HIDE DEF y
    <3> QED BY PairRows
  <2> QED BY <2>1, <2>2, <2>3, <2>4 DEF JoinOn, returnedRows
<1>6. CASE meet
  <2>1. looping /\ by # "new" BY <1>1, <1>6 DEF meet, Started, MatTypes, RequestOK
  <2>2. MeetEnds => by' = "meet" BY DEF MeetEnds, Returns
  <2>3. MeetFound => by' = "meet" BY PairRows DEF MeetFound
  <2>4. \A c \in 1..2 : MeetGoesOn(c) => by' = by BY DEF MeetGoesOn, returnedRows
  <2> QED BY <1>6, <2>1, <2>2, <2>3, <2>4, MeetSteps
<1>7. CASE UNCHANGED materializeVars
  <2>1. UNCHANGED <<looping, by, row, saved>> BY <1>7 DEF materializeVars, loopState, returnedRows, scanState
  <2> QED BY <1>1, <2>1 DEF Started
<1>8. ~(sort_next \/ group_next \/ gather \/ before_first_index \/ index_next)
      BY <1>1 DEF sort_next, group_next, gather, before_first_index, index_next, Ready
<1>9. split_into_runs \/ merge_two_runs \/ do_a_merge_iteration \/ open_scan => Sort
      BY DEF split_into_runs, merge_two_runs, do_a_merge_iteration, open_scan, Merging
<1> QED BY <1>2, <1>4, <1>5, <1>6, <1>7, <1>8, <1>9 DEF NextMaterialize

LEMMA JoinFacts ==
    ASSUME Joins
    PROVE  /\ kind = "join" /\ fields = {JoinField} /\ scans = <<scans[1], scans[2]>>
           /\ ScanOK(scans[1], tables[1]) /\ RunsSorted(scans[1].runs, tables[1]) /\ tables[1] \in Seq(Records)
           /\ ScanOK(scans[2], tables[2]) /\ RunsSorted(scans[2].runs, tables[2]) /\ tables[2] \in Seq(Records)
           /\ has_more \in Seq(BOOLEAN) /\ Len(has_more) = 2 /\ m_join_val \in Nat
<1>1. kind = "join" /\ fields = {JoinField} /\ MatTypes /\ row # "crash" /\ ~Opening BY DEF Joins, MayJoin, FieldsOK
<1>2. /\ Len(scans) = 2 /\ scans = <<scans[1], scans[2]>>
      /\ ScanOK(scans[1], tables[1]) /\ ScanOK(scans[2], tables[2])
      /\ tables[1] \in Seq(Records) /\ tables[2] \in Seq(Records)
      BY <1>1, JoinScans
<1>3. DOMAIN scans = 1..2 BY <1>2
<1>4. RunsSorted(scans[1].runs, tables[1]) /\ RunsSorted(scans[2].runs, tables[2]) BY <1>3 DEF Joins, ScansSorted
<1> QED BY <1>1, <1>2, <1>4 DEF MatTypes, RequestOK

LEMMA NotBoth ==
    ASSUME NEW s, NEW tab, ScanOK(s, tab)
    PROVE  /\ ~(Going(s) /\ Ended(s))
           /\ Ended(s) => ~Readable(s, s.curr)
           /\ Readable(s, s.curr) => s.curr # 0
           /\ Going(s) /\ s.curr # 0 => Readable(s, s.curr)
<1>1. Len(s.runs) \in 1..2 /\ DOMAIN s.runs = 1..Len(s.runs) /\ s.curr \in 0..Len(s.runs) BY DEF ScanOK, ScanSet
<1>2. 1 \in DOMAIN s.runs
  <2> DEFINE e == Len(s.runs)
  <2>1. e \in 1..2 /\ DOMAIN s.runs = 1..e BY <1>1
  <2> HIDE DEF e
  <2>2. 1 \in 1..e BY <2>1
  <2> QED BY <2>1, <2>2
<1>3. s.curr # 0 => s.curr \in DOMAIN s.runs BY <1>1
<1>4. 0 \notin DOMAIN s.runs BY <1>1
<1>5. ~(Going(s) /\ Ended(s)) BY <1>2 DEF Going, Ended
<1>6. Ended(s) => ~Readable(s, s.curr) BY DEF Ended, Readable
<1>7. Readable(s, s.curr) => s.curr # 0 BY <1>4 DEF Readable
<1>8. Going(s) /\ s.curr # 0 => Readable(s, s.curr) BY <1>3 DEF Going, Readable
<1> QED BY <1>5, <1>6, <1>7, <1>8

LEMMA Moves ==
    ASSUME fields = {JoinField}, NEW tab \in Seq(Records), NEW s, ScanOK(s, tab), RunsSorted(s.runs, tab),
           Going(s) \/ Ended(s), NEW n, n = SortNext(s, tab), n.ok
    PROVE  /\ n.found <=> Going(n.scan)
           /\ n.found \/ Ended(n.scan)
           /\ n.found => n.scan.curr # 0
           /\ n.found \in BOOLEAN
<1>1. ScanOK(n.scan, tab) /\ n.found \in BOOLEAN BY SortNextOK
<1>2. CASE Going(s)
  <2>1. /\ n.found => Going(n.scan) /\ n.scan.curr # 0
        /\ ~n.found => Ended(n.scan)
        BY <1>2, GoingNext
  <2> QED BY <2>1, <1>1, NotBoth
<1>3. CASE Ended(s)
  <2>1. n.found /\ Going(n.scan) /\ n.scan.curr = Len(s.runs) BY <1>3, EndedNext
  <2>2. Len(s.runs) # 0
    <3>1. Len(s.runs) \in 1..2 BY DEF ScanOK
    <3> DEFINE e == Len(s.runs)
    <3> HIDE DEF e
    <3>2. e \in 1..2 BY <3>1 DEF e
    <3>3. e # 0 BY <3>2
    <3> QED BY <3>3 DEF e
  <2> QED BY <2>1, <2>2, <1>1
<1> QED BY <1>2, <1>3

LEMMA BeginsAgain ==
    ASSUME Joins, before_first_rows
    PROVE  /\ row' = "none" /\ by' = "open" /\ looping' = FALSE /\ whole' /\ out' = <<>> /\ UNCHANGED <<m_join_val, saved>>
           /\ scans'[1].curr = 0 /\ scans'[2].curr = 0 /\ Going(scans'[1]) /\ Going(scans'[2])
<1>1. kind = "join" /\ ScanOK(scans[1], tables[1]) /\ ScanOK(scans[2], tables[2]) /\ scans = <<scans[1], scans[2]>> BY JoinFacts
<1>2. /\ scans' = [j \in DOMAIN scans |-> BeforeFirst(scans[j])] /\ row' = "none" /\ by' = "open" /\ whole' /\ out' = <<>>
      /\ UNCHANGED <<m_join_val, saved, looping>>
      BY <1>1 DEF before_first_rows, loopState
<1>3. looping = FALSE BY DEF before_first_rows, Ready, Joins, MatTypes, RequestOK
<1>4. DOMAIN scans = 1..2 BY <1>1
<1> DEFINE B(j) == BeforeFirst(scans[j])
<1>5. scans'[1] = B(1) /\ scans'[2] = B(2) BY <1>2, <1>4
<1>6. ASSUME NEW s, NEW tab, ScanOK(s, tab) PROVE BeforeFirst(s).curr = 0 /\ Going(BeforeFirst(s))
  <2>1. /\ s \in ScanSet /\ Len(s.runs) \in 1..2 /\ Each(s.runs, DOMAIN tab)
        /\ \A q \in DOMAIN s.runs : s.runs[q] # <<>>
        BY <1>6 DEF ScanOK
  <2> DEFINE t == BeforeFirst(s)
  <2>2. t.runs = s.runs /\ t.curr = 0 /\ \A q \in DOMAIN s.runs : t.pos[q] = 1 /\ t.more[q]
        BY <2>1, BeforeFirstOK
  <2> HIDE DEF t
  <2>3. Going(t) BY <2>2 DEF Going
  <2> QED BY <2>2, <2>3 DEF t
<1>7. B(1).curr = 0 /\ Going(B(1)) /\ B(2).curr = 0 /\ Going(B(2)) BY <1>1, <1>6
<1> QED BY <1>2, <1>3, <1>5, <1>7

LEMMA LeftStep ==
    ASSUME Joins, LeftOK, row' # "crash", before_first_rows \/ join_next \/ meet
    PROVE  /\ Going(scans'[1]) \/ Ended(scans'[1])
           /\ row' = "none" /\ ~looping' =>
                scans'[1].curr = 0 /\ scans'[2].curr = 0 /\ Going(scans'[1]) /\ Going(scans'[2])
           /\ looping' => (has_more'[1] <=> Going(scans'[1])) /\ (has_more'[1] => scans'[1].curr # 0)
           /\ row' = "row" /\ ~looping' => Going(scans'[1]) /\ scans'[1].curr # 0
<1> DEFINE S == tables[1]
           T == tables[2]
<1>1. /\ kind = "join" /\ fields = {JoinField} /\ scans = <<scans[1], scans[2]>>
      /\ ScanOK(scans[1], S) /\ RunsSorted(scans[1].runs, S) /\ S \in Seq(Records)
      /\ ScanOK(scans[2], T) /\ RunsSorted(scans[2].runs, T) /\ T \in Seq(Records)
      /\ has_more \in Seq(BOOLEAN) /\ Len(has_more) = 2
      BY JoinFacts
<1>2. CASE before_first_rows BY <1>2, BeginsAgain
<1>3. ASSUME join_next \/ meet PROVE by # "new"
  <2>1. join_next => by # "new" BY DEF join_next
  <2>2. meet => looping BY DEF meet
  <2>3. looping => by # "new" BY DEF Joins, MayJoin, Started
  <2> QED BY <1>3, <2>1, <2>2, <2>3
<1>4. CASE join_next
  <2> DEFINE r == SortNext(scans[2], T)
             v == SortNext(scans[1], S)
  <2>1. Going(scans[1]) \/ Ended(scans[1]) BY <1>3, <1>4 DEF LeftOK, Joins
  <2>2. v.ok => /\ v.found <=> Going(v.scan)
                /\ v.found \/ Ended(v.scan)
                /\ v.found => v.scan.curr # 0
        BY <2>1, <1>1, Moves
  <2>3. JoinRight(r) \/ JoinLeft(v, r) \/ JoinOn(v, r) BY <1>4, JoinNextSteps
  <2> HIDE DEF r, v
  <2>4. CASE JoinRight(r)
    <3>1. Pair(scans[1], r.scan, "right") /\ scans' = <<scans[1], r.scan>> BY <2>4 DEF JoinRight
    <3>2. Readable(scans[1], scans[1].curr) /\ row' = "row" /\ looping' = FALSE BY <3>1, PairRows
    <3>3. Going(scans[1]) /\ scans[1].curr # 0 BY <2>1, <3>2, <1>1, NotBoth
    <3> QED BY <3>1, <3>2, <3>3
  <2>5. CASE JoinLeft(v, r)
    <3> DEFINE y == Restored(r.scan)
    <3>1. Pair(v.scan, y, "left") /\ scans' = <<v.scan, y>> /\ v.ok /\ v.found BY <2>5 DEF JoinLeft, Has
    <3> HIDE DEF y
    <3>2. row' = "row" /\ looping' = FALSE BY <3>1, PairRows
    <3> QED BY <2>2, <3>1, <3>2
  <2>6. CASE JoinOn(v, r)
    <3>1. v.ok /\ scans' = <<v.scan, r.scan>> /\ has_more' = <<v.found, r.found>> /\ looping' = TRUE BY <2>6 DEF JoinOn
    <3> QED BY <2>2, <3>1
  <2> QED BY <2>3, <2>4, <2>5, <2>6
<1>5. CASE meet
  <2>1. /\ looping /\ by # "new" BY <1>3, <1>5 DEF meet
  <2>2. /\ Going(scans[1]) \/ Ended(scans[1])
        /\ (has_more[1] <=> Going(scans[1])) /\ (has_more[1] => scans[1].curr # 0)
        BY <2>1 DEF LeftOK, Joins
  <2>3. CASE MeetEnds
    <3>1. Returns(<<>>, "end", "meet") /\ scans' = scans BY <2>3 DEF MeetEnds
    <3>2. row' = "end" /\ looping' = FALSE BY <3>1, ReturnsRows
    <3> QED BY <2>2, <3>1, <3>2
  <2>4. CASE MeetFound
    <3>1. Pair(scans[1], scans[2], "meet") /\ scans' = scans /\ has_more[1] BY <2>4 DEF MeetFound
    <3>2. row' = "row" /\ looping' = FALSE BY <3>1, PairRows
    <3> QED BY <2>2, <3>1, <3>2
  <2>5. CASE MeetGoesOn(1)
    <3> DEFINE n == SortNext(scans[1], S)
    <3>1. n.ok /\ scans' = [scans EXCEPT ![1] = n.scan] /\ has_more' = [has_more EXCEPT ![1] = n.found] /\ looping' = looping
          BY <2>5 DEF MeetGoesOn
    <3>2. /\ n.found <=> Going(n.scan)
          /\ n.found \/ Ended(n.scan)
          /\ n.found => n.scan.curr # 0
          BY <2>2, <3>1, <1>1, Moves
    <3> HIDE DEF n
    <3>3. scans'[1] = n.scan /\ has_more'[1] = n.found
      <4>1. 1 \in DOMAIN scans /\ 1 \in DOMAIN has_more BY <1>1
      <4> QED BY <3>1, <4>1
    <3> QED BY <3>1, <3>2, <3>3, <2>1
  <2>6. CASE MeetGoesOn(2)
    <3>1. /\ scans' = [scans EXCEPT ![2] = SortNext(scans[2], T).scan]
          /\ has_more' = [has_more EXCEPT ![2] = SortNext(scans[2], T).found] /\ looping' = looping
          BY <2>6 DEF MeetGoesOn
    <3>2. scans'[1] = scans[1] /\ has_more'[1] = has_more[1]
      <4>1. 1 \in DOMAIN scans /\ 1 \in DOMAIN has_more BY <1>1
      <4> QED BY <3>1, <4>1
    <3> QED BY <3>1, <3>2, <2>1, <2>2
  <2>7. \A c \in 1..2 : c = 1 \/ c = 2 OBVIOUS
  <2> QED BY <1>5, <2>3, <2>4, <2>5, <2>6, <2>7, MeetSteps
<1> QED BY <1>2, <1>4, <1>5

\* The right scan of a join, of two runs: where it is taken back to the second run, and where
\* its position has been saved, the first run is not at a value before the first of the left.
FirstVal == tables[1][1][JoinField]
NotBefore(p, s) == p > 0 => FirstVal <= tables[2][s.runs[1][p]][JoinField]
TakenAt(s, sv) ==
    /\ Len(s.runs) = 1 => sv.pos = <<>>
    /\ Len(s.runs) = 2 /\ sv.pos # <<>> => NotBefore(sv.pos[1], s)
    /\ Len(s.runs) = 2 /\ s.curr = 2 => NotBefore(s.pos[1], s) /\ ~s.more[1]
    /\ Len(s.runs) = 2 /\ s.curr = 0 => Going(s)
TakenOK == MayJoin /\ row # "crash" /\ by # "new" => TakenAt(scans[2], saved)

LEMMA SecondRun ==
    ASSUME fields = {JoinField}, NEW tab \in Seq(Records), NEW s, ScanOK(s, tab), RunsSorted(s.runs, tab),
           Len(s.runs) = 2, s.curr = 0 => Going(s), s.curr = 2 => ~s.more[1], NEW n, n = SortNext(s, tab), n.ok
    PROVE  /\ n.scan.curr # 0
           /\ n.scan.curr = 2 => ~n.scan.more[1]
           /\ n.scan.curr = 2 => n.scan.pos[1] = 0 \/ (s.curr = 2 /\ n.scan.pos[1] = s.pos[1])
<1> DEFINE t == n.scan
           rs == s.runs
<1>1. /\ ScanOK(t, tab) /\ t.runs = rs /\ AfterMove(s, s.curr, t)
      /\ n.found <=> t.more[1] \/ t.more[2]
      /\ n.found => t.curr = (IF t.more[1] THEN 1 ELSE 2)
      /\ ~n.found => t.curr = s.curr
      BY SortNextIs
<1>2. DOMAIN rs = {1, 2} /\ s.curr \in 0..2 /\ s.pos \in Seq(Nat) /\ t.pos \in Seq(Nat) /\ Len(s.pos) = 2 /\ Len(t.pos) = 2
      BY <1>1 DEF ScanOK, ScanSet
<1> HIDE DEF t, rs
<1>3. s.curr = 0 => t.more[1]
  <2> SUFFICES ASSUME s.curr = 0 PROVE t.more[1] OBVIOUS
  <2>1. s.more[1] BY <1>2 DEF Going, rs
  <2> QED BY <1>1, <2>1 DEF AfterMove
<1>4. t.curr # 0 BY <1>1, <1>3
<1>5. t.curr = 2 => ~t.more[1]
  <2>1. t.curr = 2 /\ n.found => ~t.more[1] BY <1>1
  <2> QED BY <1>1, <2>1
<1>6. ASSUME t.curr = 2 PROVE t.pos[1] = 0 \/ (s.curr = 2 /\ t.pos[1] = s.pos[1])
  <2>1. ~t.more[1] BY <1>5, <1>6
  <2>2. s.curr # 0 BY <1>3, <2>1
  <2>3. CASE s.curr = 1
    <3>1. t.more[1] <=> t.pos[1] > 0 BY <1>1, <2>3 DEF AfterMove
    <3>2. t.pos[1] \in Nat BY <1>2
    <3> QED BY <2>1, <3>1, <3>2
  <2>4. CASE s.curr = 2
    <3>1. 1 \in DOMAIN s.runs BY <1>2 DEF rs
    <3>2. t.pos[1] = s.pos[1] BY <1>1, <2>4, <3>1 DEF AfterMove
    <3> QED BY <2>4, <3>2
  <2> QED BY <1>2, <2>2, <2>3, <2>4
<1> QED BY <1>4, <1>5, <1>6 DEF t

LEMMA FirstIsLeast ==
    ASSUME NEW tab \in Seq(Records), Increasing(tab), NEW c \in DOMAIN tab
    PROVE  /\ 1 \in DOMAIN tab /\ tab[1][JoinField] \in Nat /\ tab[c][JoinField] \in Nat
           /\ tab[1][JoinField] <= tab[c][JoinField]
           /\ tab[1][JoinField] = tab[c][JoinField] => c = 1
<1>1. DOMAIN tab = 1..Len(tab) /\ Len(tab) \in Nat OBVIOUS
<1>2. 1 \in DOMAIN tab /\ c \in Nat /\ (c = 1 \/ 1 < c) BY <1>1
<1>3. tab[1] \in Records /\ tab[c] \in Records BY <1>2
<1>4. tab[1][JoinField] \in Nat /\ tab[c][JoinField] \in Nat BY <1>3, MaterializeAssumption
<1>5. 1 < c => tab[1][JoinField] < tab[c][JoinField] BY <1>2 DEF Increasing
<1> QED BY <1>2, <1>4, <1>5

LEMMA TakenMove ==
    ASSUME Joins, TakenAt(scans[2], saved), NEW n, n = SortNext(scans[2], tables[2]), n.ok
    PROVE  TakenAt(n.scan, saved) /\ n.scan.runs = scans[2].runs
<1> DEFINE s == scans[2]
           t == n.scan
<1>1. /\ fields = {JoinField} /\ ScanOK(s, tables[2]) /\ RunsSorted(s.runs, tables[2]) /\ tables[2] \in Seq(Records)
      BY JoinFacts
<1>2. t.runs = s.runs BY <1>1, SortNextOK
<1>3. Len(s.runs) = 2 =>
        /\ t.curr # 0
        /\ t.curr = 2 => ~t.more[1]
        /\ t.curr = 2 => t.pos[1] = 0 \/ (s.curr = 2 /\ t.pos[1] = s.pos[1])
  <2> HIDE DEF s
  <2>1. TakenAt(s, saved) /\ n = SortNext(s, tables[2]) BY DEF s
  <2> SUFFICES ASSUME Len(s.runs) = 2 PROVE /\ t.curr # 0
                                            /\ t.curr = 2 => ~t.more[1]
                                            /\ t.curr = 2 => t.pos[1] = 0 \/ (s.curr = 2 /\ t.pos[1] = s.pos[1])
      OBVIOUS
  <2>2. (s.curr = 0 => Going(s)) /\ (s.curr = 2 => ~s.more[1]) BY <2>1 DEF TakenAt
  <2> QED BY <1>1, <2>1, <2>2, SecondRun
<1> HIDE DEF s, t
<1>4. TakenAt(s, saved) BY DEF s
<1>5. ASSUME NEW p PROVE NotBefore(p, t) <=> NotBefore(p, s) BY <1>2 DEF NotBefore
<1>6. NotBefore(0, t) BY DEF NotBefore
<1>7. ASSUME Len(t.runs) = 2, t.curr = 2 PROVE NotBefore(t.pos[1], t) /\ ~t.more[1]
  <2>1. Len(s.runs) = 2 BY <1>2, <1>7
  <2>2. ~t.more[1] /\ (t.pos[1] = 0 \/ (s.curr = 2 /\ t.pos[1] = s.pos[1])) BY <1>3, <1>7, <2>1
  <2>3. s.curr = 2 => NotBefore(s.pos[1], t) BY <1>4, <1>5, <2>1 DEF TakenAt
  <2> QED BY <1>6, <2>2, <2>3
<1>8. TakenAt(t, saved)
  <2>1. Len(t.runs) = 1 => saved.pos = <<>> BY <1>2, <1>4 DEF TakenAt
  <2>2. Len(t.runs) = 2 /\ saved.pos # <<>> => NotBefore(saved.pos[1], t) BY <1>2, <1>4, <1>5 DEF TakenAt
  <2>3. Len(t.runs) = 2 => t.curr # 0 BY <1>2, <1>3
  <2> QED BY <1>7, <2>1, <2>2, <2>3 DEF TakenAt
<1> QED BY <1>2, <1>8 DEF s, t

LEMMA TakenStep ==
    ASSUME Joins, LeftOK, TakenOK, row' # "crash", before_first_rows \/ join_next \/ meet, tables' = tables
    PROVE  TakenAt(scans[2], saved)'
<1> DEFINE S == tables[1]
           T == tables[2]
           s == scans[2]
<1>1. /\ kind = "join" /\ fields = {JoinField} /\ scans = <<scans[1], s>>
      /\ ScanOK(scans[1], S) /\ RunsSorted(scans[1].runs, S) /\ S \in Seq(Records)
      /\ ScanOK(s, T) /\ RunsSorted(s.runs, T) /\ T \in Seq(Records)
      /\ has_more \in Seq(BOOLEAN) /\ Len(has_more) = 2
      BY JoinFacts
<1>2. MatTypes /\ row # "crash" /\ MayJoin /\ Started /\ Increasing(S) BY DEF Joins, MayJoin
<1>3. Len(s.runs) \in 1..2 BY <1>1 DEF ScanOK
<1> HIDE DEF s
<1>4. ASSUME NEW t, NEW sv, TakenAt(t, sv), scans'[2] = t, saved' = sv PROVE TakenAt(scans[2], saved)'
      BY <1>4 DEF TakenAt, NotBefore, FirstVal, Going
<1>5. CASE before_first_rows
  <2>1. saved' = saved /\ scans'[2].curr = 0 /\ Going(scans'[2]) BY <1>5, BeginsAgain
  <2>2. scans'[2].runs = s.runs BY <1>1, <1>2, <1>5, JoinMoves DEF s
  <2>3. by # "new" => TakenAt(s, saved) BY <1>2 DEF TakenOK, s
  <2>4. by = "new" => saved.pos = <<>> BY <1>1, <1>2 DEF Started
  <2> DEFINE t == scans'[2]
  <2> HIDE DEF t
  <2>5. t.runs = s.runs /\ t.curr = 0 /\ Going(t) BY <2>1, <2>2 DEF t
  <2>6. TakenAt(t, saved) BY <2>3, <2>4, <2>5 DEF TakenAt, NotBefore
  <2> QED BY <1>4, <2>1, <2>6 DEF t
<1>6. ASSUME join_next \/ meet PROVE TakenAt(s, saved)
  <2>1. join_next => by # "new" BY DEF join_next
  <2>2. meet => by # "new" BY <1>1, <1>2 DEF meet, Started
  <2> QED BY <1>2, <1>6, <2>1, <2>2 DEF TakenOK, s
<1>7. CASE join_next
  <2> DEFINE r == SortNext(s, T)
             v == SortNext(scans[1], S)
  <2>1. JoinRight(r) \/ JoinLeft(v, r) \/ JoinOn(v, r) BY <1>7, JoinNextSteps DEF s
  <2>2. r.ok => TakenAt(r.scan, saved) /\ r.scan.runs = s.runs BY <1>6, <1>7, TakenMove DEF s
  <2>3. r.ok => ScanOK(r.scan, T) BY <1>1, SortNextOK
  <2> HIDE DEF r, v
  <2>4. CASE JoinRight(r)
    <3>1. r.ok /\ scans'[2] = r.scan /\ saved' = saved BY <2>4 DEF JoinRight
    <3> QED BY <1>4, <2>2, <3>1
  <2>5. CASE JoinOn(v, r)
    <3>1. r.ok /\ scans'[2] = r.scan /\ saved' = saved BY <2>5 DEF JoinOn
    <3> QED BY <1>4, <2>2, <3>1
  <2>6. CASE JoinLeft(v, r)
    <3> DEFINE y == Restored(r.scan)
    <3>1. r.ok /\ scans'[2] = y /\ saved' = saved /\ saved.pos # <<>> BY <2>6 DEF JoinLeft
    <3>2. y.runs = r.scan.runs /\ y.curr = r.scan.curr /\ y.pos = saved.pos /\ y.more = r.scan.more
      <4>1. r.scan \in ScanSet BY <2>3, <3>1 DEF ScanOK
      <4> DEFINE z == r.scan
      <4> HIDE DEF z
      <4>2. z \in ScanSet /\ y = [z EXCEPT !.pos = saved.pos] BY <4>1 DEF z, Restored
      <4> HIDE DEF y
      <4>3. y.runs = z.runs /\ y.curr = z.curr /\ y.pos = saved.pos /\ y.more = z.more BY <4>2 DEF ScanSet
      <4> QED BY <4>3 DEF z
    <3> HIDE DEF y
    <3>3. TakenAt(r.scan, saved) /\ r.scan.runs = s.runs BY <2>2, <3>1
    <3>4. Len(s.runs) = 2 => y.curr # 0
      <4>1. Len(s.runs) = 2 => r.scan.curr # 0 BY <1>1, <1>6, <1>7, <3>1, SecondRun DEF TakenAt, r
      <4> QED BY <3>2, <4>1
    <3>5. TakenAt(y, saved)
      <4> DEFINE z == r.scan
      <4>1. TakenAt(z, saved) /\ z.runs = s.runs /\ y.runs = s.runs /\ y.curr = z.curr /\ y.pos = saved.pos /\ y.more = z.more
            BY <3>2, <3>3
      <4> HIDE DEF z
      <4>2. ASSUME NEW p PROVE NotBefore(p, y) <=> NotBefore(p, z) BY <4>1 DEF NotBefore
      <4>3. Len(y.runs) = 2 => NotBefore(saved.pos[1], y) BY <3>1, <4>1, <4>2 DEF TakenAt
      <4>4. Len(y.runs) = 2 /\ y.curr = 2 => ~y.more[1] BY <4>1 DEF TakenAt
      <4>5. Len(y.runs) # 1 BY <3>1, <4>1 DEF TakenAt
      <4> QED BY <3>4, <4>1, <4>3, <4>4, <4>5 DEF TakenAt
    <3> QED BY <1>4, <3>1, <3>5
  <2> QED BY <2>1, <2>4, <2>5, <2>6
<1>8. CASE meet
  <2>1. CASE MeetEnds
    <3>1. scans' = scans /\ saved' = saved BY <2>1 DEF MeetEnds
    <3> QED BY <1>4, <1>6, <1>8, <3>1 DEF s
  <2>2. CASE MeetFound
    <3>1. /\ scans' = scans /\ saved' = [pos |-> s.pos, curr |-> s.curr] /\ Len(s.runs) # 1
          /\ ValueAt(1, scans[1]) = ValueAt(2, s) /\ Pair(scans[1], s, "meet")
          BY <2>2 DEF MeetFound, s
    <3>2. Readable(scans[1], scans[1].curr) /\ Readable(s, s.curr) BY <3>1, PairRows
    <3>3. Current(scans[1]) \in DOMAIN S BY <1>1, <3>2, CurrentOf
    <3>4. FirstVal <= ValueAt(2, s) BY <1>1, <1>2, <3>1, <3>3, FirstIsLeast DEF FirstVal, ValueAt
    <3>5. s.curr = 1 \/ s.curr = 2
      <4>1. s.curr \in DOMAIN s.runs /\ DOMAIN s.runs = 1..Len(s.runs) BY <1>1, <3>2 DEF Readable, ScanOK, ScanSet
      <4> DEFINE e == Len(s.runs)
      <4>2. e \in 1..2 /\ s.curr \in 1..e BY <1>3, <4>1
      <4> HIDE DEF e
      <4> QED BY <4>2
    <3>6. NotBefore(s.pos[1], s)
      <4>1. CASE s.curr = 1 BY <3>4, <4>1 DEF NotBefore, ValueAt, Current
      <4>2. CASE s.curr = 2
        <5>1. Len(s.runs) = 2
          <6> DEFINE e == Len(s.runs)
          <6>1. e \in 1..2 /\ e # 1 BY <1>3, <3>1
          <6> HIDE DEF e
          <6>2. e = 2 BY <6>1
          <6> QED BY <6>2 DEF e
        <5> QED BY <1>6, <1>8, <4>2, <5>1 DEF TakenAt
      <4> QED BY <3>5, <4>1, <4>2
    <3> DEFINE sv == saved'
    <3>7. sv.pos = s.pos BY <3>1
    <3> HIDE DEF sv
    <3>8. TakenAt(s, sv) BY <1>6, <1>8, <3>1, <3>6, <3>7 DEF TakenAt
    <3> QED BY <1>4, <3>1, <3>8 DEF s, sv
  <2>3. CASE MeetGoesOn(1)
    <3>1. scans' = [scans EXCEPT ![1] = SortNext(scans[1], S).scan] /\ saved' = saved BY <2>3 DEF MeetGoesOn
    <3>2. scans'[2] = s BY <1>1, <3>1
    <3> QED BY <1>4, <1>6, <1>8, <3>1, <3>2
  <2>4. CASE MeetGoesOn(2)
    <3> DEFINE n == SortNext(s, T)
    <3>1. n.ok /\ scans' = [scans EXCEPT ![2] = n.scan] /\ saved' = saved BY <2>4 DEF MeetGoesOn, s
    <3>2. TakenAt(n.scan, saved) BY <1>6, <1>8, <3>1, TakenMove DEF s
    <3> HIDE DEF n
    <3>3. scans'[2] = n.scan
      <4>1. 2 \in DOMAIN scans BY <1>1
      <4> QED BY <3>1, <4>1
    <3> QED BY <1>4, <3>1, <3>2, <3>3
  <2>5. \A c \in 1..2 : c = 1 \/ c = 2 OBVIOUS
  <2> QED BY <1>8, <2>1, <2>2, <2>3, <2>4, <2>5, MeetSteps
<1> QED BY <1>5, <1>7, <1>8

-----------------------------------------------------------------------------
\* The first record of the right table with a value.
IsFirstWith(c, val) ==
    /\ c \in DOMAIN tables[2] /\ tables[2][c][JoinField] = val
    /\ \A p \in DOMAIN tables[2] : p < c => tables[2][p][JoinField] # val

\* Where the first left value is one of the first of two right runs, a pass stays in that run
\* until it is behind the value, and the position that is saved for it is that of its first
\* record; then the value of the right scan is a greater one.
InFirst(s) == \E n \in 1..Len(s.runs[1]) : tables[2][s.runs[1][n]][JoinField] = FirstVal
SavedEarly(s, sv, val) ==
    /\ sv.pos # <<>> /\ sv.curr = 1 => sv.pos[2] = 1
    /\ sv.pos # <<>> /\ val = FirstVal => sv.curr = 1 /\ IsFirstWith(s.runs[1][sv.pos[1]], FirstVal)
PairEarly(x, s, sv, val, what) ==
    /\ sv.pos # <<>> /\ sv.curr = 1 /\ what \in {"row", "end"}
    /\ what = "row" => ValueAt(2, s) = val /\ ValueAt(1, x) = val
    /\ what = "end" => Ended(x) /\ ValueAt(2, s) > FirstVal
AtFirst(x, s) ==
    /\ Current(x) = 1 /\ ValueAt(2, s) <= FirstVal
    /\ ValueAt(2, s) = FirstVal => IsFirstWith(Current(s), FirstVal)
LoopEarly(x, s, sv, more) ==
    more[2] /\ ((more[1] /\ AtFirst(x, s)) \/ (sv.pos # <<>> /\ sv.curr = 1 /\ ValueAt(2, s) > FirstVal))
EarlyAt(x, s, sv, val, loop, what, more) ==
    Len(s.runs) = 2 /\ InFirst(s) =>
        /\ s.curr \in {0, 1} => Going(s)
        /\ s.curr = 0 => ~loop /\ what = "none"
        /\ SavedEarly(s, sv, val)
        /\ s.curr = 1 => IF loop THEN LoopEarly(x, s, sv, more) ELSE PairEarly(x, s, sv, val, what)
EarlyOK ==
    MayJoin /\ row # "crash" /\ by # "new" =>
        EarlyAt(scans[1], scans[2], saved, m_join_val, looping, row, has_more)

LEMMA ValuesGrow ==
    ASSUME NEW tab \in Seq(Records), NotDecreasing(tab), NEW c \in DOMAIN tab, NEW d \in DOMAIN tab
    PROVE  /\ tab[c][JoinField] \in Nat /\ tab[d][JoinField] \in Nat
           /\ c <= d => tab[c][JoinField] <= tab[d][JoinField]
           /\ tab[c][JoinField] < tab[d][JoinField] => c < d
<1>1. DOMAIN tab = 1..Len(tab) /\ Len(tab) \in Nat OBVIOUS
<1>2. c \in Nat /\ d \in Nat /\ (c < d \/ c = d \/ d < c) BY <1>1
<1>3. tab[c] \in Records /\ tab[d] \in Records BY <1>2
<1>4. tab[c][JoinField] \in Nat /\ tab[d][JoinField] \in Nat BY <1>3, MaterializeAssumption
<1>5. c < d => tab[c][JoinField] <= tab[d][JoinField] BY <1>2 DEF NotDecreasing
<1>6. d < c => tab[d][JoinField] <= tab[c][JoinField] BY <1>2 DEF NotDecreasing
<1> QED BY <1>2, <1>4, <1>5, <1>6

LEMMA LeftValuesGrow ==
    ASSUME NEW tab \in Seq(Records), Increasing(tab), NEW c \in DOMAIN tab, NEW d \in DOMAIN tab
    PROVE  /\ tab[c][JoinField] \in Nat /\ tab[d][JoinField] \in Nat
           /\ c < d => tab[c][JoinField] < tab[d][JoinField]
           /\ tab[c][JoinField] = tab[d][JoinField] => c = d
<1>1. DOMAIN tab = 1..Len(tab) /\ Len(tab) \in Nat OBVIOUS
<1>2. c \in Nat /\ d \in Nat /\ (c < d \/ c = d \/ d < c) BY <1>1
<1>3. tab[c] \in Records /\ tab[d] \in Records BY <1>2
<1>4. tab[c][JoinField] \in Nat /\ tab[d][JoinField] \in Nat BY <1>3, MaterializeAssumption
<1>5. c < d => tab[c][JoinField] < tab[d][JoinField] BY <1>2 DEF Increasing
<1>6. d < c => tab[d][JoinField] < tab[c][JoinField] BY <1>2 DEF Increasing
<1> QED BY <1>2, <1>4, <1>5, <1>6

\* A record of the second run has a greater value than the ones of the first.
LEMMA SecondIsGreater ==
    ASSUME NEW s, tables[2] \in Seq(Records), NotDecreasing(tables[2]), ScanOK(s, tables[2]), RunsSorted(s.runs, tables[2]),
           InFirst(s), s.curr = 2, Readable(s, 2)
    PROVE  ValueAt(2, s) > FirstVal
<1> DEFINE T == tables[2]
           rs == s.runs
           m == s.pos[2]
<1>1. 2 \in DOMAIN rs /\ m > 0 BY DEF Readable
<1>2. /\ rs \in Seq(Seq(Nat)) /\ s.pos \in Seq(Nat) /\ Len(s.pos) = Len(rs) /\ Each(rs, DOMAIN T) /\ m <= Len(rs[2])
      BY <1>1 DEF ScanOK, ScanSet
<1>3. DOMAIN rs = 1..Len(rs) /\ Len(rs) \in Nat
  <2> DEFINE Q == Seq(Nat)
  <2>1. rs \in Seq(Q) BY <1>2
  <2> HIDE DEF Q
  <2> QED BY <2>1
<1>4. 1 \in DOMAIN rs
  <2> DEFINE e == Len(rs)
  <2>1. 2 \in 1..e /\ e \in Nat /\ DOMAIN rs = 1..e BY <1>1, <1>3
  <2> HIDE DEF e
  <2>2. 1 \in 1..e BY <2>1
  <2> QED BY <2>1, <2>2
<1>5. m \in 1..Len(rs[2])
  <2>1. m \in Nat /\ Len(rs[2]) \in Nat BY <1>1, <1>2, <1>3
  <2> QED BY <1>1, <1>2, <2>1
<1>6. rs[1] \in Seq(DOMAIN T) /\ rs[2] \in Seq(DOMAIN T) BY <1>1, <1>2, <1>4 DEF Each
<1>7. PICK n \in 1..Len(rs[1]) : T[rs[1][n]][JoinField] = FirstVal BY DEF InFirst
<1> DEFINE c == rs[1][n]
           d == rs[2][m]
<1>8. c \in DOMAIN T /\ d \in DOMAIN T
  <2>1. c \in DOMAIN T BY <1>6, <1>7
  <2>2. d \in DOMAIN T BY <1>5, <1>6
  <2> QED BY <2>1, <2>2
<1>9. c < d /\ T[c][JoinField] # T[d][JoinField] BY <1>1, <1>5 DEF RunsSorted
<1>10. Current(s) = d BY DEF Current
<1> HIDE DEF c, d, m, rs
<1>11. c \in Nat /\ d \in Nat /\ c <= d
  <2>1. DOMAIN T \subseteq Nat OBVIOUS
  <2> QED BY <1>8, <1>9, <2>1
<1>12. T[c][JoinField] \in Nat /\ T[d][JoinField] \in Nat /\ T[c][JoinField] <= T[d][JoinField] BY <1>8, <1>11, ValuesGrow
<1>13. T[c][JoinField] = FirstVal BY <1>7 DEF c
<1> QED BY <1>9, <1>10, <1>12, <1>13 DEF ValueAt

LEMMA EarlyMove ==
    ASSUME Joins, TakenAt(scans[2], saved), Len(scans[2].runs) = 2, InFirst(scans[2]),
           scans[2].curr \in {0, 1} => Going(scans[2]), NEW n, n = SortNext(scans[2], tables[2]), n.ok
    PROVE  /\ n.scan.runs = scans[2].runs /\ n.scan.curr # 0
           /\ n.scan.curr = 1 =>
                /\ scans[2].curr \in {0, 1} /\ n.found /\ Going(n.scan) /\ Current(n.scan) = Place(scans[2]) + 1
                /\ Current(n.scan) \in DOMAIN tables[2]
<1> DEFINE s == scans[2]
           t == n.scan
           T == tables[2]
<1>1. /\ fields = {JoinField} /\ ScanOK(s, T) /\ RunsSorted(s.runs, T) /\ T \in Seq(Records) BY JoinFacts
<1>2. t.runs = s.runs /\ (n.found => Current(t) \in DOMAIN T) BY <1>1, SortNextOK
<1> HIDE DEF s, T
<1>3. n = SortNext(s, T) /\ Len(s.runs) = 2 /\ TakenAt(s, saved) /\ (s.curr \in {0, 1} => Going(s)) BY DEF s, T
<1>4. (s.curr = 0 => Going(s)) /\ (s.curr = 2 => ~s.more[1]) BY <1>3 DEF TakenAt
<1>5. t.curr # 0 BY <1>1, <1>3, <1>4, SecondRun
<1>6. ASSUME t.curr = 1 PROVE s.curr \in {0, 1} /\ n.found /\ Going(t) /\ Current(t) = Place(s) + 1
  <2>1. /\ AfterMove(s, s.curr, t)
        /\ n.found <=> t.more[1] \/ t.more[2]
        /\ n.found => t.curr = (IF t.more[1] THEN 1 ELSE 2)
        /\ ~n.found => t.curr = s.curr
        BY <1>1, <1>3, SortNextIs
  <2>2. s.curr \in 0..2 BY <1>1, <1>3 DEF ScanOK
  <2>3. s.curr # 2
    <3> SUFFICES ASSUME s.curr = 2 PROVE FALSE OBVIOUS
    <3>1. t.more[1] = s.more[1] BY <2>1 DEF AfterMove
    <3>2. t.more[1] BY <1>6, <2>1
    <3> QED BY <1>4, <3>1, <3>2
  <2>4. Going(s) /\ s.curr \in {0, 1} BY <1>3, <2>2, <2>3
  <2> DEFINE w == SortNext(s, T)
  <2>5. w.ok /\ w = n BY <1>3
  <2>6. /\ w.found => Going(w.scan) /\ Current(w.scan) = Place(s) + 1
        /\ ~w.found => s.curr = Len(s.runs)
        BY <1>1, <2>4, <2>5, GoingNext
  <2> HIDE DEF w
  <2> QED BY <1>3, <2>4, <2>5, <2>6
<1> QED BY <1>2, <1>5, <1>6 DEF s, T

\* The state after a step.
LEMMA EarlyThen ==
    ASSUME tables' = tables, NEW x, NEW s, NEW sv, NEW val, NEW loop, NEW what, NEW more,
           EarlyAt(x, s, sv, val, loop, what, more),
           scans'[1] = x, scans'[2] = s, saved' = sv, m_join_val' = val, looping' = loop, row' = what, has_more' = more
    PROVE  EarlyAt(scans[1], scans[2], saved, m_join_val, looping, row, has_more)'
<1>1. FirstVal' = FirstVal BY DEF FirstVal
<1>2. InFirst(scans[2])' = InFirst(s) BY <1>1 DEF InFirst
<1>3. Going(scans[2])' = Going(s) BY DEF Going
<1>4. SavedEarly(scans[2], saved, m_join_val)' = SavedEarly(s, sv, val) BY <1>1 DEF SavedEarly, IsFirstWith
<1>5. PairEarly(scans[1], scans[2], saved, m_join_val, row)' = PairEarly(x, s, sv, val, what)
      BY <1>1 DEF PairEarly, ValueAt, Current, Ended
<1>6. LoopEarly(scans[1], scans[2], saved, has_more)' = LoopEarly(x, s, sv, more)
      BY <1>1 DEF LoopEarly, AtFirst, ValueAt, Current, IsFirstWith
<1> QED BY <1>2, <1>3, <1>4, <1>5, <1>6 DEF EarlyAt

\* What holds before a step of a join of whose right table there are two runs.
Early ==
    /\ Joins /\ LeftOK /\ TakenAt(scans[2], saved) /\ by # "new"
    /\ EarlyAt(scans[1], scans[2], saved, m_join_val, looping, row, has_more)
    /\ Len(scans[2].runs) = 2 /\ InFirst(scans[2])

LEMMA EarlyFacts ==
    ASSUME Early
    PROVE  /\ MatTypes /\ kind = "join" /\ row # "crash" /\ ~Opening /\ fields = {JoinField}
           /\ Increasing(tables[1]) /\ NotDecreasing(tables[2])
           /\ ScanOK(scans[1], tables[1]) /\ RunsSorted(scans[1].runs, tables[1]) /\ tables[1] \in Seq(Records)
           /\ ScanOK(scans[2], tables[2]) /\ RunsSorted(scans[2].runs, tables[2]) /\ tables[2] \in Seq(Records)
           /\ scans = <<scans[1], scans[2]>> /\ has_more \in Seq(BOOLEAN) /\ Len(has_more) = 2 /\ m_join_val \in Nat
           /\ Going(scans[1]) \/ Ended(scans[1])
           /\ row = "none" /\ ~looping => scans[1].curr = 0 /\ Going(scans[1])
           /\ looping => (has_more[1] <=> Going(scans[1])) /\ (has_more[1] => scans[1].curr # 0)
           /\ row = "row" /\ ~looping => Going(scans[1]) /\ scans[1].curr # 0
           /\ scans[2].curr \in {0, 1} => Going(scans[2])
           /\ scans[2].curr = 0 => ~looping /\ row = "none"
           /\ SavedEarly(scans[2], saved, m_join_val)
           /\ scans[2].curr = 1 /\ looping => LoopEarly(scans[1], scans[2], saved, has_more)
           /\ scans[2].curr = 1 /\ ~looping => PairEarly(scans[1], scans[2], saved, m_join_val, row)
           /\ 1 \in DOMAIN tables[1] /\ FirstVal \in Nat
<1>1. Joins /\ LeftOK /\ MayJoin /\ row # "crash" /\ by # "new" BY DEF Early, Joins
<1>2. 1 \in DOMAIN tables[1] /\ FirstVal \in Nat
  <2>1. ScanOK(scans[1], tables[1]) /\ RunsSorted(scans[1].runs, tables[1]) /\ tables[1] \in Seq(Records)
        BY <1>1, JoinFacts
  <2> DEFINE rs == scans[1].runs
  <2>2. 1 \in DOMAIN rs
    <3> DEFINE e == Len(rs)
    <3>1. e \in 1..2 /\ DOMAIN rs = 1..e BY <2>1 DEF ScanOK, ScanSet
    <3> HIDE DEF e
    <3>2. 1 \in 1..e BY <3>1
    <3> QED BY <3>1, <3>2
  <2>3. rs[1] \in Seq(DOMAIN tables[1]) /\ rs[1] # <<>> BY <2>1, <2>2 DEF ScanOK, Each
  <2>4. rs[1][1] \in DOMAIN tables[1] BY <2>3
  <2>5. Increasing(tables[1]) BY <1>1 DEF MayJoin
  <2> QED BY <2>1, <2>4, <2>5, FirstIsLeast DEF FirstVal
<1>3. MatTypes /\ row # "crash" /\ ~Opening /\ Increasing(tables[1]) /\ NotDecreasing(tables[2]) BY <1>1 DEF Joins, MayJoin
<1>4. /\ kind = "join" /\ fields = {JoinField}
      /\ ScanOK(scans[1], tables[1]) /\ RunsSorted(scans[1].runs, tables[1]) /\ tables[1] \in Seq(Records)
      /\ ScanOK(scans[2], tables[2]) /\ RunsSorted(scans[2].runs, tables[2]) /\ tables[2] \in Seq(Records)
      /\ scans = <<scans[1], scans[2]>> /\ has_more \in Seq(BOOLEAN) /\ Len(has_more) = 2 /\ m_join_val \in Nat
      BY <1>1, JoinFacts
<1>5. /\ Going(scans[1]) \/ Ended(scans[1])
      /\ row = "none" /\ ~looping => scans[1].curr = 0 /\ Going(scans[1])
      /\ looping => (has_more[1] <=> Going(scans[1])) /\ (has_more[1] => scans[1].curr # 0)
      /\ row = "row" /\ ~looping => Going(scans[1]) /\ scans[1].curr # 0
      BY <1>1 DEF LeftOK
<1>6. /\ scans[2].curr \in {0, 1} => Going(scans[2])
      /\ scans[2].curr = 0 => ~looping /\ row = "none"
      /\ SavedEarly(scans[2], saved, m_join_val)
      /\ scans[2].curr = 1 /\ looping => LoopEarly(scans[1], scans[2], saved, has_more)
      /\ scans[2].curr = 1 /\ ~looping => PairEarly(scans[1], scans[2], saved, m_join_val, row)
      BY DEF Early, EarlyAt
<1> QED BY <1>2, <1>3, <1>4, <1>5, <1>6

\* The right scan goes on, and the left one stays.
LEMMA EarlyRight ==
    ASSUME Early, ~looping, tables' = tables, row' # "crash",
           NEW r, r = SortNext(scans[2], tables[2]), JoinRight(r)
    PROVE  EarlyAt(scans[1], scans[2], saved, m_join_val, looping, row, has_more)'
<1> DEFINE s == scans[2]
           x == scans[1]
           t == r.scan
<1>1. /\ Has(2, r) /\ r.ok /\ scans' = <<x, t>> /\ UNCHANGED <<m_join_val, saved, has_more>> /\ Pair(x, t, "right")
      BY DEF JoinRight
<1>2. Readable(x, x.curr) /\ row' = "row" /\ looping' = FALSE BY <1>1, PairRows
<1>3. t.curr # 0 /\ (t.curr = 1 => s.curr \in {0, 1} /\ Going(t)) /\ t.runs = s.runs
      BY <1>1, EarlyMove, EarlyFacts DEF Early
<1>4. x.curr # 0 /\ ~Ended(x) BY <1>2, EarlyFacts, NotBoth
<1>5. row # "none" BY <1>4, EarlyFacts
<1>6. SavedEarly(t, saved, m_join_val)
  <2>1. SavedEarly(s, saved, m_join_val) BY EarlyFacts
  <2> HIDE DEF s, t
  <2> QED BY <1>3, <2>1 DEF SavedEarly
<1>7. t.curr = 1 => PairEarly(x, t, saved, m_join_val, "row")
  <2> SUFFICES ASSUME t.curr = 1 PROVE PairEarly(x, t, saved, m_join_val, "row") OBVIOUS
  <2>1. s.curr = 1 BY <1>3, <1>5, EarlyFacts
  <2>2. PairEarly(x, s, saved, m_join_val, row) BY <2>1, EarlyFacts
  <2>3. saved.pos # <<>> /\ saved.curr = 1 /\ row = "row" /\ ValueAt(1, x) = m_join_val BY <1>4, <2>2 DEF PairEarly
  <2>4. ValueAt(2, t) = m_join_val BY <1>1 DEF Has
  <2> QED BY <2>3, <2>4 DEF PairEarly
<1> HIDE DEF s, x, t
<1>8. EarlyAt(x, t, saved, m_join_val, FALSE, "row", has_more) BY <1>3, <1>6, <1>7 DEF EarlyAt
<1>9. scans'[1] = x /\ scans'[2] = t BY <1>1
<1> DEFINE sv == saved
           val == m_join_val
           more == has_more
<1> HIDE DEF sv, val, more
<1>10. EarlyAt(x, t, sv, val, FALSE, "row", more) BY <1>8 DEF sv, val, more
<1>11. saved' = sv /\ m_join_val' = val /\ has_more' = more BY <1>1 DEF sv, val, more
<1> QED BY <1>2, <1>9, <1>10, <1>11, EarlyThen

\* The right scan is taken back.
LEMMA EarlyLeft ==
    ASSUME Early, ~looping, tables' = tables, row' # "crash",
           NEW r, r = SortNext(scans[2], tables[2]), NEW v, v = SortNext(scans[1], tables[1]), JoinLeft(v, r)
    PROVE  EarlyAt(scans[1], scans[2], saved, m_join_val, looping, row, has_more)'
<1> DEFINE s == scans[2]
           x == scans[1]
           t == r.scan
           y == Restored(r.scan)
           u == v.scan
           S == tables[1]
<1>1. /\ v.ok /\ r.ok /\ Has(1, v) /\ saved.pos # <<>>
      /\ scans' = <<u, y>> /\ UNCHANGED <<m_join_val, saved, has_more>> /\ Pair(u, y, "left")
      BY DEF JoinLeft
<1>2. Readable(u, u.curr) /\ Readable(y, y.curr) /\ row' = "row" /\ looping' = FALSE BY <1>1, PairRows
<1>3. t.curr # 0 /\ (t.curr = 1 => s.curr \in {0, 1} /\ Going(t)) /\ t.runs = s.runs
      BY <1>1, EarlyMove, EarlyFacts DEF Early
<1>4. ScanOK(t, tables[2]) BY <1>1, EarlyFacts, SortNextOK
<1>5. y.runs = s.runs /\ y.curr = t.curr /\ y.pos = saved.pos /\ y.more = t.more
  <2>1. t \in ScanSet BY <1>4 DEF ScanOK
  <2> HIDE DEF t
  <2>2. y = [t EXCEPT !.pos = saved.pos] BY DEF Restored, t
  <2> HIDE DEF y, s
  <2> QED BY <1>3, <2>1, <2>2 DEF ScanSet
<1>6. m_join_val = ValueAt(1, u) BY <1>1 DEF Has
<1>7. SavedEarly(s, saved, m_join_val) BY EarlyFacts
<1>8. saved.pos[saved.curr] > 0 /\ tables[2][s.runs[saved.curr][saved.pos[saved.curr]]][JoinField] = m_join_val
      BY <1>1, EarlyFacts DEF MatTypes, SavedOK
<1>9. x.curr = 0 /\ Going(x) => m_join_val = FirstVal
  <2> SUFFICES ASSUME x.curr = 0, Going(x) PROVE ValueAt(1, u) = FirstVal BY <1>6
  <2>1. v.found BY <1>1 DEF Has
  <2>2. /\ fields = {JoinField} /\ ScanOK(x, S) /\ RunsSorted(x.runs, S) /\ S \in Seq(Records) BY EarlyFacts
  <2> HIDE DEF x, S
  <2>3. SortNext(x, S).ok /\ SortNext(x, S).found /\ SortNext(x, S).scan = u BY <1>1, <2>1 DEF x, S
  <2>4. Current(u) = Place(x) + 1 BY <2>2, <2>3, GoingNext
  <2>5. Current(u) = 1 BY <2>4 DEF Place
  <2> QED BY <2>5 DEF ValueAt, FirstVal
<1>10. Going(x) /\ x.curr # 0 => m_join_val > ValueAt(1, x)
  <2> SUFFICES ASSUME x.curr # 0, Going(x) PROVE ValueAt(1, u) > ValueAt(1, x) BY <1>6
  <2>1. v.found BY <1>1 DEF Has
  <2>2. /\ fields = {JoinField} /\ ScanOK(x, S) /\ RunsSorted(x.runs, S) /\ S \in Seq(Records) /\ Increasing(S) BY EarlyFacts
  <2> HIDE DEF x, S
  <2>3. SortNext(x, S).ok /\ SortNext(x, S).found /\ SortNext(x, S).scan = u BY <1>1, <2>1 DEF x, S
  <2>4. Current(u) = Place(x) + 1 BY <2>2, <2>3, GoingNext
  <2>5. Place(x) = Current(x) BY DEF Place
  <2>6. Readable(x, x.curr) BY <2>2, NotBoth
  <2>7. Current(x) \in DOMAIN S BY <2>2, <2>6, CurrentOf
  <2>8. ScanOK(u, S) BY <2>2, <2>3, SortNextOK
  <2>9. Current(u) \in DOMAIN S BY <1>2, <2>2, <2>8, CurrentOf
  <2>10. Current(x) \in Nat BY <2>2, <2>7
  <2>11. Current(x) < Current(u) BY <2>4, <2>5, <2>10
  <2>12. S[Current(u)][JoinField] \in Nat /\ S[Current(x)][JoinField] \in Nat
         /\ S[Current(x)][JoinField] < S[Current(u)][JoinField]
         BY <2>2, <2>7, <2>9, <2>11, LeftValuesGrow
  <2> QED BY <2>12 DEF ValueAt, S
<1>11. ASSUME t.curr = 1 PROVE saved.curr = 1
  <2>1. s.curr = 0 \/ s.curr = 1 BY <1>3, <1>11
  <2>2. CASE s.curr = 0
    <3>1. row = "none" BY <2>2, EarlyFacts
    <3>2. x.curr = 0 /\ Going(x) BY <3>1, EarlyFacts
    <3>3. m_join_val = FirstVal BY <1>9, <3>2
    <3> QED BY <1>1, <1>7, <3>3 DEF SavedEarly
  <2>3. CASE s.curr = 1
    <3>1. PairEarly(x, s, saved, m_join_val, row) BY <2>3, EarlyFacts
    <3> QED BY <3>1 DEF PairEarly
  <2> QED BY <2>1, <2>2, <2>3
<1>12. ASSUME y.curr = 1 PROVE Going(y) /\ PairEarly(u, y, saved, m_join_val, "row")
  <2>1. t.curr = 1 /\ Going(t) BY <1>3, <1>5, <1>12
  <2>2. saved.curr = 1 BY <1>11, <2>1
  <2>3. saved.pos[1] > 0 /\ saved.pos[2] = 1 BY <1>1, <1>7, <1>8, <2>2 DEF SavedEarly
  <2>4. t.more[1] /\ (t.more[2] <=> Len(t.runs) = 2) BY <2>1 DEF Going
  <2> HIDE DEF y, t, s
  <2>5. Going(y) BY <1>3, <1>5, <1>12, <2>3, <2>4 DEF Going
  <2>6. ValueAt(2, y) = m_join_val BY <1>5, <1>8, <1>12, <2>2 DEF ValueAt, Current
  <2> QED BY <1>1, <1>6, <2>2, <2>5, <2>6 DEF PairEarly
<1> HIDE DEF s, x, t, y, u
<1>13. SavedEarly(y, saved, m_join_val) BY <1>5, <1>7 DEF SavedEarly
<1>14. EarlyAt(u, y, saved, m_join_val, FALSE, "row", has_more) BY <1>3, <1>5, <1>12, <1>13 DEF EarlyAt
<1>15. scans'[1] = u /\ scans'[2] = y BY <1>1
<1> DEFINE sv == saved
           val == m_join_val
           more == has_more
<1> HIDE DEF sv, val, more
<1>16. EarlyAt(u, y, sv, val, FALSE, "row", more) BY <1>14 DEF sv, val, more
<1>17. saved' = sv /\ m_join_val' = val /\ has_more' = more BY <1>1 DEF sv, val, more
<1> QED BY <1>2, <1>15, <1>16, <1>17, EarlyThen

\* Both scans go on, to where the values meet.
LEMMA EarlyOn ==
    ASSUME Early, ~looping, tables' = tables, row' # "crash",
           NEW r, r = SortNext(scans[2], tables[2]), NEW v, v = SortNext(scans[1], tables[1]), JoinOn(v, r)
    PROVE  EarlyAt(scans[1], scans[2], saved, m_join_val, looping, row, has_more)'
<1> DEFINE s == scans[2]
           x == scans[1]
           t == r.scan
           u == v.scan
           S == tables[1]
           T == tables[2]
           more == <<v.found, r.found>>
<1>1. /\ v.ok /\ r.ok /\ ~Has(2, r) /\ scans' = <<u, t>> /\ has_more' = more /\ looping' = TRUE
      /\ UNCHANGED <<m_join_val, saved>> /\ row' = row
      BY DEF JoinOn, returnedRows
<1>2. /\ t.curr # 0 /\ t.runs = s.runs
      /\ t.curr = 1 => s.curr \in {0, 1} /\ r.found /\ Going(t) /\ Current(t) = Place(s) + 1 /\ Current(t) \in DOMAIN T
      BY <1>1, EarlyMove, EarlyFacts DEF Early
<1>3. SavedEarly(s, saved, m_join_val) BY EarlyFacts
<1>4. more[1] = v.found /\ more[2] = r.found OBVIOUS
<1> HIDE DEF more
<1>5. ASSUME t.curr = 1, s.curr = 0 PROVE LoopEarly(u, t, saved, more)
  <2>1. row = "none" BY <1>5, EarlyFacts
  <2>2. x.curr = 0 /\ Going(x) BY <2>1, EarlyFacts
  <2>3. /\ fields = {JoinField} /\ ScanOK(x, S) /\ RunsSorted(x.runs, S) /\ S \in Seq(Records) BY EarlyFacts
  <2>4. Len(x.runs) # 0
    <3> DEFINE e == Len(x.runs)
    <3>1. e \in 1..2 BY <2>3 DEF ScanOK
    <3> HIDE DEF e
    <3>2. e # 0 BY <3>1
    <3> QED BY <3>2 DEF e
  <2>5. v.found /\ Current(u) = 1
    <3> HIDE DEF x, S
    <3> DEFINE w == SortNext(x, S)
    <3>1. w.ok /\ w = v BY <1>1 DEF x, S
    <3>2. /\ w.found => Current(w.scan) = Place(x) + 1
          /\ ~w.found => x.curr = Len(x.runs)
          BY <2>2, <2>3, <3>1, GoingNext
    <3> HIDE DEF w
    <3>3. Place(x) = 0 BY <2>2 DEF Place
    <3> QED BY <2>2, <2>4, <3>1, <3>2, <3>3
  <2>6. Current(t) = 1 /\ 1 \in DOMAIN T
    <3>1. Place(s) = 0 BY <1>5 DEF Place
    <3> QED BY <1>2, <1>5, <3>1
  <2>7. \A p \in DOMAIN T : ~(p < 1)
    <3>1. T \in Seq(Records) BY EarlyFacts
    <3> QED BY <3>1
  <2>8. ValueAt(2, t) = T[1][JoinField] BY <2>6 DEF ValueAt
  <2>9. ValueAt(2, t) = FirstVal => IsFirstWith(Current(t), FirstVal) BY <2>6, <2>7, <2>8 DEF IsFirstWith
  <2>10. ValueAt(2, t) <= FirstVal
    <3> DEFINE rs == s.runs
    <3>1. PICK n \in 1..Len(rs[1]) : T[rs[1][n]][JoinField] = FirstVal BY DEF Early, InFirst
    <3>2. T \in Seq(Records) /\ NotDecreasing(T) /\ ScanOK(s, T) BY EarlyFacts
    <3>3. 1 \in DOMAIN rs
      <4> DEFINE e == Len(rs)
      <4>1. e \in 1..2 /\ DOMAIN rs = 1..e BY <3>2 DEF ScanOK, ScanSet
      <4> HIDE DEF e
      <4>2. 1 \in 1..e BY <4>1
      <4> QED BY <4>1, <4>2
    <3>4. rs[1] \in Seq(DOMAIN T) BY <3>2, <3>3 DEF ScanOK, Each
    <3>5. rs[1][n] \in DOMAIN T BY <3>4
    <3> DEFINE c == rs[1][n]
    <3> HIDE DEF c, rs, T
    <3>6. c \in DOMAIN T /\ T[c][JoinField] = FirstVal BY <3>1, <3>5 DEF c
    <3>7. 1 <= c
      <4>1. c \in Nat /\ ~(c < 1) BY <2>7, <3>2, <3>6 DEF T
      <4> QED BY <4>1
    <3>8. T[1][JoinField] <= T[c][JoinField] BY <2>6, <3>2, <3>6, <3>7, ValuesGrow DEF T
    <3> QED BY <2>8, <3>6, <3>8 DEF T
  <2> QED BY <1>2, <1>4, <1>5, <2>5, <2>9, <2>10 DEF LoopEarly, AtFirst
<1>6. ASSUME t.curr = 1, s.curr = 1 PROVE LoopEarly(u, t, saved, more)
  <2>1. PairEarly(x, s, saved, m_join_val, row) BY <1>6, EarlyFacts
  <2>2. saved.pos # <<>> /\ saved.curr = 1 /\ row \in {"row", "end"} BY <2>1 DEF PairEarly
  <2>3. /\ T \in Seq(Records) /\ NotDecreasing(T) /\ ScanOK(s, T) /\ Going(s) /\ S \in Seq(Records) /\ Increasing(S)
        /\ ScanOK(x, S) /\ FirstVal \in Nat
        BY <1>6, EarlyFacts
  <2>4. Readable(s, s.curr) BY <1>6, <2>3, NotBoth
  <2>5. Current(s) \in DOMAIN T /\ Current(t) \in DOMAIN T /\ Current(t) = Current(s) + 1
        BY <1>2, <1>6, <2>3, <2>4, CurrentOf DEF Place
  <2>6. Current(s) <= Current(t)
    <3>1. Current(s) \in Nat BY <2>3, <2>5
    <3> QED BY <2>5, <3>1
  <2>7. ValueAt(2, s) \in Nat /\ ValueAt(2, t) \in Nat /\ ValueAt(2, s) <= ValueAt(2, t)
        BY <2>3, <2>5, <2>6, ValuesGrow DEF ValueAt
  <2>8. ValueAt(2, t) > FirstVal
    <3>1. CASE row = "end"
      <4>1. ValueAt(2, s) > FirstVal BY <2>1, <3>1 DEF PairEarly
      <4> QED BY <2>3, <2>7, <4>1
    <3>2. CASE row = "row"
      <4>1. ValueAt(2, s) = m_join_val /\ ValueAt(1, x) = m_join_val BY <2>1, <3>2 DEF PairEarly
      <4>2. ValueAt(2, t) # m_join_val BY <1>1, <1>2, <1>6 DEF Has
      <4>3. Going(x) /\ x.curr # 0 BY <3>2, EarlyFacts
      <4>4. Readable(x, x.curr) BY <2>3, <4>3, NotBoth
      <4>5. Current(x) \in DOMAIN S BY <2>3, <4>4, CurrentOf
      <4>6. FirstVal <= ValueAt(1, x) BY <2>3, <4>5, FirstIsLeast DEF FirstVal, ValueAt
      <4> QED BY <2>3, <2>7, <4>1, <4>2, <4>6
    <3> QED BY <2>2, <3>1, <3>2
  <2> QED BY <1>2, <1>4, <1>6, <2>2, <2>8 DEF LoopEarly
<1> HIDE DEF s, x, t, u, S, T
<1>7. SavedEarly(t, saved, m_join_val) BY <1>2, <1>3 DEF SavedEarly
<1>8. EarlyAt(u, t, saved, m_join_val, TRUE, row, more)
  <2>1. t.curr = 1 => LoopEarly(u, t, saved, more) BY <1>2, <1>5, <1>6
  <2> QED BY <1>2, <1>7, <2>1 DEF EarlyAt
<1>9. scans'[1] = u /\ scans'[2] = t BY <1>1
<1> DEFINE sv == saved
           val == m_join_val
           what == row
<1> HIDE DEF sv, val, what
<1>10. EarlyAt(u, t, sv, val, TRUE, what, more) BY <1>8 DEF sv, val, what
<1>11. saved' = sv /\ m_join_val' = val /\ row' = what BY <1>1 DEF sv, val, what
<1> QED BY <1>1, <1>9, <1>10, <1>11, EarlyThen

\* No more on one side.
LEMMA EarlyEnds ==
    ASSUME Early, looping, tables' = tables, MeetEnds
    PROVE  EarlyAt(scans[1], scans[2], saved, m_join_val, looping, row, has_more)'
<1> DEFINE s == scans[2]
           x == scans[1]
<1>1. /\ ~(has_more[1] /\ has_more[2]) /\ scans' = scans /\ UNCHANGED <<has_more, m_join_val, saved>>
      /\ row' = "end" /\ looping' = FALSE
      BY ReturnsRows DEF MeetEnds, Returns
<1>2. s.curr # 0 BY EarlyFacts
<1>3. s.curr = 1 => PairEarly(x, s, saved, m_join_val, "end")
  <2> SUFFICES ASSUME s.curr = 1 PROVE PairEarly(x, s, saved, m_join_val, "end") OBVIOUS
  <2>1. LoopEarly(x, s, saved, has_more) BY EarlyFacts
  <2>2. ~has_more[1] /\ saved.pos # <<>> /\ saved.curr = 1 /\ ValueAt(2, s) > FirstVal BY <1>1, <2>1 DEF LoopEarly
  <2>3. Ended(x) BY <2>2, EarlyFacts
  <2> QED BY <2>2, <2>3 DEF PairEarly
<1>4. SavedEarly(s, saved, m_join_val) /\ (s.curr = 1 => Going(s)) BY EarlyFacts
<1> HIDE DEF s, x
<1> DEFINE sv == saved
           val == m_join_val
           more == has_more
<1> HIDE DEF sv, val, more
<1>5. EarlyAt(x, s, sv, val, FALSE, "end", more) BY <1>2, <1>3, <1>4 DEF EarlyAt, sv, val
<1>6. saved' = sv /\ m_join_val' = val /\ has_more' = more BY <1>1 DEF sv, val, more
<1> QED BY <1>1, <1>5, <1>6, EarlyThen DEF s, x

\* The values meet.
LEMMA EarlyFound ==
    ASSUME Early, looping, tables' = tables, row' # "crash", MeetFound
    PROVE  EarlyAt(scans[1], scans[2], saved, m_join_val, looping, row, has_more)'
<1> DEFINE s == scans[2]
           x == scans[1]
           sv == [pos |-> s.pos, curr |-> s.curr]
           val == ValueAt(2, s)
<1>1. /\ ValueAt(1, x) = val /\ m_join_val' = val /\ saved' = sv
      /\ Pair(x, s, "meet") /\ UNCHANGED <<scans, has_more>>
      BY DEF MeetFound
<1>2. Readable(s, s.curr) /\ row' = "row" /\ looping' = FALSE BY <1>1, PairRows
<1>3. ScanOK(s, tables[2]) /\ s.curr # 0 /\ (s.curr = 1 => Going(s)) /\ FirstVal \in Nat BY EarlyFacts
<1>4. sv.pos = s.pos /\ sv.curr = s.curr OBVIOUS
<1>5. s.pos # <<>>
  <2>1. Len(s.pos) = 2 BY <1>3 DEF ScanOK, Early
  <2> QED BY <2>1
<1>6. s.curr = 2 => val > FirstVal
  <2> SUFFICES ASSUME s.curr = 2 PROVE val > FirstVal OBVIOUS
  <2>1. /\ tables[2] \in Seq(Records) /\ NotDecreasing(tables[2]) /\ RunsSorted(s.runs, tables[2]) BY EarlyFacts
  <2>2. InFirst(s) /\ Readable(s, 2) BY <1>2 DEF Early
  <2> HIDE DEF s
  <2> QED BY <1>3, <2>1, <2>2, SecondIsGreater
<1>7. s.curr = 1 /\ val = FirstVal => IsFirstWith(Current(s), FirstVal)
  <2> SUFFICES ASSUME s.curr = 1, val = FirstVal PROVE IsFirstWith(Current(s), FirstVal) OBVIOUS
  <2>1. LoopEarly(x, s, saved, has_more) BY EarlyFacts
  <2>2. ~(val > FirstVal) BY <1>3
  <2> QED BY <2>1, <2>2 DEF LoopEarly, AtFirst
<1>8. s.curr \in {1, 2}
  <2>1. s.curr \in 0..2 BY <1>3 DEF ScanOK, Early
  <2> QED BY <1>3, <2>1
<1>9. SavedEarly(s, sv, val)
  <2>1. sv.curr = 1 => sv.pos[2] = 1
    <3>1. s.curr = 1 => s.pos[2] = 1 BY <1>3 DEF Going, Early
    <3> QED BY <1>4, <3>1
  <2>2. val = FirstVal => s.curr = 1
    <3>1. val = FirstVal => ~(val > FirstVal) BY <1>3
    <3> QED BY <1>6, <1>8, <3>1
  <2>3. val = FirstVal => sv.curr = 1 /\ IsFirstWith(s.runs[1][sv.pos[1]], FirstVal)
        BY <1>4, <1>7, <2>2 DEF Current
  <2> QED BY <2>1, <2>3 DEF SavedEarly
<1>10. s.curr = 1 => PairEarly(x, s, sv, val, "row") BY <1>1, <1>4, <1>5 DEF PairEarly
<1> HIDE DEF s, x, sv, val
<1> DEFINE more == has_more
<1> HIDE DEF more
<1>11. EarlyAt(x, s, sv, val, FALSE, "row", more) BY <1>3, <1>9, <1>10 DEF EarlyAt
<1>12. scans'[1] = x /\ scans'[2] = s /\ has_more' = more BY <1>1 DEF x, s, more
<1> QED BY <1>1, <1>2, <1>11, <1>12, EarlyThen

\* The left scan goes on, whose value is smaller.
LEMMA EarlyGoesLeft ==
    ASSUME Early, looping, tables' = tables, MeetGoesOn(1)
    PROVE  EarlyAt(scans[1], scans[2], saved, m_join_val, looping, row, has_more)'
<1> DEFINE s == scans[2]
           x == scans[1]
           S == tables[1]
           T == tables[2]
           n == SortNext(x, S)
<1>1. /\ has_more[1] /\ has_more[2] /\ ValueAt(1, x) # ValueAt(2, s)
      /\ 1 = (IF ValueAt(1, x) < ValueAt(2, s) THEN 1 ELSE 2)
      /\ scans' = [scans EXCEPT ![1] = n.scan] /\ has_more' = [has_more EXCEPT ![1] = n.found]
      /\ UNCHANGED <<looping, row, m_join_val, saved>>
      BY DEF MeetGoesOn, returnedRows
<1>2. ValueAt(1, x) < ValueAt(2, s) BY <1>1
<1>3. s.curr # 0 /\ (s.curr = 1 => Going(s)) /\ SavedEarly(s, saved, m_join_val) BY EarlyFacts
<1>4. scans'[1] = n.scan /\ scans'[2] = s /\ has_more'[2] = has_more[2]
  <2>1. scans = <<x, s>> /\ has_more \in Seq(BOOLEAN) /\ Len(has_more) = 2 BY EarlyFacts
  <2>2. 1 \in DOMAIN scans /\ 2 \in DOMAIN scans /\ 2 \in DOMAIN has_more BY <2>1
  <2> HIDE DEF n
  <2> QED BY <1>1, <2>2
<1> DEFINE more == has_more'
           t == n.scan
<1>5. s.curr = 1 => LoopEarly(t, s, saved, more)
  <2> SUFFICES ASSUME s.curr = 1 PROVE LoopEarly(t, s, saved, more) OBVIOUS
  <2>1. LoopEarly(x, s, saved, has_more) BY EarlyFacts
  <2>2. ~AtFirst(x, s)
    <3> SUFFICES ASSUME AtFirst(x, s) PROVE FALSE OBVIOUS
    <3>1. Current(x) = 1 /\ ValueAt(2, s) <= FirstVal BY DEF AtFirst
    <3>2. ValueAt(1, x) = FirstVal BY <3>1 DEF ValueAt, FirstVal
    <3>3. ScanOK(s, T) /\ T \in Seq(Records) /\ Going(s) /\ FirstVal \in Nat BY EarlyFacts
    <3>4. Readable(s, s.curr) BY <3>3, NotBoth
    <3>5. ValueAt(2, s) \in Nat BY <3>3, <3>4, CurrentOf DEF ValueAt
    <3> QED BY <1>2, <3>1, <3>2, <3>3, <3>5
  <2>3. has_more[2] /\ saved.pos # <<>> /\ saved.curr = 1 /\ ValueAt(2, s) > FirstVal BY <2>1, <2>2 DEF LoopEarly
  <2> QED BY <1>4, <2>3 DEF LoopEarly
<1> HIDE DEF more, t, s, x
<1> DEFINE sv == saved
           val == m_join_val
           what == row
<1> HIDE DEF sv, val, what
<1>6. EarlyAt(t, s, sv, val, TRUE, what, more) BY <1>3, <1>5 DEF EarlyAt, sv, val, what
<1>7. saved' = sv /\ m_join_val' = val /\ row' = what /\ looping' = TRUE
  <2>1. looping = TRUE BY EarlyFacts DEF MatTypes, RequestOK
  <2> QED BY <1>1, <2>1 DEF sv, val, what
<1> QED BY <1>4, <1>6, <1>7, EarlyThen DEF more, t

\* The right scan goes on, whose value is smaller.
LEMMA EarlyGoesRight ==
    ASSUME Early, looping, tables' = tables, MeetGoesOn(2)
    PROVE  EarlyAt(scans[1], scans[2], saved, m_join_val, looping, row, has_more)'
<1> DEFINE s == scans[2]
           x == scans[1]
           S == tables[1]
           T == tables[2]
           n == SortNext(s, T)
           t == n.scan
           more == has_more'
<1>1. /\ has_more[1] /\ has_more[2] /\ ValueAt(1, x) # ValueAt(2, s) /\ n.ok
      /\ 2 = (IF ValueAt(1, x) < ValueAt(2, s) THEN 1 ELSE 2)
      /\ scans' = [scans EXCEPT ![2] = t] /\ has_more' = [has_more EXCEPT ![2] = n.found]
      /\ UNCHANGED <<looping, row, m_join_val, saved>>
      BY DEF MeetGoesOn, returnedRows
<1>2. /\ ScanOK(s, T) /\ T \in Seq(Records) /\ NotDecreasing(T) /\ FirstVal \in Nat /\ ScanOK(x, S) /\ S \in Seq(Records)
      /\ Increasing(S) /\ s.curr # 0 /\ (s.curr = 1 => Going(s)) /\ SavedEarly(s, saved, m_join_val)
      /\ MatTypes /\ kind = "join"
      BY EarlyFacts
<1>3. Readable(x, x.curr) /\ Readable(s, s.curr) BY <1>1, <1>2 DEF MatTypes, LoopOK
<1>4. ValueAt(1, x) \in Nat /\ ValueAt(2, s) \in Nat BY <1>2, <1>3, CurrentOf DEF ValueAt
<1>5. ValueAt(2, s) < ValueAt(1, x) BY <1>1, <1>4
<1>6. /\ t.curr # 0 /\ t.runs = s.runs
      /\ t.curr = 1 => s.curr \in {0, 1} /\ n.found /\ Going(t) /\ Current(t) = Place(s) + 1 /\ Current(t) \in DOMAIN T
      BY <1>1, EarlyMove, EarlyFacts DEF Early
<1>7. scans'[2] = t /\ scans'[1] = x /\ more[2] = n.found /\ more[1] = has_more[1]
  <2>1. scans = <<x, s>> /\ has_more \in Seq(BOOLEAN) /\ Len(has_more) = 2 BY EarlyFacts
  <2>2. 1 \in DOMAIN scans /\ 2 \in DOMAIN scans /\ 2 \in DOMAIN has_more /\ 1 \in DOMAIN has_more BY <2>1
  <2> HIDE DEF n
  <2> QED BY <1>1, <2>2
<1>8. t.curr = 1 => LoopEarly(x, t, saved, more)
  <2> SUFFICES ASSUME t.curr = 1 PROVE LoopEarly(x, t, saved, more) OBVIOUS
  <2> DEFINE c == Current(s)
             d == Current(t)
  <2>1. s.curr = 1 BY <1>2, <1>6
  <2>2. LoopEarly(x, s, saved, has_more) BY <2>1, EarlyFacts
  <2>3. d = c + 1 /\ d \in DOMAIN T /\ n.found BY <1>6, <2>1 DEF Place
  <2>4. c \in DOMAIN T BY <1>2, <1>3, CurrentOf
  <2>5. ValueAt(2, s) = T[c][JoinField] /\ ValueAt(2, t) = T[d][JoinField] BY DEF ValueAt
  <2> HIDE DEF c, d, T, n
  <2>6. DOMAIN T \subseteq Nat BY <1>2
  <2>7. c <= d BY <2>3, <2>4, <2>6
  <2>8. T[c][JoinField] \in Nat /\ T[d][JoinField] \in Nat /\ T[c][JoinField] <= T[d][JoinField]
        BY <1>2, <2>3, <2>4, <2>7, ValuesGrow
  <2>9. CASE AtFirst(x, s)
    <3>1. Current(x) = 1 BY <2>9 DEF AtFirst
    <3>2. ValueAt(1, x) = FirstVal BY <3>1 DEF ValueAt, FirstVal
    <3>3. T[c][JoinField] < FirstVal BY <1>5, <2>5, <3>2
    <3>4. PICK z \in 1..Len(s.runs[1]) : T[s.runs[1][z]][JoinField] = FirstVal BY DEF Early, InFirst, T
    <3> DEFINE rs == s.runs
               e == rs[1][z]
    <3>5. e \in DOMAIN T
      <4>1. 1 \in DOMAIN rs
        <5> DEFINE j == Len(rs)
        <5>1. j \in 1..2 /\ DOMAIN rs = 1..j BY <1>2 DEF ScanOK, ScanSet
        <5> HIDE DEF j
        <5>2. 1 \in 1..j BY <5>1
        <5> QED BY <5>1, <5>2
      <4>2. rs[1] \in Seq(DOMAIN T) BY <1>2, <4>1 DEF ScanOK, Each
      <4> QED BY <4>2
    <3>6. T[e][JoinField] = FirstVal BY <3>4
    <3> HIDE DEF e, rs
    <3>7. c < e BY <1>2, <2>4, <3>3, <3>5, <3>6, ValuesGrow
    <3>8. d <= e BY <2>3, <2>4, <2>6, <3>5, <3>7
    <3>9. T[d][JoinField] <= FirstVal BY <1>2, <2>3, <3>5, <3>6, <3>8, ValuesGrow
    <3>10. ASSUME NEW p \in DOMAIN T, p < d PROVE T[p][JoinField] # FirstVal
      <4>1. p <= c BY <2>3, <2>4, <2>6, <3>10
      <4>2. T[p][JoinField] \in Nat /\ T[p][JoinField] <= T[c][JoinField] BY <1>2, <2>4, <4>1, ValuesGrow
      <4> QED BY <1>2, <2>8, <3>3, <4>2
    <3>11. AtFirst(x, t) BY <2>3, <2>5, <3>1, <3>9, <3>10 DEF AtFirst, IsFirstWith, T, d
    <3> QED BY <1>1, <1>7, <2>3, <3>11 DEF LoopEarly
  <2>10. CASE saved.pos # <<>> /\ saved.curr = 1 /\ ValueAt(2, s) > FirstVal
    <3>1. ValueAt(2, t) > FirstVal BY <1>2, <2>5, <2>8, <2>10
    <3> QED BY <1>7, <2>3, <2>10, <3>1 DEF LoopEarly
  <2> QED BY <2>2, <2>9, <2>10 DEF LoopEarly
<1>9. SavedEarly(t, saved, m_join_val)
  <2> HIDE DEF s, t
  <2> QED BY <1>2, <1>6 DEF SavedEarly
<1> HIDE DEF more, t, s, x
<1> DEFINE sv == saved
           val == m_join_val
           what == row
<1> HIDE DEF sv, val, what
<1>10. EarlyAt(x, t, sv, val, TRUE, what, more) BY <1>6, <1>8, <1>9 DEF EarlyAt, sv, val, what
<1>11. saved' = sv /\ m_join_val' = val /\ row' = what /\ looping' = TRUE
  <2>1. looping = TRUE BY EarlyFacts DEF MatTypes, RequestOK
  <2> QED BY <1>1, <2>1 DEF sv, val, what
<1> QED BY <1>7, <1>10, <1>11, EarlyThen DEF more

LEMMA EarlyStep ==
    ASSUME Joins, LeftOK, TakenOK, EarlyOK, row' # "crash", before_first_rows \/ join_next \/ meet, tables' = tables
    PROVE  EarlyAt(scans[1], scans[2], saved, m_join_val, looping, row, has_more)'
<1> DEFINE s == scans[2]
<1>1. kind = "join" /\ MatTypes /\ row # "crash" /\ MayJoin /\ Started BY JoinFacts DEF Joins
<1>2. scans'[2].runs = s.runs BY <1>1, JoinMoves
<1>3. InFirst(scans[2])' <=> InFirst(s) BY <1>2 DEF InFirst, FirstVal
<1> SUFFICES ASSUME Len(s.runs) = 2, InFirst(s)
             PROVE  EarlyAt(scans[1], scans[2], saved, m_join_val, looping, row, has_more)'
    BY <1>2, <1>3 DEF EarlyAt
<1>4. CASE before_first_rows
  <2>1. /\ row' = "none" /\ looping' = FALSE /\ UNCHANGED <<m_join_val, saved>>
        /\ scans'[2].curr = 0 /\ Going(scans'[2])
        BY <1>4, BeginsAgain
  <2>2. SavedEarly(s, saved, m_join_val)
    <3>1. CASE by = "new" BY <1>1, <3>1 DEF Started, SavedEarly
    <3>2. CASE by # "new" BY <1>1, <3>2 DEF EarlyOK, EarlyAt
    <3> QED BY <3>1, <3>2
  <2> DEFINE x == scans'[1]
             t == scans'[2]
             sv == saved
             val == m_join_val
             more == has_more'
  <2>3. t.runs = s.runs /\ t.curr = 0 /\ Going(t) /\ saved' = sv /\ m_join_val' = val /\ SavedEarly(s, sv, val)
        BY <1>2, <2>1, <2>2
  <2> HIDE DEF x, t, sv, val, more, s
  <2>4. SavedEarly(t, sv, val) BY <2>3 DEF SavedEarly
  <2>5. EarlyAt(x, t, sv, val, FALSE, "none", more) BY <2>3, <2>4 DEF EarlyAt
  <2> QED BY <2>1, <2>3, <2>5, EarlyThen DEF x, t, more
<1>5. ASSUME join_next \/ meet PROVE Early
  <2>1. join_next => by # "new" BY DEF join_next
  <2>2. meet => by # "new" BY <1>1 DEF meet, Started
  <2> QED BY <1>1, <1>5, <2>1, <2>2 DEF Early, TakenOK, EarlyOK
<1>6. CASE join_next
  <2> DEFINE r == SortNext(scans[2], tables[2])
             v == SortNext(scans[1], tables[1])
  <2>1. JoinRight(r) \/ JoinLeft(v, r) \/ JoinOn(v, r) BY <1>6, JoinNextSteps
  <2>2. ~looping BY <1>6 DEF join_next, Ready
  <2>3. JoinRight(r) => EarlyAt(scans[1], scans[2], saved, m_join_val, looping, row, has_more)'
        BY <1>5, <1>6, <2>2, EarlyRight
  <2>4. JoinLeft(v, r) => EarlyAt(scans[1], scans[2], saved, m_join_val, looping, row, has_more)'
        BY <1>5, <1>6, <2>2, EarlyLeft
  <2>5. JoinOn(v, r) => EarlyAt(scans[1], scans[2], saved, m_join_val, looping, row, has_more)'
        BY <1>5, <1>6, <2>2, EarlyOn
  <2> HIDE DEF r, v
  <2> QED BY <2>1, <2>3, <2>4, <2>5
<1>7. CASE meet
  <2>1. looping BY <1>7 DEF meet
  <2>2. \A c \in 1..2 : c = 1 \/ c = 2 OBVIOUS
  <2>3. MeetEnds \/ MeetFound \/ MeetGoesOn(1) \/ MeetGoesOn(2) BY <1>7, <2>2, MeetSteps
  <2> QED BY <1>5, <1>7, <2>1, <2>3, EarlyEnds, EarlyFound, EarlyGoesLeft, EarlyGoesRight
<1> QED BY <1>4, <1>6, <1>7

-----------------------------------------------------------------------------
\* A pass over the two tables: the pairs up to the last one, or those of the left records that
\* both scans have left behind.
Before(a) == {p \in Matching : p[1] < a}
PassedBy(seq, a, e) == Exactly(seq, Before(a)) /\ \A p \in Matching : p[1] >= a => p[2] >= e

SortedTables ==
    /\ tables[1] \in Seq(Records) /\ tables[2] \in Seq(Records)
    /\ Increasing(tables[1]) /\ NotDecreasing(tables[2])

LEMMA PairOf ==
    ASSUME SortedTables, NEW p \in Matching
    PROVE  /\ p = <<p[1], p[2]>> /\ p[1] \in DOMAIN tables[1] /\ p[2] \in DOMAIN tables[2]
           /\ p[1] \in Nat \ {0} /\ p[2] \in Nat \ {0} /\ p[1] <= Len(tables[1]) /\ p[2] <= Len(tables[2])
           /\ tables[1][p[1]][JoinField] = tables[2][p[2]][JoinField]
<1>1. tables[1] \in Seq(Records) /\ tables[2] \in Seq(Records) BY DEF SortedTables
<1>2. /\ p = <<p[1], p[2]>> /\ p[1] \in DOMAIN tables[1] /\ p[2] \in DOMAIN tables[2]
      /\ tables[1][p[1]][JoinField] = tables[2][p[2]][JoinField]
      BY DEF Matching
<1> DEFINE a == p[1]
           c == p[2]
<1> HIDE DEF a, c
<1>3. a \in DOMAIN tables[1] /\ c \in DOMAIN tables[2] BY <1>2 DEF a, c
<1>4. a \in Nat \ {0} /\ c \in Nat \ {0} /\ a <= Len(tables[1]) /\ c <= Len(tables[2]) BY <1>1, <1>3
<1> QED BY <1>2, <1>4 DEF a, c

LEMMA NothingPassed ==
    ASSUME SortedTables
    PROVE  PassedBy(<<>>, 1, 1) /\ UpTo(0, 0) = {}
<1>1. Before(1) = {}
  <2> SUFFICES ASSUME NEW p \in Matching, p[1] < 1 PROVE FALSE BY DEF Before
  <2> QED BY PairOf
<1>2. UpTo(0, 0) = {}
  <2> SUFFICES ASSUME NEW p \in Matching PROVE ~(p[1] < 0 \/ (p[1] = 0 /\ p[2] <= 0)) BY DEF UpTo
  <2> QED BY PairOf
<1>3. \A p \in Matching : p[2] >= 1
  <2> SUFFICES ASSUME NEW p \in Matching PROVE p[2] >= 1 OBVIOUS
  <2> QED BY PairOf
<1> QED BY <1>1, <1>2, <1>3, NoneIsExact DEF PassedBy

\* The next record of the right table makes the next pair.
LEMMA NextOnRight ==
    ASSUME SortedTables, NEW a \in DOMAIN tables[1], NEW c \in DOMAIN tables[2], c + 1 \in DOMAIN tables[2],
           tables[1][a][JoinField] = tables[2][c + 1][JoinField]
    PROVE  OneMorePair(a, c + 1, a, c)
<1>1. DOMAIN tables[1] \subseteq Nat /\ DOMAIN tables[2] \subseteq Nat BY DEF SortedTables
<1> DEFINE d == c + 1
<1>2. a \in Nat /\ c \in Nat /\ d \in Nat /\ d > c BY <1>1
<1>3. <<a, d>> \in Matching BY DEF Matching
<1>4. After(<<a, d>>, a, c) BY <1>2 DEF After
<1>5. ASSUME NEW x \in Matching, After(x, a, c) PROVE a < x[1] \/ (a = x[1] /\ d <= x[2])
  <2>1. x[1] \in Nat /\ x[2] \in Nat BY PairOf
  <2>2. x[1] > a \/ (x[1] = a /\ x[2] > c) BY <1>5 DEF After
  <2> QED BY <1>2, <2>1, <2>2
<1> HIDE DEF d
<1>6. IsNext(a, d, a, c) BY <1>3, <1>4, <1>5 DEF IsNext
<1>7. PlacesOfPairs
  <2> SUFFICES ASSUME NEW x \in Matching PROVE x \in Nat \X Nat BY DEF PlacesOfPairs
  <2> QED BY PairOf
<1>8. OneMorePair(a, d, a, c) BY <1>2, <1>6, <1>7, NextPair
<1> QED BY <1>8 DEF d

\* The first pair of the first left record.
LEMMA FirstOfFirst ==
    ASSUME SortedTables, 1 \in DOMAIN tables[1], NEW c, IsFirstWith(c, FirstVal)
    PROVE  OneMorePair(1, c, 0, 0)
<1>1. DOMAIN tables[2] \subseteq Nat \ {0} BY DEF SortedTables
<1>2. c \in DOMAIN tables[2] /\ tables[2][c][JoinField] = FirstVal BY DEF IsFirstWith
<1>3. c \in Nat /\ c > 0 BY <1>1, <1>2
<1>4. <<1, c>> \in Matching BY <1>2 DEF Matching, FirstVal
<1>5. After(<<1, c>>, 0, 0) BY DEF After
<1>6. ASSUME NEW x \in Matching PROVE 1 < x[1] \/ (1 = x[1] /\ c <= x[2])
  <2>1. /\ x[1] \in Nat \ {0} /\ x[2] \in Nat /\ x[2] \in DOMAIN tables[2]
        /\ tables[1][x[1]][JoinField] = tables[2][x[2]][JoinField]
        BY PairOf
  <2>2. x[1] = 1 => tables[2][x[2]][JoinField] = FirstVal BY <2>1 DEF FirstVal
  <2>3. x[1] = 1 => ~(x[2] < c) BY <2>1, <2>2 DEF IsFirstWith
  <2> QED BY <1>3, <2>1, <2>3
<1>7. IsNext(1, c, 0, 0) BY <1>4, <1>5, <1>6 DEF IsNext
<1>8. PlacesOfPairs
  <2> SUFFICES ASSUME NEW x \in Matching PROVE x \in Nat \X Nat BY DEF PlacesOfPairs
  <2> QED BY PairOf
<1> QED BY <1>3, <1>7, <1>8, NextPair

\* Behind a pair whose left record has no more pairs.
LEMMA PairIsPassed ==
    ASSUME SortedTables, NEW a \in DOMAIN tables[1], NEW c \in DOMAIN tables[2],
           tables[1][a][JoinField] = tables[2][c][JoinField],
           c + 1 \in DOMAIN tables[2] => tables[2][c + 1][JoinField] # tables[1][a][JoinField],
           NEW seq, Exactly(seq, UpTo(a, c))
    PROVE  PassedBy(seq, a + 1, c + 1)
<1> DEFINE S == tables[1]
           T == tables[2]
           x == S[a][JoinField]
<1>1. S \in Seq(Records) /\ T \in Seq(Records) /\ Increasing(S) /\ NotDecreasing(T) BY DEF SortedTables
<1>2. a \in Nat /\ c \in Nat /\ DOMAIN T = 1..Len(T) /\ Len(T) \in Nat BY <1>1
<1>3. ASSUME NEW p \in Matching, p[1] = a PROVE p[2] <= c
  <2> SUFFICES ASSUME ~(p[2] <= c) PROVE FALSE OBVIOUS
  <2>1. p[2] \in DOMAIN T /\ p[2] \in Nat /\ T[p[2]][JoinField] = x BY <1>3, PairOf
  <2> DEFINE e == p[2]
             d == c + 1
  <2>2. e \in DOMAIN T /\ e \in Nat /\ T[e][JoinField] = x /\ d \in Nat /\ d <= e /\ c <= d BY <1>2, <2>1
  <2> HIDE DEF e
  <2>3. d \in DOMAIN T BY <1>2, <2>2
  <2>4. T[c][JoinField] <= T[d][JoinField] /\ T[d][JoinField] <= T[e][JoinField]
        /\ T[c][JoinField] \in Nat /\ T[d][JoinField] \in Nat
        BY <1>1, <2>2, <2>3, ValuesGrow
  <2>5. T[d][JoinField] # x BY <2>3
  <2>6. T[c][JoinField] = x OBVIOUS
  <2> HIDE DEF T, x, d
  <2> QED BY <2>2, <2>4, <2>5, <2>6
<1>4. Before(a + 1) = UpTo(a, c)
  <2>1. ASSUME NEW p \in Matching PROVE p[1] < a + 1 <=> p[1] < a \/ (p[1] = a /\ p[2] <= c)
    <3>1. p[1] \in Nat BY PairOf
    <3>2. p[1] < a + 1 <=> p[1] < a \/ p[1] = a BY <1>2, <3>1
    <3> QED BY <1>3, <3>2
  <2> QED BY <2>1 DEF Before, UpTo
<1>5. ASSUME NEW p \in Matching, p[1] >= a + 1 PROVE p[2] >= c + 1
  <2>1. /\ p[1] \in DOMAIN S /\ p[2] \in DOMAIN T /\ p[1] \in Nat /\ p[2] \in Nat
        /\ S[p[1]][JoinField] = T[p[2]][JoinField]
        BY PairOf
  <2>2. a < p[1] BY <1>2, <1>5, <2>1
  <2>3. S[a][JoinField] < S[p[1]][JoinField] BY <1>1, <2>1, <2>2, LeftValuesGrow
  <2>4. T[c][JoinField] < T[p[2]][JoinField] BY <2>1, <2>3
  <2>5. c < p[2] BY <1>1, <2>1, <2>4, ValuesGrow
  <2> QED BY <1>2, <2>1, <2>5
<1> QED BY <1>4, <1>5 DEF PassedBy

\* Where the values meet there is a pair, the first of its left record.
LEMMA PairIsFound ==
    ASSUME SortedTables, NEW a \in DOMAIN tables[1], NEW c \in DOMAIN tables[2],
           tables[1][a][JoinField] = tables[2][c][JoinField], NEW seq, PassedBy(seq, a, c)
    PROVE  <<a, c>> \in Matching /\ <<a, c>> \notin Before(a) /\ UpTo(a, c) = Before(a) \cup {<<a, c>>}
<1>1. a \in Nat /\ c \in Nat
  <2>1. DOMAIN tables[1] \subseteq Nat /\ DOMAIN tables[2] \subseteq Nat BY DEF SortedTables
  <2> QED BY <2>1
<1>2. <<a, c>> \in Matching BY DEF Matching
<1>3. <<a, c>>[1] = a /\ <<a, c>>[2] = c OBVIOUS
<1>4. <<a, c>> \notin Before(a) BY <1>1, <1>3 DEF Before
<1>5. ASSUME NEW p \in Matching PROVE p[1] < a \/ (p[1] = a /\ p[2] <= c) <=> p[1] < a \/ p = <<a, c>>
  <2>1. p = <<p[1], p[2]>> /\ p[1] \in Nat /\ p[2] \in Nat BY PairOf
  <2>2. p[1] = a => p[2] >= c BY <1>1 DEF PassedBy
  <2>3. p = <<a, c>> <=> p[1] = a /\ p[2] = c BY <2>1
  <2>4. p[1] = a => (p[2] <= c <=> p[2] = c) BY <1>1, <2>1, <2>2
  <2> QED BY <2>3, <2>4
<1>6. UpTo(a, c) = Before(a) \cup {<<a, c>>} BY <1>2, <1>5 DEF UpTo, Before
<1> QED BY <1>2, <1>4, <1>6

\* The scan with the smaller value goes on.
LEMMA SmallerPassed ==
    ASSUME SortedTables, NEW a \in DOMAIN tables[1], NEW c \in DOMAIN tables[2], NEW seq, PassedBy(seq, a, c)
    PROVE  /\ tables[1][a][JoinField] < tables[2][c][JoinField] => PassedBy(seq, a + 1, c)
           /\ tables[2][c][JoinField] < tables[1][a][JoinField] => PassedBy(seq, a, c + 1)
<1> DEFINE S == tables[1]
           T == tables[2]
<1>1. S \in Seq(Records) /\ T \in Seq(Records) /\ Increasing(S) /\ NotDecreasing(T) BY DEF SortedTables
<1>2. a \in Nat /\ c \in Nat BY <1>1
<1>3. ASSUME NEW p \in Matching, p[1] >= a
      PROVE  /\ p[1] \in DOMAIN S /\ p[2] \in DOMAIN T /\ p[1] \in Nat /\ p[2] \in Nat
             /\ S[p[1]][JoinField] = T[p[2]][JoinField] /\ p[2] >= c
      BY <1>3, PairOf DEF PassedBy
<1>4. ASSUME S[a][JoinField] < T[c][JoinField] PROVE PassedBy(seq, a + 1, c)
  <2>1. ASSUME NEW p \in Matching PROVE p[1] # a
    <3> SUFFICES ASSUME p[1] = a PROVE FALSE OBVIOUS
    <3>1. p[2] \in DOMAIN T /\ p[2] \in Nat /\ S[a][JoinField] = T[p[2]][JoinField] /\ p[2] >= c BY <1>2, <1>3
    <3>2. c <= p[2] BY <1>2, <3>1
    <3>3. T[c][JoinField] <= T[p[2]][JoinField] /\ T[c][JoinField] \in Nat /\ T[p[2]][JoinField] \in Nat
          BY <1>1, <3>1, <3>2, ValuesGrow
    <3> QED BY <1>4, <3>1, <3>3
  <2>2. ASSUME NEW p \in Matching PROVE (p[1] < a + 1 <=> p[1] < a) /\ (p[1] >= a + 1 => p[1] >= a)
    <3>1. p[1] \in Nat BY PairOf
    <3> QED BY <1>2, <2>1, <3>1
  <2>3. Before(a + 1) = Before(a) BY <2>2 DEF Before
  <2> QED BY <2>2, <2>3 DEF PassedBy
<1>5. ASSUME T[c][JoinField] < S[a][JoinField] PROVE PassedBy(seq, a, c + 1)
  <2>1. ASSUME NEW p \in Matching, p[1] >= a PROVE p[2] >= c + 1
    <3>1. /\ p[1] \in DOMAIN S /\ p[2] \in DOMAIN T /\ p[1] \in Nat /\ p[2] \in Nat
          /\ S[p[1]][JoinField] = T[p[2]][JoinField] /\ p[2] >= c
          BY <1>3, <2>1
    <3>2. S[a][JoinField] \in Nat /\ S[p[1]][JoinField] \in Nat /\ S[a][JoinField] <= S[p[1]][JoinField]
      <4>1. a < p[1] => S[a][JoinField] < S[p[1]][JoinField] BY <1>1, <3>1, LeftValuesGrow
      <4>2. S[a][JoinField] \in Nat /\ S[p[1]][JoinField] \in Nat BY <1>1, <3>1, LeftValuesGrow
      <4>3. a < p[1] \/ a = p[1] BY <1>2, <2>1, <3>1
      <4> QED BY <4>1, <4>2, <4>3
    <3>3. p[2] # c
      <4> SUFFICES ASSUME p[2] = c PROVE FALSE OBVIOUS
      <4>1. T[c][JoinField] = S[p[1]][JoinField] BY <3>1
      <4> QED BY <1>5, <3>2, <4>1
    <3> QED BY <1>2, <3>1, <3>3
  <2> QED BY <2>1 DEF PassedBy
<1> QED BY <1>4, <1>5

\* One of the tables is at its end.
LEMMA AllPassed ==
    ASSUME SortedTables, NEW seq, NEW a, NEW c, PassedBy(seq, a, c), a \in Nat, c \in Nat,
           a = Len(tables[1]) + 1 \/ c = Len(tables[2]) + 1
    PROVE  Exactly(seq, Matching)
<1>1. ASSUME NEW p \in Matching PROVE p[1] < a
  <2>1. p[1] \in Nat /\ p[2] \in Nat /\ p[1] <= Len(tables[1]) /\ p[2] <= Len(tables[2]) BY PairOf
  <2>2. Len(tables[1]) \in Nat /\ Len(tables[2]) \in Nat BY DEF SortedTables
  <2>3. p[1] >= a => p[2] >= c BY DEF PassedBy
  <2> QED BY <2>1, <2>2, <2>3
<1>2. Before(a) = Matching BY <1>1 DEF Before
<1> QED BY <1>2 DEF PassedBy

\* The record that a scan is at, or the one behind the last.
Ahead(j, s, more) == IF more[j] THEN Current(s) ELSE Len(tables[j]) + 1
AtPair(x, s, val, seq) ==
    /\ Going(s) /\ s.curr # 0 /\ ValueAt(1, x) = val /\ ValueAt(2, s) = val
    /\ Exactly(seq, UpTo(Current(x), Current(s)))
Looking(x, s, more, seq) ==
    /\ more[2] => Going(s) /\ s.curr # 0
    /\ PassedBy(seq, Ahead(1, x, more), Ahead(2, s, more))
PassAt(x, s, val, loop, what, more, seq) ==
    /\ what = "end" => Exactly(seq, Matching)
    /\ IF loop THEN what # "end" => Looking(x, s, more, seq)
       ELSE /\ what = "none" => seq = <<>>
            /\ what = "row" => AtPair(x, s, val, seq)
PassOK ==
    MayJoin /\ row # "crash" /\ whole =>
        PassAt(scans[1], scans[2], m_join_val, looping, row, has_more, out)

\* The state after a step.
LEMMA PassThen ==
    ASSUME tables' = tables, NEW x, NEW s, NEW val, NEW loop, NEW what, NEW more, NEW seq,
           PassAt(x, s, val, loop, what, more, seq),
           scans'[1] = x, scans'[2] = s, m_join_val' = val, looping' = loop, row' = what, has_more' = more, out' = seq
    PROVE  PassAt(scans[1], scans[2], m_join_val, looping, row, has_more, out)'
<1>1. Matching' = Matching BY DEF Matching
<1>2. AtPair(scans[1], scans[2], m_join_val, out)' = AtPair(x, s, val, seq)
      BY <1>1 DEF AtPair, Going, ValueAt, Current, UpTo
<1>3. Looking(scans[1], scans[2], has_more, out)' = Looking(x, s, more, seq)
      BY <1>1 DEF Looking, Going, Ahead, PassedBy, Before, Current
<1>4. Exactly(out, Matching)' = Exactly(seq, Matching) BY <1>1 DEF Exactly
<1> QED BY <1>2, <1>3, <1>4 DEF PassAt

LEMMA MoveAhead ==
    ASSUME fields = {JoinField}, NEW tab \in Seq(Records), NEW s, ScanOK(s, tab), RunsSorted(s.runs, tab), Going(s),
           NEW n, n = SortNext(s, tab), n.ok
    PROVE  /\ n.found => Going(n.scan) /\ n.scan.curr # 0 /\ Current(n.scan) = Place(s) + 1
                         /\ Current(n.scan) \in DOMAIN tab
           /\ ~n.found => Place(s) = Len(tab)
           /\ s.curr # 0 => Place(s) = Current(s) /\ Current(s) \in DOMAIN tab
           /\ s.curr = 0 => Place(s) = 0
<1>1. SortNext(s, tab).ok OBVIOUS
<1> DEFINE w == SortNext(s, tab)
<1>2. /\ w.found => Going(w.scan) /\ w.scan.curr # 0 /\ Current(w.scan) = Place(s) + 1
      /\ ~w.found => Place(s) = Len(tab)
      BY <1>1, GoingNext
<1>3. w.found => Current(w.scan) \in DOMAIN tab BY <1>1, SortNextOK
<1>4. w = n OBVIOUS
<1> HIDE DEF w
<1>5. s.curr # 0 => Place(s) = Current(s) /\ Current(s) \in DOMAIN tab
  <2> SUFFICES ASSUME s.curr # 0 PROVE Place(s) = Current(s) /\ Current(s) \in DOMAIN tab OBVIOUS
  <2>1. Readable(s, s.curr) BY NotBoth
  <2>2. Current(s) \in DOMAIN tab BY <2>1, CurrentOf
  <2> QED BY <2>2 DEF Place
<1>6. s.curr = 0 => Place(s) = 0 BY DEF Place
<1> QED BY <1>2, <1>3, <1>4, <1>5, <1>6

\* What holds before a step of a whole pass.
Pass ==
    /\ Joins /\ LeftOK /\ TakenAt(scans[2], saved) /\ by # "new" /\ whole /\ row # "end" /\ Sequence(out)
    /\ EarlyAt(scans[1], scans[2], saved, m_join_val, looping, row, has_more)
    /\ PassAt(scans[1], scans[2], m_join_val, looping, row, has_more, out)

LEMMA PassFacts ==
    ASSUME Pass
    PROVE  /\ MatTypes /\ kind = "join" /\ row \in {"none", "row"} /\ ~Opening /\ fields = {JoinField} /\ SortedTables
           /\ ScanOK(scans[1], tables[1]) /\ RunsSorted(scans[1].runs, tables[1]) /\ tables[1] \in Seq(Records)
           /\ ScanOK(scans[2], tables[2]) /\ RunsSorted(scans[2].runs, tables[2]) /\ tables[2] \in Seq(Records)
           /\ scans = <<scans[1], scans[2]>> /\ has_more \in Seq(BOOLEAN) /\ Len(has_more) = 2
           /\ row = "none" /\ ~looping =>
                scans[1].curr = 0 /\ scans[2].curr = 0 /\ Going(scans[1]) /\ Going(scans[2]) /\ out = <<>>
           /\ looping /\ has_more[1] => Going(scans[1]) /\ scans[1].curr # 0
           /\ row = "row" /\ ~looping =>
                Going(scans[1]) /\ scans[1].curr # 0 /\ AtPair(scans[1], scans[2], m_join_val, out)
           /\ looping => Looking(scans[1], scans[2], has_more, out)
<1>1. Joins /\ LeftOK /\ MayJoin /\ row # "crash" /\ by # "new" /\ MatTypes /\ ~Opening BY DEF Pass, Joins
<1>2. row \in {"none", "row"} BY <1>1 DEF Pass, MatTypes, RequestOK
<1>3. /\ kind = "join" /\ fields = {JoinField}
      /\ ScanOK(scans[1], tables[1]) /\ RunsSorted(scans[1].runs, tables[1]) /\ tables[1] \in Seq(Records)
      /\ ScanOK(scans[2], tables[2]) /\ RunsSorted(scans[2].runs, tables[2]) /\ tables[2] \in Seq(Records)
      /\ scans = <<scans[1], scans[2]>> /\ has_more \in Seq(BOOLEAN) /\ Len(has_more) = 2
      BY <1>1, JoinFacts
<1>4. SortedTables BY <1>1, <1>3 DEF SortedTables, MayJoin
<1>5. /\ row = "none" /\ ~looping => scans[1].curr = 0 /\ scans[2].curr = 0 /\ Going(scans[1]) /\ Going(scans[2])
      /\ looping /\ has_more[1] => Going(scans[1]) /\ scans[1].curr # 0
      /\ row = "row" /\ ~looping => Going(scans[1]) /\ scans[1].curr # 0
      BY <1>1 DEF LeftOK
<1>6. /\ row = "none" /\ ~looping => out = <<>>
      /\ row = "row" /\ ~looping => AtPair(scans[1], scans[2], m_join_val, out)
      /\ looping => Looking(scans[1], scans[2], has_more, out)
      BY DEF Pass, PassAt
<1> QED BY <1>1, <1>2, <1>3, <1>4, <1>5, <1>6

\* The right scan goes on, and the left one stays.
LEMMA PassRight ==
    ASSUME Pass, ~looping, tables' = tables, row' # "crash", whole',
           NEW r, r = SortNext(scans[2], tables[2]), JoinRight(r)
    PROVE  PassAt(scans[1], scans[2], m_join_val, looping, row, has_more, out)'
<1> DEFINE s == scans[2]
           x == scans[1]
           t == r.scan
           S == tables[1]
           T == tables[2]
           p == <<Current(x), Current(t)>>
<1>1. /\ Has(2, r) /\ r.ok /\ scans' = <<x, t>> /\ UNCHANGED <<m_join_val, saved, has_more>> /\ Pair(x, t, "right")
      BY DEF JoinRight
<1>2. /\ Readable(x, x.curr) /\ row' = "row" /\ looping' = FALSE /\ out' = out \o <<p>>
      BY <1>1, PairRows DEF Pass
<1>3. x.curr # 0 BY <1>2, PassFacts, NotBoth
<1>4. row = "row" BY <1>3, PassFacts
<1>5. /\ Going(s) /\ s.curr # 0 /\ ValueAt(1, x) = m_join_val /\ Exactly(out, UpTo(Current(x), Current(s)))
      BY <1>4, PassFacts DEF AtPair
<1>6. r.found /\ ValueAt(2, t) = m_join_val BY <1>1 DEF Has
<1>7. Going(t) /\ t.curr # 0 /\ Current(t) = Current(s) + 1 /\ Current(t) \in DOMAIN T /\ Current(s) \in DOMAIN T
      BY <1>1, <1>5, <1>6, PassFacts, MoveAhead
<1>8. Current(x) \in DOMAIN S BY <1>2, PassFacts, CurrentOf
<1>9. S[Current(x)][JoinField] = T[Current(t)][JoinField] BY <1>5, <1>6 DEF ValueAt
<1> DEFINE a == Current(x)
           c == Current(s)
           d == Current(t)
<1>10. SortedTables /\ a \in DOMAIN S /\ c \in DOMAIN T /\ d = c + 1 /\ d \in DOMAIN T /\ S[a][JoinField] = T[d][JoinField]
       BY <1>7, <1>8, <1>9, PassFacts
<1> HIDE DEF a, c, d
<1>11. OneMorePair(a, d, a, c) BY <1>10, NextOnRight
<1>12. Exactly(out, UpTo(a, c)) /\ Sequence(out) /\ p = <<a, d>> BY <1>5 DEF a, c, d, Pass
<1> HIDE DEF p
<1>13. Exactly(out \o <<p>>, UpTo(a, d))
  <2>1. p \notin UpTo(a, c) /\ UpTo(a, d) = UpTo(a, c) \cup {p} BY <1>11, <1>12 DEF OneMorePair
  <2> QED BY <1>12, <2>1, ExactlyOneMore
<1> HIDE DEF s, x, t, S, T
<1>14. AtPair(x, t, m_join_val, out') BY <1>2, <1>5, <1>6, <1>7, <1>13 DEF AtPair, a, d
<1> DEFINE val == m_join_val
           more == has_more
           seq == out'
<1> HIDE DEF val, more, seq
<1>15. PassAt(x, t, val, FALSE, "row", more, seq) BY <1>14 DEF PassAt, val, seq
<1>16. m_join_val' = val /\ has_more' = more /\ scans'[1] = x /\ scans'[2] = t BY <1>1 DEF val, more
<1> QED BY <1>2, <1>15, <1>16, PassThen DEF seq

LEMMA PlaceIsNat ==
    ASSUME NEW ps \in Seq(Nat), NEW q \in 1..Len(ps)
    PROVE  ps[q] \in Nat
OBVIOUS

LEMMA TwoPlaces ==
    ASSUME NEW ps \in Seq(Nat), Len(ps) = 2
    PROVE  ps[1] \in Nat /\ ps[2] \in Nat
<1> DEFINE e == Len(ps)
<1>1. e = 2 OBVIOUS
<1> HIDE DEF e
<1>2. 1 \in 1..e /\ 2 \in 1..e BY <1>1
<1> QED BY <1>2, PlaceIsNat DEF e

\* Of two records, one of each run, the one of the first run has the smaller value.
LEMMA RunsDiffer ==
    ASSUME NEW s, ScanOK(s, tables[2]), RunsSorted(s.runs, tables[2]), SortedTables, Len(s.runs) = 2,
           NEW n, n \in 1..Len(s.runs[1]), NEW m, m \in 1..Len(s.runs[2])
    PROVE  tables[2][s.runs[1][n]][JoinField] < tables[2][s.runs[2][m]][JoinField]
<1> DEFINE T == tables[2]
           rs == s.runs
           c == rs[1][n]
           d == rs[2][m]
<1>1. DOMAIN rs = 1..2 /\ Each(rs, DOMAIN T) BY DEF ScanOK, ScanSet
<1>2. 1 \in DOMAIN rs /\ 2 \in DOMAIN rs BY <1>1
<1>3. rs[1] \in Seq(DOMAIN T) /\ rs[2] \in Seq(DOMAIN T) BY <1>1, <1>2 DEF Each
<1>4. c \in DOMAIN T /\ d \in DOMAIN T BY <1>3
<1>5. c < d /\ T[c][JoinField] # T[d][JoinField] BY <1>2 DEF RunsSorted
<1> HIDE DEF c, d, rs
<1>6. T \in Seq(Records) /\ NotDecreasing(T) BY DEF SortedTables
<1>7. c <= d
  <2>1. DOMAIN T \subseteq Nat BY <1>6
  <2> QED BY <1>4, <1>5, <2>1
<1>8. T[c][JoinField] \in Nat /\ T[d][JoinField] \in Nat /\ T[c][JoinField] <= T[d][JoinField] BY <1>4, <1>6, <1>7, ValuesGrow
<1> QED BY <1>5, <1>8 DEF c, d, rs

\* The right scan is taken back: in a whole pass only before its first pair.
LEMMA PassLeft ==
    ASSUME Pass, ~looping, tables' = tables, row' # "crash", whole',
           NEW r, r = SortNext(scans[2], tables[2]), NEW v, v = SortNext(scans[1], tables[1]), JoinLeft(v, r)
    PROVE  PassAt(scans[1], scans[2], m_join_val, looping, row, has_more, out)'
<1> DEFINE s == scans[2]
           x == scans[1]
           t == r.scan
           y == Restored(r.scan)
           u == v.scan
           S == tables[1]
           T == tables[2]
           p == <<Current(u), Current(y)>>
<1>1. /\ v.ok /\ r.ok /\ Has(1, v) /\ saved.pos # <<>>
      /\ scans' = <<u, y>> /\ UNCHANGED <<m_join_val, saved, has_more>> /\ Pair(u, y, "left")
      BY DEF JoinLeft
<1>2. /\ Readable(u, u.curr) /\ Readable(y, y.curr) /\ row' = "row" /\ looping' = FALSE /\ out' = out \o <<p>>
      BY <1>1, PairRows DEF Pass
<1>3. v.found /\ ValueAt(1, u) = m_join_val BY <1>1 DEF Has
<1>4. Going(x)
  <2>1. row = "none" \/ row = "row" BY PassFacts
  <2> QED BY <2>1, PassFacts
<1>5. /\ Current(u) = Place(x) + 1 /\ Current(u) \in DOMAIN S
      /\ x.curr # 0 => Place(x) = Current(x) /\ Current(x) \in DOMAIN S
      /\ x.curr = 0 => Place(x) = 0
      BY <1>1, <1>3, <1>4, PassFacts, MoveAhead
<1>6. row # "row"
  <2> SUFFICES ASSUME row = "row" PROVE FALSE OBVIOUS
  <2>1. x.curr # 0 /\ ValueAt(1, x) = m_join_val BY PassFacts DEF AtPair
  <2>2. S \in Seq(Records) /\ Increasing(S) BY PassFacts DEF SortedTables
  <2> DEFINE a == Current(x)
             g == Current(u)
  <2>3. g = a + 1 /\ g \in DOMAIN S /\ a \in DOMAIN S BY <1>5, <2>1
  <2>4. S[a][JoinField] = S[g][JoinField] BY <1>3, <2>1 DEF ValueAt
  <2> HIDE DEF a, g
  <2>5. a = g BY <2>2, <2>3, <2>4, LeftValuesGrow
  <2>6. a \in Nat BY <2>2, <2>3
  <2> QED BY <2>3, <2>5, <2>6
<1>7. row = "none" /\ x.curr = 0 /\ s.curr = 0 /\ Going(s) /\ out = <<>> BY <1>6, PassFacts
<1>8. Current(u) = 1 /\ m_join_val = FirstVal
  <2>1. Current(u) = 1 BY <1>5, <1>7
  <2> QED BY <1>3, <2>1 DEF ValueAt, FirstVal
<1>9. Len(s.runs) = 2
  <2>1. Len(s.runs) # 1 BY <1>1 DEF Pass, TakenAt
  <2>2. Len(s.runs) \in 1..2 BY PassFacts DEF ScanOK
  <2> DEFINE e == Len(s.runs)
  <2> HIDE DEF e
  <2>3. e \in 1..2 /\ e # 1 BY <2>1, <2>2 DEF e
  <2>4. e = 2 BY <2>3
  <2> QED BY <2>4 DEF e
<1>10. /\ ScanOK(s, T) /\ RunsSorted(s.runs, T) /\ T \in Seq(Records) /\ fields = {JoinField} /\ SortedTables
       BY PassFacts
<1>11. t.runs = s.runs /\ t.curr = 1 /\ Going(t)
  <2>1. /\ t.runs = s.runs /\ AfterMove(s, s.curr, t)
        /\ r.found <=> t.more[1] \/ t.more[2]
        /\ r.found => t.curr = (IF t.more[1] THEN 1 ELSE 2)
        BY <1>1, <1>10, SortNextIs
  <2>2. t.more = s.more BY <1>7, <2>1 DEF AfterMove
  <2>3. 1 \in DOMAIN s.runs
    <3>1. DOMAIN s.runs = 1..2 BY <1>9, <1>10 DEF ScanOK, ScanSet
    <3> QED BY <3>1
  <2>4. s.more[1] BY <1>7, <2>3 DEF Going
  <2>5. r.found /\ t.curr = 1 BY <2>1, <2>2, <2>4
  <2>6. Going(t) BY <1>1, <1>7, <1>10, <2>5, MoveAhead
  <2> QED BY <2>1, <2>5, <2>6
<1>12. y.runs = s.runs /\ y.curr = 1 /\ y.pos = saved.pos /\ y.more = t.more
  <2>1. ScanOK(t, T) BY <1>1, <1>10, SortNextOK
  <2>2. t \in ScanSet BY <2>1 DEF ScanOK
  <2> HIDE DEF t
  <2>3. y = [t EXCEPT !.pos = saved.pos] BY DEF Restored, t
  <2> HIDE DEF y, s
  <2> QED BY <1>11, <2>2, <2>3 DEF ScanSet
<1>13. /\ saved.pos \in Seq(Nat) /\ Len(saved.pos) = 2 /\ saved.curr \in DOMAIN s.runs /\ saved.pos[saved.curr] > 0
       /\ \A q \in DOMAIN s.runs : saved.pos[q] <= Len(s.runs[q])
       /\ T[s.runs[saved.curr][saved.pos[saved.curr]]][JoinField] = FirstVal
       BY <1>1, <1>7, <1>8, <1>9, PassFacts DEF MatTypes, SavedOK
<1>14. DOMAIN s.runs = {1, 2} /\ s.runs \in Seq(Seq(Nat))
  <2>1. DOMAIN s.runs = 1..2 /\ s.runs \in Seq(Seq(Nat)) BY <1>9, <1>10 DEF ScanOK, ScanSet
  <2> QED BY <2>1
<1>a. ASSUME NEW q \in {1, 2} PROVE saved.pos[q] \in Nat /\ Len(s.runs[q]) \in Nat /\ saved.pos[q] <= Len(s.runs[q])
  <2>1. saved.pos[q] <= Len(s.runs[q]) BY <1>13, <1>14
  <2>2. s.runs[q] \in Seq(DOMAIN T) BY <1>10, <1>14 DEF ScanOK, Each
  <2>3. saved.pos[q] \in Nat
    <3>1. saved.pos \in Seq(Nat) /\ Len(saved.pos) = 2 BY <1>13
    <3>2. saved.pos[1] \in Nat /\ saved.pos[2] \in Nat BY <3>1, TwoPlaces
    <3> QED BY <3>2
  <2> QED BY <2>1, <2>2, <2>3
<1>15. saved.pos[1] \in 1..Len(s.runs[1])
  <2>1. saved.pos[1] > 0 BY <1>2, <1>12 DEF Readable
  <2>2. saved.pos[1] \in Nat /\ Len(s.runs[1]) \in Nat /\ saved.pos[1] <= Len(s.runs[1]) BY <1>a
  <2> QED BY <2>1, <2>2
<1>16. saved.curr = 1
  <2> SUFFICES ASSUME saved.curr = 2 PROVE FALSE BY <1>13, <1>14
  <2>1. saved.pos[2] \in 1..Len(s.runs[2])
    <3>1. saved.pos[2] \in Nat /\ Len(s.runs[2]) \in Nat /\ saved.pos[2] <= Len(s.runs[2]) /\ saved.pos[2] > 0
          BY <1>13, <1>a
    <3> QED BY <3>1
  <2> DEFINE c == s.runs[1][saved.pos[1]]
             d == s.runs[2][saved.pos[2]]
  <2>2. T[c][JoinField] < T[d][JoinField] BY <1>9, <1>10, <1>15, <2>1, RunsDiffer
  <2>3. NotBefore(saved.pos[1], s) BY <1>1, <1>9 DEF Pass, TakenAt
  <2>4. FirstVal <= T[c][JoinField]
    <3>1. saved.pos[1] > 0 BY <1>13, <1>14, <1>15
    <3> QED BY <2>3, <3>1 DEF NotBefore
  <2>5. T[d][JoinField] = FirstVal BY <1>13
  <2>6. T[c][JoinField] \in Nat /\ FirstVal \in Nat
    <3>1. s.runs[1] \in Seq(DOMAIN T) /\ s.runs[2] \in Seq(DOMAIN T) BY <1>10, <1>14 DEF ScanOK, Each
    <3>2. c \in DOMAIN T /\ d \in DOMAIN T BY <1>15, <2>1, <3>1
    <3>3. T[c][JoinField] \in Nat /\ T[d][JoinField] \in Nat BY <1>10, <3>2, ValuesGrow DEF SortedTables
    <3> QED BY <2>5, <3>3
  <2> HIDE DEF c, d
  <2> QED BY <2>2, <2>4, <2>5, <2>6
<1>17. SavedEarly(s, saved, m_join_val)
  <2>1. InFirst(s) BY <1>13, <1>15, <1>16 DEF InFirst
  <2> QED BY <1>9, <2>1 DEF Pass, EarlyAt
<1>18. saved.pos[2] = 1 /\ IsFirstWith(s.runs[1][saved.pos[1]], FirstVal) BY <1>1, <1>8, <1>16, <1>17 DEF SavedEarly
<1>19. Going(y)
  <2>1. t.more[1] /\ (t.more[2] <=> Len(t.runs) = 2) BY <1>11 DEF Going
  <2>2. y.pos[1] > 0 BY <1>2, <1>12 DEF Readable
  <2> HIDE DEF y, t, s
  <2> QED BY <1>11, <1>12, <1>18, <2>1, <2>2 DEF Going
<1>20. IsFirstWith(Current(y), FirstVal) BY <1>12, <1>18 DEF Current
<1>21. ValueAt(2, y) = m_join_val BY <1>8, <1>20 DEF IsFirstWith, ValueAt
<1> DEFINE c == Current(y)
<1>22. OneMorePair(1, c, 0, 0)
  <2>1. 1 \in DOMAIN S BY <1>5, <1>8
  <2> HIDE DEF c
  <2> QED BY <1>10, <1>20, <2>1, FirstOfFirst DEF c
<1> HIDE DEF c
<1>23. Exactly(out', UpTo(Current(u), Current(y)))
  <2>1. p = <<1, c>> BY <1>8 DEF c
  <2> HIDE DEF p
  <2>2. Exactly(out, {}) /\ Sequence(out) BY <1>7, NoneIsExact
  <2>3. UpTo(0, 0) = {} BY <1>10, NothingPassed
  <2>4. p \notin {} /\ UpTo(1, c) = {} \cup {p} BY <1>22, <2>1, <2>3 DEF OneMorePair
  <2>5. Exactly(out \o <<p>>, UpTo(1, c)) BY <2>2, <2>4, ExactlyOneMore
  <2> QED BY <1>2, <1>8, <2>5 DEF c
<1> HIDE DEF s, x, t, u, y, S, T
<1>24. AtPair(u, y, m_join_val, out') BY <1>3, <1>12, <1>19, <1>21, <1>23 DEF AtPair
<1> DEFINE val == m_join_val
           more == has_more
           seq == out'
<1> HIDE DEF val, more, seq
<1>25. PassAt(u, y, val, FALSE, "row", more, seq) BY <1>24 DEF PassAt, val, seq
<1>26. m_join_val' = val /\ has_more' = more /\ scans'[1] = u /\ scans'[2] = y BY <1>1 DEF val, more
<1> QED BY <1>2, <1>25, <1>26, PassThen DEF seq

\* The scans of a loop, and what they have left behind.
LEMMA LoopFacts ==
    ASSUME Pass, looping
    PROVE  /\ PassedBy(out, Ahead(1, scans[1], has_more), Ahead(2, scans[2], has_more))
           /\ Ahead(1, scans[1], has_more) \in Nat /\ Ahead(2, scans[2], has_more) \in Nat
           /\ has_more[1] => /\ Going(scans[1]) /\ scans[1].curr # 0 /\ Current(scans[1]) \in DOMAIN tables[1]
                             /\ ValueAt(1, scans[1]) \in Nat
           /\ has_more[2] => /\ Going(scans[2]) /\ scans[2].curr # 0 /\ Current(scans[2]) \in DOMAIN tables[2]
                             /\ ValueAt(2, scans[2]) \in Nat
<1> DEFINE x == scans[1]
           s == scans[2]
<1>1. /\ ScanOK(x, tables[1]) /\ tables[1] \in Seq(Records) /\ ScanOK(s, tables[2]) /\ tables[2] \in Seq(Records)
      /\ has_more[1] => Going(x) /\ x.curr # 0
      /\ Looking(x, s, has_more, out)
      BY PassFacts
<1>2. has_more[2] => Going(s) /\ s.curr # 0 BY <1>1 DEF Looking
<1>3. PassedBy(out, Ahead(1, x, has_more), Ahead(2, s, has_more)) BY <1>1 DEF Looking
<1> HIDE DEF x, s
<1>4. has_more[1] => Current(x) \in DOMAIN tables[1] /\ ValueAt(1, x) \in Nat BY <1>1, NotBoth, CurrentOf DEF ValueAt
<1>5. has_more[2] => Current(s) \in DOMAIN tables[2] /\ ValueAt(2, s) \in Nat BY <1>1, <1>2, NotBoth, CurrentOf DEF ValueAt
<1>6. DOMAIN tables[1] \subseteq Nat /\ DOMAIN tables[2] \subseteq Nat /\ Len(tables[1]) \in Nat /\ Len(tables[2]) \in Nat BY <1>1
<1>7. Ahead(1, x, has_more) \in Nat BY <1>4, <1>6 DEF Ahead
<1>8. Ahead(2, s, has_more) \in Nat BY <1>5, <1>6 DEF Ahead
<1> QED BY <1>1, <1>2, <1>3, <1>4, <1>5, <1>7, <1>8 DEF x, s

\* Neither scan has the value any more: both have gone on.
LEMMA PassOn ==
    ASSUME Pass, ~looping, tables' = tables,
           NEW r, r = SortNext(scans[2], tables[2]), NEW v, v = SortNext(scans[1], tables[1]), JoinOn(v, r)
    PROVE  PassAt(scans[1], scans[2], m_join_val, looping, row, has_more, out)'
<1> DEFINE s == scans[2]
           x == scans[1]
           t == r.scan
           u == v.scan
           S == tables[1]
           T == tables[2]
           more == <<v.found, r.found>>
           a == Place(x)
           c == Place(s)
<1>1. /\ v.ok /\ r.ok /\ ~Has(2, r) /\ scans' = <<u, t>> /\ has_more' = more /\ looping' = TRUE
      /\ m_join_val' = m_join_val /\ row' = row /\ out' = out
      BY DEF JoinOn, returnedRows
<1>2. Going(x) /\ Going(s)
  <2>1. row = "none" \/ row = "row" BY PassFacts
  <2> QED BY <2>1, PassFacts DEF AtPair
<1>3. /\ v.found => Current(u) = a + 1
      /\ ~v.found => a = Len(S)
      /\ x.curr # 0 => a = Current(x) /\ Current(x) \in DOMAIN S
      /\ x.curr = 0 => a = 0
      BY <1>1, <1>2, PassFacts, MoveAhead
<1>4. /\ r.found => Going(t) /\ t.curr # 0 /\ Current(t) = c + 1
      /\ ~r.found => c = Len(T)
      /\ s.curr # 0 => c = Current(s) /\ Current(s) \in DOMAIN T
      /\ s.curr = 0 => c = 0
      BY <1>1, <1>2, PassFacts, MoveAhead
<1>5. SortedTables BY PassFacts
<1> HIDE DEF a, c
<1>6. PassedBy(out, a + 1, c + 1)
  <2>1. CASE row = "none"
    <3>1. a = 0 /\ c = 0 /\ out = <<>> BY <1>3, <1>4, <2>1, PassFacts
    <3>2. a + 1 = 1 /\ c + 1 = 1 BY <3>1
    <3> QED BY <1>5, <3>1, <3>2, NothingPassed
  <2>2. CASE row = "row"
    <3>1. /\ x.curr # 0 /\ s.curr # 0 /\ ValueAt(1, x) = m_join_val /\ ValueAt(2, s) = m_join_val
          /\ Exactly(out, UpTo(Current(x), Current(s)))
          BY <2>2, PassFacts DEF AtPair
    <3>2. a = Current(x) /\ a \in DOMAIN S /\ c = Current(s) /\ c \in DOMAIN T BY <1>3, <1>4, <3>1
    <3>3. S[a][JoinField] = m_join_val /\ T[c][JoinField] = m_join_val /\ Exactly(out, UpTo(a, c)) BY <3>1, <3>2 DEF ValueAt
    <3>4. c + 1 \in DOMAIN T => T[c + 1][JoinField] # m_join_val
      <4>1. CASE r.found
        <5>1. ValueAt(2, t) # m_join_val BY <1>1, <4>1 DEF Has
        <5> QED BY <1>4, <4>1, <5>1 DEF ValueAt
      <4>2. CASE ~r.found
        <5>1. c = Len(T) BY <1>4, <4>2
        <5>2. T \in Seq(Records) BY PassFacts
        <5> DEFINE e == Len(T)
        <5>3. e \in Nat /\ DOMAIN T = 1..e BY <5>2
        <5> HIDE DEF e, T
        <5>4. e + 1 \notin 1..e BY <5>3
        <5> QED BY <5>1, <5>3, <5>4 DEF e
      <4> QED BY <4>1, <4>2
    <3> QED BY <1>5, <3>2, <3>3, <3>4, PairIsPassed
  <2> QED BY <2>1, <2>2, PassFacts
<1>7. more[1] = v.found /\ more[2] = r.found OBVIOUS
<1> HIDE DEF more
<1>8. Ahead(1, u, more) = a + 1 BY <1>3, <1>7 DEF Ahead
<1>9. Ahead(2, t, more) = c + 1 BY <1>4, <1>7 DEF Ahead
<1>10. Looking(u, t, more, out) BY <1>4, <1>6, <1>7, <1>8, <1>9 DEF Looking
<1>11. row # "end" BY PassFacts
<1>12. scans'[1] = u /\ scans'[2] = t BY <1>1
<1> HIDE DEF s, x, t, u, S, T
<1> DEFINE val == m_join_val
           what == row
           seq == out
<1> HIDE DEF val, what, seq
<1>13. PassAt(u, t, val, TRUE, what, more, seq) BY <1>10, <1>11 DEF PassAt, what, seq
<1>14. m_join_val' = val /\ row' = what /\ out' = seq BY <1>1 DEF val, what, seq
<1> QED BY <1>1, <1>12, <1>13, <1>14, PassThen

\* One of the scans is at its end.
LEMMA PassEnds ==
    ASSUME Pass, looping, tables' = tables, MeetEnds, whole'
    PROVE  PassAt(scans[1], scans[2], m_join_val, looping, row, has_more, out)'
<1> DEFINE s == scans[2]
           x == scans[1]
           a == Ahead(1, x, has_more)
           c == Ahead(2, s, has_more)
<1>1. /\ ~(has_more[1] /\ has_more[2]) /\ scans' = scans /\ UNCHANGED <<has_more, m_join_val>>
      /\ row' = "end" /\ looping' = FALSE /\ out' = out \o <<>>
      BY ReturnsRows DEF MeetEnds
<1>2. out' = out BY <1>1, NoMoreRows DEF Pass
<1>3. PassedBy(out, a, c) /\ a \in Nat /\ c \in Nat /\ SortedTables BY LoopFacts, PassFacts
<1>4. a = Len(tables[1]) + 1 \/ c = Len(tables[2]) + 1 BY <1>1 DEF Ahead
<1> HIDE DEF a, c
<1>5. Exactly(out, Matching) BY <1>3, <1>4, AllPassed
<1> HIDE DEF s, x
<1> DEFINE val == m_join_val
           more == has_more
           seq == out
<1> HIDE DEF val, more, seq
<1>6. PassAt(x, s, val, FALSE, "end", more, seq) BY <1>5 DEF PassAt, seq
<1>7. m_join_val' = val /\ has_more' = more /\ out' = seq BY <1>1, <1>2 DEF val, more, seq
<1> QED BY <1>1, <1>6, <1>7, PassThen DEF x, s

\* The values meet.
LEMMA PassFound ==
    ASSUME Pass, looping, tables' = tables, row' # "crash", MeetFound, whole'
    PROVE  PassAt(scans[1], scans[2], m_join_val, looping, row, has_more, out)'
<1> DEFINE s == scans[2]
           x == scans[1]
           val == ValueAt(2, s)
           a == Current(x)
           c == Current(s)
           p == <<a, c>>
<1>1. /\ has_more[1] /\ has_more[2] /\ ValueAt(1, x) = val /\ m_join_val' = val
      /\ Pair(x, s, "meet") /\ scans' = scans /\ has_more' = has_more
      BY DEF MeetFound
<1>2. row' = "row" /\ looping' = FALSE /\ out' = out \o <<p>> BY <1>1, PairRows DEF Pass
<1>3. /\ Going(s) /\ s.curr # 0 /\ a \in DOMAIN tables[1] /\ c \in DOMAIN tables[2]
      /\ PassedBy(out, a, c)
      BY <1>1, LoopFacts DEF Ahead
<1>4. tables[1][a][JoinField] = tables[2][c][JoinField] BY <1>1 DEF ValueAt
<1>5. SortedTables /\ Sequence(out) BY PassFacts DEF Pass
<1> HIDE DEF a, c
<1>6. p \notin Before(a) /\ UpTo(a, c) = Before(a) \cup {p} BY <1>3, <1>4, <1>5, PairIsFound
<1>7. Exactly(out, Before(a)) BY <1>3 DEF PassedBy
<1> HIDE DEF p
<1>8. Exactly(out \o <<p>>, UpTo(a, c)) BY <1>5, <1>6, <1>7, ExactlyOneMore
<1>9. AtPair(x, s, val, out') BY <1>1, <1>2, <1>3, <1>8 DEF AtPair, a, c
<1> HIDE DEF s, x, val
<1> DEFINE more == has_more
           seq == out'
<1> HIDE DEF more, seq
<1>10. PassAt(x, s, val, FALSE, "row", more, seq) BY <1>9 DEF PassAt, seq
<1>11. scans'[1] = x /\ scans'[2] = s /\ has_more' = more BY <1>1 DEF x, s, more
<1> QED BY <1>1, <1>2, <1>10, <1>11, PassThen DEF seq

\* The left scan goes on, whose value is smaller.
LEMMA PassGoesLeft ==
    ASSUME Pass, looping, tables' = tables, MeetGoesOn(1)
    PROVE  PassAt(scans[1], scans[2], m_join_val, looping, row, has_more, out)'
<1> DEFINE s == scans[2]
           x == scans[1]
           S == tables[1]
           T == tables[2]
           n == SortNext(x, S)
           t == n.scan
           more == has_more'
           a == Current(x)
           c == Current(s)
<1>1. /\ has_more[1] /\ has_more[2] /\ ValueAt(1, x) # ValueAt(2, s) /\ n.ok
      /\ 1 = (IF ValueAt(1, x) < ValueAt(2, s) THEN 1 ELSE 2)
      /\ scans' = [scans EXCEPT ![1] = t] /\ has_more' = [has_more EXCEPT ![1] = n.found]
      /\ UNCHANGED <<looping, row, m_join_val, out>>
      BY DEF MeetGoesOn, returnedRows
<1>2. ValueAt(1, x) < ValueAt(2, s) BY <1>1
<1>3. /\ Going(x) /\ x.curr # 0 /\ Going(s) /\ s.curr # 0 /\ a \in DOMAIN S /\ c \in DOMAIN T
      /\ PassedBy(out, a, c)
      BY <1>1, LoopFacts DEF Ahead
<1>4. scans'[1] = t /\ scans'[2] = s /\ more[1] = n.found /\ more[2] = has_more[2]
  <2>1. scans = <<x, s>> /\ has_more \in Seq(BOOLEAN) /\ Len(has_more) = 2 BY PassFacts
  <2>2. 1 \in DOMAIN scans /\ 2 \in DOMAIN scans /\ 2 \in DOMAIN has_more /\ 1 \in DOMAIN has_more BY <2>1
  <2> HIDE DEF n
  <2> QED BY <1>1, <2>2
<1>5. /\ n.found => Current(t) = Place(x) + 1
      /\ ~n.found => Place(x) = Len(S)
      /\ Place(x) = a
      BY <1>1, <1>3, PassFacts, MoveAhead
<1>6. PassedBy(out, a + 1, c)
  <2>1. SortedTables BY PassFacts
  <2>2. S[a][JoinField] < T[c][JoinField] BY <1>2 DEF ValueAt
  <2> HIDE DEF a, c
  <2> QED BY <1>3, <2>1, <2>2, SmallerPassed
<1> HIDE DEF more, n, a
<1>7. Ahead(1, t, more) = a + 1 BY <1>4, <1>5 DEF Ahead
<1>8. Ahead(2, s, more) = c BY <1>1, <1>4 DEF Ahead
<1>9. Looking(t, s, more, out) BY <1>3, <1>6, <1>7, <1>8 DEF Looking
<1>10. row # "end" /\ looping = TRUE BY PassFacts DEF MatTypes, RequestOK
<1> HIDE DEF t, s, x
<1> DEFINE val == m_join_val
           what == row
           seq == out
<1> HIDE DEF val, what, seq
<1>11. PassAt(t, s, val, TRUE, what, more, seq) BY <1>9, <1>10 DEF PassAt, what, seq
<1>12. m_join_val' = val /\ row' = what /\ looping' = TRUE /\ out' = seq BY <1>1, <1>10 DEF val, what, seq
<1> QED BY <1>4, <1>11, <1>12, PassThen DEF more

\* The right scan goes on, whose value is smaller.
LEMMA PassGoesRight ==
    ASSUME Pass, looping, tables' = tables, MeetGoesOn(2)
    PROVE  PassAt(scans[1], scans[2], m_join_val, looping, row, has_more, out)'
<1> DEFINE s == scans[2]
           x == scans[1]
           S == tables[1]
           T == tables[2]
           n == SortNext(s, T)
           t == n.scan
           more == has_more'
           a == Current(x)
           c == Current(s)
<1>1. /\ has_more[1] /\ has_more[2] /\ ValueAt(1, x) # ValueAt(2, s) /\ n.ok
      /\ 2 = (IF ValueAt(1, x) < ValueAt(2, s) THEN 1 ELSE 2)
      /\ scans' = [scans EXCEPT ![2] = t] /\ has_more' = [has_more EXCEPT ![2] = n.found]
      /\ UNCHANGED <<looping, row, m_join_val, out>>
      BY DEF MeetGoesOn, returnedRows
<1>2. ValueAt(2, s) < ValueAt(1, x)
  <2>1. ValueAt(1, x) \in Nat /\ ValueAt(2, s) \in Nat BY <1>1, LoopFacts
  <2> QED BY <1>1, <2>1
<1>3. /\ Going(s) /\ s.curr # 0 /\ a \in DOMAIN S /\ c \in DOMAIN T
      /\ PassedBy(out, a, c)
      BY <1>1, LoopFacts DEF Ahead
<1>4. scans'[2] = t /\ scans'[1] = x /\ more[2] = n.found /\ more[1] = has_more[1]
  <2>1. scans = <<x, s>> /\ has_more \in Seq(BOOLEAN) /\ Len(has_more) = 2 BY PassFacts
  <2>2. 1 \in DOMAIN scans /\ 2 \in DOMAIN scans /\ 2 \in DOMAIN has_more /\ 1 \in DOMAIN has_more BY <2>1
  <2> HIDE DEF n
  <2> QED BY <1>1, <2>2
<1>5. /\ n.found => Going(t) /\ t.curr # 0 /\ Current(t) = Place(s) + 1
      /\ ~n.found => Place(s) = Len(T)
      /\ Place(s) = c
      BY <1>1, <1>3, PassFacts, MoveAhead
<1>6. PassedBy(out, a, c + 1)
  <2>1. SortedTables BY PassFacts
  <2>2. T[c][JoinField] < S[a][JoinField] BY <1>2 DEF ValueAt
  <2> HIDE DEF a, c
  <2> QED BY <1>3, <2>1, <2>2, SmallerPassed
<1> HIDE DEF more, n, c
<1>7. Ahead(2, t, more) = c + 1 BY <1>4, <1>5 DEF Ahead
<1>8. Ahead(1, x, more) = a BY <1>1, <1>4 DEF Ahead
<1>9. Looking(x, t, more, out) BY <1>4, <1>5, <1>6, <1>7, <1>8 DEF Looking
<1>10. row # "end" /\ looping = TRUE BY PassFacts DEF MatTypes, RequestOK
<1> HIDE DEF t, s, x
<1> DEFINE val == m_join_val
           what == row
           seq == out
<1> HIDE DEF val, what, seq
<1>11. PassAt(x, t, val, TRUE, what, more, seq) BY <1>9, <1>10 DEF PassAt, what, seq
<1>12. m_join_val' = val /\ row' = what /\ looping' = TRUE /\ out' = seq BY <1>1, <1>10 DEF val, what, seq
<1> QED BY <1>4, <1>11, <1>12, PassThen DEF more

\* Behind the end of a pass.
LEMMA PassEnded ==
    ASSUME tables' = tables, MayJoin, row # "crash", whole, PassOK, row = "end",
           row' = "end", looping' = TRUE, out' = out
    PROVE  PassAt(scans[1], scans[2], m_join_val, looping, row, has_more, out)'
<1>1. Exactly(out, Matching) BY DEF PassOK, PassAt
<1>2. Matching' = Matching BY DEF Matching
<1>3. Exactly(out, Matching)' BY <1>1, <1>2 DEF Exactly
<1> QED BY <1>3 DEF PassAt

LEMMA PairsStep ==
    ASSUME Joins, LeftOK, TakenOK, EarlyOK, PassOK, JoinExact, row' # "crash", whole',
           before_first_rows \/ join_next \/ meet, tables' = tables
    PROVE  PassAt(scans[1], scans[2], m_join_val, looping, row, has_more, out)'
<1>1. kind = "join" /\ MatTypes /\ row # "crash" /\ MayJoin /\ Started BY JoinFacts DEF Joins
<1>2. CASE before_first_rows
  <2>1. row' = "none" /\ looping' = FALSE /\ out' = <<>> BY <1>2, BeginsAgain
  <2> DEFINE x == scans'[1]
             s == scans'[2]
             val == m_join_val'
             more == has_more'
  <2> HIDE DEF x, s, val, more
  <2>2. PassAt(x, s, val, FALSE, "none", more, <<>>) BY DEF PassAt
  <2> QED BY <2>1, <2>2, PassThen DEF x, s, val, more
<1>3. ASSUME join_next \/ meet PROVE by # "new"
  <2>1. join_next => by # "new" BY DEF join_next
  <2>2. meet => by # "new" BY <1>1 DEF meet, Started
  <2> QED BY <1>3, <2>1, <2>2
<1>4. ASSUME join_next \/ meet, whole, row # "end" PROVE Pass
  <2>1. Sequence(out) BY <1>1, <1>4 DEF JoinExact
  <2> QED BY <1>1, <1>3, <1>4, <2>1 DEF Pass, TakenOK, EarlyOK, PassOK
<1>5. CASE join_next
  <2> DEFINE r == SortNext(scans[2], tables[2])
             v == SortNext(scans[1], tables[1])
  <2>1. JoinRight(r) \/ JoinLeft(v, r) \/ JoinOn(v, r) BY <1>5, JoinNextSteps
  <2>2. ~looping BY <1>5 DEF join_next, Ready
  <2>3. JoinRight(r) /\ Pass => PassAt(scans[1], scans[2], m_join_val, looping, row, has_more, out)' BY <2>2, PassRight
  <2>4. JoinLeft(v, r) /\ Pass => PassAt(scans[1], scans[2], m_join_val, looping, row, has_more, out)' BY <2>2, PassLeft
  <2>5. JoinOn(v, r) /\ Pass => PassAt(scans[1], scans[2], m_join_val, looping, row, has_more, out)' BY <2>2, PassOn
  <2> HIDE DEF r, v
  <2>6. CASE JoinRight(r)
    <3>1. whole /\ row # "end" BY <2>6, PairRows DEF JoinRight
    <3> QED BY <1>4, <1>5, <2>3, <2>6, <3>1
  <2>7. CASE JoinLeft(v, r)
    <3> DEFINE y == Restored(r.scan)
    <3>1. Pair(v.scan, y, "left") BY <2>7 DEF JoinLeft
    <3> HIDE DEF y
    <3>2. whole /\ row # "end" BY <3>1, PairRows
    <3> QED BY <1>4, <1>5, <2>4, <2>7, <3>2
  <2>8. CASE JoinOn(v, r)
    <3>1. UNCHANGED <<row, whole, out>> /\ looping' = TRUE BY <2>8 DEF JoinOn, returnedRows
    <3>2. CASE row = "end" BY <1>1, <3>1, <3>2, PassEnded
    <3>3. CASE row # "end" BY <1>4, <1>5, <2>5, <2>8, <3>1, <3>3
    <3> QED BY <3>2, <3>3
  <2> QED BY <2>1, <2>6, <2>7, <2>8
<1>6. CASE meet
  <2>1. looping BY <1>6 DEF meet
  <2>2. \A c \in 1..2 : c = 1 \/ c = 2 OBVIOUS
  <2>3. MeetEnds \/ MeetFound \/ MeetGoesOn(1) \/ MeetGoesOn(2) BY <1>6, <2>2, MeetSteps
  <2>4. CASE MeetEnds
    <3>1. whole /\ row # "end" BY <2>4, ReturnsRows DEF MeetEnds
    <3> QED BY <1>4, <1>6, <2>1, <2>4, <3>1, PassEnds
  <2>5. CASE MeetFound
    <3>1. whole /\ row # "end" BY <2>5, PairRows DEF MeetFound
    <3> QED BY <1>4, <1>6, <2>1, <2>5, <3>1, PassFound
  <2>6. CASE MeetGoesOn(1) \/ MeetGoesOn(2)
    <3>1. UNCHANGED <<row, whole, out, looping>> BY <2>6 DEF MeetGoesOn, returnedRows
    <3>2. looping = TRUE BY <1>1, <2>1 DEF MatTypes, RequestOK
    <3>3. CASE row = "end" BY <1>1, <3>1, <3>2, <3>3, PassEnded
    <3>4. CASE row # "end" BY <1>4, <1>6, <2>1, <2>6, <3>1, <3>4, PassGoesLeft, PassGoesRight
    <3> QED BY <3>3, <3>4
  <2> QED BY <2>3, <2>4, <2>5, <2>6
<1> QED BY <1>2, <1>5, <1>6

\* Where its scans are, what it has saved, and what a whole pass has returned.
JoinInv ==
    /\ MaterializeInv /\ FieldsOK /\ Started /\ SortedOK /\ ScansSorted
    /\ LeftOK /\ TakenOK /\ EarlyOK /\ PassOK

LEMMA PlacesStep ==
    ASSUME JoinInv, MatTypes', [NextMaterialize]_materializeVars
    PROVE  LeftOK' /\ TakenOK' /\ EarlyOK' /\ PassOK'
<1>1. kind' = kind /\ tables' = tables BY Steps DEF JoinInv, MaterializeInv, request
<1>2. (MayJoin' <=> MayJoin) /\ (MayJoin => kind = "join") BY <1>1 DEF MayJoin
<1>3. CASE Sort
  <2>1. by' = "new" /\ whole' = FALSE BY <1>3 DEF Sort, JoinInv, MaterializeInv, MatTypes, RequestOK
  <2> QED BY <2>1 DEF LeftOK, TakenOK, EarlyOK, PassOK
<1>4. ASSUME before_first_rows \/ join_next \/ meet PROVE LeftOK' /\ TakenOK' /\ EarlyOK' /\ PassOK'
  <2> SUFFICES ASSUME MayJoin, row' # "crash" PROVE LeftOK' /\ TakenOK' /\ EarlyOK' /\ PassOK'
      BY <1>2 DEF LeftOK, TakenOK, EarlyOK, PassOK
  <2>1. row # "crash" /\ ~Opening
    <3>1. before_first_rows \/ join_next => row # "crash" /\ ~Opening BY DEF before_first_rows, join_next, Ready
    <3>2. meet => looping BY DEF meet
    <3>3. looping => row # "crash" /\ ~Opening BY DEF JoinInv, MaterializeInv, MatTypes, RequestOK
    <3> QED BY <1>4, <3>1, <3>2, <3>3
  <2>2. Joins BY <2>1 DEF Joins, JoinInv, MaterializeInv
  <2>3. LeftOK' BY <1>4, <2>2, LeftStep DEF JoinInv, LeftOK
  <2>4. TakenOK' BY <1>1, <1>4, <2>2, TakenStep DEF JoinInv, TakenOK
  <2>5. EarlyOK' BY <1>1, <1>4, <2>2, EarlyStep DEF JoinInv, EarlyOK
  <2>6. PassOK'
    <3> SUFFICES ASSUME whole' PROVE PassAt(scans[1], scans[2], m_join_val, looping, row, has_more, out)' BY DEF PassOK
    <3>1. LeftOK /\ TakenOK /\ EarlyOK /\ PassOK /\ JoinExact BY DEF JoinInv, MaterializeInv
    <3> QED BY <1>1, <1>4, <2>2, <3>1, PairsStep
  <2> QED BY <2>3, <2>4, <2>5, <2>6
<1>5. CASE UNCHANGED materializeVars
  <2>1. UNCHANGED <<kind, whole, row, tables, scans, out, by, saved, looping, m_join_val, has_more>>
        BY <1>5 DEF materializeVars, request, scanState, loopState, returnedRows
  <2>2. LeftOK' BY <1>2, <2>1 DEF JoinInv, LeftOK, Going, Ended
  <2>3. TakenOK' BY <1>2, <2>1 DEF JoinInv, TakenOK, TakenAt, NotBefore, FirstVal, Going
  <2>4. EarlyOK'
    <3> SUFFICES ASSUME MayJoin, row # "crash", by # "new"
                 PROVE  EarlyAt(scans[1], scans[2], saved, m_join_val, looping, row, has_more)'
        BY <1>2, <2>1 DEF EarlyOK
    <3>1. EarlyAt(scans[1], scans[2], saved, m_join_val, looping, row, has_more) BY DEF JoinInv, EarlyOK
    <3> QED BY <2>1, <3>1, EarlyThen
  <2>5. PassOK'
    <3> SUFFICES ASSUME MayJoin, row # "crash", whole
                 PROVE  PassAt(scans[1], scans[2], m_join_val, looping, row, has_more, out)'
        BY <1>2, <2>1 DEF PassOK
    <3>1. PassAt(scans[1], scans[2], m_join_val, looping, row, has_more, out) BY DEF JoinInv, PassOK
    <3> QED BY <2>1, <3>1, PassThen
  <2> QED BY <2>2, <2>3, <2>4, <2>5
<1>6. CASE ~MayJoin BY <1>2, <1>6 DEF LeftOK, TakenOK, EarlyOK, PassOK
<1>7. kind = "join" => ~(sort_next \/ group_next \/ gather \/ before_first_index \/ index_next)
      BY DEF sort_next, group_next, gather, before_first_index, index_next, Ready
<1>8. split_into_runs \/ merge_two_runs \/ do_a_merge_iteration \/ open_scan => Sort
      BY DEF split_into_runs, merge_two_runs, do_a_merge_iteration, open_scan, Merging
<1> QED BY <1>2, <1>3, <1>4, <1>5, <1>6, <1>7, <1>8 DEF NextMaterialize

LEMMA JoinBegins ==
    ASSUME InitMaterialize
    PROVE  JoinInv
<1>1. MaterializeInv BY InitExact
<1>2. /\ kind = "join" => fields = {JoinField}
      /\ by = "new" /\ whole = FALSE /\ looping = FALSE /\ saved.pos = <<>> /\ scans = <<>> /\ runs = <<>> /\ result = <<<<>>>>
      BY DEF InitMaterialize
<1>3. FieldsOK /\ Started /\ ScansSorted /\ LeftOK /\ TakenOK /\ EarlyOK /\ PassOK
      BY <1>2 DEF FieldsOK, Started, ScansSorted, LeftOK, TakenOK, EarlyOK, PassOK
<1>4. SortedOK
  <2>1. DOMAIN result = {1} /\ result[1] = <<>> /\ DOMAIN runs = {} /\ Len(runs) = 0 /\ Len(result) = 1 BY <1>2
  <2>2. DOMAIN Kept = {<<2, 1>>} BY <2>1 DEF Kept
  <2>3. Kept[<<2, 1>>] = result[1] BY <2>2 DEF Kept
  <2> HIDE DEF Kept
  <2>4. \A x \in DOMAIN Kept : 1..Len(Kept[x]) = {} BY <2>1, <2>2, <2>3
  <2>5. Ordered(Kept, Source, Together) BY <2>4 DEF Ordered
  <2> QED BY <2>5 DEF SortedOK
<1> QED BY <1>1, <1>3, <1>4 DEF JoinInv

\* A merge join: the records of a run come before those of the next, the scans meet the records
\* in the order of the tables, the right one is taken back into its first run alone, and the
\* pairs returned so far are those up to the last one.
THEOREM JoinInvHolds == MaterializeSpec => []JoinInv
<1>1. InitMaterialize => JoinInv BY JoinBegins
<1>2. ASSUME JoinInv, MatTypes', [NextMaterialize]_materializeVars
      PROVE  JoinInv'
  <2>1. MaterializeInv' BY <1>2, SortStep, GroupStep, IndexStep, JoinStep DEF JoinInv, MaterializeInv
  <2>2. FieldsOK' /\ SortedOK' /\ ScansSorted' BY <1>2, SortingStep DEF JoinInv, MaterializeInv
  <2>3. Started' BY <1>2, StartedStep DEF JoinInv, MaterializeInv
  <2>4. LeftOK' /\ TakenOK' /\ EarlyOK' /\ PassOK' BY <1>2, PlacesStep
  <2> QED BY <2>1, <2>2, <2>3, <2>4 DEF JoinInv
<1>3. JoinInv /\ MatTypes' /\ [NextMaterialize]_materializeVars => JoinInv' BY <1>2
<1>4. MaterializeSpec => []MatTypes BY MaterializeTypes
<1> QED BY <1>1, <1>3, <1>4, PTL DEF MaterializeSpec

\* The reads of a sort, a grouping and a join are complete: each record is returned once, each
\* is counted in one group with its count and its maximum, each pair of records with the same
\* value is returned once (by merge_join_scan, of tables that are sorted as they come).
THEOREM PassesAreComplete == MaterializeSpec => []ReadsAreComplete
<1>1. ASSUME JoinInv PROVE ReadsAreComplete
  <2>1. CASE kind # "join" BY <1>1, <2>1, EndedIsComplete DEF JoinInv
  <2>2. CASE kind = "join"
    <3>1. ASSUME whole, row = "end", Increasing(tables[1]) /\ NotDecreasing(tables[2]) PROVE Exactly(out, Matching)
          BY <1>1, <2>2, <3>1 DEF JoinInv, PassOK, PassAt, MayJoin
    <3> QED BY <2>2, <3>1 DEF ReadsAreComplete
  <2> QED BY <2>1, <2>2
<1>2. JoinInv => ReadsAreComplete BY <1>1
<1> QED BY <1>2, JoinInvHolds, PTL
=============================================================================
