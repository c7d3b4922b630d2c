------------------------------ MODULE Products ------------------------------
(***************************************************************************)
(* multibuffer_product_scan: the product of a scan with a table, whose     *)
(* blocks are pinned a chunk at a time, by a product_scan for each chunk.  *)
(*                                                                         *)
(* The left input is any i_scan that pins none of the table's blocks: next  *)
(* is true once for every record and then false; what it is later is not   *)
(* said, as table_scan starts its last block again.  The table's records   *)
(* are numbered within their blocks.                                       *)
(*                                                                         *)
(* record_page keeps a reference to a block_id that is gone when chunk_scan *)
(* comes to use it.  What it reads then is anything: the block it was, or  *)
(* another one (strayed), or nothing a program survives (crashed).         *)
(***************************************************************************)
EXTENDS Integers, FiniteSets

CONSTANTS
    MaxLeft,    \* bound: records of the left input
    MaxSize,    \* bound: blocks of the table's file
    MaxPer,     \* bound: records of a block
    MaxAvail    \* bound: available buffers

ASSUME ProductAssumption ==
    /\ MaxLeft \in Nat
    /\ MaxSize \in Nat
    /\ MaxPer \in Nat
    /\ MaxAvail \in Nat

VARIABLES
    left,       \* records of the left input
    size,       \* m_file_size
    per,        \* records in each block
    available,  \* available_buffers_count() when the scan was made
    i, k,       \* those of best_factor; k is m_chunk_size then
    pc,         \* where the call is
    next_blk,   \* m_next_blk_num
    first, last, \* the blocks of the chunk; none before the first one
    l,          \* record of the left input; left + 1 when there is none
    b, rec,     \* m_curr_blk_num and record of the chunk
    pinned,     \* blocks of the table that are pinned by the scan
    given,      \* history: the pairs that next stood at since before_first
    twice,      \* history: it stood at one of them twice
    ended,      \* history: next has returned false since before_first
    overrun,    \* history: next was called after that
    strayed,    \* history: a block_id was read that was not what it had been
    threw       \* history: there was an exception while a chunk was made

input == <<left, size, per, available>>
factor == <<i, k>>
chunk == <<next_blk, first, last>>
place == <<l, b, rec>>
seen == <<given, twice, ended, overrun, strayed>>
vars == <<input, factor, pc, chunk, place, pinned, seen, threw>>

Blocks == 0 .. size - 1
HasChunk == first >= 0
Chunk == IF HasChunk THEN first .. last ELSE {}

\* The left record is there but when the left input is empty.
Lefts == 1 .. (IF left = 0 THEN 1 ELSE left)

TypeOK ==
    /\ left \in 0 .. MaxLeft
    /\ size \in 0 .. MaxSize
    /\ per \in [Blocks -> 0 .. MaxPer]
    /\ available \in 0 .. MaxAvail
    /\ i \in Nat
    /\ k \in Nat
    /\ pc \in {"none", "factor", "first", "idle", "looking", "chunk", "closed", "threw",
               "crashed"}
    /\ next_blk \in 0 .. size
    /\ first \in Blocks \cup {-1}
    /\ last \in Blocks \cup {-1}
    /\ HasChunk => first <= last /\ b \in Chunk
    /\ l \in 1 .. left + 1
    /\ b \in Nat
    /\ rec \in 0 .. MaxPer
    /\ pinned \subseteq Blocks
    /\ twice \in BOOLEAN
    /\ ended \in BOOLEAN
    /\ overrun \in BOOLEAN
    /\ strayed \in BOOLEAN
    /\ threw \in BOOLEAN

Init ==
    /\ left \in 0 .. MaxLeft
    /\ size \in 0 .. MaxSize
    /\ per \in [Blocks -> 0 .. MaxPer]
    /\ available \in 0 .. MaxAvail
    /\ i = 0
    /\ k = 0
    /\ pc = "none"
    /\ next_blk = 0
    /\ first = -1
    /\ last = -1
    /\ l = 1
    /\ b = 0
    /\ rec = 0
    /\ pinned = {}
    /\ given = {}
    /\ twice = FALSE
    /\ ended = FALSE
    /\ overrun = FALSE
    /\ strayed = FALSE
    /\ threw = FALSE

-----------------------------------------------------------------------------
(* buffer_needs.                                                           *)

Ceil(m, n) == (m + n - 1) \div n

\* Mutant: the buffers that are not to be used are counted.
avail_all == available

avail == available - 2

\* The constructor asks for the number of blocks and of available buffers.
open ==
    /\ pc = "none"
    /\ pc' = "factor"
    /\ i' = 1
    /\ k' = IF avail <= 1 THEN 1 ELSE size
    /\ UNCHANGED <<input, chunk, place, pinned, seen, threw>>

TooLarge == avail > 1 /\ k > avail

best_factor ==
    /\ pc = "factor"
    /\ TooLarge
    /\ i' = i + 1
    /\ k' = Ceil(size, i')
    /\ UNCHANGED <<input, pc, chunk, place, pinned, seen, threw>>

-----------------------------------------------------------------------------
(* Chunks.                                                                 *)

End == IF next_blk + k - 1 >= size THEN size - 1 ELSE next_blk + k - 1

\* The old chunk is unpinned, a new one pinned, and a product_scan made, which
\* moves the left input to its first record.
NewChunk(to) ==
    /\ next_blk < size
    /\ pinned' = (pinned \ Chunk) \cup next_blk .. End
    /\ first' = next_blk
    /\ last' = End
    /\ next_blk' = End + 1
    /\ l' = 1
    /\ b' = next_blk
    /\ rec' = 0
    /\ pc' = to
    /\ UNCHANGED <<input, factor, threw>>

\* A pin throws, or the left input with all blocks pinned: what is pinned by then
\* stays so, as m_prod_scan still has the old chunk.
ChunkThrows ==
    /\ next_blk < size
    /\ \E j \in next_blk .. End + 1 :
          pinned' = (pinned \ Chunk) \cup next_blk .. (j - 1)
    /\ threw' = TRUE
    /\ pc' = "threw"
    /\ UNCHANGED <<input, factor, chunk, place, seen>>

\* before_first, by the client or, first of all, the constructor.  The chunk it
\* uses is the first one; of an empty file there is none.
before_first ==
    /\ pc = "idle" \/ (pc = "factor" /\ ~TooLarge)
    /\ next_blk' = 0
    /\ pc' = "first"
    /\ given' = {}
    /\ twice' = FALSE
    /\ ended' = FALSE
    /\ overrun' = FALSE
    /\ strayed' = FALSE
    /\ UNCHANGED <<input, factor, first, last, place, pinned, threw>>

FirstChunk ==
    /\ pc = "first"
    /\ \/ NewChunk("idle") /\ UNCHANGED seen
       \/ ChunkThrows
       \/ /\ next_blk >= size
          /\ pc' = "idle"
          /\ UNCHANGED <<input, factor, chunk, place, pinned, seen, threw>>

NextChunk ==
    /\ pc = "chunk"
    /\ \/ NewChunk("looking") /\ UNCHANGED seen
       \/ ChunkThrows
       \/ /\ next_blk >= size
          /\ pc' = "idle"
          /\ ended' = TRUE
          /\ UNCHANGED <<input, factor, chunk, place, pinned, given, twice, overrun,
                         strayed, threw>>

-----------------------------------------------------------------------------
(* The scans below it.                                                     *)

\* Without a chunk there is no product_scan, and the pointer to it is null.
next ==
    /\ pc = "idle"
    /\ pc' = IF HasChunk THEN "looking" ELSE "crashed"
    /\ overrun' = (overrun \/ ended)
    /\ UNCHANGED <<input, factor, chunk, place, pinned, given, twice, ended, strayed,
                   threw>>

\* chunk_scan::next from record t of block c: it comes to record t2 of block c2,
\* or to the end.
Finds(c, t, c2, t2) ==
    \/ c2 = c /\ t2 = t + 1 /\ t < per[c]
    \/ /\ c2 > c
       /\ t2 = 1
       /\ t >= per[c]
       /\ per[c2] > 0
       /\ \A d \in c + 1 .. c2 - 1 : per[d] = 0

FindsNone(c, t) ==
    /\ t >= per[c]
    /\ \A d \in c + 1 .. last : per[d] = 0

\* What the left input's next may be after its end.
LeftNext(m) ==
    IF l < left THEN m = l + 1
    ELSE IF l = left THEN m = left + 1
    ELSE m \in 1 .. left + 1

\* next returns at a pair; the histories end with the first surprise.
Gives(pair) ==
    /\ pc' = "idle"
    /\ given' = IF overrun \/ strayed THEN {} ELSE given \cup {pair}
    /\ twice' = (~overrun /\ ~strayed /\ (twice \/ pair \in given))
    /\ UNCHANGED <<input, factor, chunk, pinned, ended, overrun, strayed, threw>>

\* product_scan::next with another record of the right input.
NextRight ==
    /\ pc = "looking"
    /\ \E c \in Chunk : \E t \in 1 .. per[c] :
          /\ Finds(b, rec, c, t)
          /\ b' = c
          /\ rec' = t
          /\ Gives(<<l, c, t>>)
    /\ l' = l

\* Mutant: the right input is not begun again.
Begun_onward == <<b, rec>>

\* Where the right input is after its before_first.
Begun == <<first, 0>>

\* With the right input at its end it is begun again, for the next record of the
\* left one, if there is any of either.
NextLeft ==
    /\ pc = "looking"
    /\ FindsNone(b, rec)
    /\ \/ /\ FindsNone(Begun[1], Begun[2])
          /\ b' = last
          /\ rec' = 0
          /\ l' = l
          /\ pc' = "chunk"
          /\ UNCHANGED <<input, factor, chunk, pinned, seen, threw>>
       \/ \E c \in Chunk : \E t \in 1 .. per[c] : \E m \in 1 .. left + 1 :
          /\ Finds(Begun[1], Begun[2], c, t)
          /\ b' = c
          /\ rec' = t
          /\ LeftNext(m)
          /\ l' = m
          /\ IF m <= left THEN Gives(<<m, c, t>>)
             ELSE /\ pc' = "chunk"
                  /\ UNCHANGED <<input, factor, chunk, pinned, seen, threw>>

\* The chunk_scan's page has another block than it had, or none.
Stray ==
    /\ pc = "looking"
    /\ strayed' = TRUE
    /\ \/ pc' = "crashed" /\ UNCHANGED place
       \/ /\ pc' \in {"idle", "chunk"}
          /\ b' \in Chunk
          /\ rec' \in 0 .. per[b']
          /\ l' \in 1 .. left + 1
    /\ given' = {}
    /\ twice' = FALSE
    /\ UNCHANGED <<input, factor, chunk, pinned, ended, overrun, threw>>

\* A lock is not granted, or the left input throws.
NextThrows ==
    /\ pc = "looking"
    /\ pc' = "threw"
    /\ UNCHANGED <<input, factor, chunk, place, pinned, seen, threw>>

\* After an exception a scan is of no use but to be closed.
close ==
    /\ pc \in {"idle", "threw"}
    /\ pc' = "closed"
    /\ pinned' = pinned \ Chunk
    /\ UNCHANGED <<input, factor, chunk, place, seen, threw>>

-----------------------------------------------------------------------------
Next ==
    \/ open
    \/ best_factor
    \/ before_first
    \/ FirstChunk
    \/ NextChunk
    \/ next
    \/ NextRight
    \/ NextLeft
    \/ Stray
    \/ NextThrows
    \/ close

Spec == Init /\ [][Next]_vars

-----------------------------------------------------------------------------
(* What the product promises.                                              *)

Pairs == {p \in Lefts \X Blocks \X (1 .. MaxPer) : p[3] <= per[p[2]]}

\* From before_first to its first false, next stands at every record of the
\* left input beside every record of the table, once.  When the left input is
\* empty it stands at every record of the table beside nothing.
ProductIsExact ==
    ~overrun /\ ~strayed =>
        /\ given \subseteq Pairs
        /\ ~twice
        /\ ended => given = Pairs

\* The blocks a scan keeps pinned are those of its chunk, which leave two of the
\* buffers there were, and none after close, unless making a chunk threw.
ChunksFit ==
    /\ HasChunk => last - first < IF available > 3 THEN available - 2 ELSE 1
    /\ ~threw => pinned = IF pc = "closed" THEN {} ELSE Chunk
=============================================================================
