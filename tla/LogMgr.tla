------------------------------- MODULE LogMgr -------------------------------
(***************************************************************************)
(* The write-ahead log: log_mgr (one page of records in memory, the log    *)
(* file behind it) and log_iterator (reads the records newest first).      *)
(*                                                                         *)
(* append holds m_log_guard; flush and iterator do not (their lock_guards  *)
(* are commented out), so a step is one access of the file or of the page, *)
(* and those of append are steps of their own once it has to start a new   *)
(* block.  A record keeps its place and its length, its bytes are an       *)
(* identity; a page keeps the boundary word and the records above it.      *)
(* m_last_saved_LSN is assigned and never read, and left out.              *)
(* Blocks are counted from 1 here: block number n of the file is disk[n+1].*)
(***************************************************************************)
EXTENDS Integers, Sequences

CONSTANTS
    Thread,     \* threads that share the log manager
    BlockSize,  \* file_mgr::get_block_size
    Lens,       \* lengths of the records that are appended
    MaxRecs,    \* bound: records appended in all
    MaxBlocks   \* bound: blocks of the log file

IntSize == 4

\* A record longer than these makes append write outside of its page.
ASSUME LogAssumption ==
    /\ BlockSize \in Nat /\ BlockSize >= 2 * IntSize
    /\ Lens \subseteq {n \in Nat : n + IntSize <= BlockSize - (BlockSize % IntSize)}
    /\ MaxRecs \in Nat
    /\ MaxBlocks \in Nat

VARIABLES
    up,         \* whether the process is "down", in the constructor or "up"
    disk,       \* the blocks of the log file
    page,       \* log_mgr::m_log_page
    cur,        \* log_mgr::m_cur_blk
    latest,     \* log_mgr::m_latest_LSN
    pc,         \* where each thread is
    arg,        \* length of the record a thread is appending
    lsn,        \* what the thread's last append returned
    mine,       \* the record of that append
    iter,       \* the log_iterator of each thread
    hist,       \* history: block and length of every record appended
    crashed,    \* history: records that were not on disk in a crash
    clobbered,  \* history: blocks a flush overwrote during a block switch
    bare,       \* history: blocks in use when the process ended, and blocks
                \* that were empty and too short for a record
    sure,       \* history: records their own thread flushed
    due         \* history: records each iterator has still to return

ghosts == <<crashed, clobbered, bare, sure, due>>
vars == <<up, disk, page, cur, latest, pc, arg, lsn, mine, iter, hist, ghosts>>

Aligned == (BlockSize \div IntSize) * IntSize

Records == [id : Nat, pos : Nat, len : Nat]
Pages == [bnd : Nat, recs : SUBSET Records]

\* A block of zero bytes, and a page whose boundary has been reset.
ZeroPage == [bnd |-> 0, recs |-> {}]
EmptyPage == [bnd |-> Aligned, recs |-> {}]
NoIter == [blk |-> 0, page |-> ZeroPage, pos |-> 0, seen |-> 0]

\* append holds m_log_guard from "grow" on: m_cur_blk is the full block until
\* "enter" has set it, and the page has been reset since "format".
Switching == {"grow", "reset", "format", "enter"}
Torn == {"format", "enter"}

TypeOK ==
    /\ up \in {"down", "opening", "up"}
    /\ disk \in Seq(Pages)
    /\ page \in Pages
    /\ cur \in Nat
    /\ latest \in Nat
    /\ pc \in [Thread -> {"idle", "flush", "open", "read"} \cup Switching]
    /\ arg \in [Thread -> Nat]
    /\ lsn \in [Thread -> Nat]
    /\ mine \in [Thread -> Nat]
    /\ iter \in [Thread -> [blk : Nat, page : Pages, pos : Nat, seen : Nat]]
    /\ hist \in Seq([blk : Nat, len : Nat])
    /\ crashed \subseteq Nat
    /\ clobbered \subseteq Nat
    /\ bare \subseteq Nat
    /\ sure \subseteq Nat
    /\ due \in [Thread -> SUBSET Nat]

Ids(p) == {r.id : r \in p.recs}
OnDisk == UNION {Ids(disk[k]) : k \in 1 .. Len(disk)}

\* The log file is empty or has blocks somebody appended to it.
Init ==
    /\ up = "down"
    /\ disk \in {<<>>, <<ZeroPage>>}
    /\ page = ZeroPage
    /\ cur = 0
    /\ latest = 0
    /\ pc = [t \in Thread |-> "idle"]
    /\ arg = [t \in Thread |-> 0]
    /\ lsn = [t \in Thread |-> 0]
    /\ mine = [t \in Thread |-> 0]
    /\ iter = [t \in Thread |-> NoIter]
    /\ hist = <<>>
    /\ crashed = {}
    /\ clobbered = {}
    /\ bare = {Len(disk)}
    /\ sure = {}
    /\ due = [t \in Thread |-> {}]

-----------------------------------------------------------------------------
(* The constructor, and the end of the process.                            *)

\* An empty log file: the constructor reads block -1, and read throws.
StartThrows ==
    /\ up = "down"
    /\ disk = <<>>
    /\ UNCHANGED vars

\* Mutant: the constructor goes on in the last block, with the page reset.
StartGrow_reuses ==
    /\ up = "down"
    /\ disk # <<>>
    /\ Len(disk) < MaxBlocks
    /\ up' = "opening"
    /\ UNCHANGED <<disk, page, cur, latest, pc, arg, lsn, mine, iter, hist, ghosts>>

\* Any other: append_new_block, the file first, then the page and the block.
StartGrow ==
    /\ up = "down"
    /\ disk # <<>>
    /\ Len(disk) < MaxBlocks
    /\ disk' = Append(disk, ZeroPage)
    /\ up' = "opening"
    /\ UNCHANGED <<page, cur, latest, pc, arg, lsn, mine, iter, hist, ghosts>>

StartFormat ==
    /\ up = "opening"
    /\ page' = EmptyPage
    /\ disk' = [disk EXCEPT ![Len(disk)] = EmptyPage]
    /\ cur' = Len(disk)
    /\ latest' = 0
    /\ up' = "up"
    /\ UNCHANGED <<pc, arg, lsn, mine, iter, hist, ghosts>>

\* The process ends, at any point; what is in memory is gone.
Crash ==
    /\ up # "down"
    /\ Len(disk) < MaxBlocks
    /\ up' = "down"
    /\ page' = ZeroPage
    /\ cur' = 0
    /\ latest' = 0
    /\ pc' = [t \in Thread |-> "idle"]
    /\ arg' = [t \in Thread |-> 0]
    /\ lsn' = [t \in Thread |-> 0]
    /\ mine' = [t \in Thread |-> 0]
    /\ iter' = [t \in Thread |-> NoIter]
    /\ due' = [t \in Thread |-> {}]
    /\ crashed' = crashed \cup (1 .. Len(hist) \ OnDisk)
    /\ bare' = bare \cup {cur, Len(disk)}
    /\ UNCHANGED <<disk, hist, clobbered, sure>>

-----------------------------------------------------------------------------
(* log_mgr::append.                                                        *)

Free == \A t \in Thread : pc[t] \notin Switching

\* flush_internal of any thread: the page as it is, over the current block as
\* it is, also while another thread is switching blocks.
flush_internal ==
    /\ disk' = [disk EXCEPT ![cur] = page]
    /\ clobbered' = IF \E t \in Thread : pc[t] \in Torn
                      THEN clobbered \cup {cur} ELSE clobbered

Fits(len) == page.bnd - (len + IntSize) >= IntSize
Place(bnd, len) == bnd - (len + IntSize)

\* The record and then the boundary.  A record that fills the block has its
\* length at 0, where the boundary overwrites it.
Put(p, id, len) ==
    IF Place(p.bnd, len) = 0
      THEN ZeroPage
      ELSE [bnd |-> Place(p.bnd, len),
            recs |-> p.recs \cup
                       {[id |-> id, pos |-> Place(p.bnd, len), len |-> len]}]

\* The end of append: the record is in the page, and has a number.
Record(t, len, blk) ==
    /\ page' = Put(page, Len(hist) + 1, len)
    /\ hist' = Append(hist, [blk |-> blk, len |-> len])
    /\ latest' = latest + 1
    /\ lsn' = [lsn EXCEPT ![t] = latest + 1]
    /\ mine' = [mine EXCEPT ![t] = Len(hist) + 1]

IsAligned(len) == Place(page.bnd, len) % IntSize = 0

Idle(t) == up = "up" /\ pc[t] = "idle"

\* The record fits into the page.
append(t, len) ==
    /\ Idle(t)
    /\ Free
    /\ Len(hist) < MaxRecs
    /\ Fits(len)
    /\ IsAligned(len)
    /\ Record(t, len, cur)
    /\ UNCHANGED <<up, disk, cur, pc, arg, iter, ghosts>>

\* Mutant: the full page is not written.
SwitchFlush_unsaved(t, len) ==
    /\ Idle(t)
    /\ Free
    /\ Len(hist) < MaxRecs
    /\ Len(disk) < MaxBlocks
    /\ ~Fits(len)
    /\ pc' = [pc EXCEPT ![t] = "grow"]
    /\ arg' = [arg EXCEPT ![t] = len]
    /\ UNCHANGED <<up, disk, page, cur, latest, lsn, mine, iter, hist, ghosts>>

\* It does not: the page is written, and a new block begun.
SwitchFlush(t, len) ==
    /\ Idle(t)
    /\ Free
    /\ Len(hist) < MaxRecs
    /\ Len(disk) < MaxBlocks
    /\ ~Fits(len)
    /\ flush_internal
    /\ bare' = IF page = EmptyPage THEN bare \cup {cur} ELSE bare
    /\ pc' = [pc EXCEPT ![t] = "grow"]
    /\ arg' = [arg EXCEPT ![t] = len]
    /\ UNCHANGED <<up, page, cur, latest, lsn, mine, iter, hist, crashed, sure,
                   due>>

\* append_new_block: the file grows, the page is reset, the block is written.
SwitchGrow(t) ==
    /\ pc[t] = "grow"
    /\ disk' = Append(disk, ZeroPage)
    /\ pc' = [pc EXCEPT ![t] = "reset"]
    /\ UNCHANGED <<up, page, cur, latest, arg, lsn, mine, iter, hist, ghosts>>

SwitchReset(t) ==
    /\ pc[t] = "reset"
    /\ page' = EmptyPage
    /\ pc' = [pc EXCEPT ![t] = "format"]
    /\ UNCHANGED <<up, disk, cur, latest, arg, lsn, mine, iter, hist, ghosts>>

SwitchFormat(t) ==
    /\ pc[t] = "format"
    /\ disk' = [disk EXCEPT ![Len(disk)] = page]
    /\ pc' = [pc EXCEPT ![t] = "enter"]
    /\ UNCHANGED <<up, page, cur, latest, arg, lsn, mine, iter, hist, ghosts>>

\* m_cur_blk is the new block; then the record, or the exception of a record
\* whose length is no multiple of an int.
SwitchEnter(t) ==
    /\ pc[t] = "enter"
    /\ cur' = Len(disk)
    /\ pc' = [pc EXCEPT ![t] = "idle"]
    /\ arg' = [arg EXCEPT ![t] = 0]
    /\ IF IsAligned(arg[t])
         THEN Record(t, arg[t], Len(disk))
         ELSE UNCHANGED <<page, hist, latest, lsn, mine>>
    /\ UNCHANGED <<up, disk, iter, ghosts>>

-----------------------------------------------------------------------------
(* log_mgr::flush, with the number the thread's last append returned.      *)

\* A call whose number another append has passed returns and writes nothing.
NotYetSaved(t) == lsn[t] >= latest

flush(t) ==
    /\ Idle(t)
    /\ lsn[t] > 0
    /\ NotYetSaved(t)
    /\ pc' = [pc EXCEPT ![t] = "flush"]
    /\ UNCHANGED <<up, disk, page, cur, latest, arg, lsn, mine, iter, hist, ghosts>>

\* Mutant: the call is counted as done and the page is not written.
DoFlush_skips(t) ==
    /\ pc[t] = "flush"
    /\ sure' = sure \cup {mine[t]}
    /\ pc' = [pc EXCEPT ![t] = "idle"]
    /\ UNCHANGED <<up, disk, page, cur, latest, arg, lsn, mine, iter, hist, crashed,
                   clobbered, bare, due>>

DoFlush(t) ==
    /\ pc[t] = "flush"
    /\ flush_internal
    /\ sure' = sure \cup {mine[t]}
    /\ pc' = [pc EXCEPT ![t] = "idle"]
    /\ UNCHANGED <<up, page, cur, latest, arg, lsn, mine, iter, hist, crashed,
                   bare, due>>

-----------------------------------------------------------------------------
(* log_mgr::iterator and log_iterator.                                     *)

iterator(t) ==
    /\ Idle(t)
    /\ flush_internal
    /\ pc' = [pc EXCEPT ![t] = "open"]
    /\ UNCHANGED <<up, page, cur, latest, arg, lsn, mine, iter, hist, crashed,
                   bare, sure, due>>

OpenIterator(t) ==
    /\ pc[t] = "open"
    /\ pc' = [pc EXCEPT ![t] = "read"]
    /\ iter' = [iter EXCEPT ![t] = [blk |-> cur, page |-> disk[cur],
                                    pos |-> disk[cur].bnd,
                                    seen |-> Len(hist) + 1]]
    /\ due' = [due EXCEPT ![t] = {id \in OnDisk : hist[id].blk <= cur}]
    /\ UNCHANGED <<up, disk, page, cur, latest, arg, lsn, mine, hist, crashed,
                   clobbered, bare, sure>>

has_next(t) == iter[t].pos < BlockSize \/ iter[t].blk > 1

\* Mutant: the block before is skipped.
moved_twice(it) ==
    IF it.pos = BlockSize
      THEN LET k == IF it.blk > 2 THEN it.blk - 2 ELSE 1
           IN  [it EXCEPT !.blk = k, !.page = disk[k], !.pos = disk[k].bnd]
      ELSE it

\* Mutant: the block that has been read through is read again.
moved_again(it) ==
    IF it.pos = BlockSize
      THEN [it EXCEPT !.blk = @ - 1, !.pos = it.page.bnd]
      ELSE it

\* next first moves to the block before when the current one is read through.
moved(it) ==
    IF it.pos = BlockSize
      THEN [it EXCEPT !.blk = @ - 1, !.page = disk[it.blk - 1],
                      !.pos = disk[it.blk - 1].bnd]
      ELSE it

\* The record at the iterator's position.
NextRecord(t) ==
    /\ pc[t] = "read"
    /\ has_next(t)
    /\ LET it == moved(iter[t])
       IN  \E r \in it.page.recs :
              /\ r.pos = it.pos
              /\ iter' = [iter EXCEPT ![t] =
                            [it EXCEPT !.pos = @ + IntSize + r.len, !.seen = r.id]]
              /\ due' = [due EXCEPT ![t] = @ \ {r.id}]
    /\ UNCHANGED <<up, disk, page, cur, latest, pc, arg, lsn, mine, hist, crashed,
                   clobbered, bare, sure>>

NoRecordAt(it) == \A r \in it.page.recs : r.pos # it.pos

\* A word of zero bytes is returned as a record of length 0.
NextZero(t) ==
    /\ pc[t] = "read"
    /\ has_next(t)
    /\ LET it == moved(iter[t])
       IN  /\ NoRecordAt(it)
           /\ it.pos + IntSize <= BlockSize
           /\ iter' = [iter EXCEPT ![t] = [it EXCEPT !.pos = @ + IntSize]]
    /\ UNCHANGED <<up, disk, page, cur, latest, pc, arg, lsn, mine, hist, ghosts>>

\* get_bytes beyond the page: next throws.
NextThrows(t) ==
    /\ pc[t] = "read"
    /\ has_next(t)
    /\ moved(iter[t]).pos + IntSize > BlockSize
    /\ pc' = [pc EXCEPT ![t] = "idle"]
    /\ iter' = [iter EXCEPT ![t] = NoIter]
    /\ due' = [due EXCEPT ![t] = {}]
    /\ UNCHANGED <<up, disk, page, cur, latest, arg, lsn, mine, hist, crashed,
                   clobbered, bare, sure>>

\* The reader has what it looked for, or has_next is false.
Close(t) ==
    /\ pc[t] = "read"
    /\ pc' = [pc EXCEPT ![t] = "idle"]
    /\ iter' = [iter EXCEPT ![t] = NoIter]
    /\ due' = [due EXCEPT ![t] = {}]
    /\ UNCHANGED <<up, disk, page, cur, latest, arg, lsn, mine, hist, crashed,
                   clobbered, bare, sure>>

-----------------------------------------------------------------------------
Next ==
    \/ StartThrows
    \/ StartGrow
    \/ StartFormat
    \/ Crash
    \/ \E t \in Thread :
          \/ \E len \in Lens : append(t, len) \/ SwitchFlush(t, len)
          \/ SwitchGrow(t)
          \/ SwitchReset(t)
          \/ SwitchFormat(t)
          \/ SwitchEnter(t)
          \/ flush(t)
          \/ DoFlush(t)
          \/ iterator(t)
          \/ OpenIterator(t)
          \/ NextRecord(t)
          \/ NextZero(t)
          \/ NextThrows(t)
          \/ Close(t)

Spec == Init /\ [][Next]_vars

-----------------------------------------------------------------------------
(* What the log promises.                                                  *)

Filling(id) == hist[id].len + IntSize = Aligned
Lost(id) == hist[id].blk \in clobbered \/ Filling(id)

\* Every record of the running process is in the page or in the file; only a
\* flush in the middle of another thread's block switch, or a record as long
\* as a block, loses any.
NoRecordMissing ==
    \A id \in 1 .. Len(hist) :
        id \in OnDisk \/ id \in Ids(page) \/ id \in crashed \/ Lost(id)

\* The file has no gaps: a record is saved no later than the ones after it.
SavedInOrder ==
    \A i, j \in 1 .. Len(hist) :
        i < j /\ j \in OnDisk /\ i \notin OnDisk => i \in crashed \/ Lost(i)

\* No record is missing, and what a crash takes is the newest of them.
LogIsComplete == NoRecordMissing /\ SavedInOrder

\* A record whose own thread flushed it with the newest number stays in the
\* file, crashes or not (recovery_mgr::commit relies on it).
FlushedStays == \A id \in sure : id \in OnDisk \/ Lost(id)

\* A block below the current one is empty only if a process ended on it, if a
\* record was too long for it, or if a flush overwrote it during a switch: two
\* such blocks in a row are what makes an iterator's next throw.
InnerBlocksHaveRecords ==
    \A k \in 1 .. cur - 1 :
        disk[k] = EmptyPage => k \in bare \cup clobbered

\* An iterator still has before it every record that was in the file when it
\* was opened and that it has not returned.
NothingSkipped ==
    \A t \in Thread : pc[t] = "read" => \A id \in due[t] :
        LET k == hist[id].blk
            it == iter[t]
        IN  \/ k = it.blk /\ \E r \in it.page.recs : r.id = id /\ r.pos >= it.pos
            \/ k < it.blk /\ id \in Ids(disk[k])

\* The log can be read: its inner blocks have records and iterators find them.
LogIsReadable == InnerBlocksHaveRecords /\ NothingSkipped

\* An iterator returns records newest first, across blocks and restarts.
NewestFirst ==
    [][\A t \in Thread : NextRecord(t) => iter'[t].seen < iter[t].seen]_vars

\* With one thread the log is a write-ahead log: saving and crashing do what
\* AbstractLog says, block switches included.
Abs == INSTANCE AbstractLog WITH
           count <- Len(hist), kept <- OnDisk \cup Ids(page), durable <- OnDisk
DurableLog == Abs!ASpec
=============================================================================
