----------------------------- MODULE Transaction -----------------------------
(***************************************************************************)
(* Transactions and their recovery managers: numbering, access to blocks   *)
(* under locks, commit, rollback and recovery over one log.                *)
(*                                                                         *)
(* The parts below are what their own modules show them to be: locks are   *)
(* AbstractLocks, which LockTable implements; a log record stays once it   *)
(* is saved, and a full block saves all records before the one that needs  *)
(* the next block (LogMgr); no modification reaches the pool (BufferMgr),  *)
(* so that flush_all writes nothing and every pin copies the bytes the     *)
(* file had.  A step is one call of such a part.  A request for a lock     *)
(* that is not granted throws after its time-out and changes nothing.      *)
(*                                                                         *)
(* A log sequence number is the record's place in the log: the code counts *)
(* from the start of the process, here records of earlier ones are counted *)
(* too.  Of a call of undo only the fact is kept, in undone: none is made. *)
(* Transactions are never destroyed: m_recovery_mgr.m_tx owns the          *)
(* transaction it is part of, and would destroy it twice.                  *)
(***************************************************************************)
EXTENDS Integers, Sequences

CONSTANTS
    Tx,         \* transaction objects
    Blk,        \* block identifiers
    Eof,        \* the block identifier with number npos
    MaxRecs,    \* bound: records in the log
    MaxLength   \* bound: blocks of the file

ASSUME TransactionAssumption ==
    /\ Eof \in Blk
    /\ MaxRecs \in Nat
    /\ MaxLength \in Nat

VARIABLES
    m_next_tx,  \* the static counter
    rec_num,    \* recovery_mgr::m_tx_num of each transaction
    tx_num,     \* transaction::m_tx_num
    pc,         \* where each transaction is
    held,       \* its locks
    shrinking,  \* transactions in release
    copy,       \* the bytes of each block in the transaction's buffers
    read,       \* what its last get_int returned
    length,     \* blocks of the file
    log,        \* the bytes of each record in the log
    saved,      \* how many records a crash leaves
    lsn,        \* the record that ends a transaction, while it ends
    known,      \* history: the length of the file, for a transaction that asked
    overtaken,  \* history: others took a number while this one was constructed
    undone      \* history: records undo was called for

locks == <<held, shrinking>>
numbers == <<m_next_tx, rec_num, tx_num, overtaken>>
records == <<log, saved, lsn, undone>>
data == <<copy, read, length, known>>
vars == <<numbers, pc, locks, data, records>>

L == INSTANCE AbstractLocks

Constructing == {"none", "numbered", "started"}
Ending == {"commit", "rollback", "sync", "release", "drop", "unpin"}

(* log_operation, and the bytes of a record: its operation and its number. *)
checkpoint == 0
start == 1
commit_op == 2
rollback_op == 3
set_op == 4
Zeros == [op |-> 0, tx |-> 0]
Bytes == [op : 0 .. 5, tx : Nat]

TypeOK ==
    /\ m_next_tx \in Nat
    /\ rec_num \in [Tx -> Nat]
    /\ tx_num \in [Tx -> Nat]
    /\ pc \in [Tx -> {"active", "checkpoint", "settle"} \cup Constructing \cup Ending]
    /\ held \in [Tx -> [Blk -> {"none", "S", "X"}]]
    /\ shrinking \subseteq Tx
    /\ copy \in [Tx -> [Blk -> {"none", "old", "new"}]]
    /\ read \in [Tx -> {"none", "old", "new"}]
    /\ length \in Nat
    /\ log \in Seq(Bytes)
    /\ saved \in 0 .. Len(log)
    /\ lsn \in [Tx -> 0 .. Len(log)]
    /\ known \in [Tx -> Nat \cup {-1}]
    /\ overtaken \in [Tx -> BOOLEAN]
    /\ undone \subseteq Nat

\* What a process begins with.
NoNumbers == [t \in Tx |-> 0]
NoCalls == [t \in Tx |-> "none"]
NoBlocks == [t \in Tx |-> [b \in Blk |-> "none"]]

Init ==
    /\ m_next_tx = 0
    /\ rec_num = NoNumbers
    /\ tx_num = NoNumbers
    /\ pc = NoCalls
    /\ held = NoBlocks
    /\ shrinking = {}
    /\ copy = NoBlocks
    /\ read = NoCalls
    /\ length = 0
    /\ log = <<>>
    /\ saved = 0
    /\ lsn = NoNumbers
    /\ known = [t \in Tx |-> -1]
    /\ overtaken = [t \in Tx |-> FALSE]
    /\ undone = {}

-----------------------------------------------------------------------------
(* The log and its records.                                                *)

\* The operations fall together: only multiples of an int are kept.
log_operation_to_int(op) == (op \div 4) * 4

\* Mutant: the page's bytes are appended.
write_to_log_page(op, n) == [op |-> log_operation_to_int(op), tx |-> n]

\* Operation and number are set in a page, which has copied the vector it was
\* given; the vector is appended.
write_to_log(op, n) == Zeros

\* The record at place i as it is read back.
create_log_record(i) ==
    IF log[i].op = checkpoint THEN [op |-> checkpoint, tx |-> -1] ELSE log[i]

\* append: when a block is full, all that is before the record is saved.
AppendRecord(op, n) ==
    /\ Len(log) < MaxRecs
    /\ log' = Append(log, write_to_log(op, n))
    /\ saved' \in {saved, Len(log)}

\* flush: nothing is written when another record has been appended since.
flush(i) == IF i >= Len(log) THEN Len(log) ELSE saved

Places == 1 .. Len(log)

\* do_rollback: what it undoes of number n, from the newest record back to the
\* start of the transaction.
Undoes(n) ==
    {i \in Places :
       /\ create_log_record(i).tx = n
       /\ \A j \in Places :
             j >= i => create_log_record(j) # [op |-> start, tx |-> n]}

\* do_recover: everything since the newest checkpoint that is not of a
\* transaction which is known to have ended.
Recovers ==
    {i \in Places :
       /\ \A j \in Places : j >= i => create_log_record(j).op # checkpoint
       /\ create_log_record(i).op \notin {commit_op, rollback_op}
       /\ \A j \in Places :
             /\ j > i
             /\ create_log_record(j).op \in {commit_op, rollback_op}
             => create_log_record(j).tx # create_log_record(i).tx}

-----------------------------------------------------------------------------
(* The constructor.                                                        *)

Goes(t, from, to) ==
    /\ pc[t] = from
    /\ pc' = [pc EXCEPT ![t] = to]

\* Mutant: the number is read before it is counted up.
next_tx_num_early(t) ==
    /\ Goes(t, "none", "numbered")
    /\ m_next_tx' = m_next_tx + 1
    /\ rec_num' = [rec_num EXCEPT ![t] = m_next_tx]
    /\ overtaken' = [u \in Tx |-> overtaken[u] \/ pc[u] \in {"numbered", "started"}]
    /\ UNCHANGED <<tx_num, locks, data, records>>

next_tx_num(t) ==
    /\ Goes(t, "none", "numbered")
    /\ m_next_tx' = m_next_tx + 1
    /\ rec_num' = [rec_num EXCEPT ![t] = m_next_tx + 1]
    /\ overtaken' = [u \in Tx |-> overtaken[u] \/ pc[u] \in {"numbered", "started"}]
    /\ UNCHANGED <<tx_num, locks, data, records>>

Started(t) ==
    /\ Goes(t, "numbered", "started")
    /\ AppendRecord(start, rec_num[t])
    /\ UNCHANGED <<numbers, locks, data, lsn, undone>>

\* m_tx_num is initialized with what the counter is by now.
Constructed(t) ==
    /\ Goes(t, "started", "active")
    /\ tx_num' = [tx_num EXCEPT ![t] = m_next_tx]
    /\ UNCHANGED <<m_next_tx, rec_num, overtaken, locks, data, records>>

-----------------------------------------------------------------------------
(* Blocks.                                                                 *)

\* Mutant: the lock is not asked for.
s_lock_free(t, b) == UNCHANGED locks

s_lock(t, b) == IF held[t][b] = "none" THEN L!Share(t, b) ELSE UNCHANGED locks
x_lock(t, b) == IF held[t][b] # "X" THEN L!Exclude(t, b) ELSE UNCHANGED locks

pin(t, b) ==
    /\ pc[t] = "active"
    /\ copy' = [copy EXCEPT ![t][b] = "old"]
    /\ UNCHANGED <<numbers, pc, locks, read, length, known, records>>

unpin(t, b) ==
    /\ pc[t] = "active"
    /\ copy' = [copy EXCEPT ![t][b] = "none"]
    /\ UNCHANGED <<numbers, pc, locks, read, length, known, records>>

\* get_int and get_str, of a block that is pinned.
get_int(t, b) ==
    /\ pc[t] = "active"
    /\ copy[t][b] # "none"
    /\ s_lock(t, b)
    /\ read' = [read EXCEPT ![t] = copy[t][b]]
    /\ UNCHANGED <<numbers, pc, copy, length, known, records>>

\* Mutant: the page is modified, as through a reference.
Modified_kept(t, b) == [copy EXCEPT ![t][b] = "new"]

\* contents() is assigned to a value: the page that is modified is a copy.
Modified(t, b) == copy

\* set_int and set_str.  With logging they throw, the lock taken, when the
\* file's name or the string has no multiple of an int as its length.
set_int(t, b, ok_to_log) ==
    /\ pc[t] = "active"
    /\ copy[t][b] # "none"
    /\ x_lock(t, b)
    /\ \/ /\ ok_to_log
          /\ AppendRecord(set_op, rec_num[t])
          /\ copy' = Modified(t, b)
       \/ /\ ~ok_to_log
          /\ copy' = Modified(t, b)
          /\ UNCHANGED <<log, saved>>
       \/ /\ ok_to_log
          /\ UNCHANGED <<copy, log, saved>>
    /\ UNCHANGED <<numbers, pc, read, length, known, lsn, undone>>

size(t) ==
    /\ pc[t] = "active"
    /\ s_lock(t, Eof)
    /\ known' = [known EXCEPT ![t] = length]
    /\ UNCHANGED <<numbers, pc, copy, read, length, records>>

append(t) ==
    /\ pc[t] = "active"
    /\ length < MaxLength
    /\ x_lock(t, Eof)
    /\ length' = length + 1
    /\ known' = [known EXCEPT ![t] = length + 1]
    /\ UNCHANGED <<numbers, pc, copy, read, records>>

-----------------------------------------------------------------------------
(* The end of a transaction, and recovery.                                 *)

\* Mutant: the locks are given back first.
commit_unlocks(t) ==
    /\ Goes(t, "active", "release")
    /\ UNCHANGED <<numbers, locks, data, records>>

commit(t) ==
    /\ Goes(t, "active", "commit")
    /\ UNCHANGED <<numbers, locks, data, records>>

\* The iterator flushes the log before it reads; its next may throw.
rollback(t) ==
    /\ saved' = Len(log)
    /\ undone' = undone \cup Undoes(rec_num[t])
    /\ Goes(t, "active", "rollback") \/ Goes(t, "active", "active")
    /\ UNCHANGED <<numbers, locks, data, log, lsn>>

\* recovery_mgr appends the record that ends the transaction.
EndRecord(t) ==
    /\ \/ Goes(t, "commit", "sync") /\ AppendRecord(commit_op, rec_num[t])
       \/ Goes(t, "rollback", "sync") /\ AppendRecord(rollback_op, rec_num[t])
    /\ lsn' = [lsn EXCEPT ![t] = Len(log')]
    /\ UNCHANGED <<numbers, locks, data, undone>>

Sync(t) ==
    /\ Goes(t, "sync", "release")
    /\ saved' = flush(lsn[t])
    /\ UNCHANGED <<numbers, locks, data, log, lsn, undone>>

HasLocks(t) == \E b \in Blk : held[t][b] # "none"

\* known ends with the lock it rests on.
release(t) ==
    /\ \/ /\ HasLocks(t)
          /\ L!Shrink(t)
          /\ Goes(t, "release", "drop")
       \/ /\ ~HasLocks(t)
          /\ Goes(t, "release", "unpin")
          /\ UNCHANGED locks
    /\ known' = [known EXCEPT ![t] = -1]
    /\ UNCHANGED <<numbers, copy, read, length, records>>

Drop(t, b) ==
    /\ L!Drop(t, b)
    /\ Goes(t, "drop", IF t \in shrinking' THEN "drop" ELSE "unpin")
    /\ UNCHANGED <<numbers, data, records>>

unpin_all(t) ==
    /\ Goes(t, "unpin", "active")
    /\ copy' = [copy EXCEPT ![t] = [b \in Blk |-> "none"]]
    /\ read' = [read EXCEPT ![t] = "none"]
    /\ lsn' = [lsn EXCEPT ![t] = 0]
    /\ UNCHANGED <<numbers, locks, length, known, log, saved, undone>>

recover(t) ==
    /\ saved' = Len(log)
    /\ undone' = undone \cup Recovers
    /\ Goes(t, "active", "checkpoint") \/ Goes(t, "active", "active")
    /\ UNCHANGED <<numbers, locks, data, log, lsn>>

Checkpoint(t) ==
    /\ Goes(t, "checkpoint", "settle")
    /\ AppendRecord(checkpoint, 0)
    /\ lsn' = [lsn EXCEPT ![t] = Len(log')]
    /\ UNCHANGED <<numbers, locks, data, undone>>

Settle(t) ==
    /\ Goes(t, "settle", "active")
    /\ saved' = flush(lsn[t])
    /\ lsn' = [lsn EXCEPT ![t] = 0]
    /\ UNCHANGED <<numbers, locks, data, log, undone>>

\* The process ends; the next one counts its transactions from 1 again.
Crash ==
    /\ m_next_tx' = 0
    /\ rec_num' = NoNumbers
    /\ tx_num' = NoNumbers
    /\ pc' = NoCalls
    /\ held' = NoBlocks
    /\ shrinking' = {}
    /\ copy' = NoBlocks
    /\ read' = NoCalls
    /\ log' = SubSeq(log, 1, saved)
    /\ lsn' = NoNumbers
    /\ known' = [t \in Tx |-> -1]
    /\ overtaken' = [t \in Tx |-> FALSE]
    /\ UNCHANGED <<length, saved, undone>>

-----------------------------------------------------------------------------
Next ==
    \/ \E t \in Tx :
          \/ next_tx_num(t)
          \/ Started(t)
          \/ Constructed(t)
          \/ \E b \in Blk \ {Eof} :
                \/ pin(t, b)
                \/ unpin(t, b)
                \/ get_int(t, b)
                \/ \E ok_to_log \in BOOLEAN : set_int(t, b, ok_to_log)
          \/ size(t)
          \/ append(t)
          \/ commit(t)
          \/ rollback(t)
          \/ EndRecord(t)
          \/ Sync(t)
          \/ release(t)
          \/ \E b \in Blk : Drop(t, b)
          \/ unpin_all(t)
          \/ recover(t)
          \/ Checkpoint(t)
          \/ Settle(t)
    \/ Crash

Spec == Init /\ [][Next]_vars

-----------------------------------------------------------------------------
(* What transactions promise.                                              *)

\* Recovery managers have numbers of their own; a transaction has that of its
\* recovery manager unless others were constructed at the same time.
NumbersAgree ==
    \A t \in Tx : pc[t] # "none" =>
        /\ rec_num[t] \in 1 .. m_next_tx
        /\ \A u \in Tx \ {t} : rec_num[u] # rec_num[t]
        /\ pc[t] \notin Constructing =>
              tx_num[t] >= rec_num[t] /\ (overtaken[t] \/ tx_num[t] = rec_num[t])

\* Locks are given back only when the record that ends the transaction is in
\* the log, and on disk unless another record was appended in between.
EndedBeforeRelease ==
    [][\A t \in Tx : HasLocks(t) /\ t \in shrinking' \ shrinking =>
          lsn[t] > 0 /\ (saved >= lsn[t] \/ Len(log) > lsn[t])]_vars

\* Neither rollback nor recover undoes anything: every record reads back as a
\* checkpoint.
NothingIsUndone == undone = {}

\* What a transaction was told stays so until it gives its locks back: the
\* length of the file, but for the blocks it appends itself, and the bytes of a
\* block, which not even its own writes change.
RepeatableReads ==
    \A t \in Tx : known[t] \in {-1, length} /\ read[t] # "new"
=============================================================================
