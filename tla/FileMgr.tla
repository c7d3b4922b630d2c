------------------------------ MODULE FileMgr -------------------------------
(***************************************************************************)
(* One file of the file manager: an fstream and the shared mutex in front  *)
(* of it.  write and append hold the mutex exclusively; read and len share *)
(* it, although they move the one position the stream has and set its      *)
(* flags.  C++ leaves such a race undefined: a step here is one call on    *)
(* the stream, in any order that the mutex allows; seekg, which loads the  *)
(* flags and stores them back without eofbit, is two.                      *)
(*                                                                         *)
(* failbit and badbit are one flag, fail; no call clears it.  On a stream  *)
(* that has failed a seek does nothing but clear eofbit.  The position is  *)
(* a number of blocks: every seek is to a multiple of the block size, and  *)
(* whole blocks are read and written.                                      *)
(***************************************************************************)
EXTENDS Integers, Sequences

CONSTANTS
    Thread,     \* threads that share the file manager
    Data,       \* what can be written to a block
    Zero,       \* a block of zero bytes
    Old,        \* what a caller's page holds before it is read into
    Blk,        \* block numbers that are asked for, -1 of an empty file included
    MaxBlocks   \* bound: blocks of the file

ASSUME FileAssumption ==
    /\ Zero \notin Data
    /\ Old \notin Data \cup {Zero}
    /\ Blk \subseteq Int
    /\ MaxBlocks \in Nat

VARIABLES
    disk,       \* the blocks of the file
    pos,        \* position of the stream, in blocks
    fail,       \* failbit or badbit
    eof,        \* eofbit
    pc,         \* where each thread is in its call
    blk,        \* the block a thread asked for, or found to be the end
    data,       \* what a thread writes
    page,       \* the page a thread reads into
    flags,      \* what a thread's seekg has loaded of fail
    out,        \* how a thread's last call ended: "none", "ok" or "throw"
    num,        \* the number its last len or append returned
    alone,      \* history: nobody else was in read or len during the call
    broken      \* history: the stream had failed when the call began

ghosts == <<alone, broken>>
vars == <<disk, pos, fail, eof, pc, blk, data, page, flags, out, num, ghosts>>

Sharing == {"seek", "fetch", "check", "seek_end", "tell"}
Writing == {"put", "extend"}

TypeOK ==
    /\ disk \in Seq(Data \cup {Zero})
    /\ pos \in Nat
    /\ fail \in BOOLEAN
    /\ eof \in BOOLEAN
    /\ pc \in [Thread -> {"idle"} \cup Sharing \cup Writing]
    /\ blk \in [Thread -> Int]
    /\ data \in [Thread -> Data \cup {Zero}]
    /\ page \in [Thread -> Data \cup {Zero, Old}]
    /\ flags \in [Thread -> BOOLEAN]
    /\ out \in [Thread -> {"none", "ok", "throw"}]
    /\ num \in [Thread -> Nat]
    /\ alone \in [Thread -> BOOLEAN]
    /\ broken \in [Thread -> BOOLEAN]

\* get_file_handler: the stream has just been opened.
Init ==
    /\ disk = <<>>
    /\ pos = 0
    /\ fail = FALSE
    /\ eof = FALSE
    /\ pc = [t \in Thread |-> "idle"]
    /\ blk = [t \in Thread |-> 0]
    /\ data = [t \in Thread |-> Zero]
    /\ page = [t \in Thread |-> Old]
    /\ flags = [t \in Thread |-> FALSE]
    /\ out = [t \in Thread |-> "none"]
    /\ num = [t \in Thread |-> 0]
    /\ alone = [t \in Thread |-> FALSE]
    /\ broken = [t \in Thread |-> FALSE]

-----------------------------------------------------------------------------
(* The stream and the mutex.                                               *)

\* Mutant: the flags are cleared before the seek.
seekg_clears(n, f) ==
    /\ eof' = FALSE
    /\ pos' = IF n < 0 THEN pos ELSE n
    /\ fail' = (n < 0)

\* seekg with the flag it has loaded; one to a negative position fails.
seekg(n, f) ==
    /\ eof' = FALSE
    /\ pos' = IF f \/ n < 0 THEN pos ELSE n
    /\ fail' = (f \/ n < 0)

lock_shared == \A u \in Thread : pc[u] \notin Writing

\* Mutant: writers share the mutex with readers.
lock_weak == \A u \in Thread : pc[u] \notin Writing

lock == \A u \in Thread : pc[u] = "idle"

\* A call begins at the given step, with the results of the last one gone.
Begin(t, step, b, v) ==
    /\ pc[t] = "idle"
    /\ pc' = [pc EXCEPT ![t] = step]
    /\ blk' = [blk EXCEPT ![t] = b]
    /\ data' = [data EXCEPT ![t] = v]
    /\ flags' = [flags EXCEPT ![t] = fail]
    /\ broken' = [broken EXCEPT ![t] = fail]
    /\ alone' = [u \in Thread |->
                   IF u = t THEN \A w \in Thread : pc[w] \notin Sharing
                            ELSE alone[u] /\ pc[u] \notin Sharing]
    /\ page' = [page EXCEPT ![t] = Old]
    /\ out' = [out EXCEPT ![t] = "none"]
    /\ num' = [num EXCEPT ![t] = 0]

\* A call goes on to its next step.
Go(t, step) ==
    /\ pc' = [pc EXCEPT ![t] = step]
    /\ UNCHANGED <<blk, data, flags, broken, alone>>

\* A call ends, and its locals with it.
End(t) ==
    /\ pc' = [pc EXCEPT ![t] = "idle"]
    /\ blk' = [blk EXCEPT ![t] = 0]
    /\ data' = [data EXCEPT ![t] = Zero]
    /\ flags' = [flags EXCEPT ![t] = FALSE]
    /\ broken' = [broken EXCEPT ![t] = FALSE]
    /\ alone' = [alone EXCEPT ![t] = FALSE]

\* Mutant: the file ends behind the block that is written.
Written_truncates(v) ==
    [i \in 1 .. pos + 1 |->
       IF i = pos + 1 THEN v ELSE IF i <= Len(disk) THEN disk[i] ELSE Zero]

\* What a write of v at the stream's position makes of the file.
Written(v) ==
    [i \in 1 .. IF pos < Len(disk) THEN Len(disk) ELSE pos + 1 |->
       IF i = pos + 1 THEN v ELSE IF i <= Len(disk) THEN disk[i] ELSE Zero]

\* write and flush: a stream that has failed writes nothing, and a failing
\* write may or may not have reached the file.
Store(t, v) ==
    \/ /\ ~fail
       /\ disk' = Written(v)
       /\ pos' = pos + 1
       /\ out' = [out EXCEPT ![t] = "ok"]
       /\ UNCHANGED <<fail, eof>>
    \/ /\ fail' = TRUE
       /\ disk' \in IF fail THEN {disk} ELSE {disk, Written(v)}
       /\ out' = [out EXCEPT ![t] = "throw"]
       /\ UNCHANGED <<pos, eof>>

-----------------------------------------------------------------------------
(* read and len.                                                           *)

read(t, b) ==
    /\ lock_shared
    /\ Begin(t, "seek", b, Zero)
    /\ UNCHANGED <<disk, pos, fail, eof>>

ReadSeek(t) ==
    /\ pc[t] = "seek"
    /\ seekg(blk[t], flags[t])
    /\ Go(t, "fetch")
    /\ UNCHANGED <<disk, page, out, num>>

\* Nothing is left in the page when the file ends before it.
ReadFetch(t) ==
    /\ pc[t] = "fetch"
    /\ \/ /\ ~fail
          /\ pos < Len(disk)
          /\ page' = [page EXCEPT ![t] = disk[pos + 1]]
          /\ pos' = pos + 1
          /\ UNCHANGED <<fail, eof>>
       \/ /\ ~fail
          /\ pos >= Len(disk)
          /\ fail' = TRUE
          /\ eof' = TRUE
          /\ UNCHANGED <<page, pos>>
       \/ /\ fail
          /\ UNCHANGED <<page, pos, fail, eof>>
    /\ Go(t, "check")
    /\ UNCHANGED <<disk, out, num>>

\* Mutant: beyond the end the page is left as it is.
ReadCheck_unfilled(t) ==
    /\ pc[t] = "check"
    /\ out' = [out EXCEPT ![t] = IF fail /\ ~eof THEN "throw" ELSE "ok"]
    /\ End(t)
    /\ UNCHANGED <<disk, pos, fail, eof, page, num>>

ReadCheck(t) ==
    /\ pc[t] = "check"
    /\ page' = [page EXCEPT ![t] = IF fail /\ eof THEN Zero ELSE @]
    /\ out' = [out EXCEPT ![t] = IF fail /\ ~eof THEN "throw" ELSE "ok"]
    /\ End(t)
    /\ UNCHANGED <<disk, pos, fail, eof, num>>

len(t) ==
    /\ lock_shared
    /\ Begin(t, "seek_end", 0, Zero)
    /\ UNCHANGED <<disk, pos, fail, eof>>

LenSeek(t) ==
    /\ pc[t] = "seek_end"
    /\ seekg(Len(disk), flags[t])
    /\ Go(t, "tell")
    /\ UNCHANGED <<disk, page, out, num>>

\* tellg is -1 on a stream that has failed, which makes no blocks.
tellg == IF fail THEN 0 ELSE pos

LenTell(t) ==
    /\ pc[t] = "tell"
    /\ num' = [num EXCEPT ![t] = tellg]
    /\ out' = [out EXCEPT ![t] = "ok"]
    /\ End(t)
    /\ UNCHANGED <<disk, pos, fail, eof, page>>

-----------------------------------------------------------------------------
(* write and append.                                                       *)

\* seekp leaves eofbit alone.
write(t, b, v) ==
    /\ lock
    /\ b >= 0
    /\ b < MaxBlocks
    /\ Begin(t, "put", b, v)
    /\ pos' = IF fail THEN pos ELSE b
    /\ UNCHANGED <<disk, fail, eof>>

WriteStore(t) ==
    /\ pc[t] = "put"
    /\ Store(t, data[t])
    /\ End(t)
    /\ UNCHANGED <<page, num>>

\* The number of the new block is where the file ends.
append(t) ==
    /\ lock
    /\ Len(disk) < MaxBlocks
    /\ Begin(t, "extend", 0, Zero)
    /\ seekg(Len(disk), fail)
    /\ UNCHANGED disk

AppendStore(t) ==
    /\ pc[t] = "extend"
    /\ Store(t, Zero)
    /\ num' = IF out'[t] = "ok" THEN [num EXCEPT ![t] = tellg] ELSE num
    /\ End(t)
    /\ UNCHANGED page

-----------------------------------------------------------------------------
Next ==
    \E t \in Thread :
       \/ \E b \in Blk : read(t, b)
       \/ ReadSeek(t)
       \/ ReadFetch(t)
       \/ ReadCheck(t)
       \/ len(t)
       \/ LenSeek(t)
       \/ LenTell(t)
       \/ \E b \in Blk, v \in Data : write(t, b, v)
       \/ WriteStore(t)
       \/ append(t)
       \/ AppendStore(t)

Spec == Init /\ [][Next]_vars

-----------------------------------------------------------------------------
(* What the file manager promises.                                         *)

\* What the file has for a reader of block number b.
Content(b) == IF b < Len(disk) THEN disk[b + 1] ELSE Zero

\* A read with no other read or len beside it, of a stream that had not failed,
\* returns the block, or zeros beyond the end; it throws at block -1 only.
LoneReadIsExact ==
    [][\A t \in Thread : ReadCheck(t) /\ alone[t] /\ ~broken[t] =>
          IF blk[t] < 0 THEN out'[t] = "throw"
                        ELSE out'[t] = "ok" /\ page'[t] = Content(blk[t])]_vars

\* Such a len returns the number of blocks.
LoneLenIsExact ==
    [][\A t \in Thread : LenTell(t) /\ alone[t] /\ ~broken[t] =>
          num'[t] = Len(disk)]_vars

\* read and len are exact when nothing overlaps them.
LoneReadersAreExact == LoneReadIsExact /\ LoneLenIsExact

\* Once the stream has failed every call throws and leaves the file as it is,
\* and a lone len returns 0.
FailedStreamIsOfNoUse ==
    [][\A t \in Thread : broken[t] =>
          /\ ReadCheck(t) /\ alone[t] => out'[t] = "throw"
          /\ LenTell(t) /\ alone[t] => num'[t] = 0
          /\ WriteStore(t) \/ AppendStore(t) =>
                out'[t] = "throw" /\ disk' = disk]_vars

\* Only a reader that overlaps another one can bring a failed stream back: it
\* stores flags from before the failure.
FailureIsForGood ==
    [][fail /\ ~fail' =>
          \E t \in Thread : (ReadSeek(t) \/ LenSeek(t)) /\ ~alone[t]]_vars

\* A failed stream is of no use, and stays so but for overlapping readers.
FailureStays == FailedStreamIsOfNoUse /\ FailureIsForGood

\* A write changes its own block, and append the number it returns, whatever
\* readers have done to the stream before.
Abs == INSTANCE AbstractBlocks WITH blocks <- disk, Max <- MaxBlocks

WritersAreExact ==
    [][\A t \in Thread :
          /\ WriteStore(t) /\ disk' # disk => Abs!BWrite(blk[t], data[t])
          /\ AppendStore(t) /\ out'[t] = "ok" =>
                Abs!BAppend /\ num'[t] = Len(disk)]_vars

\* The file is a store of blocks: readers change nothing of it.
BlockStore == Abs!BSpec
=============================================================================
