------------------------------ MODULE BufferMgr ------------------------------
(***************************************************************************)
(* The buffer pool (buffer_mgr, buffer) and the list of pinned buffers     *)
(* each transaction keeps (buffer_list).                                   *)
(*                                                                         *)
(* A buffer_list does not keep the pool's buffer but a copy of it, taken   *)
(* after buffer_mtx is released; modifying and unpinning happen to the     *)
(* copy.  A transaction is driven by one thread; a step is one critical    *)
(* section of buffer_mtx, or the copy, or the list's own bookkeeping.  Of  *)
(* the vector buffer_list::pins only the number of occurrences is kept:    *)
(* the order decides no more than the order of the unpins in unpin_all.    *)
(***************************************************************************)
EXTENDS Integers, FiniteSets

CONSTANTS
    Tx,           \* transactions, by their numbers
    Blk,          \* block identifiers
    NumBufs,      \* size of the pool
    ReadMayFail,  \* whether file_mgr::read may throw
    MaxPins,      \* bound: pins are asked only while every buffer has fewer
    NoBlk         \* a buffer without a block

ASSUME BufferAssumption ==
    /\ Tx \subseteq Nat \ {0}
    /\ NumBufs \in Nat
    /\ ReadMayFail \in BOOLEAN
    /\ MaxPins \in Nat
    /\ NoBlk \notin Blk

VARIABLES
    pool,      \* buffer_mgr::buffer_pool
    avail,     \* buffer_mgr::num_available
    stored,    \* blocks buffer::flush has written to the file
    unread,    \* blocks whose read threw when a buffer was assigned to them
    buffers,   \* buffer_list::buffers of each transaction: the copies
    pins,      \* how often each block is in buffer_list::pins
    pc,        \* where the thread of each transaction is
    req,       \* the block that is being pinned
    got,       \* the pool buffer buffer_mgr::pin returned a reference to
    expired,   \* timeout_expired(start) for the pin that is running
    todo       \* how often unpin_all has still to unpin each block

vars == <<pool, avail, stored, unread, buffers, pins, pc, req, got, expired, todo>>

Buf == 1 .. NumBufs
Pinning == {"pin", "repin", "sleep", "copy"}

\* The fields of a buffer; page names the block whose bytes m_contents has.
Buffers == [blk : Blk \cup {NoBlk}, page : Blk \cup {NoBlk}, pins : Nat,
            tx : Int]
NoCopy == [blk |-> NoBlk, page |-> NoBlk, pins |-> 0, tx |-> -1]

NoPins == [b \in Blk |-> 0]

TypeOK ==
    /\ pool \in [Buf -> Buffers]
    /\ avail \in Int
    /\ stored \subseteq Blk
    /\ unread \subseteq Blk
    /\ buffers \in [Tx -> [Blk -> Buffers]]
    /\ pins \in [Tx -> [Blk -> Nat]]
    /\ pc \in [Tx -> {"idle", "unpin_all"} \cup Pinning]
    /\ req \in [Tx -> Blk \cup {NoBlk}]
    /\ got \in [Tx -> Buf \cup {0}]
    /\ expired \in [Tx -> BOOLEAN]
    /\ todo \in [Tx -> [Blk -> Nat]]
    /\ \A t \in Tx : /\ pc[t] \in Pinning => req[t] \in Blk
                     /\ pc[t] = "copy" => got[t] \in Buf
                     /\ pc[t] = "unpin_all" => todo[t] # NoPins

Init ==
    /\ pool = [i \in Buf |-> NoCopy]
    /\ avail = NumBufs
    /\ stored = {}
    /\ unread = {}
    /\ buffers = [t \in Tx |-> [b \in Blk |-> NoCopy]]
    /\ pins = [t \in Tx |-> NoPins]
    /\ pc = [t \in Tx |-> "idle"]
    /\ req = [t \in Tx |-> NoBlk]
    /\ got = [t \in Tx |-> 0]
    /\ expired = [t \in Tx |-> FALSE]
    /\ todo = [t \in Tx |-> NoPins]

-----------------------------------------------------------------------------
(* buffer, and the searches of buffer_mgr.                                 *)

\* Mutant: a buffer with one pin counts as unpinned.
is_pinned_twice(buf) == buf.pins > 1

is_pinned(buf) == buf.pins > 0
dirty(buf) == buf.tx >= 0 /\ buf.blk # NoBlk

\* buffer::flush counts the transaction number down instead of forgetting it.
flush(buf) == IF dirty(buf) THEN [buf EXCEPT !.tx = @ - 1] ELSE buf

\* buffer::assign_to_block, and the pin that follows it.
assigned(buf, b) == [flush(buf) EXCEPT !.blk = b, !.page = b, !.pins = 1]

\* The first buffer of the pool among some: the loops go by index.
IsFirst(i, I) == i \in I /\ \A j \in I : i <= j

\* Mutant: a buffer that is in use is not found again.
Existing_unpinned(b) == {i \in Buf : pool[i].blk = b /\ ~is_pinned(pool[i])}

Existing(b) == {i \in Buf : pool[i].blk = b}
Unpinned == {i \in Buf : ~is_pinned(pool[i])}

-----------------------------------------------------------------------------
(* buffer_list::pin, with buffer_mgr::pin inside.                          *)

pin(t, b) ==
    /\ pc[t] = "idle"
    /\ \A i \in Buf : pool[i].pins < MaxPins
    /\ pc' = [pc EXCEPT ![t] = "pin"]
    /\ req' = [req EXCEPT ![t] = b]
    /\ expired' = [expired EXCEPT ![t] = FALSE]
    /\ UNCHANGED <<pool, avail, stored, unread, buffers, pins, got, todo>>

\* The end of buffer_mgr::pin in a reference, in an exception.
Return(t, i) ==
    /\ pc' = [pc EXCEPT ![t] = "copy"]
    /\ got' = [got EXCEPT ![t] = i]
    /\ expired' = [expired EXCEPT ![t] = FALSE]
    /\ UNCHANGED <<req, buffers, pins, todo>>
Throw(t) ==
    /\ pc' = [pc EXCEPT ![t] = "idle"]
    /\ req' = [req EXCEPT ![t] = NoBlk]
    /\ expired' = [expired EXCEPT ![t] = FALSE]
    /\ UNCHANGED <<got, buffers, pins, todo>>

Trying(t) == pc[t] \in {"pin", "repin"}

\* try_pin finds the block in the pool.
PinExisting(t) ==
    /\ Trying(t)
    /\ \E i \in Buf :
          /\ IsFirst(i, Existing(req[t]))
          /\ avail' = IF is_pinned(pool[i]) THEN avail ELSE avail - 1
          /\ pool' = [pool EXCEPT ![i].pins = @ + 1]
          /\ Return(t, i)
    /\ UNCHANGED <<stored, unread>>

\* try_pin takes the first unpinned buffer: flush, then read the block.
PinReplacing(t) ==
    /\ Trying(t)
    /\ Existing(req[t]) = {}
    /\ \E i \in Buf :
          /\ IsFirst(i, Unpinned)
          /\ stored' = IF dirty(pool[i]) THEN stored \cup {pool[i].blk} ELSE stored
          /\ \/ /\ pool' = [pool EXCEPT ![i] = assigned(@, req[t])]
                /\ avail' = avail - 1
                /\ Return(t, i)
                /\ UNCHANGED unread
             \/ /\ ReadMayFail
                /\ pool' = [pool EXCEPT ![i] = [flush(@) EXCEPT !.blk = req[t]]]
                /\ unread' = unread \cup {req[t]}
                /\ Throw(t)
                /\ UNCHANGED avail

\* Mutant: the wait has no end.
PinFails_forever(t) ==
    /\ Trying(t)
    /\ Existing(req[t]) = {}
    /\ Unpinned = {}
    /\ pc' = [pc EXCEPT ![t] = "sleep"]
    /\ UNCHANGED <<pool, avail, stored, unread, buffers, pins, req, got, expired, todo>>

\* try_pin finds nothing: wait_for releases the mutex, or the time is up.
PinFails(t) ==
    /\ Trying(t)
    /\ Existing(req[t]) = {}
    /\ Unpinned = {}
    /\ \/ /\ expired[t]
          /\ Throw(t)
       \/ /\ ~expired[t]
          /\ pc' = [pc EXCEPT ![t] = "sleep"]
          /\ UNCHANGED <<req, got, buffers, pins, expired, todo>>
    /\ UNCHANGED <<pool, avail, stored, unread>>

\* wait_for returns: notified, timed out, or spuriously.
Wake(t) ==
    /\ pc[t] = "sleep"
    /\ pc' = [pc EXCEPT ![t] = "repin"]
    /\ UNCHANGED <<pool, avail, stored, unread, buffers, pins, req, got, expired, todo>>

\* MAX_TIMEOUT has passed since the pin took its start time.
Expire(t) ==
    /\ pc[t] \in {"pin", "repin", "sleep"}
    /\ ~expired[t]
    /\ expired' = [expired EXCEPT ![t] = TRUE]
    /\ UNCHANGED <<pool, avail, stored, unread, buffers, pins, pc, req, got, todo>>

\* The list copies the buffer it got a reference to; buffer_mtx is not held.
Copy(t) ==
    /\ pc[t] = "copy"
    /\ buffers' = [buffers EXCEPT ![t][req[t]] = pool[got[t]]]
    /\ pins' = [pins EXCEPT ![t][req[t]] = @ + 1]
    /\ pc' = [pc EXCEPT ![t] = "idle"]
    /\ req' = [req EXCEPT ![t] = NoBlk]
    /\ got' = [got EXCEPT ![t] = 0]
    /\ UNCHANGED <<pool, avail, stored, unread, expired, todo>>

-----------------------------------------------------------------------------
(* What a transaction does with what it pinned.                            *)

\* buffer_mgr::unpin, given a copy: the pool's own count stays as it is.
unpinned(buf) == [buf EXCEPT !.pins = IF @ = 0 THEN 0 ELSE @ - 1]

Credit(buf) == IF is_pinned(unpinned(buf)) THEN avail ELSE avail + 1

\* buffer_list::get_buffer finds a copy.
listed(t, b) == buffers[t][b].blk # NoBlk

\* Mutant: one pin is taken off the list, not all.
without_one(p, b) == [p EXCEPT ![b] = @ - 1]

without(p, b) == [p EXCEPT ![b] = 0]

\* Mutant: the pool's buffer is unpinned, as a list of references would.
unpin_in_pool(t, b) ==
    /\ pc[t] = "idle"
    /\ listed(t, b)
    /\ pool' = [i \in Buf |->
                  IF pool[i].blk = b THEN unpinned(pool[i]) ELSE pool[i]]
    /\ avail' = Credit(buffers[t][b])
    /\ pins' = [pins EXCEPT ![t] = without(@, b)]
    /\ buffers' = [buffers EXCEPT ![t][b] = NoCopy]
    /\ UNCHANGED <<stored, unread, pc, req, got, expired, todo>>

\* buffer_list::unpin drops every pin of the block, however often it is pinned.
unpin(t, b) ==
    /\ pc[t] = "idle"
    /\ listed(t, b)
    /\ avail' = Credit(buffers[t][b])
    /\ pins' = [pins EXCEPT ![t] = without(@, b)]
    /\ buffers' = [buffers EXCEPT ![t][b] = NoCopy]
    /\ UNCHANGED <<pool, stored, unread, pc, req, got, expired, todo>>

\* Mutant: the pool's buffer is marked too.
set_modified_in_pool(t, b) ==
    /\ pc[t] = "idle"
    /\ listed(t, b)
    /\ buffers' = [buffers EXCEPT ![t][b].tx = t]
    /\ pool' = [i \in Buf |->
                  IF pool[i].blk = b THEN [pool[i] EXCEPT !.tx = t] ELSE pool[i]]
    /\ UNCHANGED <<avail, stored, unread, pins, pc, req, got, expired, todo>>

\* transaction::set_int and set_str, holding the exclusive lock on b.
set_modified(t, b) ==
    /\ pc[t] = "idle"
    /\ listed(t, b)
    /\ buffers' = [buffers EXCEPT ![t][b].tx = t]
    /\ UNCHANGED <<pool, avail, stored, unread, pins, pc, req, got, expired, todo>>

\* buffer_mgr::flush_all, from recovery_mgr's commit and rollback.
flush_all(t) ==
    /\ pc[t] = "idle"
    /\ pool' = [i \in Buf |-> IF pool[i].tx = t THEN flush(pool[i]) ELSE pool[i]]
    /\ stored' = stored \cup
                   {pool[i].blk : i \in {j \in Buf : pool[j].tx = t /\ dirty(pool[j])}}
    /\ UNCHANGED <<avail, unread, buffers, pins, pc, req, got, expired, todo>>

\* buffer_list::unpin_all, one buffer_mgr::unpin after the other.
unpin_all(t) ==
    /\ pc[t] = "idle"
    /\ pins[t] # NoPins
    /\ pc' = [pc EXCEPT ![t] = "unpin_all"]
    /\ todo' = [todo EXCEPT ![t] = pins[t]]
    /\ UNCHANGED <<pool, avail, stored, unread, buffers, pins, req, got, expired>>

\* The loop ends with the last pin; then the list is cleared.
last_pin(t, b) == [todo[t] EXCEPT ![b] = @ - 1] = NoPins

UnpinNext(t, b) ==
    /\ pc[t] = "unpin_all"
    /\ todo[t][b] > 0
    /\ avail' = IF listed(t, b) THEN Credit(buffers[t][b]) ELSE avail
    /\ todo' = [todo EXCEPT ![t][b] = @ - 1]
    /\ IF last_pin(t, b)
         THEN /\ buffers' = [buffers EXCEPT ![t] = [c \in Blk |-> NoCopy]]
              /\ pins' = [pins EXCEPT ![t] = NoPins]
              /\ pc' = [pc EXCEPT ![t] = "idle"]
         ELSE /\ buffers' = [buffers EXCEPT ![t][b] = unpinned(@)]
              /\ UNCHANGED <<pins, pc>>
    /\ UNCHANGED <<pool, stored, unread, req, got, expired>>

-----------------------------------------------------------------------------
TryPin(t) == PinExisting(t) \/ PinReplacing(t) \/ PinFails(t)

Next ==
    \E t \in Tx :
        \/ \E b \in Blk :
              pin(t, b) \/ unpin(t, b) \/ set_modified(t, b) \/ UnpinNext(t, b)
        \/ PinExisting(t)
        \/ PinReplacing(t)
        \/ PinFails(t)
        \/ Wake(t)
        \/ Expire(t)
        \/ Copy(t)
        \/ flush_all(t)
        \/ unpin_all(t)

Spec == Init /\ [][Next]_vars

\* Threads run, wait_for returns by its time limit, and the clock advances.
Fairness ==
    \A t \in Tx :
        /\ WF_vars(TryPin(t))
        /\ WF_vars(Wake(t))
        /\ WF_vars(Expire(t))
        /\ WF_vars(Copy(t))
        /\ WF_vars(\E b \in Blk : UnpinNext(t, b))

FairSpec == Spec /\ Fairness

-----------------------------------------------------------------------------
(* What the pool promises.                                                 *)

\* A block is in at most one buffer of the pool: two transactions that pin it
\* share its bytes (find_existing_buffer before choose_unpinned_buffer).
NoBlockTwice ==
    \A i, j \in Buf : pool[i].blk = pool[j].blk /\ pool[i].blk # NoBlk => i = j

\* A buffer holds the bytes of the block it is assigned to, unless the read of
\* that block threw: assign_to_block sets m_blk before it reads, and the next
\* pin of the block finds the buffer and does not read again.
PageIsItsBlock ==
    \A i \in Buf : pool[i].page # pool[i].blk => pool[i].blk \in unread

\* The pool holds blocks once each, and their own bytes.
PoolHoldsBlocks == NoBlockTwice /\ PageIsItsBlock

\* num_available never understates the unpinned buffers and never exceeds the
\* pool, though unpins of copies credit buffers that stay pinned: at most one
\* credit ever reaches a buffer, by the list that made all the pins it has.
AvailableInRange ==
    Cardinality(Unpinned) <= avail /\ avail <= NumBufs

\* A list has a copy of exactly the blocks it has pinned, and each is a copy of
\* a pool buffer that still holds the same block, bytes and at least its pins.
CopiesMatchPins ==
    \A t \in Tx, b \in Blk :
        LET copy == buffers[t][b]
        IN  /\ listed(t, b) <=> pins[t][b] > 0
            /\ listed(t, b) =>
                 \E i \in Buf : /\ pool[i].blk = b /\ copy.blk = b
                                /\ pool[i].page = copy.page
                                /\ copy.pins <= pool[i].pins

\* What the pool counts and what the lists hold agree with the pool's pins,
\* though unpin and unpin_all count down the pins of copies.
AccountsAgree == AvailableInRange /\ CopiesMatchPins

\* No mark of a modification reaches the pool, so neither flush_all nor a
\* replacement ever writes a block to its file.
ModificationsStayInCopies ==
    stored = {} /\ \A i \in Buf : pool[i].tx = -1

\* A pin that has to wait is never served: the pool's pins do not go down, so
\* a pool that is full without the block stays so until the wait times out.
WaitIsHopeless ==
    \A t \in Tx : pc[t] \in {"sleep", "repin"} =>
        Unpinned = {} /\ Existing(req[t]) = {}

\* A pinned buffer keeps its block and its bytes, and stays pinned for good.
PinnedStays ==
    [][\A i \in Buf : pool[i].pins > 0 =>
            /\ pool'[i].blk = pool[i].blk
            /\ pool'[i].page = pool[i].page
            /\ pool'[i].pins >= pool[i].pins]_vars

\* Every pin ends, in a buffer or in an exception.
PinTerminates == \A t \in Tx : pc[t] \in Pinning ~> pc[t] = "idle"
=============================================================================
