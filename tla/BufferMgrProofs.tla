--------------------------- MODULE BufferMgrProofs ---------------------------
(***************************************************************************)
(* The buffer pool for any number of transactions, blocks and buffers.     *)
(***************************************************************************)
EXTENDS BufferMgr, FiniteSetTheorems, TLAPS

-----------------------------------------------------------------------------
(* The operations on one buffer.                                           *)

LEMMA FlushBuffer ==
    ASSUME NEW buf \in Buffers
    PROVE  /\ flush(buf) \in Buffers
           /\ flush(buf).blk = buf.blk
           /\ flush(buf).page = buf.page
           /\ flush(buf).pins = buf.pins
<1>1. CASE dirty(buf)
  <2>1. flush(buf) = [buf EXCEPT !.tx = buf.tx - 1]
    BY <1>1 DEF flush
  <2>2. QED
    BY <2>1 DEF Buffers
<1>2. CASE ~dirty(buf)
  BY <1>2 DEF flush
<1>3. QED
  BY <1>1, <1>2

LEMMA AssignBuffer ==
    ASSUME NEW buf \in Buffers, NEW b \in Blk
    PROVE  /\ assigned(buf, b) \in Buffers
           /\ assigned(buf, b).blk = b
           /\ assigned(buf, b).page = b
           /\ assigned(buf, b).pins = 1
           /\ [flush(buf) EXCEPT !.blk = b] \in Buffers
           /\ [flush(buf) EXCEPT !.blk = b].blk = b
           /\ [flush(buf) EXCEPT !.blk = b].page = buf.page
           /\ [flush(buf) EXCEPT !.blk = b].pins = buf.pins
BY FlushBuffer DEF assigned, Buffers

LEMMA UnpinBuffer ==
    ASSUME NEW buf \in Buffers
    PROVE  /\ unpinned(buf) \in Buffers
           /\ unpinned(buf).blk = buf.blk
           /\ unpinned(buf).page = buf.page
           /\ unpinned(buf).pins = IF buf.pins = 0 THEN 0 ELSE buf.pins - 1
BY DEF unpinned, Buffers

LEMMA PinBuffer ==
    ASSUME NEW buf \in Buffers
    PROVE  /\ [buf EXCEPT !.pins = @ + 1] \in Buffers
           /\ [buf EXCEPT !.pins = @ + 1].blk = buf.blk
           /\ [buf EXCEPT !.pins = @ + 1].page = buf.page
           /\ [buf EXCEPT !.pins = @ + 1].pins = buf.pins + 1
BY DEF Buffers

LEMMA MarkBuffer ==
    ASSUME NEW buf \in Buffers, NEW t \in Tx
    PROVE  /\ [buf EXCEPT !.tx = t] \in Buffers
           /\ [buf EXCEPT !.tx = t].blk = buf.blk
           /\ [buf EXCEPT !.tx = t].page = buf.page
           /\ [buf EXCEPT !.tx = t].pins = buf.pins
<1>1. t \in Int
  BY BufferAssumption DEF BufferAssumption
<1>2. QED
  BY <1>1 DEF Buffers

LEMMA NoCopyBuffer ==
    /\ NoCopy \in Buffers
    /\ NoCopy.blk = NoBlk /\ NoCopy.page = NoBlk
    /\ NoCopy.pins = 0 /\ NoCopy.tx = -1
BY DEF NoCopy, Buffers

-----------------------------------------------------------------------------
(* Types.                                                                  *)

LEMMA InitTypeOK == Init => TypeOK
BY NoCopyBuffer, BufferAssumption
DEF Init, TypeOK, NoPins, Pinning, BufferAssumption

LEMMA NextTypeOK == TypeOK /\ [Next]_vars => TypeOK'
<1> SUFFICES ASSUME TypeOK, [Next]_vars PROVE TypeOK'
  OBVIOUS
<1> USE DEF TypeOK, Pinning
<1>1. ASSUME NEW t \in Tx, NEW b \in Blk, pin(t, b) PROVE TypeOK'
  BY <1>1 DEF pin
<1>2. ASSUME NEW t \in Tx, PinExisting(t) PROVE TypeOK'
  <2>1. PICK i \in Buf :
          /\ avail' = IF is_pinned(pool[i]) THEN avail ELSE avail - 1
          /\ pool' = [pool EXCEPT ![i].pins = @ + 1]
          /\ Return(t, i)
    BY <1>2 DEF PinExisting
  <2>2. req[t] \in Blk /\ UNCHANGED <<stored, unread>>
    BY <1>2 DEF PinExisting, Trying
  <2>3. pool' \in [Buf -> Buffers]
    <3>1. pool' = [pool EXCEPT ![i] = [pool[i] EXCEPT !.pins = @ + 1]]
      BY <2>1
    <3>2. QED
      BY <3>1, PinBuffer
  <2>4. avail' \in Int
    BY <2>1
  <2>5. QED
    BY <2>1, <2>2, <2>3, <2>4 DEF Return
<1>3. ASSUME NEW t \in Tx, PinReplacing(t) PROVE TypeOK'
  <2>1. PICK i \in Buf :
          /\ IsFirst(i, Unpinned)
          /\ stored' = IF dirty(pool[i]) THEN stored \cup {pool[i].blk} ELSE stored
          /\ \/ /\ pool' = [pool EXCEPT ![i] = assigned(@, req[t])]
                /\ avail' = avail - 1
                /\ Return(t, i)
                /\ UNCHANGED unread
             \/ /\ ReadMayFail
                /\ pool' = [pool EXCEPT ![i] = [flush(@) EXCEPT !.blk = req[t]]]
                /\ unread' = unread \cup {req[t]}
                /\ Throw(t)
                /\ UNCHANGED avail
    BY <1>3 DEF PinReplacing
  <2>2. req[t] \in Blk
    BY <1>3 DEF PinReplacing, Trying
  <2>3. stored' \subseteq Blk
    BY <2>1 DEF dirty, Buffers
  <2>4. /\ assigned(pool[i], req[t]) \in Buffers
        /\ [flush(pool[i]) EXCEPT !.blk = req[t]] \in Buffers
    BY <2>2, AssignBuffer
  <2>5. pool' \in [Buf -> Buffers]
    BY <2>1, <2>4
  <2>6. CASE avail' = avail - 1 /\ Return(t, i) /\ UNCHANGED unread
    BY <2>2, <2>3, <2>5, <2>6 DEF Return
  <2>7. CASE unread' = unread \cup {req[t]} /\ Throw(t) /\ UNCHANGED avail
    BY <2>2, <2>3, <2>5, <2>7 DEF Throw
  <2>8. QED
    BY <2>1, <2>6, <2>7
<1>4. ASSUME NEW t \in Tx, PinFails(t) PROVE TypeOK'
  <2>1. CASE expired[t]
    <3>1. Throw(t) /\ UNCHANGED <<pool, avail, stored, unread>>
      BY <1>4, <2>1, Zenon DEF PinFails
    <3>2. QED
      BY <3>1 DEF Throw
  <2>2. CASE ~expired[t]
    <3>1. /\ pc' = [pc EXCEPT ![t] = "sleep"]
          /\ UNCHANGED <<req, got, buffers, pins, expired, todo>>
          /\ UNCHANGED <<pool, avail, stored, unread>>
          /\ req[t] \in Blk
      BY <1>4, <2>2 DEF PinFails, Trying
    <3>2. QED
      BY <3>1
  <2>3. QED
    BY <2>1, <2>2
<1>5. ASSUME NEW t \in Tx, Wake(t) PROVE TypeOK'
  BY <1>5 DEF Wake
<1>6. ASSUME NEW t \in Tx, Expire(t) PROVE TypeOK'
  BY <1>6 DEF Expire
<1>7. ASSUME NEW t \in Tx, Copy(t) PROVE TypeOK'
  <2>1. req[t] \in Blk /\ pool[got[t]] \in Buffers
    BY <1>7 DEF Copy
  <2>2. buffers' \in [Tx -> [Blk -> Buffers]] /\ pins' \in [Tx -> [Blk -> Nat]]
    BY <1>7, <2>1 DEF Copy
  <2>3. QED
    BY <1>7, <2>2 DEF Copy
<1>8. ASSUME NEW t \in Tx, NEW b \in Blk, unpin(t, b) PROVE TypeOK'
  <2>1. buffers' \in [Tx -> [Blk -> Buffers]] /\ pins' \in [Tx -> [Blk -> Nat]]
    BY <1>8, NoCopyBuffer DEF unpin, without
  <2>2. avail' \in Int
    BY <1>8 DEF unpin, Credit
  <2>3. QED
    BY <1>8, <2>1, <2>2 DEF unpin
<1>9. ASSUME NEW t \in Tx, NEW b \in Blk, set_modified(t, b) PROVE TypeOK'
  <2>1. [buffers[t][b] EXCEPT !.tx = t] \in Buffers
    BY MarkBuffer
  <2>2. buffers' \in [Tx -> [Blk -> Buffers]]
    <3>1. buffers' = [buffers EXCEPT
                        ![t][b] = [buffers[t][b] EXCEPT !.tx = t]]
      BY <1>9 DEF set_modified
    <3>2. QED
      BY <2>1, <3>1
  <2>3. QED
    BY <1>9, <2>2 DEF set_modified
<1>10. ASSUME NEW t \in Tx, flush_all(t) PROVE TypeOK'
  <2>1. pool' \in [Buf -> Buffers]
    BY <1>10, FlushBuffer DEF flush_all
  <2>2. stored' \subseteq Blk
    BY <1>10 DEF flush_all, dirty, Buffers
  <2>3. QED
    BY <1>10, <2>1, <2>2 DEF flush_all
<1>11. ASSUME NEW t \in Tx, unpin_all(t) PROVE TypeOK'
  BY <1>11 DEF unpin_all
<1>12. ASSUME NEW t \in Tx, NEW b \in Blk, UnpinNext(t, b) PROVE TypeOK'
  <2>1. avail' \in Int
    BY <1>12 DEF UnpinNext, Credit
  <2>2. todo' \in [Tx -> [Blk -> Nat]]
    BY <1>12 DEF UnpinNext
  <2>3. CASE last_pin(t, b)
    <3>1. /\ buffers' = [buffers EXCEPT ![t] = [c \in Blk |-> NoCopy]]
          /\ pins' = [pins EXCEPT ![t] = NoPins]
          /\ pc' = [pc EXCEPT ![t] = "idle"]
          /\ todo' = [todo EXCEPT ![t][b] = @ - 1]
      BY <1>12, <2>3 DEF UnpinNext
    <3>2. buffers' \in [Tx -> [Blk -> Buffers]] /\ pins' \in [Tx -> [Blk -> Nat]]
      BY <3>1, NoCopyBuffer DEF NoPins
    <3>3. QED
      BY <1>12, <2>1, <2>2, <3>1, <3>2 DEF UnpinNext
  <2>4. CASE ~last_pin(t, b)
    <3>1. /\ buffers' = [buffers EXCEPT ![t][b] = unpinned(@)]
          /\ UNCHANGED <<pins, pc>>
          /\ todo' = [todo EXCEPT ![t][b] = @ - 1]
      BY <1>12, <2>4 DEF UnpinNext
    <3>2. buffers' \in [Tx -> [Blk -> Buffers]]
      BY <3>1, UnpinBuffer
    <3>3. todo'[t] # NoPins
      BY <2>4, <3>1 DEF last_pin
    <3>4. QED
      BY <1>12, <2>1, <2>2, <3>1, <3>2, <3>3 DEF UnpinNext
  <2>5. QED
    BY <2>3, <2>4
<1>13. CASE UNCHANGED vars
  BY <1>13 DEF vars
<1>14. QED
  BY <1>1, <1>2, <1>3, <1>4, <1>5, <1>6, <1>7, <1>8, <1>9, <1>10, <1>11, <1>12,
     <1>13
  DEF Next

\* Every reachable state has the types of TypeOK.
THEOREM TypeCorrect == Spec => []TypeOK
<1>1. QED
  BY InitTypeOK, NextTypeOK, PTL DEF Spec

-----------------------------------------------------------------------------
(* The pool.  Only a pin changes it, and there are three ways to do so.    *)

\* A pin finds the block, assigns a buffer to it, or fails to read it.
Hits(t, i) ==
    /\ i \in Existing(req[t])
    /\ pool' = [pool EXCEPT ![i] = [pool[i] EXCEPT !.pins = @ + 1]]
    /\ avail' = IF is_pinned(pool[i]) THEN avail ELSE avail - 1
    /\ Return(t, i)
    /\ UNCHANGED unread
Misses(t, i) ==
    /\ Existing(req[t]) = {}
    /\ i \in Unpinned
    /\ pool' = [pool EXCEPT ![i] = assigned(pool[i], req[t])]
    /\ avail' = avail - 1
    /\ Return(t, i)
    /\ UNCHANGED unread
Unreadable(t, i) ==
    /\ Existing(req[t]) = {}
    /\ i \in Unpinned
    /\ pool' = [pool EXCEPT ![i] = [flush(pool[i]) EXCEPT !.blk = req[t]]]
    /\ unread' = unread \cup {req[t]}
    /\ Throw(t)
    /\ UNCHANGED avail
Pins(t, i) == Hits(t, i) \/ Misses(t, i) \/ Unreadable(t, i)

\* A reference that buffer_mgr::pin returned is to a pinned buffer of the
\* block asked for, until it is copied.
GotOK ==
    \A t \in Tx : pc[t] = "copy" =>
        pool[got[t]].blk = req[t] /\ pool[got[t]].pins > 0

PoolInv ==
    /\ TypeOK
    /\ NoBlockTwice
    /\ PageIsItsBlock
    /\ ModificationsStayInCopies
    /\ WaitIsHopeless
    /\ GotOK
    /\ \A i \in Buf : pool[i].pins > 0 => pool[i].blk \in Blk

LEMMA PinSteps ==
    ASSUME TypeOK, ModificationsStayInCopies, NEW t \in Tx,
           PinExisting(t) \/ PinReplacing(t)
    PROVE  /\ Trying(t) /\ req[t] \in Blk /\ UNCHANGED stored
           /\ \E i \in Buf : Pins(t, i)
<1>1. Trying(t) /\ req[t] \in Blk
  BY DEF PinExisting, PinReplacing, Trying, TypeOK, Pinning
<1>2. CASE PinExisting(t)
  <2>1. PICK i \in Buf :
          /\ IsFirst(i, Existing(req[t]))
          /\ avail' = IF is_pinned(pool[i]) THEN avail ELSE avail - 1
          /\ pool' = [pool EXCEPT ![i].pins = @ + 1]
          /\ Return(t, i)
    BY <1>2 DEF PinExisting
  <2>2. UNCHANGED <<stored, unread>>
    BY <1>2 DEF PinExisting
  <2>3. Hits(t, i)
    BY <2>1, <2>2 DEF Hits, IsFirst
  <2>4. QED
    BY <1>1, <2>2, <2>3 DEF Pins
<1>3. CASE PinReplacing(t)
  <2>1. PICK i \in Buf :
          /\ IsFirst(i, Unpinned)
          /\ stored' = IF dirty(pool[i]) THEN stored \cup {pool[i].blk} ELSE stored
          /\ \/ /\ pool' = [pool EXCEPT ![i] = assigned(@, req[t])]
                /\ avail' = avail - 1
                /\ Return(t, i)
                /\ UNCHANGED unread
             \/ /\ ReadMayFail
                /\ pool' = [pool EXCEPT ![i] = [flush(@) EXCEPT !.blk = req[t]]]
                /\ unread' = unread \cup {req[t]}
                /\ Throw(t)
                /\ UNCHANGED avail
    BY <1>3 DEF PinReplacing
  <2>2. i \in Unpinned /\ Existing(req[t]) = {}
    BY <1>3, <2>1 DEF IsFirst, PinReplacing
  <2>3. UNCHANGED stored
    BY <2>1 DEF dirty, ModificationsStayInCopies
  <2>4. Misses(t, i) \/ Unreadable(t, i)
    BY <2>1, <2>2 DEF Misses, Unreadable
  <2>5. QED
    BY <1>1, <2>3, <2>4 DEF Pins
<1>4. QED
  BY <1>2, <1>3

\* All other steps leave the pool alone; flush_all finds nothing to write.
LEMMA PoolSteps ==
    ASSUME TypeOK, ModificationsStayInCopies, [Next]_vars
    PROVE  /\ UNCHANGED stored
           /\ \/ UNCHANGED <<pool, unread>>
              \/ \E t \in Tx, i \in Buf :
                   Trying(t) /\ req[t] \in Blk /\ Pins(t, i)
<1>1. ASSUME NEW t \in Tx, NEW b \in Blk,
             pin(t, b) \/ unpin(t, b) \/ set_modified(t, b) \/ UnpinNext(t, b)
      PROVE  UNCHANGED <<pool, stored, unread>>
  BY <1>1 DEF pin, unpin, set_modified, UnpinNext
<1>2. ASSUME NEW t \in Tx, PinFails(t) \/ Wake(t) \/ Expire(t) \/ Copy(t)
                                \/ unpin_all(t)
      PROVE  UNCHANGED <<pool, stored, unread>>
  BY <1>2 DEF PinFails, Wake, Expire, Copy, unpin_all
<1>3. ASSUME NEW t \in Tx, flush_all(t) PROVE UNCHANGED <<pool, stored, unread>>
  <2>1. \A i \in Buf : pool[i].tx # t
    BY BufferAssumption DEF BufferAssumption, ModificationsStayInCopies
  <2>2. pool' = pool
    BY <1>3, <2>1 DEF flush_all, TypeOK
  <2>3. stored' = stored
    BY <1>3, <2>1 DEF flush_all
  <2>4. QED
    BY <1>3, <2>2, <2>3 DEF flush_all
<1>4. ASSUME NEW t \in Tx, PinExisting(t) \/ PinReplacing(t)
      PROVE  /\ UNCHANGED stored
             /\ \E i \in Buf : Trying(t) /\ req[t] \in Blk /\ Pins(t, i)
  BY <1>4, PinSteps
<1>5. CASE UNCHANGED vars
  BY <1>5 DEF vars
<1>6. QED
  BY <1>1, <1>2, <1>3, <1>4, <1>5 DEF Next

\* What a pin makes of the one buffer it takes.
LEMMA PinEffect ==
    ASSUME TypeOK, ModificationsStayInCopies, NEW t \in Tx, NEW i \in Buf,
           req[t] \in Blk, Pins(t, i)
    PROVE  /\ \A j \in Buf \ {i} : pool'[j] = pool[j]
           /\ pool'[i].blk = req[t]
           /\ pool'[i].tx = -1
           /\ pool'[i].pins >= pool[i].pins
           /\ pool[i].pins > 0 => Hits(t, i)
           /\ Hits(t, i) => /\ pool[i].blk = req[t]
                            /\ pool'[i].page = pool[i].page
                            /\ pool'[i].pins = pool[i].pins + 1
           /\ Misses(t, i) => /\ pool'[i].page = req[t]
                              /\ pool'[i].pins = 1
           /\ Unreadable(t, i) => pool'[i].page = pool[i].page
<1> pool \in [Buf -> Buffers] /\ pool[i].tx = -1
  BY DEF TypeOK, ModificationsStayInCopies
<1>1. CASE Hits(t, i)
  BY <1>1, PinBuffer
  DEF Hits, Misses, Unreadable, Existing, Unpinned, is_pinned, Buffers
<1>2. CASE Misses(t, i)
  <2>1. flush(pool[i]) = pool[i]
    BY DEF flush, dirty
  <2>2. assigned(pool[i], req[t]).tx = -1
    BY <2>1 DEF assigned, Buffers
  <2>3. pool[i].pins = 0
    BY <1>2 DEF Misses, Unpinned, is_pinned, Buffers
  <2>4. pool'[i] = assigned(pool[i], req[t])
    BY <1>2 DEF Misses
  <2>5. ~Hits(t, i)
    BY <1>2 DEF Misses, Hits
  <2>6. ~Unreadable(t, i)
    BY <1>2 DEF Misses, Unreadable, Return, Throw, TypeOK
  <2>7. QED
    <3>1. /\ pool'[i].blk = req[t] /\ pool'[i].page = req[t]
          /\ pool'[i].tx = -1 /\ pool'[i].pins = 1
      <4>1. pool[i] \in Buffers
        OBVIOUS
      <4>2. /\ assigned(pool[i], req[t]).blk = req[t]
            /\ assigned(pool[i], req[t]).page = req[t]
            /\ assigned(pool[i], req[t]).pins = 1
        BY <4>1, AssignBuffer
      <4>3. QED
        BY <2>2, <2>4, <4>2
    <3>2. \A j \in Buf \ {i} : pool'[j] = pool[j]
      BY <1>2 DEF Misses
    <3>3. QED
      BY <2>3, <2>5, <2>6, <3>1, <3>2
<1>3. CASE Unreadable(t, i)
  <2>1. flush(pool[i]) = pool[i]
    BY DEF flush, dirty
  <2>2. pool[i].pins = 0
    BY <1>3 DEF Unreadable, Unpinned, is_pinned, Buffers
  <2>3. pool'[i] = [pool[i] EXCEPT !.blk = req[t]]
    BY <1>3, <2>1 DEF Unreadable
  <2>4. ~Hits(t, i)
    BY <1>3 DEF Unreadable, Hits
  <2>5. ~Misses(t, i)
    BY <1>3 DEF Misses, Unreadable, Return, Throw, TypeOK
  <2>6. QED
    <3>1. /\ pool'[i].blk = req[t] /\ pool'[i].page = pool[i].page
          /\ pool'[i].tx = -1 /\ pool'[i].pins = pool[i].pins
      BY <2>3 DEF Buffers
    <3>2. \A j \in Buf \ {i} : pool'[j] = pool[j]
      BY <1>3 DEF Unreadable
    <3>3. QED
      BY <2>2, <2>4, <2>5, <3>1, <3>2
<1>4. QED
  BY <1>1, <1>2, <1>3 DEF Pins

LEMMA InitPoolInv == Init => PoolInv
<1> SUFFICES ASSUME Init PROVE PoolInv
  OBVIOUS
<1>1. TypeOK
  BY InitTypeOK
<1>2. \A i \in Buf : pool[i].blk = NoBlk /\ pool[i].page = NoBlk
                    /\ pool[i].pins = 0 /\ pool[i].tx = -1
  BY NoCopyBuffer DEF Init
<1>3. stored = {} /\ \A t \in Tx : pc[t] = "idle"
  BY DEF Init
<1>4. QED
  BY <1>1, <1>2, <1>3
  DEF PoolInv, NoBlockTwice, PageIsItsBlock, ModificationsStayInCopies,
      WaitIsHopeless, GotOK

\* Pinned buffers stay as they are, whatever step the system takes.
LEMMA PinnedStay ==
    ASSUME TypeOK, ModificationsStayInCopies, [Next]_vars, NEW i \in Buf,
           pool[i].pins > 0
    PROVE  /\ pool'[i].blk = pool[i].blk
           /\ pool'[i].page = pool[i].page
           /\ pool'[i].pins >= pool[i].pins
<1>1. CASE UNCHANGED pool
  BY <1>1 DEF TypeOK, Buffers
<1>2. ASSUME NEW t \in Tx, NEW j \in Buf, req[t] \in Blk, Pins(t, j)
      PROVE  /\ pool'[i].blk = pool[i].blk
             /\ pool'[i].page = pool[i].page
             /\ pool'[i].pins >= pool[i].pins
  <2>1. CASE i = j
    BY <1>2, <2>1, PinEffect
  <2>2. CASE i # j
    BY <1>2, <2>2, PinEffect DEF TypeOK, Buffers
  <2>3. QED
    BY <2>1, <2>2
<1>3. QED
  BY <1>1, <1>2, PoolSteps

LEMMA NextPool ==
    PoolInv /\ [Next]_vars =>
        /\ NoBlockTwice' /\ PageIsItsBlock' /\ ModificationsStayInCopies'
        /\ (\A i \in Buf : pool[i].pins > 0 => pool[i].blk \in Blk)'
<1> SUFFICES ASSUME PoolInv, [Next]_vars
             PROVE  /\ NoBlockTwice' /\ PageIsItsBlock'
                    /\ ModificationsStayInCopies'
                    /\ (\A i \in Buf : pool[i].pins > 0 => pool[i].blk \in Blk)'
  OBVIOUS
<1> USE DEF PoolInv, NoBlockTwice, PageIsItsBlock, ModificationsStayInCopies
<1>1. CASE UNCHANGED <<pool, unread>>
  BY <1>1, PoolSteps
<1>2. ASSUME NEW t \in Tx, NEW i \in Buf, req[t] \in Blk, Pins(t, i)
      PROVE  /\ NoBlockTwice' /\ PageIsItsBlock'
             /\ ModificationsStayInCopies'
             /\ (\A j \in Buf : pool[j].pins > 0 => pool[j].blk \in Blk)'
  <2>1. /\ \A j \in Buf \ {i} : pool'[j] = pool[j]
        /\ pool'[i].blk = req[t] /\ pool'[i].tx = -1
    BY <1>2, PinEffect
  <2>2. \A j \in Buf \ {i} : pool[j].blk # req[t]
    BY <1>2, BufferAssumption
    DEF Pins, Hits, Misses, Unreadable, Existing, BufferAssumption
  <2>3. NoBlockTwice'
    BY <2>1, <2>2
  <2>4. unread \subseteq unread'
    BY <1>2 DEF Pins, Hits, Misses, Unreadable
  <2>5. pool'[i].page # pool'[i].blk => pool'[i].blk \in unread'
    <3>1. CASE Hits(t, i)
      BY <1>2, <2>1, <3>1, PinEffect DEF Hits
    <3>2. CASE Misses(t, i)
      BY <1>2, <2>1, <3>2, PinEffect
    <3>3. CASE Unreadable(t, i)
      BY <1>2, <2>1, <3>3 DEF Unreadable
    <3>4. QED
      BY <1>2, <3>1, <3>2, <3>3 DEF Pins
  <2>6. PageIsItsBlock'
    BY <2>1, <2>4, <2>5
  <2>7. ModificationsStayInCopies'
    BY <2>1, PoolSteps
  <2>8. QED
    BY <1>2, <2>1, <2>3, <2>6, <2>7
<1>3. QED
  BY <1>1, <1>2, PoolSteps

\* Where a waiting pin and a returned reference come from.
LEMMA Origins ==
    ASSUME TypeOK, ModificationsStayInCopies, [Next]_vars, NEW u \in Tx
    PROVE  /\ pc'[u] \in {"sleep", "repin"} =>
                /\ req'[u] = req[u]
                /\ \/ pc[u] \in {"sleep", "repin"}
                   \/ Unpinned = {} /\ Existing(req[u]) = {}
           /\ pc'[u] = "copy" =>
                /\ req'[u] = req[u]
                /\ \/ pc[u] = "copy" /\ got'[u] = got[u]
                   \/ \E i \in Buf : /\ got'[u] = i /\ req[u] \in Blk
                                     /\ Hits(u, i) \/ Misses(u, i)
<1> DEFINE Goal ==
      /\ pc'[u] \in {"sleep", "repin"} =>
            /\ req'[u] = req[u]
            /\ \/ pc[u] \in {"sleep", "repin"}
               \/ Unpinned = {} /\ Existing(req[u]) = {}
      /\ pc'[u] = "copy" =>
            /\ req'[u] = req[u]
            /\ \/ pc[u] = "copy" /\ got'[u] = got[u]
               \/ \E i \in Buf : /\ got'[u] = i /\ req[u] \in Blk
                                 /\ Hits(u, i) \/ Misses(u, i)
<1> USE DEF TypeOK, Pinning
<1>1. ASSUME NEW t \in Tx, NEW b \in Blk, pin(t, b) PROVE Goal
  BY <1>1 DEF pin
<1>2. ASSUME NEW t \in Tx, NEW b \in Blk, unpin(t, b) \/ set_modified(t, b)
      PROVE  Goal
  BY <1>2 DEF unpin, set_modified
<1>3. ASSUME NEW t \in Tx, NEW b \in Blk, UnpinNext(t, b) PROVE Goal
  BY <1>3 DEF UnpinNext
<1>4. ASSUME NEW t \in Tx, PinFails(t) PROVE Goal
  BY <1>4 DEF PinFails, Throw
<1>5. ASSUME NEW t \in Tx, Wake(t) \/ Expire(t) \/ flush_all(t) \/ unpin_all(t)
      PROVE  Goal
  BY <1>5 DEF Wake, Expire, flush_all, unpin_all
<1>6. ASSUME NEW t \in Tx, Copy(t) PROVE Goal
  BY <1>6 DEF Copy
<1>7. ASSUME NEW t \in Tx, PinExisting(t) \/ PinReplacing(t) PROVE Goal
  <2>1. PICK i \in Buf : Pins(t, i)
    BY <1>7, PinSteps
  <2>2. Trying(t) /\ req[t] \in Blk
    BY <1>7, PinSteps
  <2>3. CASE Hits(t, i) \/ Misses(t, i)
    <3>1. Return(t, i)
      BY <2>3 DEF Hits, Misses
    <3>2. CASE u = t
      BY <2>2, <2>3, <3>1, <3>2 DEF Return
    <3>3. CASE u # t
      BY <3>1, <3>3 DEF Return
    <3>4. QED
      BY <3>2, <3>3
  <2>4. CASE Unreadable(t, i)
    BY <2>4 DEF Unreadable, Throw
  <2>5. QED
    BY <2>1, <2>3, <2>4 DEF Pins
<1>8. CASE UNCHANGED vars
  BY <1>8 DEF vars
<1>9. Goal
  BY <1>1, <1>2, <1>3, <1>4, <1>5, <1>6, <1>7, <1>8 DEF Next
<1>10. QED
  BY <1>9

LEMMA NextPoolInv == PoolInv /\ [Next]_vars => PoolInv'
<1> SUFFICES ASSUME PoolInv, [Next]_vars PROVE PoolInv'
  OBVIOUS
<1> TypeOK /\ ModificationsStayInCopies
  BY DEF PoolInv
<1>1. TypeOK'
  BY NextTypeOK
<1>2. WaitIsHopeless'
  <2> SUFFICES ASSUME NEW u \in Tx, pc'[u] \in {"sleep", "repin"}
               PROVE  Unpinned' = {} /\ (Existing(req[u]) = {})'
    BY DEF WaitIsHopeless
  <2>1. Unpinned = {} /\ Existing(req[u]) = {} /\ req'[u] = req[u]
    BY Origins DEF PoolInv, WaitIsHopeless
  <2>2. \A i \in Buf : pool[i].pins > 0
    BY <2>1 DEF Unpinned, is_pinned
  <2>3. \A i \in Buf : pool'[i].blk = pool[i].blk /\ pool'[i].pins > 0
    BY <2>2, <1>1, PinnedStay DEF TypeOK, Buffers
  <2>4. QED
    BY <2>1, <2>3 DEF Unpinned, is_pinned, Existing
<1>3. GotOK'
  <2> SUFFICES ASSUME NEW u \in Tx, pc'[u] = "copy"
               PROVE  pool'[got'[u]].blk = req'[u] /\ pool'[got'[u]].pins > 0
    BY DEF GotOK
  <2>1. CASE pc[u] = "copy" /\ got'[u] = got[u] /\ req'[u] = req[u]
    <3>1. /\ got[u] \in Buf /\ pool[got[u]].blk = req[u]
          /\ pool[got[u]].pins > 0
      BY <2>1 DEF PoolInv, GotOK, TypeOK
    <3>2. QED
      BY <1>1, <2>1, <3>1, PinnedStay DEF TypeOK, Buffers
  <2>2. ASSUME NEW i \in Buf, got'[u] = i, req'[u] = req[u], req[u] \in Blk,
               Hits(u, i) \/ Misses(u, i)
        PROVE  pool'[got'[u]].blk = req'[u] /\ pool'[got'[u]].pins > 0
    <3>1. Pins(u, i)
      BY <2>2 DEF Pins
    <3>2. QED
      BY <2>2, <3>1, PinEffect DEF TypeOK, Buffers
  <2>3. QED
    BY <2>1, <2>2, Origins
<1>4. QED
  BY <1>1, <1>2, <1>3, NextPool DEF PoolInv

LEMMA PoolInvHolds == Spec => []PoolInv
<1>1. QED
  BY InitPoolInv, NextPoolInv, PTL DEF Spec

\* No block is ever in two buffers of the pool.
THEOREM BlocksAreNotDuplicated == Spec => []NoBlockTwice
<1>1. PoolInv => NoBlockTwice
  BY DEF PoolInv
<1>2. QED
  BY <1>1, PoolInvHolds, PTL

\* A buffer has its block's bytes unless the read of the block threw.
THEOREM PagesAreOfTheirBlocks == Spec => []PageIsItsBlock
<1>1. PoolInv => PageIsItsBlock
  BY DEF PoolInv
<1>2. QED
  BY <1>1, PoolInvHolds, PTL

\* The pool holds blocks once each, and their own bytes.
THEOREM PoolIsOfBlocks == Spec => []PoolHoldsBlocks
  BY BlocksAreNotDuplicated, PagesAreOfTheirBlocks, PTL DEF PoolHoldsBlocks

\* No mark of a modification reaches the pool, so no block is ever written back.
THEOREM ModificationsAreInCopies == Spec => []ModificationsStayInCopies
<1>1. PoolInv => ModificationsStayInCopies
  BY DEF PoolInv
<1>2. QED
  BY <1>1, PoolInvHolds, PTL

\* A pin that once waited is never served.
THEOREM WaitingIsInVain == Spec => []WaitIsHopeless
<1>1. PoolInv => WaitIsHopeless
  BY DEF PoolInv
<1>2. QED
  BY <1>1, PoolInvHolds, PTL

\* A pinned buffer is never given to another block, and never unpinned.
THEOREM PinnedBuffersStay == Spec => PinnedStays
<1>1. PoolInv /\ [Next]_vars =>
        [\A i \in Buf : pool[i].pins > 0 =>
            /\ pool'[i].blk = pool[i].blk
            /\ pool'[i].page = pool[i].page
            /\ pool'[i].pins >= pool[i].pins]_vars
  BY PinnedStay DEF PoolInv
<1>2. QED
  BY <1>1, PoolInvHolds, PTL DEF Spec, PinnedStays

-----------------------------------------------------------------------------
(***************************************************************************)
(* The accounts of the buffer pool: num_available against the unpinned     *)
(* buffers, and the copies in the lists against the pool's buffers.        *)
(*                                                                         *)
(* unpin and unpin_all give a copy back, and the count goes up when the    *)
(* copy has no pin left, whatever pins the pool's buffer has.  That the    *)
(* count stays in range rests on this: a list brings a copy's pins to zero *)
(* only if it made every pin its buffer had when it was copied; then no    *)
(* other list can do so for that buffer, and no later copy has as few pins.*)
(***************************************************************************)

(* The pins a transaction has of a block.                                  *)

\* The unpins that are left to it, the pins that are not yet copied, and both.
remaining(t, b) == IF pc[t] = "unpin_all" THEN todo[t][b] ELSE pins[t][b]
pending(t, b) == IF pc[t] = "copy" /\ req[t] = b THEN 1 ELSE 0
own(t, b) == remaining(t, b) + pending(t, b)

\* The list made every pin its copy counts: its unpins can bring them to zero.
Sole(t, b) == remaining(t, b) > 0 /\ remaining(t, b) = buffers[t][b].pins

\* Buffer i of the pool is the one the copy was made of.
IsCopyOf(t, b, i) ==
    /\ pool[i].blk = b
    /\ buffers[t][b].blk = b
    /\ pool[i].page = buffers[t][b].page
    /\ buffers[t][b].pins <= pool[i].pins
    /\ pool[i].pins > 0

Copied ==
    \A t \in Tx, b \in Blk :
        /\ listed(t, b) <=> pins[t][b] > 0
        /\ listed(t, b) => \E i \in Buf : IsCopyOf(t, b, i)

\* A list gives back no more pins than it has, and than its copy counts.
Bounded ==
    \A t \in Tx, b \in Blk :
        /\ remaining(t, b) <= pins[t][b]
        /\ remaining(t, b) <= buffers[t][b].pins

\* The pool's buffer has the pins of every list, and of any two together.
Counted ==
    \A t \in Tx, i \in Buf : pool[i].blk \in Blk =>
        /\ own(t, pool[i].blk) <= pool[i].pins
        /\ \A u \in Tx \ {t} :
              own(t, pool[i].blk) + own(u, pool[i].blk) <= pool[i].pins

OneSole ==
    \A t, u \in Tx, b \in Blk : t # u => ~(Sole(t, b) /\ Sole(u, b))

\* No list can bring the pins of a copy of buffer i to zero any more.
Spent(i) ==
    /\ pool[i].pins > 0
    /\ \A t \in Tx : /\ own(t, pool[i].blk) < pool[i].pins
                     /\ ~Sole(t, pool[i].blk)

\* num_available counts the unpinned buffers and, once each, some spent ones.
Credited ==
    \E C \in SUBSET Buf : /\ \A i \in C : Spent(i)
                          /\ avail = Cardinality(Unpinned) + Cardinality(C)

AccountsInv == PoolInv /\ Copied /\ Bounded /\ Counted /\ OneSole /\ Credited

LEMMA Counts ==
    ASSUME TypeOK, NEW t \in Tx, NEW b \in Blk
    PROVE  /\ remaining(t, b) \in Nat /\ pending(t, b) \in {0, 1}
           /\ own(t, b) \in Nat /\ buffers[t][b].pins \in Nat
           /\ pins[t][b] \in Nat /\ todo[t][b] \in Nat
BY DEF TypeOK, remaining, pending, own, Buffers

LEMMA PoolCounts ==
    ASSUME TypeOK, NEW i \in Buf
    PROVE  pool[i].pins \in Nat /\ pool[i].blk \in Blk \cup {NoBlk}
BY DEF TypeOK, Buffers

-----------------------------------------------------------------------------
(* What the steps do to these counts.                                      *)

\* The list's copy of b and its pins stay as they are.
Untouched(t, b) ==
    /\ pins'[t][b] = pins[t][b]
    /\ buffers'[t][b].blk = buffers[t][b].blk
    /\ buffers'[t][b].page = buffers[t][b].page
    /\ buffers'[t][b].pins = buffers[t][b].pins

\* The list has no copy of b left, and nothing to unpin.
Cleared(t, b) ==
    /\ remaining(t, b)' = 0
    /\ pins'[t][b] = 0
    /\ buffers'[t][b] = NoCopy

Kept(t, b) ==
    /\ remaining(t, b)' = remaining(t, b)
    /\ pending(t, b)' = pending(t, b)
    /\ Untouched(t, b) \/ Cleared(t, b)

Quiet ==
    /\ UNCHANGED <<pool, avail>>
    /\ \A t \in Tx, b \in Blk : Kept(t, b)

\* A pin takes buffer i for block b, or fails to read it; the lists stay.
Takes(t, i, b) ==
    /\ Pins(t, i)
    /\ req[t] = b
    /\ \A u \in Tx, c \in Blk :
          /\ remaining(u, c)' = remaining(u, c)
          /\ Untouched(u, c)
          /\ u # t \/ c # b => pending(u, c)' = pending(u, c)
    /\ pending(t, b) = 0
    /\ pending(t, b)' = IF Unreadable(t, i) THEN 0 ELSE 1

\* The list copies buffer i, which it was given for block b.
Copies(t, i, b) ==
    /\ UNCHANGED <<pool, avail>>
    /\ pc[t] = "copy" /\ req[t] = b /\ got[t] = i
    /\ buffers'[t][b] = pool[i]
    /\ pins'[t][b] = pins[t][b] + 1
    /\ pending(t, b) = 1
    /\ pending(t, b)' = 0
    /\ remaining(t, b)' = remaining(t, b) + 1
    /\ \A u \in Tx, c \in Blk : u # t \/ c # b => Kept(u, c)

\* An unpin gives the copy back once, or altogether.
Drops(t, b) ==
    /\ UNCHANGED pool
    /\ listed(t, b)
    /\ remaining(t, b) > 0
    /\ avail' = IF buffers[t][b].pins > 1 THEN avail ELSE avail + 1
    /\ pending(t, b) = 0
    /\ pending(t, b)' = 0
    /\ \/ Cleared(t, b)
       \/ /\ remaining(t, b)' = remaining(t, b) - 1
          /\ pins'[t][b] = pins[t][b]
          /\ buffers'[t][b] = unpinned(buffers[t][b])
    /\ \A u \in Tx, c \in Blk : u # t \/ c # b => Kept(u, c)

\* A step that leaves a transaction's place and lists alone keeps its counts.
LEMMA Others ==
    ASSUME NEW u \in Tx, NEW b \in Blk, pc'[u] = pc[u], req'[u] = req[u],
           todo'[u] = todo[u], pins'[u] = pins[u], buffers'[u] = buffers[u]
    PROVE  Kept(u, b)
BY DEF Kept, Untouched, remaining, pending

LEMMA PinKinds ==
    ASSUME TypeOK, ModificationsStayInCopies, NEW t \in Tx,
           PinExisting(t) \/ PinReplacing(t)
    PROVE  \E i \in Buf, b \in Blk : Takes(t, i, b)
<1>1. PICK i \in Buf : Pins(t, i)
  BY PinSteps
<1>2. Trying(t) /\ req[t] \in Blk
  BY PinSteps
<1>3. PICK b \in Blk : b = req[t]
  BY <1>2
<1>4. /\ UNCHANGED <<buffers, pins, todo>>
      /\ pc' = [pc EXCEPT ![t] = IF Unreadable(t, i) THEN "idle" ELSE "copy"]
      /\ req' = [req EXCEPT ![t] = IF Unreadable(t, i) THEN NoBlk ELSE @]
  <2>1. CASE Unreadable(t, i)
    BY <2>1 DEF Unreadable, Throw
  <2>2. CASE ~Unreadable(t, i)
    BY <1>1, <2>2 DEF Pins, Hits, Misses, Return, TypeOK
  <2>3. QED
    BY <2>1, <2>2
<1>5. pc[t] \in {"pin", "repin"} /\ pc'[t] \in {"idle", "copy"}
  BY <1>2, <1>4 DEF Trying, TypeOK
<1>6. pending(t, b) = 0
  BY <1>5 DEF pending
<1>7. pending(t, b)' = IF Unreadable(t, i) THEN 0 ELSE 1
  BY <1>3, <1>4 DEF pending, TypeOK
<1>8. ASSUME NEW u \in Tx, NEW c \in Blk
      PROVE  /\ remaining(u, c)' = remaining(u, c)
             /\ Untouched(u, c)
             /\ u # t \/ c # b => pending(u, c)' = pending(u, c)
  <2>1. Untouched(u, c)
    BY <1>4 DEF Untouched
  <2>2. remaining(u, c)' = remaining(u, c)
    BY <1>4, <1>5 DEF remaining, TypeOK
  <2>3. ASSUME u # t \/ c # b PROVE pending(u, c)' = pending(u, c)
    BY <1>3, <1>4, <1>5, <2>3, BufferAssumption
    DEF pending, TypeOK, BufferAssumption
  <2>4. QED
    BY <2>1, <2>2, <2>3
<1>9. QED
  BY <1>1, <1>3, <1>6, <1>7, <1>8 DEF Takes

\* The steps between a pin's call and its end, and those of the marks.
LEMMA QuietKinds ==
    ASSUME TypeOK, ModificationsStayInCopies, NEW t \in Tx, NEW b \in Blk,
           \/ pin(t, b) \/ set_modified(t, b) \/ PinFails(t) \/ Wake(t)
           \/ Expire(t) \/ flush_all(t) \/ unpin_all(t)
    PROVE  Quiet
<1> DEFINE Still(u) == \A c \in Blk : Kept(u, c)
<1> SUFFICES UNCHANGED <<pool, avail>> /\ \A u \in Tx : Still(u)
  BY DEF Quiet
<1>1. CASE pin(t, b)
  BY <1>1 DEF pin, TypeOK, Kept, Untouched, remaining, pending
<1>2. CASE set_modified(t, b)
  <2>1. /\ UNCHANGED <<pool, avail, pins, pc, req, todo>>
        /\ buffers' = [buffers EXCEPT ![t][b] = [buffers[t][b] EXCEPT !.tx = t]]
    BY <1>2 DEF set_modified, TypeOK
  <2>2. buffers[t][b] \in Buffers
    BY DEF TypeOK
  <2>3. \A u \in Tx, c \in Blk :
          /\ buffers'[u][c].blk = buffers[u][c].blk
          /\ buffers'[u][c].page = buffers[u][c].page
          /\ buffers'[u][c].pins = buffers[u][c].pins
    BY <2>1, <2>2, MarkBuffer DEF TypeOK
  <2>4. QED
    BY <2>1, <2>3 DEF Kept, Untouched, remaining, pending
<1>3. CASE PinFails(t)
  BY <1>3 DEF PinFails, Trying, Throw, TypeOK, Kept, Untouched, remaining, pending
<1>4. CASE Wake(t)
  BY <1>4 DEF Wake, TypeOK, Kept, Untouched, remaining, pending
<1>5. CASE Expire(t)
  BY <1>5 DEF Expire, Kept, Untouched, remaining, pending
<1>6. CASE flush_all(t)
  <2>1. pool' = pool
    <3>1. \A i \in Buf : pool[i].tx # t
      BY BufferAssumption DEF BufferAssumption, ModificationsStayInCopies
    <3>2. QED
      BY <1>6, <3>1 DEF flush_all, TypeOK
  <2>2. QED
    BY <1>6, <2>1 DEF flush_all, Kept, Untouched, remaining, pending
<1>7. CASE unpin_all(t)
  BY <1>7 DEF unpin_all, TypeOK, Kept, Untouched, remaining, pending
<1>8. QED
  BY <1>1, <1>2, <1>3, <1>4, <1>5, <1>6, <1>7

LEMMA CopyKinds ==
    ASSUME TypeOK, NEW t \in Tx, Copy(t)
    PROVE  \E i \in Buf, b \in Blk : Copies(t, i, b)
<1>1. pc[t] = "copy" /\ req[t] \in Blk /\ got[t] \in Buf
  BY DEF Copy, TypeOK, Pinning
<1>2. PICK i \in Buf, b \in Blk : got[t] = i /\ req[t] = b
  BY <1>1
<1>3. /\ UNCHANGED <<pool, avail, todo>>
      /\ buffers' = [buffers EXCEPT ![t][b] = pool[i]]
      /\ pins' = [pins EXCEPT ![t][b] = pins[t][b] + 1]
      /\ pc' = [pc EXCEPT ![t] = "idle"]
      /\ req' = [req EXCEPT ![t] = NoBlk]
  BY <1>2 DEF Copy, TypeOK
<1>4. /\ buffers'[t][b] = pool[i] /\ pins'[t][b] = pins[t][b] + 1
      /\ pc'[t] = "idle" /\ req'[t] = NoBlk
  BY <1>3 DEF TypeOK
<1>5. pending(t, b) = 1 /\ remaining(t, b) = pins[t][b]
  BY <1>1, <1>2 DEF pending, remaining
<1>6. pending(t, b)' = 0 /\ remaining(t, b)' = pins[t][b] + 1
  BY <1>4 DEF pending, remaining
<1>7. ASSUME NEW u \in Tx, NEW c \in Blk, u # t \/ c # b PROVE Kept(u, c)
  BY <1>1, <1>2, <1>3, <1>7 DEF TypeOK, pending, remaining, Kept, Untouched
<1>8. QED
  BY <1>1, <1>2, <1>3, <1>4, <1>5, <1>6, <1>7 DEF Copies

LEMMA DropKinds ==
    ASSUME TypeOK, Copied, Bounded, NEW t \in Tx, NEW b \in Blk,
           unpin(t, b) \/ UnpinNext(t, b)
    PROVE  Drops(t, b)
<1> /\ pins[t] \in [Blk -> Nat] /\ todo[t] \in [Blk -> Nat]
    /\ buffers[t] \in [Blk -> Buffers] /\ avail \in Int
    /\ buffers[t][b] \in Buffers
  BY DEF TypeOK
<1>1. listed(t, b) /\ remaining(t, b) > 0
  <2>1. CASE unpin(t, b)
    BY <2>1 DEF unpin, remaining, Copied
  <2>2. CASE UnpinNext(t, b)
    BY <2>2 DEF UnpinNext, remaining, Copied, Bounded
  <2>3. QED
    BY <2>1, <2>2
<1>2. UNCHANGED <<pool, req>> /\ avail' = Credit(buffers[t][b])
  BY <1>1 DEF unpin, UnpinNext
<1>3. avail' = IF buffers[t][b].pins > 1 THEN avail ELSE avail + 1
  BY <1>2, UnpinBuffer DEF Credit, is_pinned, Buffers
<1>4. pending(t, b) = 0 /\ pending(t, b)' = 0
  BY DEF unpin, UnpinNext, pending, TypeOK
<1>5. CASE unpin(t, b)
  <2>1. /\ UNCHANGED <<pc, todo>> /\ pc[t] = "idle"
        /\ pins' = [pins EXCEPT ![t] = without(@, b)]
        /\ buffers' = [buffers EXCEPT ![t][b] = NoCopy]
    BY <1>5 DEF unpin
  <2>2. Cleared(t, b)
    BY <2>1 DEF Cleared, remaining, without, TypeOK
  <2>3. ASSUME NEW u \in Tx, NEW c \in Blk, u # t \/ c # b PROVE Kept(u, c)
    BY <1>2, <2>1, <2>3
    DEF Kept, Untouched, remaining, pending, without, TypeOK
  <2>4. QED
    BY <1>1, <1>2, <1>3, <1>4, <2>2, <2>3 DEF Drops
<1>6. CASE UnpinNext(t, b) /\ ~last_pin(t, b)
  <2>1. /\ UNCHANGED <<pc, pins>> /\ pc[t] = "unpin_all"
        /\ todo' = [todo EXCEPT ![t][b] = todo[t][b] - 1]
        /\ buffers' = [buffers EXCEPT ![t][b] = unpinned(buffers[t][b])]
    BY <1>6 DEF UnpinNext, TypeOK
  <2>2. /\ remaining(t, b)' = remaining(t, b) - 1
        /\ pins'[t][b] = pins[t][b]
        /\ buffers'[t][b] = unpinned(buffers[t][b])
    BY <2>1 DEF remaining, TypeOK
  <2>3. ASSUME NEW u \in Tx, NEW c \in Blk, u # t \/ c # b PROVE Kept(u, c)
    BY <1>2, <2>1, <2>3 DEF Kept, Untouched, remaining, pending, TypeOK
  <2>4. QED
    BY <1>1, <1>2, <1>3, <1>4, <2>2, <2>3 DEF Drops
<1>7. CASE UnpinNext(t, b) /\ last_pin(t, b)
  <2>1. /\ pc' = [pc EXCEPT ![t] = "idle"] /\ pc[t] = "unpin_all"
        /\ todo' = [todo EXCEPT ![t][b] = todo[t][b] - 1]
        /\ buffers' = [buffers EXCEPT ![t] = [c \in Blk |-> NoCopy]]
        /\ pins' = [pins EXCEPT ![t] = NoPins]
        /\ [todo[t] EXCEPT ![b] = todo[t][b] - 1] = NoPins
    BY <1>7 DEF UnpinNext, TypeOK, last_pin
  <2>2. pc'[t] = "idle"
    BY <2>1 DEF TypeOK
  <2>3. \A c \in Blk : pins'[t][c] = 0 /\ buffers'[t][c] = NoCopy
    BY <2>1 DEF TypeOK, NoPins
  <2>4. \A c \in Blk : Cleared(t, c)
    BY <2>2, <2>3 DEF Cleared, remaining
  <2>5. ASSUME NEW u \in Tx \ {t}, NEW c \in Blk PROVE Kept(u, c)
    BY <1>2, <2>1 DEF Kept, Untouched, remaining, pending, TypeOK
  <2>6. ASSUME NEW c \in Blk \ {b} PROVE Kept(t, c)
    <3>1. todo[t][c] = 0
      BY <2>1 DEF NoPins
    <3>2. remaining(t, c) = 0
      BY <2>1, <3>1 DEF remaining
    <3>3. pending(t, c) = 0 /\ pending(t, c)' = 0
      BY <2>1, <2>2 DEF pending
    <3>4. QED
      BY <2>4, <3>2, <3>3 DEF Kept, Cleared
  <2>7. QED
    BY <1>1, <1>2, <1>3, <1>4, <2>4, <2>5, <2>6 DEF Drops
<1>8. QED
  BY <1>5, <1>6, <1>7

\* Every step is one of the four.
LEMMA Kinds ==
    ASSUME TypeOK, ModificationsStayInCopies, Copied, Bounded, [Next]_vars
    PROVE  \/ Quiet
           \/ \E t \in Tx, i \in Buf, b \in Blk : Takes(t, i, b) \/ Copies(t, i, b)
           \/ \E t \in Tx, b \in Blk : Drops(t, b)
<1>1. CASE UNCHANGED vars
  BY <1>1 DEF vars, Quiet, Kept, Untouched, remaining, pending
<1>2. ASSUME NEW t \in Tx, NEW b \in Blk,
             \/ pin(t, b) \/ set_modified(t, b) \/ unpin(t, b)
             \/ UnpinNext(t, b)
      PROVE  Quiet \/ Drops(t, b)
  BY <1>2, QuietKinds, DropKinds
<1>3. ASSUME NEW t \in Tx,
             \/ PinFails(t) \/ Wake(t) \/ Expire(t) \/ flush_all(t)
             \/ unpin_all(t)
      PROVE  Quiet
  <2>1. CASE Blk = {}
    BY <1>3, <2>1, BufferAssumption
    DEF PinFails, Wake, Expire, flush_all, unpin_all, Trying, Pinning, TypeOK,
        Quiet, ModificationsStayInCopies, BufferAssumption
  <2>2. ASSUME NEW b \in Blk PROVE Quiet
    BY <1>3, QuietKinds
  <2>3. QED
    BY <2>1, <2>2
<1>4. QED
  BY <1>1, <1>2, <1>3, PinKinds, CopyKinds DEF Next

-----------------------------------------------------------------------------
(* The invariant holds initially and is kept.                              *)

LEMMA InitAccounts == Init => AccountsInv
<1> SUFFICES ASSUME Init PROVE AccountsInv
  OBVIOUS
<1>1. PoolInv /\ TypeOK
  BY InitPoolInv, InitTypeOK
<1>2. \A t \in Tx, b \in Blk :
          /\ remaining(t, b) = 0 /\ own(t, b) = 0 /\ pins[t][b] = 0
          /\ buffers[t][b] = NoCopy
  BY DEF Init, remaining, pending, own, NoPins
<1>3. \A i \in Buf : pool[i] = NoCopy
  BY DEF Init
<1>4. Copied /\ Bounded /\ Counted /\ OneSole
  BY <1>2, <1>3, NoCopyBuffer DEF Copied, Bounded, Counted, OneSole, Sole, listed
<1>5. Credited
  <2>1. Unpinned = 1 .. NumBufs
    BY <1>3, NoCopyBuffer DEF Unpinned, is_pinned, Buf
  <2>2. Cardinality(Unpinned) = NumBufs /\ Cardinality({}) = 0
    BY <2>1, FS_Interval, FS_EmptySet, BufferAssumption DEF BufferAssumption
  <2>3. avail = Cardinality(Unpinned) + Cardinality({})
    BY <2>2, BufferAssumption DEF Init, BufferAssumption
  <2>4. QED
    BY <2>3 DEF Credited
<1>6. QED
  BY <1>1, <1>4, <1>5 DEF AccountsInv

\* Nobody has a pin of a block of which no buffer is pinned.
LEMMA NoOwn ==
    ASSUME PoolInv, Copied, Bounded, NEW u \in Tx, NEW b \in Blk,
           \A j \in Buf : pool[j].blk = b => pool[j].pins = 0
    PROVE  own(u, b) = 0
<1> TypeOK /\ GotOK
  BY DEF PoolInv
<1>1. ~listed(u, b)
  BY DEF Copied, IsCopyOf
<1>2. pins[u][b] = 0
  BY <1>1, Counts DEF Copied
<1>3. remaining(u, b) = 0
  BY <1>2, Counts DEF Bounded
<1>4. pending(u, b) = 0
  BY DEF pending, GotOK, TypeOK
<1>5. QED
  BY <1>3, <1>4 DEF own

\* What a pin of b does to the buffer it takes and to those it does not.
LEMMA TakesEffect ==
    ASSUME PoolInv, Copied, Bounded, NEW t \in Tx, NEW i \in Buf, NEW b \in Blk,
           Takes(t, i, b)
    PROVE  /\ \A j \in Buf \ {i} : pool'[j] = pool[j] /\ pool[j].blk # b
           /\ pool'[i].blk = b
           /\ \/ /\ Hits(t, i) /\ pool[i].blk = b
                 /\ pool'[i].pins = pool[i].pins + 1
                 /\ pending(t, b)' = 1
              \/ /\ Misses(t, i)
                 /\ pool[i].pins = 0 /\ pool'[i].pins = 1
                 /\ pending(t, b)' = 1
                 /\ \A u \in Tx : own(u, b) = 0
              \/ /\ Unreadable(t, i)
                 /\ pool[i].pins = 0 /\ pool'[i].pins = 0
                 /\ pending(t, b)' = 0
                 /\ \A u \in Tx : own(u, b) = 0
<1> TypeOK /\ NoBlockTwice /\ ModificationsStayInCopies
  BY DEF PoolInv
<1>1. Pins(t, i) /\ req[t] = b
  BY DEF Takes
<1>2. /\ \A j \in Buf \ {i} : pool'[j] = pool[j]
      /\ pool'[i].blk = b
  BY <1>1, PinEffect
<1>3. b # NoBlk
  BY BufferAssumption DEF BufferAssumption
<1>4. CASE Hits(t, i)
  <2>1. pool[i].blk = b /\ pool'[i].pins = pool[i].pins + 1
    BY <1>1, <1>4, PinEffect
  <2>2. \A j \in Buf \ {i} : pool[j].blk # b
    BY <1>3, <2>1 DEF NoBlockTwice
  <2>3. ~Unreadable(t, i)
    BY <1>1, <1>4 DEF Hits, Unreadable, Existing
  <2>4. QED
    BY <1>2, <1>4, <2>1, <2>2, <2>3 DEF Takes
<1>5. ASSUME Misses(t, i) \/ Unreadable(t, i)
      PROVE  /\ \A j \in Buf : pool[j].blk # b
             /\ pool[i].pins = 0
             /\ \A u \in Tx : own(u, b) = 0
  <2>1. \A j \in Buf : pool[j].blk # b
    BY <1>1, <1>5 DEF Misses, Unreadable, Existing
  <2>2. pool[i].pins = 0
    BY <1>5, PoolCounts DEF Misses, Unreadable, Unpinned, is_pinned
  <2>3. QED
    BY <2>1, <2>2, NoOwn
<1>6. CASE Misses(t, i)
  <2>1. ~Unreadable(t, i)
    BY <1>6 DEF Misses, Unreadable, Return, Throw, TypeOK
  <2>2. pool'[i].pins = 1
    BY <1>1, <1>6, PinEffect
  <2>3. QED
    BY <1>2, <1>5, <1>6, <2>1, <2>2 DEF Takes
<1>7. CASE Unreadable(t, i)
  <2>1. pool'[i].pins = 0
    <3>1. pool'[i] = [flush(pool[i]) EXCEPT !.blk = b]
      BY <1>1, <1>7 DEF Unreadable, TypeOK
    <3>2. pool[i] \in Buffers
      BY DEF TypeOK
    <3>3. QED
      BY <1>5, <1>7, <3>1, <3>2, AssignBuffer
  <2>2. QED
    BY <1>2, <1>5, <1>7, <2>1 DEF Takes
<1>8. QED
  BY <1>1, <1>4, <1>6, <1>7 DEF Pins

\* A copy that stays, or only loses pins, is still one of a pinned buffer.
LEMMA StaysCopied ==
    ASSUME PoolInv, Copied, [Next]_vars, NEW t \in Tx, NEW b \in Blk,
           \/ Untouched(t, b) \/ Cleared(t, b)
           \/ pins'[t][b] = pins[t][b] /\ buffers'[t][b] = unpinned(buffers[t][b])
    PROVE  /\ listed(t, b)' <=> pins'[t][b] > 0
           /\ listed(t, b)' => \E i \in Buf : IsCopyOf(t, b, i)'
<1> TypeOK /\ ModificationsStayInCopies
  BY DEF PoolInv
<1>1. CASE Cleared(t, b)
  BY <1>1, NoCopyBuffer DEF Cleared, listed
<1>2. CASE ~Cleared(t, b)
  <2>1. /\ pins'[t][b] = pins[t][b]
        /\ buffers'[t][b].blk = buffers[t][b].blk
        /\ buffers'[t][b].page = buffers[t][b].page
        /\ buffers'[t][b].pins <= buffers[t][b].pins
        /\ buffers'[t][b].pins \in Nat /\ buffers[t][b].pins \in Nat
    <3>1. buffers[t][b] \in Buffers /\ buffers[t][b].pins \in Nat
      BY DEF TypeOK, Buffers
    <3>2. CASE Untouched(t, b)
      BY <3>1, <3>2 DEF Untouched
    <3>3. CASE /\ pins'[t][b] = pins[t][b]
               /\ buffers'[t][b] = unpinned(buffers[t][b])
      BY <3>1, <3>3, UnpinBuffer
    <3>4. QED
      BY <1>2, <3>2, <3>3
  <2>2. listed(t, b)' <=> listed(t, b)
    BY <2>1 DEF listed
  <2>3. ASSUME listed(t, b) PROVE \E i \in Buf : IsCopyOf(t, b, i)'
    <3>1. PICK i \in Buf : IsCopyOf(t, b, i)
      BY <2>3 DEF Copied
    <3>2. /\ pool'[i].blk = pool[i].blk /\ pool'[i].page = pool[i].page
          /\ pool'[i].pins >= pool[i].pins
      BY <3>1, PinnedStay DEF IsCopyOf
    <3>3. pool'[i].pins \in Nat /\ pool[i].pins \in Nat
      <4>1. TypeOK'
        BY NextTypeOK
      <4>2. QED
        BY <4>1 DEF TypeOK, Buffers
    <3>4. IsCopyOf(t, b, i)'
      BY <2>1, <3>1, <3>2, <3>3 DEF IsCopyOf
    <3>5. QED
      BY <3>4
  <2>4. QED
    BY <2>1, <2>2, <2>3 DEF Copied
<1>3. QED
  BY <1>1, <1>2

LEMMA NextCopied == AccountsInv /\ [Next]_vars => Copied'
<1> SUFFICES ASSUME AccountsInv, [Next]_vars PROVE Copied'
  OBVIOUS
<1> PoolInv /\ TypeOK /\ ModificationsStayInCopies /\ Copied /\ Bounded /\ GotOK
  BY DEF AccountsInv, PoolInv
<1> SUFFICES ASSUME NEW u \in Tx, NEW c \in Blk
             PROVE  /\ listed(u, c)' <=> pins'[u][c] > 0
                    /\ listed(u, c)' => \E i \in Buf : IsCopyOf(u, c, i)'
  BY DEF Copied
<1>1. CASE \/ Untouched(u, c) \/ Cleared(u, c)
           \/ /\ pins'[u][c] = pins[u][c]
              /\ buffers'[u][c] = unpinned(buffers[u][c])
  BY <1>1, StaysCopied
<1>2. ASSUME NEW i \in Buf, Copies(u, i, c)
      PROVE  /\ listed(u, c)' <=> pins'[u][c] > 0
             /\ listed(u, c)' => \E j \in Buf : IsCopyOf(u, c, j)'
  <2>1. pool'[i] = pool[i] /\ pool[i].blk = c /\ pool[i].pins > 0
    BY <1>2 DEF Copies, GotOK
  <2>2. buffers'[u][c] = pool[i] /\ pins'[u][c] > 0 /\ c # NoBlk
    BY <1>2, Counts, BufferAssumption DEF Copies, BufferAssumption
  <2>3. listed(u, c)' /\ IsCopyOf(u, c, i)'
    BY <2>1, <2>2, PoolCounts DEF listed, IsCopyOf
  <2>4. QED
    BY <2>2, <2>3
<1>3. CASE Quiet
  BY <1>1, <1>3 DEF Quiet, Kept
<1>4. ASSUME NEW t \in Tx, NEW i \in Buf, NEW b \in Blk, Takes(t, i, b)
      PROVE  Untouched(u, c)
  BY <1>4 DEF Takes
<1>5. ASSUME NEW t \in Tx, NEW i \in Buf, NEW b \in Blk, Copies(t, i, b)
      PROVE  Untouched(u, c) \/ Cleared(u, c) \/ Copies(u, i, c)
  BY <1>5 DEF Copies, Kept
<1>6. ASSUME NEW t \in Tx, NEW b \in Blk, Drops(t, b)
      PROVE  \/ Untouched(u, c) \/ Cleared(u, c)
             \/ /\ pins'[u][c] = pins[u][c]
                /\ buffers'[u][c] = unpinned(buffers[u][c])
  BY <1>6 DEF Drops, Kept
<1>7. QED
  BY <1>1, <1>2, <1>3, <1>4, <1>5, <1>6, Kinds

LEMMA NextBounded == AccountsInv /\ [Next]_vars => Bounded'
<1> SUFFICES ASSUME AccountsInv, [Next]_vars PROVE Bounded'
  OBVIOUS
<1> /\ PoolInv /\ TypeOK /\ ModificationsStayInCopies /\ Copied /\ Bounded
    /\ Counted /\ GotOK
  BY DEF AccountsInv, PoolInv
<1> DEFINE Goal(u, c) == /\ remaining(u, c)' <= pins'[u][c]
                         /\ remaining(u, c)' <= buffers'[u][c].pins
<1> SUFFICES ASSUME NEW u \in Tx, NEW c \in Blk PROVE Goal(u, c)
  BY DEF Bounded
<1>1. remaining(u, c) <= pins[u][c] /\ remaining(u, c) <= buffers[u][c].pins
  BY DEF Bounded
<1>2. ASSUME remaining(u, c)' = remaining(u, c), Untouched(u, c) PROVE Goal(u, c)
  BY <1>1, <1>2 DEF Untouched
<1>3. ASSUME Cleared(u, c) PROVE Goal(u, c)
  BY <1>3, NoCopyBuffer DEF Cleared
<1>4. ASSUME Kept(u, c) PROVE Goal(u, c)
  BY <1>2, <1>3, <1>4 DEF Kept
<1>5. CASE Quiet
  BY <1>4, <1>5 DEF Quiet
<1>6. ASSUME NEW t \in Tx, NEW i \in Buf, NEW b \in Blk, Takes(t, i, b)
      PROVE  Goal(u, c)
  BY <1>2, <1>6 DEF Takes
<1>7. ASSUME NEW i \in Buf, Copies(u, i, c) PROVE Goal(u, c)
  <2>1. pool[i].blk = c
    BY <1>7 DEF Copies, GotOK
  <2>2. remaining(u, c) + 1 <= pool[i].pins
    BY <1>7, <2>1 DEF Counted, own, Copies
  <2>3. QED
    BY <1>1, <1>7, <2>2, Counts DEF Copies
<1>8. ASSUME NEW t \in Tx, NEW i \in Buf, NEW b \in Blk, Copies(t, i, b)
      PROVE  Goal(u, c)
  <2>1. CASE u = t /\ c = b
    BY <1>7, <1>8, <2>1
  <2>2. CASE u # t \/ c # b
    BY <1>4, <1>8, <2>2 DEF Copies
  <2>3. QED
    BY <2>1, <2>2
<1>9. ASSUME NEW t \in Tx, NEW b \in Blk, Drops(t, b) PROVE Goal(u, c)
  <2>1. CASE u = t /\ c = b /\ ~Cleared(u, c)
    <3>1. /\ remaining(u, c)' = remaining(u, c) - 1
          /\ pins'[u][c] = pins[u][c] /\ remaining(u, c) > 0
          /\ buffers'[u][c] = unpinned(buffers[u][c])
      BY <1>9, <2>1 DEF Drops
    <3>2. buffers'[u][c].pins = buffers[u][c].pins - 1
      <4>1. buffers[u][c] \in Buffers
        BY DEF TypeOK
      <4>2. buffers[u][c].pins # 0 /\ buffers[u][c].pins \in Nat
        BY <1>1, <3>1, Counts
      <4>3. QED
        BY <3>1, <4>1, <4>2, UnpinBuffer
    <3>3. QED
      BY <1>1, <3>1, <3>2, Counts
  <2>2. CASE u # t \/ c # b
    BY <1>4, <1>9, <2>2 DEF Drops
  <2>3. QED
    BY <1>3, <2>1, <2>2
<1>10. QED
  BY <1>5, <1>6, <1>8, <1>9, Kinds

\* A step leaves the pins a list has and whether they are all its copy counts,
\* or lowers them, except the pin itself, and its copying.
LEMMA KeptOwn ==
    ASSUME AccountsInv, [Next]_vars, NEW u \in Tx, NEW c \in Blk, Kept(u, c)
    PROVE  /\ own(u, c)' = own(u, c)
           /\ Sole(u, c)' => Sole(u, c)
BY DEF Kept, own, Sole, Untouched, Cleared

LEMMA DropOwn ==
    ASSUME AccountsInv, NEW t \in Tx, NEW b \in Blk, Drops(t, b)
    PROVE  /\ own(t, b)' < own(t, b)
           /\ Sole(t, b)' => Sole(t, b)
           /\ own(t, b) > 0
<1> TypeOK /\ Bounded
  BY DEF AccountsInv, PoolInv
<1>1. /\ remaining(t, b) \in Nat /\ remaining(t, b) > 0
      /\ pending(t, b) = 0 /\ pending(t, b)' = 0
      /\ buffers[t][b] \in Buffers /\ buffers[t][b].pins \in Nat
      /\ remaining(t, b) <= buffers[t][b].pins
  BY Counts DEF Drops, Bounded, TypeOK
<1>2. CASE Cleared(t, b)
  BY <1>1, <1>2 DEF Cleared, own, Sole
<1>3. CASE ~Cleared(t, b)
  <2>1. /\ remaining(t, b)' = remaining(t, b) - 1
        /\ buffers'[t][b] = unpinned(buffers[t][b])
    BY <1>3 DEF Drops
  <2>2. buffers'[t][b].pins = buffers[t][b].pins - 1
    BY <1>1, <2>1, UnpinBuffer
  <2>3. QED
    BY <1>1, <2>1, <2>2 DEF own, Sole
<1>4. QED
  BY <1>2, <1>3

LEMMA CopyOwn ==
    ASSUME AccountsInv, NEW t \in Tx, NEW i \in Buf, NEW b \in Blk,
           Copies(t, i, b)
    PROVE  /\ own(t, b)' = own(t, b) /\ own(t, b) > 0
           /\ pool[i].blk = b /\ pool[i].pins > 0
           /\ Sole(t, b)' => own(t, b) = pool[i].pins
<1> TypeOK /\ GotOK
  BY DEF AccountsInv, PoolInv
<1>1. remaining(t, b) \in Nat
  BY Counts
<1>2. pool[i].blk = b /\ pool[i].pins > 0
  BY DEF Copies, GotOK
<1>3. QED
  BY <1>1, <1>2 DEF Copies, own, Sole

LEMMA TakeOwn ==
    ASSUME AccountsInv, NEW t \in Tx, NEW i \in Buf, NEW b \in Blk,
           Takes(t, i, b), NEW u \in Tx, NEW c \in Blk
    PROVE  /\ own(u, c)' = IF u = t /\ c = b
                             THEN own(u, c) + pending(t, b)' ELSE own(u, c)
           /\ Sole(u, c)' <=> Sole(u, c)
<1> TypeOK
  BY DEF AccountsInv, PoolInv
<1>1. remaining(u, c) \in Nat /\ pending(u, c) \in {0, 1}
  BY Counts
<1>2. /\ remaining(u, c)' = remaining(u, c) /\ Untouched(u, c)
      /\ u # t \/ c # b => pending(u, c)' = pending(u, c)
      /\ pending(t, b) = 0
      /\ pending(t, b)' \in {0, 1}
  BY DEF Takes
<1>3. QED
  BY <1>1, <1>2 DEF own, Sole, Untouched

LEMMA NextOneSole == AccountsInv /\ [Next]_vars => OneSole'
<1> SUFFICES ASSUME AccountsInv, [Next]_vars, NEW u \in Tx, NEW v \in Tx,
                    NEW c \in Blk, u # v
             PROVE  ~(Sole(u, c)' /\ Sole(v, c)')
  BY DEF OneSole
<1> /\ PoolInv /\ TypeOK /\ ModificationsStayInCopies /\ Copied /\ Bounded
    /\ Counted /\ OneSole
  BY DEF AccountsInv, PoolInv
<1>1. ASSUME Sole(u, c)' => Sole(u, c), Sole(v, c)' => Sole(v, c)
      PROVE  ~(Sole(u, c)' /\ Sole(v, c)')
  BY <1>1 DEF OneSole
<1>2. CASE Quiet
  BY <1>1, <1>2, KeptOwn DEF Quiet
<1>3. ASSUME NEW t \in Tx, NEW i \in Buf, NEW b \in Blk, Takes(t, i, b)
      PROVE  ~(Sole(u, c)' /\ Sole(v, c)')
  BY <1>1, <1>3, TakeOwn
<1>4. ASSUME NEW t \in Tx, NEW b \in Blk, Drops(t, b)
      PROVE  ~(Sole(u, c)' /\ Sole(v, c)')
  <2>1. ASSUME NEW w \in Tx PROVE Sole(w, c)' => Sole(w, c)
    <3>1. CASE w = t /\ c = b
      BY <1>4, <3>1, DropOwn
    <3>2. CASE w # t \/ c # b
      BY <1>4, <3>2, KeptOwn DEF Drops
    <3>3. QED
      BY <3>1, <3>2
  <2>2. QED
    BY <1>1, <2>1
<1>5. ASSUME NEW t \in Tx, NEW i \in Buf, NEW b \in Blk, Copies(t, i, b)
      PROVE  ~(Sole(u, c)' /\ Sole(v, c)')
  <2>1. ASSUME NEW w \in Tx, w # t \/ c # b PROVE Sole(w, c)' => Sole(w, c)
    BY <1>5, <2>1, KeptOwn DEF Copies
  <2>2. ASSUME NEW w \in Tx \ {t}, Sole(t, b)' PROVE ~Sole(w, b)
    <3>1. own(t, b) = pool[i].pins /\ pool[i].blk = b
      BY <1>5, <2>2, CopyOwn
    <3>2. own(t, b) + own(w, b) <= pool[i].pins
      BY <3>1 DEF Counted
    <3>3. own(w, b) = 0
      BY <3>1, <3>2, Counts
    <3>4. QED
      BY <3>3, Counts DEF own, Sole
  <2>3. QED
    BY <1>1, <2>1, <2>2
<1>6. QED
  BY <1>2, <1>3, <1>4, <1>5, Kinds

LEMMA NextCounted == AccountsInv /\ [Next]_vars => Counted'
<1> SUFFICES ASSUME AccountsInv, [Next]_vars PROVE Counted'
  OBVIOUS
<1> /\ PoolInv /\ TypeOK /\ ModificationsStayInCopies /\ Copied /\ Bounded
    /\ Counted
  BY DEF AccountsInv, PoolInv
<1> TypeOK'
  BY NextTypeOK
<1> DEFINE Fits(i, b) ==
      \A u \in Tx : /\ own(u, b)' <= pool'[i].pins
                    /\ \A v \in Tx \ {u} : own(u, b)' + own(v, b)' <= pool'[i].pins
<1> SUFFICES ASSUME NEW i \in Buf, NEW c \in Blk, pool'[i].blk = c
             PROVE  Fits(i, c)
  BY DEF Counted
<1>1. \A u \in Tx : own(u, c) \in Nat /\ own(u, c)' \in Nat
  <2>1. \A u \in Tx : own(u, c) \in Nat
    BY Counts
  <2>2. \A u \in Tx : own(u, c)' \in Nat
    BY DEF own, remaining, pending, TypeOK
  <2>3. QED
    BY <2>1, <2>2
<1>2. pool[i].pins \in Nat
  BY PoolCounts
<1>3. ASSUME pool'[i] = pool[i], \A u \in Tx : own(u, c)' <= own(u, c)
      PROVE  Fits(i, c)
  <2>1. ASSUME NEW u \in Tx PROVE own(u, c)' <= pool'[i].pins
    BY <1>1, <1>2, <1>3 DEF Counted
  <2>2. ASSUME NEW u \in Tx, NEW v \in Tx \ {u}
        PROVE  own(u, c)' + own(v, c)' <= pool'[i].pins
    <3>1. own(u, c) + own(v, c) <= pool[i].pins
      BY <1>3 DEF Counted
    <3>2. QED
      BY <1>1, <1>2, <1>3, <3>1
  <2>3. QED
    BY <2>1, <2>2
<1>4. CASE Quiet
  <2>1. pool' = pool /\ \A u \in Tx : own(u, c)' = own(u, c)
    BY <1>4, KeptOwn DEF Quiet
  <2>2. QED
    BY <1>1, <1>3, <2>1
<1>5. ASSUME NEW t \in Tx, NEW j \in Buf, NEW b \in Blk, Copies(t, j, b)
      PROVE  Fits(i, c)
  <2>1. pool' = pool /\ \A u \in Tx : own(u, c)' = own(u, c)
    BY <1>5, CopyOwn, KeptOwn DEF Copies
  <2>2. QED
    BY <1>1, <1>3, <2>1
<1>6. ASSUME NEW t \in Tx, NEW b \in Blk, Drops(t, b) PROVE Fits(i, c)
  <2>1. pool' = pool
    BY <1>6 DEF Drops
  <2>2. ASSUME NEW u \in Tx PROVE own(u, c)' <= own(u, c)
    <3>1. CASE u = t /\ c = b
      BY <1>1, <1>6, <3>1, DropOwn
    <3>2. CASE u # t \/ c # b
      BY <1>1, <1>6, <3>2, KeptOwn DEF Drops
    <3>3. QED
      BY <3>1, <3>2
  <2>3. QED
    BY <1>3, <2>1, <2>2
<1>7. ASSUME NEW t \in Tx, NEW j \in Buf, NEW b \in Blk, Takes(t, j, b)
      PROVE  Fits(i, c)
  <2>1. \A u \in Tx : own(u, c)' = IF u = t /\ c = b
                        THEN own(u, c) + pending(t, b)' ELSE own(u, c)
    BY <1>7, TakeOwn
  <2>2. CASE i # j
    <3>1. pool'[i] = pool[i] /\ c # b
      BY <1>7, <2>2, TakesEffect
    <3>2. QED
      BY <1>1, <1>3, <2>1, <3>1
  <2>3. CASE i = j /\ \/ pool'[i].pins = pool[i].pins + 1 /\ pool[i].blk = b
                         /\ pending(t, b)' = 1
                      \/ /\ \A u \in Tx : own(u, b) = 0
                         /\ pool'[i].pins = pending(t, b)'
                         /\ pending(t, b)' \in {0, 1}
    <3>1. c = b
      BY <1>7, <2>3, TakesEffect
    <3>2. CASE /\ pool'[i].pins = pool[i].pins + 1 /\ pool[i].blk = b
               /\ pending(t, b)' = 1
      <4>1. ASSUME NEW u \in Tx PROVE own(u, c)' <= pool'[i].pins
        BY <1>1, <1>2, <2>1, <3>1, <3>2 DEF Counted
      <4>2. ASSUME NEW u \in Tx, NEW v \in Tx \ {u}
            PROVE  own(u, c)' + own(v, c)' <= pool'[i].pins
        <5>1. own(u, c) + own(v, c) <= pool[i].pins
          BY <3>1, <3>2 DEF Counted
        <5>2. QED
          BY <1>1, <1>2, <2>1, <3>1, <3>2, <5>1
      <4>3. QED
        BY <4>1, <4>2
    <3>3. CASE /\ \A u \in Tx : own(u, b) = 0
               /\ pool'[i].pins = pending(t, b)'
               /\ pending(t, b)' \in {0, 1}
      <4>1. \A u \in Tx : own(u, c)' = IF u = t THEN pool'[i].pins ELSE 0
        BY <2>1, <3>1, <3>3
      <4>2. QED
        BY <3>3, <4>1
    <3>4. QED
      BY <2>3, <3>2, <3>3
  <2>4. QED
    <3>1. ASSUME i = j
          PROVE  \/ pool'[i].pins = pool[i].pins + 1 /\ pool[i].blk = b
                    /\ pending(t, b)' = 1
                 \/ /\ \A u \in Tx : own(u, b) = 0
                    /\ pool'[i].pins = pending(t, b)'
                    /\ pending(t, b)' \in {0, 1}
      BY <1>7, <3>1, TakesEffect
    <3>2. QED
      BY <2>2, <2>3, <3>1
<1>8. QED
  BY <1>4, <1>5, <1>6, <1>7, Kinds

\* A buffer that is spent stays so.
LEMMA StaysSpent ==
    ASSUME AccountsInv, [Next]_vars, NEW i \in Buf, Spent(i)
    PROVE  Spent(i)'
<1> /\ PoolInv /\ TypeOK /\ ModificationsStayInCopies /\ Copied /\ Bounded
    /\ NoBlockTwice
  BY DEF AccountsInv, PoolInv
<1> TypeOK'
  BY NextTypeOK
<1>1. PICK c \in Blk : pool[i].blk = c
  BY DEF Spent, PoolInv
<1>2. pool'[i].blk = c /\ pool'[i].pins >= pool[i].pins /\ pool[i].pins > 0
  BY <1>1, PinnedStay DEF Spent
<1>3. /\ pool[i].pins \in Nat /\ pool'[i].pins \in Nat /\ c # NoBlk
      /\ \A u \in Tx : own(u, c) \in Nat
  BY Counts, BufferAssumption DEF TypeOK, Buffers, BufferAssumption
<1> SUFFICES ASSUME NEW u \in Tx
             PROVE  own(u, c)' < pool'[i].pins /\ ~Sole(u, c)'
  BY <1>2, <1>3 DEF Spent
<1>4. own(u, c) < pool[i].pins /\ ~Sole(u, c)
  BY <1>1 DEF Spent
<1>5. ASSUME own(u, c)' <= own(u, c), own(u, c)' \in Int, Sole(u, c)' => Sole(u, c)
      PROVE  own(u, c)' < pool'[i].pins /\ ~Sole(u, c)'
  BY <1>2, <1>3, <1>4, <1>5
<1>6. own(u, c)' \in Int
  BY DEF own, remaining, pending, TypeOK
<1>7. ASSUME Kept(u, c) PROVE own(u, c)' < pool'[i].pins /\ ~Sole(u, c)'
  BY <1>3, <1>5, <1>6, <1>7, KeptOwn
<1>8. CASE Quiet
  BY <1>7, <1>8 DEF Quiet
<1>9. ASSUME NEW t \in Tx, NEW b \in Blk, Drops(t, b)
      PROVE  own(u, c)' < pool'[i].pins /\ ~Sole(u, c)'
  <2>1. CASE u = t /\ c = b
    <3>1. own(u, c)' < own(u, c) /\ (Sole(u, c)' => Sole(u, c))
      BY <1>9, <2>1, DropOwn
    <3>2. QED
      BY <1>3, <1>5, <1>6, <3>1
  <2>2. CASE u # t \/ c # b
    BY <1>7, <1>9, <2>2 DEF Drops
  <2>3. QED
    BY <2>1, <2>2
<1>10. ASSUME NEW t \in Tx, NEW j \in Buf, NEW b \in Blk, Copies(t, j, b)
       PROVE  own(u, c)' < pool'[i].pins /\ ~Sole(u, c)'
  <2>1. CASE u = t /\ c = b
    <3>1. j = i
      BY <1>1, <1>3, <1>10, <2>1, CopyOwn DEF NoBlockTwice
    <3>2. own(u, c)' = own(u, c) /\ ~Sole(u, c)'
      BY <1>3, <1>4, <1>10, <2>1, <3>1, CopyOwn
    <3>3. QED
      BY <1>3, <1>5, <1>6, <3>2
  <2>2. CASE u # t \/ c # b
    BY <1>7, <1>10, <2>2 DEF Copies
  <2>3. QED
    BY <2>1, <2>2
<1>11. ASSUME NEW t \in Tx, NEW j \in Buf, NEW b \in Blk, Takes(t, j, b)
       PROVE  own(u, c)' < pool'[i].pins /\ ~Sole(u, c)'
  <2>1. /\ own(u, c)' = IF u = t /\ c = b
                          THEN own(u, c) + pending(t, b)' ELSE own(u, c)
        /\ Sole(u, c)' <=> Sole(u, c)
    BY <1>11, TakeOwn
  <2>2. CASE c = b
    <3>1. i = j /\ pool'[i].pins = pool[i].pins + 1 /\ pending(t, b)' = 1
      BY <1>1, <1>2, <1>3, <1>11, <2>2, TakesEffect
    <3>2. QED
      BY <1>3, <1>4, <2>1, <3>1
  <2>3. CASE c # b
    BY <1>3, <1>5, <2>1, <2>3
  <2>4. QED
    BY <2>2, <2>3
<1>12. QED
  BY <1>8, <1>9, <1>10, <1>11, Kinds

LEMMA BufFinite == IsFiniteSet(Buf) /\ Cardinality(Buf) = NumBufs
<1>1. NumBufs \in Nat
  BY BufferAssumption DEF BufferAssumption
<1>2. IsFiniteSet(1 .. NumBufs) /\ Cardinality(1 .. NumBufs) = NumBufs
  BY <1>1, FS_Interval
<1>3. QED
  BY <1>2 DEF Buf

\* The unpinned buffers are those there were without the one a pin has taken.
LEMMA TakeUnpinned ==
    ASSUME AccountsInv, NEW t \in Tx, NEW i \in Buf, NEW b \in Blk,
           Takes(t, i, b)
    PROVE  avail' - Cardinality(Unpinned') = avail - Cardinality(Unpinned)
<1> PoolInv /\ TypeOK /\ Copied /\ Bounded
  BY DEF AccountsInv, PoolInv
<1>1. /\ \A j \in Buf \ {i} : pool'[j] = pool[j]
      /\ \/ Hits(t, i) /\ pool'[i].pins = pool[i].pins + 1
         \/ Misses(t, i) /\ pool[i].pins = 0 /\ pool'[i].pins = 1
         \/ Unreadable(t, i) /\ pool[i].pins = 0 /\ pool'[i].pins = 0
  BY TakesEffect
<1>2. pool[i].pins \in Nat /\ avail \in Int
  BY PoolCounts DEF TypeOK
<1>3. IsFiniteSet(Unpinned)
  BY BufFinite, FS_Subset DEF Unpinned
<1>4. CASE pool[i].pins = 0 /\ pool'[i].pins = 1 /\ avail' = avail - 1
  <2>1. Unpinned' = Unpinned \ {i} /\ i \in Unpinned
    BY <1>1, <1>4 DEF Unpinned, is_pinned
  <2>2. Cardinality(Unpinned \ {i}) = Cardinality(Unpinned) - 1
    BY <1>3, <2>1, FS_RemoveElement
  <2>3. Cardinality(Unpinned) \in Nat
    BY <1>3, FS_CardinalityType
  <2>4. QED
    BY <1>2, <1>4, <2>1, <2>2, <2>3
<1>5. CASE (pool[i].pins > 0 <=> pool'[i].pins > 0) /\ avail' = avail
  <2>1. Unpinned' = Unpinned
    BY <1>1, <1>5 DEF Unpinned, is_pinned
  <2>2. QED
    BY <1>5, <2>1
<1>6. QED
  BY <1>1, <1>2, <1>4, <1>5 DEF Hits, Misses, Unreadable, is_pinned

\* An unpin that counts a buffer as available brings a spent one to the count,
\* which was not: the list that made all its pins has just given them back.
LEMMA DropSpends ==
    ASSUME AccountsInv, [Next]_vars, NEW t \in Tx, NEW b \in Blk, Drops(t, b)
    PROVE  \/ avail' = avail
           \/ avail' = avail + 1 /\ \E i \in Buf : ~Spent(i) /\ Spent(i)'
<1> /\ PoolInv /\ TypeOK /\ ModificationsStayInCopies /\ Copied /\ Bounded
    /\ Counted /\ OneSole
  BY DEF AccountsInv, PoolInv
<1>1. CASE buffers[t][b].pins > 1
  BY <1>1 DEF Drops
<1>2. CASE ~(buffers[t][b].pins > 1)
  <2>1. PICK i \in Buf : IsCopyOf(t, b, i)
    BY DEF Drops, Copied
  <2>2. remaining(t, b) = 1 /\ buffers[t][b].pins = 1
    BY <1>2, Counts DEF Drops, Bounded
  <2>3. Sole(t, b)
    BY <2>2 DEF Sole
  <2>4. pool'[i] = pool[i] /\ pool[i].blk = b /\ pool[i].pins > 0
    BY <2>1 DEF IsCopyOf, Drops
  <2>5. ~Spent(i)
    BY <2>3, <2>4 DEF Spent
  <2>6. remaining(t, b)' = 0 /\ pending(t, b)' = 0
    BY <2>2 DEF Drops, Cleared
  <2>7. ASSUME NEW u \in Tx PROVE own(u, b)' < pool[i].pins /\ ~Sole(u, b)'
    <3>1. CASE u = t
      BY <2>4, <2>6, <3>1 DEF own, Sole
    <3>2. CASE u # t
      <4>1. own(u, b)' = own(u, b) /\ (Sole(u, b)' => Sole(u, b))
        BY <3>2, KeptOwn DEF Drops
      <4>2. own(t, b) + own(u, b) <= pool[i].pins
        BY <2>4, <3>2 DEF Counted
      <4>3. own(t, b) > 0
        BY DropOwn
      <4>4. own(u, b)' < pool[i].pins
        BY <4>1, <4>2, <4>3, Counts, PoolCounts
      <4>5. ~Sole(u, b)'
        BY <2>3, <3>2, <4>1 DEF OneSole
      <4>6. QED
        BY <4>4, <4>5
    <3>3. QED
      BY <3>1, <3>2
  <2>8. Spent(i)'
    BY <2>4, <2>7 DEF Spent
  <2>9. avail' = avail + 1
    BY <1>2 DEF Drops
  <2>10. QED
    BY <2>5, <2>8, <2>9
<1>3. QED
  BY <1>1, <1>2

LEMMA NextCredited == AccountsInv /\ [Next]_vars => Credited'
<1> SUFFICES ASSUME AccountsInv, [Next]_vars PROVE Credited'
  OBVIOUS
<1> PoolInv /\ TypeOK /\ ModificationsStayInCopies /\ Copied /\ Bounded
  BY DEF AccountsInv, PoolInv
<1>1. PICK C \in SUBSET Buf : /\ \A i \in C : Spent(i)
                              /\ avail = Cardinality(Unpinned) + Cardinality(C)
  BY DEF AccountsInv, Credited
<1>2. \A i \in C : Spent(i)'
  BY <1>1, StaysSpent
<1>3. IsFiniteSet(C) /\ Cardinality(C) \in Nat
  BY BufFinite, FS_Subset, FS_CardinalityType
<1>4. Cardinality(Unpinned) \in Nat /\ avail \in Int
  BY BufFinite, FS_Subset, FS_CardinalityType DEF Unpinned, TypeOK
<1>5. CASE avail' - Cardinality(Unpinned') = avail - Cardinality(Unpinned)
           /\ avail' \in Int /\ Cardinality(Unpinned') \in Nat
  <2>1. avail' = Cardinality(Unpinned') + Cardinality(C)
    BY <1>1, <1>3, <1>4, <1>5
  <2>2. QED
    BY <1>2, <2>1 DEF Credited
<1>6. avail' \in Int /\ Cardinality(Unpinned') \in Nat
  <2>1. avail' \in Int
    BY NextTypeOK DEF TypeOK
  <2>2. Unpinned' \in SUBSET Buf
    BY DEF Unpinned
  <2>3. QED
    BY <2>1, <2>2, BufFinite, FS_Subset, FS_CardinalityType
<1>7. CASE UNCHANGED <<pool, avail>>
  <2>1. Unpinned' = Unpinned
    BY <1>7 DEF Unpinned
  <2>2. QED
    BY <1>5, <1>6, <1>7, <2>1
<1>8. ASSUME NEW t \in Tx, NEW i \in Buf, NEW b \in Blk, Takes(t, i, b)
      PROVE  Credited'
  BY <1>5, <1>6, <1>8, TakeUnpinned
<1>9. ASSUME NEW t \in Tx, NEW b \in Blk, Drops(t, b) PROVE Credited'
  <2>1. pool' = pool
    BY <1>9 DEF Drops
  <2>2. CASE avail' = avail
    BY <1>7, <2>1, <2>2
  <2>3. ASSUME avail' = avail + 1, NEW i \in Buf, ~Spent(i), Spent(i)'
        PROVE  Credited'
    <3>1. i \notin C
      BY <1>1, <2>3
    <3>2. Cardinality(C \cup {i}) = Cardinality(C) + 1
      BY <1>3, <3>1, FS_AddElement
    <3>3. Unpinned' = Unpinned
      BY <2>1 DEF Unpinned
    <3>4. avail' = Cardinality(Unpinned') + Cardinality(C \cup {i})
      BY <1>1, <1>3, <1>4, <2>3, <3>2, <3>3
    <3>5. \A j \in C \cup {i} : Spent(j)'
      BY <1>2, <2>3
    <3>6. QED
      BY <3>4, <3>5 DEF Credited
  <2>4. QED
    BY <1>9, <2>2, <2>3, DropSpends
<1>10. QED
  BY <1>7, <1>8, <1>9, Kinds DEF Quiet, Copies

LEMMA AccountsInvHolds == Spec => []AccountsInv
<1>1. Init => AccountsInv
  BY InitAccounts
<1>2. AccountsInv /\ [Next]_vars => AccountsInv'
  <2>1. AccountsInv /\ [Next]_vars => PoolInv'
    BY NextPoolInv DEF AccountsInv
  <2>2. QED
    BY <2>1, NextCopied, NextBounded, NextCounted, NextOneSole, NextCredited
    DEF AccountsInv
<1>3. QED
  BY <1>1, <1>2, PTL DEF Spec

-----------------------------------------------------------------------------
(* The accounts.                                                           *)

\* The lists have copies of exactly the blocks they have pinned, each of a
\* pinned buffer that still has the block, its bytes and the copy's pins.
THEOREM CopiesAgree == Spec => []CopiesMatchPins
<1>1. Copied => CopiesMatchPins
  BY DEF Copied, CopiesMatchPins, IsCopyOf
<1>2. AccountsInv => CopiesMatchPins
  BY <1>1 DEF AccountsInv
<1>3. QED
  BY <1>2, AccountsInvHolds, PTL

\* num_available is at least the number of unpinned buffers and at most that
\* of all buffers: a pinned buffer is counted as available at most once.
THEOREM AvailableStaysInRange == Spec => []AvailableInRange
<1>1. AccountsInv => AvailableInRange
  <2> SUFFICES ASSUME AccountsInv PROVE AvailableInRange
    OBVIOUS
  <2>1. PICK C \in SUBSET Buf : /\ \A i \in C : Spent(i)
                                /\ avail = Cardinality(Unpinned) + Cardinality(C)
    BY DEF AccountsInv, Credited
  <2>2. Unpinned \subseteq Buf /\ Unpinned \cap C = {}
    BY <2>1 DEF Spent, Unpinned, is_pinned
  <2>3. /\ IsFiniteSet(Unpinned) /\ IsFiniteSet(C)
        /\ Cardinality(Unpinned) \in Nat /\ Cardinality(C) \in Nat
    BY <2>2, BufFinite, FS_Subset, FS_CardinalityType
  <2>4. Cardinality(Unpinned \cup C) = Cardinality(Unpinned) + Cardinality(C)
    <3>1. Cardinality(Unpinned \cap C) = 0
      BY <2>2, FS_EmptySet
    <3>2. Cardinality(Unpinned \cup C) =
             Cardinality(Unpinned) + Cardinality(C) - Cardinality(Unpinned \cap C)
      <4>1. IsFiniteSet(Unpinned) /\ IsFiniteSet(C)
        BY <2>3
      <4>2. QED
        BY <4>1, FS_Union
    <3>3. QED
      BY <2>3, <3>1, <3>2
  <2>5. Cardinality(Unpinned \cup C) <= NumBufs
    BY <2>2, BufFinite, FS_Subset
  <2>6. QED
    BY <2>1, <2>3, <2>4, <2>5 DEF AvailableInRange
<1>2. QED
  BY <1>1, AccountsInvHolds, PTL

\* What the pool counts and what the lists hold agree with the pool's pins.
THEOREM AccountsAlwaysAgree == Spec => []AccountsAgree
BY CopiesAgree, AvailableStaysInRange, PTL DEF AccountsAgree
=============================================================================
