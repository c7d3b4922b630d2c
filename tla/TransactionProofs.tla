------------------------- MODULE TransactionProofs --------------------------
(***************************************************************************)
(* Proofs about Transaction, for any transactions, blocks and bounds.      *)
(***************************************************************************)
EXTENDS Transaction, TLAPS

Calls == {"active", "checkpoint", "settle"} \cup Constructing \cup Ending

-----------------------------------------------------------------------------
(* Types.                                                                  *)

LEMMA GoesTypes ==
    ASSUME TypeOK, NEW t \in Tx, NEW from, NEW to \in Calls, Goes(t, from, to)
    PROVE  /\ pc' \in [Tx -> Calls]
           /\ pc[t] = from
           /\ \A u \in Tx : pc'[u] = IF u = t THEN to ELSE pc[u]
BY Zenon DEF Goes, TypeOK, Calls

Held == [Tx -> [Blk -> {"none", "S", "X"}]]

LEMMA OneLock ==
    ASSUME held \in Held, NEW t \in Tx, NEW b \in Blk,
           NEW m \in {"none", "S", "X"}, held' = [held EXCEPT ![t][b] = m]
    PROVE  /\ held' \in Held
           /\ \A u \in Tx, c \in Blk :
                held'[u][c] = IF u = t /\ c = b THEN m ELSE held[u][c]
<1>1. held[t] \in [Blk -> {"none", "S", "X"}]
  BY DEF Held
<1>2. [held[t] EXCEPT ![b] = m] \in [Blk -> {"none", "S", "X"}]
  BY <1>1
<1>3. held' = [held EXCEPT ![t] = [held[t] EXCEPT ![b] = m]]
  OBVIOUS
<1>4. held' \in Held
  BY <1>2, <1>3 DEF Held
<1>5. held'[t] = [held[t] EXCEPT ![b] = m]
  BY <1>3, Zenon DEF Held
<1>6. \A u \in Tx : u # t => held'[u] = held[u]
  BY <1>3, Zenon DEF Held
<1>7. \A c \in Blk : held'[t][c] = IF c = b THEN m ELSE held[t][c]
  BY <1>1, <1>5, Zenon
<1>8. ASSUME NEW u \in Tx, NEW c \in Blk
      PROVE  held'[u][c] = IF u = t /\ c = b THEN m ELSE held[u][c]
  <2>1. CASE u = t
    BY <1>7, <2>1
  <2>2. CASE u # t
    BY <1>6, <2>2
  <2>3. QED
    BY <2>1, <2>2
<1>9. QED
  BY <1>4, <1>8

\* What a call to a lock manager makes of the locks.
Locked(t, b) ==
    /\ held' \in Held
    /\ UNCHANGED shrinking
    /\ \A u \in Tx, c \in Blk : u # t \/ c # b => held'[u][c] = held[u][c]

LEMMA ShareLocks ==
    ASSUME TypeOK, NEW t \in Tx, NEW b \in Blk, s_lock(t, b)
    PROVE  /\ Locked(t, b)
           /\ held'[t][b] # "none"
           /\ held'[t][b] = "X" => held[t][b] = "X"
           /\ held[t][b] = held'[t][b] \/ \A u \in Tx : held[u][b] # "X"
<1>0. held \in Held
  BY DEF TypeOK, Held
<1>1. CASE held[t][b] = "none"
  <2>1. /\ held' = [held EXCEPT ![t][b] = "S"]
        /\ UNCHANGED shrinking
        /\ \A u \in Tx : held[u][b] # "X"
    BY <1>1, Zenon DEF s_lock, L!Share
  <2>2. "S" \in {"none", "S", "X"}
    OBVIOUS
  <2>3. /\ held' \in Held
        /\ \A u \in Tx, c \in Blk :
             held'[u][c] = IF u = t /\ c = b THEN "S" ELSE held[u][c]
    BY <1>0, <2>1, <2>2, OneLock
  <2>4. held'[t][b] = "S"
    BY <2>3, Zenon
  <2>5. Locked(t, b)
    BY <2>1, <2>3 DEF Locked
  <2>6. QED
    BY <2>1, <2>4, <2>5
<1>2. CASE held[t][b] # "none"
  BY <1>0, <1>2, Zenon DEF s_lock, locks, Locked
<1>3. QED
  BY <1>1, <1>2

LEMMA ExcludeLocks ==
    ASSUME TypeOK, NEW t \in Tx, NEW b \in Blk, x_lock(t, b)
    PROVE  /\ Locked(t, b)
           /\ held'[t][b] = "X"
           /\ held[t][b] = "X" \/ \A u \in Tx \ {t} : held[u][b] = "none"
<1>0. held \in Held
  BY DEF TypeOK, Held
<1>1. CASE held[t][b] # "X"
  <2>1. /\ held' = [held EXCEPT ![t][b] = "X"]
        /\ UNCHANGED shrinking
        /\ \A u \in Tx \ {t} : held[u][b] = "none"
    BY <1>1, Zenon DEF x_lock, L!Exclude
  <2>2. "X" \in {"none", "S", "X"}
    OBVIOUS
  <2>3. /\ held' \in Held
        /\ \A u \in Tx, c \in Blk :
             held'[u][c] = IF u = t /\ c = b THEN "X" ELSE held[u][c]
    BY <1>0, <2>1, <2>2, OneLock, ZenonT(60)
  <2>4. held'[t][b] = "X"
    BY <2>3, Zenon
  <2>5. Locked(t, b)
    BY <2>1, <2>3 DEF Locked
  <2>6. QED
    BY <2>1, <2>4, <2>5
<1>2. CASE held[t][b] = "X"
  BY <1>0, <1>2, Zenon DEF x_lock, locks, Locked
<1>3. QED
  BY <1>1, <1>2

LEMMA DropLocks ==
    ASSUME TypeOK, NEW t \in Tx, NEW b \in Blk, L!Drop(t, b)
    PROVE  /\ held' \in Held
           /\ shrinking' \subseteq shrinking
           /\ \A u \in Tx, c \in Blk :
                held'[u][c] = held[u][c] \/ (u = t /\ held'[u][c] = "none")
<1>0. held \in Held
  BY DEF TypeOK, Held
<1>1. held' = [held EXCEPT ![t][b] = "none"] /\ shrinking' \subseteq shrinking
  BY Zenon DEF L!Drop
<1>2. "none" \in {"none", "S", "X"}
  OBVIOUS
<1>3. /\ held' \in Held
      /\ \A u \in Tx, c \in Blk :
           held'[u][c] = IF u = t /\ c = b THEN "none" ELSE held[u][c]
  BY <1>0, <1>1, <1>2, OneLock
<1>4. QED
  BY <1>1, <1>3

LEMMA AppendTypes ==
    ASSUME TypeOK, NEW op, NEW n, AppendRecord(op, n)
    PROVE  /\ log' \in Seq(Bytes)
           /\ log' = Append(log, Zeros)
           /\ Len(log') = Len(log) + 1
           /\ saved' \in 0 .. Len(log')
           /\ saved' >= saved
           /\ lsn \in [Tx -> 0 .. Len(log')]
<1>1. /\ log \in Seq(Bytes)
      /\ saved \in 0 .. Len(log)
      /\ lsn \in [Tx -> 0 .. Len(log)]
  BY DEF TypeOK
<1>2. log' = Append(log, Zeros) /\ saved' \in {saved, Len(log)}
  BY Zenon DEF AppendRecord, write_to_log
<1>3. Zeros \in Bytes
  BY DEF Zeros, Bytes
<1>4. log' \in Seq(Bytes) /\ Len(log') = Len(log) + 1
  BY <1>1, <1>2, <1>3
<1>5. saved' \in 0 .. Len(log') /\ saved' >= saved
  BY <1>1, <1>2, <1>4
<1>6. \A u \in Tx : lsn[u] \in 0 .. Len(log')
  BY <1>1, <1>4
<1>7. lsn \in [Tx -> 0 .. Len(log')]
  BY <1>1, <1>6, Zenon
<1>8. QED
  BY <1>2, <1>4, <1>5, <1>7

LEMMA FlushTypes ==
    ASSUME TypeOK, NEW i \in 0 .. Len(log)
    PROVE  /\ flush(i) \in 0 .. Len(log)
           /\ flush(i) >= saved
           /\ flush(i) >= i \/ Len(log) > i
BY DEF flush, TypeOK

LEMMA UndoTypes ==
    ASSUME TypeOK
    PROVE  /\ \A n \in Nat : undone \cup Undoes(n) \subseteq Nat
           /\ undone \cup Recovers \subseteq Nat
           /\ Len(log) \in 0 .. Len(log)
<1>1. Places \subseteq Nat /\ Len(log) \in Nat
  BY DEF Places, TypeOK
<1>2. ASSUME NEW n \in Nat PROVE Undoes(n) \subseteq Places
  BY Zenon DEF Undoes
<1>3. Recovers \subseteq Places
  BY Zenon DEF Recovers
<1>4. undone \subseteq Nat
  BY DEF TypeOK
<1>5. Len(log) \in 0 .. Len(log)
  BY <1>1
<1>6. QED
  BY <1>1, <1>2, <1>3, <1>4, <1>5, Zenon

LEMMA InitTypeOK == Init => TypeOK
<1> SUFFICES ASSUME Init PROVE TypeOK
  OBVIOUS
<1>1. /\ log \in Seq(Bytes)
      /\ Len(log) = 0
      /\ saved \in 0 .. Len(log)
      /\ m_next_tx \in Nat
      /\ length \in Nat
  BY DEF Init
<1>2. NoNumbers \in [Tx -> Nat] /\ NoNumbers \in [Tx -> 0 .. 0]
  BY DEF NoNumbers
<1>3. [t \in Tx |-> -1] \in [Tx -> Nat \cup {-1}]
  OBVIOUS
<1>4. /\ NoCalls \in [Tx -> {"active", "checkpoint", "settle"} \cup Constructing \cup Ending]
      /\ NoCalls \in [Tx -> {"none", "old", "new"}]
      /\ NoBlocks \in [Tx -> [Blk -> {"none", "S", "X"}]]
      /\ NoBlocks \in [Tx -> [Blk -> {"none", "old", "new"}]]
      /\ [t \in Tx |-> FALSE] \in [Tx -> BOOLEAN]
  BY DEF NoCalls, NoBlocks, Constructing
<1>5. QED
  BY <1>1, <1>2, <1>3, <1>4 DEF Init, TypeOK

LEMMA NextTypeOK == TypeOK /\ [Next]_vars => TypeOK'
<1> SUFFICES ASSUME TypeOK, [Next]_vars PROVE TypeOK'
  OBVIOUS
<1>b. Eof \in Blk
  BY TransactionAssumption DEF TransactionAssumption
<1>c. /\ {"active", "checkpoint", "settle"} \subseteq Calls
      /\ {"numbered", "started", "commit", "rollback", "sync", "release", "drop",
          "unpin"} \subseteq Calls
  BY DEF Calls, Constructing, Ending
<1>h. Held = [Tx -> [Blk -> {"none", "S", "X"}]]
  BY DEF Held
<1>1. ASSUME NEW t \in Tx, next_tx_num(t) PROVE TypeOK'
  <2>1. pc' \in [Tx -> Calls]
    BY <1>1, <1>c, GoesTypes DEF next_tx_num
  <2>2. m_next_tx' \in Nat /\ rec_num' \in [Tx -> Nat]
    BY <1>1 DEF next_tx_num, TypeOK
  <2>3. overtaken' \in [Tx -> BOOLEAN]
    BY <1>1, Zenon DEF next_tx_num, TypeOK
  <2>4. UNCHANGED <<tx_num, locks, data, records>>
    BY <1>1 DEF next_tx_num
  <2>5. QED
    BY <2>1, <2>2, <2>3, <2>4, Zenon DEF locks, data, records, Calls, TypeOK
<1>2. ASSUME NEW t \in Tx, Started(t) PROVE TypeOK'
  <2>1. pc' \in [Tx -> Calls]
    BY <1>2, <1>c, GoesTypes DEF Started
  <2>2. AppendRecord(start, rec_num[t]) /\ UNCHANGED <<numbers, locks, data, lsn, undone>>
    BY <1>2 DEF Started
  <2>3. QED
    BY <2>1, <2>2, AppendTypes, Zenon DEF numbers, locks, data, Calls, TypeOK
<1>3. ASSUME NEW t \in Tx, Constructed(t) PROVE TypeOK'
  <2>1. pc' \in [Tx -> Calls]
    BY <1>3, <1>c, GoesTypes DEF Constructed
  <2>2. tx_num' \in [Tx -> Nat]
    BY <1>3 DEF Constructed, TypeOK
  <2>3. UNCHANGED <<m_next_tx, rec_num, overtaken, locks, data, records>>
    BY <1>3 DEF Constructed
  <2>4. QED
    BY <2>1, <2>2, <2>3, Zenon DEF locks, data, records, Calls, TypeOK
<1>4. ASSUME NEW t \in Tx, NEW b \in Blk, pin(t, b) \/ unpin(t, b) PROVE TypeOK'
  <2>1. copy' \in [Tx -> [Blk -> {"none", "old", "new"}]]
    <3>1. /\ [copy[t] EXCEPT ![b] = "old"] \in [Blk -> {"none", "old", "new"}]
          /\ [copy[t] EXCEPT ![b] = "none"] \in [Blk -> {"none", "old", "new"}]
      BY DEF TypeOK
    <3>2. \/ copy' = [copy EXCEPT ![t] = [copy[t] EXCEPT ![b] = "old"]]
          \/ copy' = [copy EXCEPT ![t] = [copy[t] EXCEPT ![b] = "none"]]
      BY <1>4 DEF pin, unpin
    <3>3. QED
      BY <3>1, <3>2, Zenon DEF TypeOK
  <2>2. UNCHANGED <<numbers, pc, locks, read, length, known, records>>
    BY <1>4 DEF pin, unpin
  <2>3. QED
    BY <2>1, <2>2, Zenon DEF numbers, locks, records, TypeOK
<1>5. ASSUME NEW t \in Tx, NEW b \in Blk, get_int(t, b) PROVE TypeOK'
  <2>1. Locked(t, b)
    BY <1>5, ShareLocks DEF get_int
  <2>2. read' \in [Tx -> {"none", "old", "new"}]
    BY <1>5 DEF get_int, TypeOK
  <2>3. UNCHANGED <<numbers, pc, copy, length, known, records>>
    BY <1>5 DEF get_int
  <2>4. QED
    BY <1>h, <2>1, <2>2, <2>3, Zenon DEF Locked, numbers, records, TypeOK
<1>6. ASSUME NEW t \in Tx, NEW b \in Blk, NEW ok_to_log \in BOOLEAN,
             set_int(t, b, ok_to_log)
      PROVE  TypeOK'
  <2>1. Locked(t, b)
    BY <1>6, ExcludeLocks DEF set_int
  <2>2. UNCHANGED copy
    BY <1>6 DEF set_int, Modified
  <2>3. UNCHANGED <<numbers, pc, read, length, known, lsn, undone>>
    BY <1>6 DEF set_int
  <2>4. /\ log' \in Seq(Bytes)
        /\ saved' \in 0 .. Len(log')
        /\ lsn \in [Tx -> 0 .. Len(log')]
    <3>1. CASE AppendRecord(set_op, rec_num[t])
      BY <3>1, AppendTypes
    <3>2. CASE UNCHANGED <<log, saved>>
      BY <3>2, Zenon DEF TypeOK
    <3>3. QED
      BY <1>6, <3>1, <3>2 DEF set_int
  <2>5. QED
    BY <1>h, <2>1, <2>2, <2>3, <2>4, Zenon DEF Locked, numbers, TypeOK
<1>7. ASSUME NEW t \in Tx, size(t) PROVE TypeOK'
  <2>1. Locked(t, Eof)
    BY <1>7, <1>b, ShareLocks DEF size
  <2>2. known' \in [Tx -> Nat \cup {-1}]
    BY <1>7 DEF size, TypeOK
  <2>3. UNCHANGED <<numbers, pc, copy, read, length, records>>
    BY <1>7 DEF size
  <2>4. QED
    BY <1>h, <2>1, <2>2, <2>3, Zenon DEF Locked, numbers, records, TypeOK
<1>8. ASSUME NEW t \in Tx, append(t) PROVE TypeOK'
  <2>1. Locked(t, Eof)
    BY <1>8, <1>b, ExcludeLocks DEF append
  <2>2. known' \in [Tx -> Nat \cup {-1}] /\ length' \in Nat
    BY <1>8 DEF append, TypeOK
  <2>3. UNCHANGED <<numbers, pc, copy, read, records>>
    BY <1>8 DEF append
  <2>4. QED
    BY <1>h, <2>1, <2>2, <2>3, Zenon DEF Locked, numbers, records, TypeOK
<1>9. ASSUME NEW t \in Tx, commit(t) PROVE TypeOK'
  <2>1. pc' \in [Tx -> Calls]
    BY <1>9, <1>c, GoesTypes DEF commit
  <2>2. UNCHANGED <<numbers, locks, data, records>>
    BY <1>9 DEF commit
  <2>3. QED
    BY <2>1, <2>2, Zenon DEF numbers, locks, data, records, Calls, TypeOK
<1>10. ASSUME NEW t \in Tx, rollback(t) \/ recover(t) PROVE TypeOK'
  <2>1. pc' \in [Tx -> Calls]
    BY <1>10, <1>c, GoesTypes DEF rollback, recover
  <2>2. /\ saved' = Len(log)
        /\ undone' \subseteq Nat
        /\ UNCHANGED <<numbers, locks, data, log, lsn>>
    <3>1. rec_num[t] \in Nat
      BY DEF TypeOK
    <3>2. QED
      BY <1>10, <3>1, UndoTypes, Zenon DEF rollback, recover
  <2>3. saved' \in 0 .. Len(log)
    BY <2>2, UndoTypes, Zenon
  <2>4. QED
    BY <2>1, <2>2, <2>3, Zenon DEF numbers, locks, data, Calls, TypeOK
<1>11. ASSUME NEW t \in Tx, EndRecord(t) \/ Checkpoint(t) PROVE TypeOK'
  <2>1. pc' \in [Tx -> Calls]
    BY <1>11, <1>c, GoesTypes DEF EndRecord, Checkpoint
  <2>2. PICK op \in {commit_op, rollback_op, checkpoint}, n \in {rec_num[t], 0} :
          /\ AppendRecord(op, n)
          /\ lsn' = [lsn EXCEPT ![t] = Len(log')]
          /\ UNCHANGED <<numbers, locks, data, undone>>
    BY <1>11, Zenon DEF EndRecord, Checkpoint
  <2>3. /\ log' \in Seq(Bytes)
        /\ saved' \in 0 .. Len(log')
        /\ lsn \in [Tx -> 0 .. Len(log')]
    BY <2>2, AppendTypes
  <2>4. lsn' \in [Tx -> 0 .. Len(log')]
    BY <2>2, <2>3
  <2>5. QED
    BY <2>1, <2>2, <2>3, <2>4, Zenon DEF numbers, locks, data, Calls, TypeOK
<1>12. ASSUME NEW t \in Tx, Sync(t) \/ Settle(t) PROVE TypeOK'
  <2>1. pc' \in [Tx -> Calls]
    BY <1>12, <1>c, GoesTypes DEF Sync, Settle
  <2>2. /\ saved' = flush(lsn[t])
        /\ UNCHANGED <<numbers, locks, data, log, undone>>
    BY <1>12 DEF Sync, Settle
  <2>3. saved' \in 0 .. Len(log)
    BY <2>2, FlushTypes DEF TypeOK
  <2>4. lsn' \in [Tx -> 0 .. Len(log)]
    <3>1. 0 \in 0 .. Len(log) /\ lsn \in [Tx -> 0 .. Len(log)]
      BY DEF TypeOK
    <3>2. lsn' = lsn \/ lsn' = [lsn EXCEPT ![t] = 0]
      BY <1>12 DEF Sync, Settle
    <3>3. QED
      BY <3>1, <3>2, Zenon
  <2>5. QED
    BY <2>1, <2>2, <2>3, <2>4, Zenon DEF numbers, locks, data, Calls, TypeOK
<1>13. ASSUME NEW t \in Tx, release(t) PROVE TypeOK'
  <2>1. pc' \in [Tx -> Calls]
    BY <1>13, <1>c, GoesTypes DEF release
  <2>2. UNCHANGED held /\ shrinking' \subseteq Tx
    BY <1>13 DEF release, L!Shrink, locks, TypeOK
  <2>3. known' \in [Tx -> Nat \cup {-1}]
    BY <1>13 DEF release, TypeOK
  <2>4. UNCHANGED <<numbers, copy, read, length, records>>
    BY <1>13 DEF release
  <2>5. QED
    BY <2>1, <2>2, <2>3, <2>4, Zenon DEF numbers, records, Calls, TypeOK
<1>14. ASSUME NEW t \in Tx, NEW b \in Blk, Drop(t, b) PROVE TypeOK'
  <2>1. pc' \in [Tx -> Calls]
    BY <1>14, <1>c, GoesTypes DEF Drop
  <2>2. held' \in Held /\ shrinking' \subseteq Tx
    BY <1>14, DropLocks, Zenon DEF Drop, TypeOK
  <2>3. UNCHANGED <<numbers, data, records>>
    BY <1>14 DEF Drop
  <2>4. QED
    BY <1>h, <2>1, <2>2, <2>3, Zenon DEF numbers, data, records, Calls, TypeOK
<1>15. ASSUME NEW t \in Tx, unpin_all(t) PROVE TypeOK'
  <2>1. pc' \in [Tx -> Calls]
    BY <1>15, <1>c, GoesTypes DEF unpin_all
  <2>2. /\ copy' \in [Tx -> [Blk -> {"none", "old", "new"}]]
        /\ read' \in [Tx -> {"none", "old", "new"}]
    BY <1>15 DEF unpin_all, TypeOK
  <2>3. lsn' \in [Tx -> 0 .. Len(log)]
    <3>1. 0 \in 0 .. Len(log) /\ lsn \in [Tx -> 0 .. Len(log)]
      BY DEF TypeOK
    <3>2. QED
      BY <1>15, <3>1, Zenon DEF unpin_all
  <2>4. UNCHANGED <<numbers, locks, length, known, log, saved, undone>>
    BY <1>15 DEF unpin_all
  <2>5. QED
    BY <2>1, <2>2, <2>3, <2>4, Zenon DEF numbers, locks, Calls, TypeOK
<1>16. CASE Crash
  <2>1. /\ m_next_tx' \in Nat
        /\ log' \in Seq(Bytes)
        /\ Len(log') = saved
        /\ saved' \in 0 .. Len(log')
    BY <1>16 DEF Crash, TypeOK
  <2>2. NoNumbers \in [Tx -> Nat] /\ NoNumbers \in [Tx -> 0 .. Len(log')]
    BY <2>1 DEF NoNumbers, TypeOK
  <2>3. [t \in Tx |-> -1] \in [Tx -> Nat \cup {-1}]
    OBVIOUS
  <2>4. /\ NoCalls \in [Tx -> Calls]
        /\ NoCalls \in [Tx -> {"none", "old", "new"}]
        /\ NoBlocks \in [Tx -> [Blk -> {"none", "S", "X"}]]
        /\ NoBlocks \in [Tx -> [Blk -> {"none", "old", "new"}]]
        /\ [t \in Tx |-> FALSE] \in [Tx -> BOOLEAN]
    BY DEF NoCalls, NoBlocks, Constructing, Calls
  <2>5. {} \subseteq Tx
    OBVIOUS
  <2>6. QED
    BY <1>16, <2>1, <2>2, <2>3, <2>4, <2>5, Zenon DEF Crash, Calls, TypeOK
<1>17. CASE UNCHANGED vars
  BY <1>17, Zenon DEF vars, numbers, locks, records, data, TypeOK
<1>18. QED
  BY <1>1, <1>2, <1>3, <1>4, <1>5, <1>6, <1>7, <1>8, <1>9, <1>10, <1>11, <1>12,
     <1>13, <1>14, <1>15, <1>16, <1>17, Zenon DEF Next

-----------------------------------------------------------------------------
(* Numbers.                                                                *)

Numbered ==
    \A t \in Tx :
        /\ pc[t] = "none" => rec_num[t] = 0
        /\ pc[t] # "none" => rec_num[t] \in 1 .. m_next_tx
                             /\ \A u \in Tx \ {t} : rec_num[u] # rec_num[t]
        /\ pc[t] \in {"numbered", "started"} =>
              overtaken[t] \/ m_next_tx = rec_num[t]
        /\ pc[t] \notin Constructing =>
              tx_num[t] >= rec_num[t] /\ (overtaken[t] \/ tx_num[t] = rec_num[t])

\* A step of a transaction that is not being constructed, or its start record.
Onward(u) ==
    \/ pc'[u] = pc[u]
    \/ pc[u] = "numbered" /\ pc'[u] = "started"
    \/ pc[u] \notin Constructing /\ pc'[u] \notin Constructing

LEMMA GoesOnward ==
    ASSUME TypeOK, NEW t \in Tx, NEW from, NEW to, Goes(t, from, to),
           \/ from \notin Constructing /\ to \notin Constructing
           \/ from = "numbered" /\ to = "started"
    PROVE  \A u \in Tx : Onward(u)
BY Zenon DEF Goes, TypeOK, Onward

LEMMA NumbersFrame ==
    ASSUME TypeOK, [Next]_vars
    PROVE  \/ \E t \in Tx : next_tx_num(t) \/ Constructed(t)
           \/ Crash
           \/ UNCHANGED numbers /\ \A u \in Tx : Onward(u)
<1>c. /\ "active" \notin Constructing
      /\ "checkpoint" \notin Constructing
      /\ "settle" \notin Constructing
      /\ "commit" \notin Constructing
      /\ "rollback" \notin Constructing
      /\ "sync" \notin Constructing
      /\ "release" \notin Constructing
      /\ "drop" \notin Constructing
      /\ "unpin" \notin Constructing
  BY DEF Constructing
<1>1. ASSUME NEW t \in Tx, Started(t)
      PROVE  UNCHANGED numbers /\ \A u \in Tx : Onward(u)
  BY <1>1, GoesOnward, Zenon DEF Started
<1>2. ASSUME NEW t \in Tx, NEW b \in Blk,
             \/ pin(t, b) \/ unpin(t, b) \/ get_int(t, b)
             \/ \E ok_to_log \in BOOLEAN : set_int(t, b, ok_to_log)
             \/ size(t) \/ append(t)
      PROVE  UNCHANGED numbers /\ \A u \in Tx : Onward(u)
  <2>1. UNCHANGED <<numbers, pc>>
    BY <1>2, Zenon DEF pin, unpin, get_int, set_int, size, append
  <2>2. QED
    BY <2>1, Zenon DEF Onward
<1>3. ASSUME NEW t \in Tx, NEW b \in Blk,
             \/ commit(t) \/ rollback(t) \/ EndRecord(t) \/ Sync(t) \/ release(t)
             \/ Drop(t, b) \/ unpin_all(t)
             \/ recover(t) \/ Checkpoint(t) \/ Settle(t)
      PROVE  UNCHANGED numbers /\ \A u \in Tx : Onward(u)
  <2>1. UNCHANGED numbers
    BY <1>3, Zenon DEF commit, rollback, EndRecord, Sync, release, Drop, unpin_all,
       recover, Checkpoint, Settle
  <2>2. \/ Goes(t, "active", "commit") \/ Goes(t, "active", "rollback")
        \/ Goes(t, "active", "active") \/ Goes(t, "commit", "sync")
        \/ Goes(t, "rollback", "sync") \/ Goes(t, "sync", "release")
        \/ Goes(t, "release", "drop") \/ Goes(t, "release", "unpin")
        \/ Goes(t, "drop", IF t \in shrinking' THEN "drop" ELSE "unpin")
        \/ Goes(t, "unpin", "active") \/ Goes(t, "active", "checkpoint")
        \/ Goes(t, "checkpoint", "settle") \/ Goes(t, "settle", "active")
    BY <1>3, Zenon DEF commit, rollback, EndRecord, Sync, release, Drop, unpin_all,
       recover, Checkpoint, Settle
  <2>3. (IF t \in shrinking' THEN "drop" ELSE "unpin") \notin Constructing
    BY <1>c
  <2>4. \A u \in Tx : Onward(u)
    BY <1>c, <2>2, <2>3, GoesOnward, Zenon
  <2>5. QED
    BY <2>1, <2>4
<1>4. CASE UNCHANGED vars
  BY <1>4, Zenon DEF vars, numbers, Onward
<1>5. Eof \in Blk
  BY TransactionAssumption DEF TransactionAssumption
<1>6. QED
  BY <1>1, <1>2, <1>3, <1>4, <1>5, Zenon DEF Next

LEMMA NextNumbered ==
    TypeOK /\ TypeOK' /\ Numbered /\ [Next]_vars => Numbered'
<1> SUFFICES ASSUME TypeOK, TypeOK', Numbered, [Next]_vars PROVE Numbered'
  OBVIOUS
<1>c. Constructing = {"none", "numbered", "started"}
  BY DEF Constructing
<1>1. ASSUME NEW t \in Tx, next_tx_num(t) PROVE Numbered'
  <2>1. /\ pc[t] = "none"
        /\ \A u \in Tx : pc'[u] = IF u = t THEN "numbered" ELSE pc[u]
        /\ m_next_tx' = m_next_tx + 1
        /\ rec_num'[t] = m_next_tx + 1
        /\ \A u \in Tx : u # t => rec_num'[u] = rec_num[u]
        /\ tx_num' = tx_num
    BY <1>1, Zenon DEF next_tx_num, Goes, TypeOK
  <2>2. \A u \in Tx : overtaken'[u] <=>
          (overtaken[u] \/ pc[u] \in {"numbered", "started"})
    BY <1>1, Zenon DEF next_tx_num
  <2>3. \A u \in Tx : rec_num[u] \in 0 .. m_next_tx
    BY DEF Numbered, TypeOK
  <2>4. m_next_tx \in Nat
    BY DEF TypeOK
  <2>5. ASSUME NEW u \in Tx
        PROVE  /\ pc'[u] = "none" => rec_num'[u] = 0
               /\ pc'[u] # "none" => rec_num'[u] \in 1 .. m_next_tx'
    BY <2>1, <2>3, <2>4 DEF Numbered
  <2>6. ASSUME NEW u \in Tx, NEW w \in Tx, u # w, pc'[u] # "none"
        PROVE  rec_num'[w] # rec_num'[u]
    <3>1. CASE u = t \/ w = t
      BY <2>1, <2>3, <2>4, <2>6, <3>1
    <3>2. CASE u # t /\ w # t
      <4>1. pc[u] # "none" /\ rec_num'[u] = rec_num[u] /\ rec_num'[w] = rec_num[w]
        BY <2>1, <2>6, <3>2, Zenon
      <4>2. QED
        BY <2>6, <4>1, Zenon DEF Numbered
    <3>3. QED
      BY <3>1, <3>2
  <2>7. ASSUME NEW u \in Tx
        PROVE  /\ pc'[u] \in {"numbered", "started"} =>
                     overtaken'[u] \/ m_next_tx' = rec_num'[u]
               /\ pc'[u] \notin Constructing =>
                     /\ tx_num'[u] >= rec_num'[u]
                     /\ overtaken'[u] \/ tx_num'[u] = rec_num'[u]
    <3>1. CASE u = t
      BY <1>c, <2>1, <3>1
    <3>2. CASE u # t
      <4>1. /\ pc'[u] = pc[u] /\ rec_num'[u] = rec_num[u]
            /\ overtaken[u] => overtaken'[u]
        BY <2>1, <2>2, <3>2, Zenon
      <4>2. QED
        BY <2>1, <2>2, <4>1, Zenon DEF Numbered
    <3>3. QED
      BY <3>1, <3>2
  <2>8. QED
    BY <2>5, <2>6, <2>7, Zenon DEF Numbered
<1>2. ASSUME NEW t \in Tx, Constructed(t) PROVE Numbered'
  <2>1. /\ pc[t] = "started"
        /\ \A u \in Tx : pc'[u] = IF u = t THEN "active" ELSE pc[u]
        /\ tx_num'[t] = m_next_tx
        /\ \A u \in Tx : u # t => tx_num'[u] = tx_num[u]
        /\ UNCHANGED <<m_next_tx, rec_num, overtaken>>
    BY <1>2, Zenon DEF Constructed, Goes, TypeOK
  <2>2. /\ rec_num[t] \in 1 .. m_next_tx
        /\ overtaken[t] \/ m_next_tx = rec_num[t]
        /\ m_next_tx \in Nat
    BY <2>1 DEF Numbered, TypeOK
  <2>3. m_next_tx >= rec_num[t]
    BY <2>2
  <2>4. ASSUME NEW u \in Tx
        PROVE  /\ pc'[u] = "none" => pc[u] = "none"
               /\ pc'[u] # "none" => pc[u] # "none"
               /\ pc'[u] \in {"numbered", "started"} =>
                     pc[u] \in {"numbered", "started"}
               /\ pc'[u] \notin Constructing => u = t \/ pc[u] \notin Constructing
    BY <2>1, <1>c
  <2>5. QED
    BY <2>1, <2>2, <2>3, <2>4, Zenon DEF Numbered
<1>3. CASE Crash
  <2>1. \A t \in Tx : pc'[t] = "none" /\ rec_num'[t] = 0
    BY <1>3, Zenon DEF Crash, NoCalls, NoNumbers
  <2>2. QED
    BY <2>1, <1>c DEF Numbered
<1>4. CASE UNCHANGED numbers /\ \A u \in Tx : Onward(u)
  <2>1. UNCHANGED <<m_next_tx, rec_num, tx_num, overtaken>>
    BY <1>4 DEF numbers
  <2>2. ASSUME NEW u \in Tx
        PROVE  /\ pc'[u] = "none" <=> pc[u] = "none"
               /\ pc'[u] \in {"numbered", "started"} <=>
                     pc[u] \in {"numbered", "started"}
               /\ pc'[u] \in Constructing <=> pc[u] \in Constructing
    BY <1>4, <1>c DEF Onward
  <2>3. QED
    BY <2>1, <2>2, Zenon DEF Numbered
<1>5. QED
  BY <1>1, <1>2, <1>3, <1>4, NumbersFrame, Zenon

-----------------------------------------------------------------------------
(* The log.                                                                *)

Zeroed ==
    /\ \A i \in Places : log[i] = Zeros
    /\ undone = {}

LEMMA LogFrame ==
    ASSUME TypeOK, [Next]_vars
    PROVE  \/ Crash
           \/ UNCHANGED <<log, saved, undone>>
           \/ UNCHANGED undone /\ \E op, n : AppendRecord(op, n)
           \/ UNCHANGED <<log, undone>> /\ \E t \in Tx : saved' = flush(lsn[t])
           \/ /\ UNCHANGED log
              /\ saved' = Len(log)
              /\ \/ \E t \in Tx : undone' = undone \cup Undoes(rec_num[t])
                 \/ undone' = undone \cup Recovers
<1>1. ASSUME NEW t \in Tx, next_tx_num(t) \/ Constructed(t)
      PROVE  UNCHANGED <<log, saved, undone>>
  BY <1>1, Zenon DEF next_tx_num, Constructed, records
<1>2. ASSUME NEW t \in Tx, Started(t)
      PROVE  UNCHANGED undone /\ \E op, n : AppendRecord(op, n)
  BY <1>2, Zenon DEF Started
<1>3. ASSUME NEW t \in Tx, NEW b \in Blk, pin(t, b) \/ unpin(t, b) \/ get_int(t, b)
      PROVE  UNCHANGED <<log, saved, undone>>
  BY <1>3, Zenon DEF pin, unpin, get_int, records
<1>4. ASSUME NEW t \in Tx, NEW b \in Blk, NEW ok_to_log \in BOOLEAN,
             set_int(t, b, ok_to_log)
      PROVE  \/ UNCHANGED <<log, saved, undone>>
             \/ UNCHANGED undone /\ \E op, n : AppendRecord(op, n)
  BY <1>4, Zenon DEF set_int
<1>5. ASSUME NEW t \in Tx, size(t) \/ append(t) \/ commit(t)
      PROVE  UNCHANGED <<log, saved, undone>>
  BY <1>5, Zenon DEF size, append, commit, records
<1>6. ASSUME NEW t \in Tx, EndRecord(t) \/ Checkpoint(t)
      PROVE  UNCHANGED undone /\ \E op, n : AppendRecord(op, n)
  BY <1>6, Zenon DEF EndRecord, Checkpoint
<1>7. ASSUME NEW t \in Tx, Sync(t) \/ Settle(t)
      PROVE  UNCHANGED <<log, undone>> /\ saved' = flush(lsn[t])
  BY <1>7, Zenon DEF Sync, Settle
<1>8. ASSUME NEW t \in Tx, NEW b \in Blk, release(t) \/ Drop(t, b) \/ unpin_all(t)
      PROVE  UNCHANGED <<log, saved, undone>>
  BY <1>8, Zenon DEF release, Drop, unpin_all, records
<1>9. ASSUME NEW t \in Tx, rollback(t) \/ recover(t)
      PROVE  /\ UNCHANGED log
             /\ saved' = Len(log)
             /\ \/ undone' = undone \cup Undoes(rec_num[t])
                \/ undone' = undone \cup Recovers
  BY <1>9, Zenon DEF rollback, recover
<1>10. CASE UNCHANGED vars
  BY <1>10, Zenon DEF vars, records
<1>11. Eof \in Blk
  BY TransactionAssumption DEF TransactionAssumption
<1>12. QED
  BY <1>1, <1>2, <1>3, <1>4, <1>5, <1>6, <1>7, <1>8, <1>9, <1>10, <1>11, Zenon
     DEF Next

\* Of records that are zeros, nothing is undone.
LEMMA NothingToUndo ==
    ASSUME TypeOK, Zeroed
    PROVE  /\ \A t \in Tx : Undoes(rec_num[t]) = {}
           /\ Recovers = {}
<1>1. ASSUME NEW i \in Places
      PROVE  create_log_record(i).op = checkpoint /\ create_log_record(i).tx = -1
  BY DEF Zeroed, Zeros, create_log_record, checkpoint
<1>2. ASSUME NEW t \in Tx PROVE rec_num[t] # -1
  BY DEF TypeOK
<1>3. ASSUME NEW i \in Places PROVE i >= i
  BY DEF Places
<1>4. \A t \in Tx : Undoes(rec_num[t]) = {}
  BY <1>1, <1>2, Zenon DEF Undoes
<1>5. Recovers = {}
  BY <1>1, <1>3, Zenon DEF Recovers
<1>6. QED
  BY <1>4, <1>5

LEMMA NextZeroed == TypeOK /\ Zeroed /\ [Next]_vars => Zeroed'
<1> SUFFICES ASSUME TypeOK, Zeroed, [Next]_vars PROVE Zeroed'
  OBVIOUS
<1>1. CASE Crash
  <2>1. /\ log' = SubSeq(log, 1, saved)
        /\ UNCHANGED undone
        /\ log \in Seq(Bytes)
        /\ saved \in 0 .. Len(log)
    BY <1>1 DEF Crash, TypeOK
  <2>2. Len(log') = saved /\ \A i \in 1 .. saved : log'[i] = log[i]
    BY <2>1
  <2>3. QED
    BY <2>1, <2>2 DEF Zeroed, Places
<1>2. ASSUME NEW op, NEW n, AppendRecord(op, n), UNCHANGED undone PROVE Zeroed'
  <2>1. /\ log' = Append(log, Zeros)
        /\ Len(log') = Len(log) + 1
        /\ log \in Seq(Bytes)
    BY <1>2, AppendTypes DEF TypeOK
  <2>2. \A i \in 1 .. Len(log) + 1 : log'[i] = IF i <= Len(log) THEN log[i] ELSE Zeros
    BY <2>1
  <2>3. QED
    BY <1>2, <2>1, <2>2 DEF Zeroed, Places
<1>3. CASE UNCHANGED log /\ undone' = {}
  BY <1>3 DEF Zeroed, Places
<1>4. undone = {}
  BY DEF Zeroed
<1>5. QED
  BY <1>1, <1>2, <1>3, <1>4, LogFrame, NothingToUndo

-----------------------------------------------------------------------------
(* What was read.                                                          *)

Alone ==
    \A t \in Tx, u \in Tx, b \in Blk :
        t # u /\ held[t][b] = "X" => held[u][b] = "none"

KnownLength ==
    \A t \in Tx :
        /\ known[t] # -1 => known[t] = length /\ held[t][Eof] # "none"
        /\ pc[t] = "drop" => known[t] = -1

OldBytes ==
    \A t \in Tx : read[t] # "new" /\ \A b \in Blk : copy[t][b] # "new"

\* A call to a lock manager keeps locks exclusive.
LEMMA StillAlone ==
    ASSUME TypeOK, Alone, NEW t \in Tx, NEW b \in Blk,
           s_lock(t, b) \/ x_lock(t, b)
    PROVE  Alone' /\ \A u \in Tx, c \in Blk : held[u][c] # "none" => held'[u][c] # "none"
<1>1. /\ Locked(t, b)
      /\ held'[t][b] # "none"
      /\ \/ held'[t][b] = held[t][b]
         \/ held'[t][b] = "X" => held[t][b] = "X"
         \/ \A u \in Tx \ {t} : held[u][b] = "none"
  BY ShareLocks, ExcludeLocks, Zenon
<1>2. \/ held'[t][b] = held[t][b]
      \/ held'[t][b] # "X" /\ \A u \in Tx : held[u][b] # "X"
      \/ \A u \in Tx \ {t} : held[u][b] = "none"
  <2>1. CASE s_lock(t, b)
    BY <2>1, ShareLocks, Zenon
  <2>2. CASE x_lock(t, b)
    BY <2>2, ExcludeLocks, Zenon
  <2>3. QED
    BY <2>1, <2>2
<1>3. \A u \in Tx, c \in Blk : u # t \/ c # b => held'[u][c] = held[u][c]
  BY <1>1 DEF Locked
<1>4. ASSUME NEW u \in Tx, NEW w \in Tx, NEW c \in Blk, u # w, held'[u][c] = "X"
      PROVE  held'[w][c] = "none"
  <2>0. CASE held'[u][c] = held[u][c] /\ held'[w][c] = held[w][c]
    BY <1>4, <2>0 DEF Alone
  <2>1. CASE c # b
    BY <1>3, <2>0, <2>1
  <2>2. CASE c = b /\ held'[t][b] = held[t][b]
    <3>1. \A v \in Tx : held'[v][b] = held[v][b]
      BY <1>3, <2>2
    <3>2. QED
      BY <2>0, <2>2, <3>1
  <2>3. CASE c = b /\ held'[t][b] # "X" /\ \A v \in Tx : held[v][b] # "X"
    BY <1>3, <1>4, <2>3, Zenon
  <2>4. CASE c = b /\ \A v \in Tx \ {t} : held[v][b] = "none"
    BY <1>3, <1>4, <2>4
  <2>5. QED
    BY <1>2, <2>1, <2>2, <2>3, <2>4, Zenon
<1>5. QED
  BY <1>1, <1>3, <1>4, Zenon DEF Alone

LEMMA NextShared ==
    TypeOK /\ Alone /\ KnownLength /\ [Next]_vars => Alone' /\ KnownLength'
<1> SUFFICES ASSUME TypeOK, Alone, KnownLength, [Next]_vars
             PROVE  Alone' /\ KnownLength'
  OBVIOUS
<1>b. Eof \in Blk
  BY TransactionAssumption DEF TransactionAssumption
<1>1. CASE /\ UNCHANGED <<held, length, known>>
           /\ \A u \in Tx : pc'[u] = "drop" => pc[u] = "drop"
  BY <1>1, Zenon DEF Alone, KnownLength
<1>2. ASSUME NEW t \in Tx,
             next_tx_num(t) \/ Started(t) \/ Constructed(t) \/ commit(t)
             \/ rollback(t) \/ EndRecord(t) \/ Sync(t) \/ unpin_all(t)
             \/ recover(t) \/ Checkpoint(t) \/ Settle(t)
      PROVE  Alone' /\ KnownLength'
  <2>1. UNCHANGED <<held, length, known>>
    BY <1>2, Zenon DEF next_tx_num, Started, Constructed, commit, rollback,
       EndRecord, Sync, unpin_all, recover, Checkpoint, Settle, locks, data
  <2>2. PICK to \in Calls \ {"drop"}, from \in Calls : Goes(t, from, to)
    BY <1>2 DEF next_tx_num, Started, Constructed, commit, rollback, EndRecord,
       Sync, unpin_all, recover, Checkpoint, Settle, Calls, Constructing, Ending
  <2>3. \A u \in Tx : pc'[u] = IF u = t THEN to ELSE pc[u]
    BY <2>2, GoesTypes
  <2>4. QED
    BY <1>1, <2>1, <2>2, <2>3
<1>3. ASSUME NEW t \in Tx, NEW b \in Blk, pin(t, b) \/ unpin(t, b)
      PROVE  Alone' /\ KnownLength'
  BY <1>1, <1>3, Zenon DEF pin, unpin, locks
<1>4. ASSUME NEW t \in Tx, NEW b \in Blk, NEW ok_to_log \in BOOLEAN,
             get_int(t, b) \/ set_int(t, b, ok_to_log)
      PROVE  Alone' /\ KnownLength'
  <2>1. s_lock(t, b) \/ x_lock(t, b)
    BY <1>4 DEF get_int, set_int
  <2>2. UNCHANGED <<length, known, pc>>
    BY <1>4, Zenon DEF get_int, set_int
  <2>3. QED
    BY <1>b, <2>1, <2>2, StillAlone, Zenon DEF KnownLength
<1>5. ASSUME NEW t \in Tx, size(t) PROVE Alone' /\ KnownLength'
  <2>1. Alone' /\ \A u \in Tx, c \in Blk : held[u][c] # "none" => held'[u][c] # "none"
    BY <1>5, <1>b, StillAlone, Zenon DEF size
  <2>2. held'[t][Eof] # "none"
    BY <1>5, <1>b, ShareLocks, Zenon DEF size
  <2>3. \A u \in Tx : known'[u] = IF u = t THEN length ELSE known[u]
    BY <1>5, Zenon DEF size, TypeOK
  <2>4. UNCHANGED <<length, pc>> /\ pc[t] # "drop"
    BY <1>5 DEF size
  <2>5. QED
    BY <1>b, <2>1, <2>2, <2>3, <2>4, Zenon DEF KnownLength
<1>6. ASSUME NEW t \in Tx, append(t) PROVE Alone' /\ KnownLength'
  <2>1. Alone'
    BY <1>6, <1>b, StillAlone, Zenon DEF append
  <2>2. held'[t][Eof] = "X"
    BY <1>6, <1>b, ExcludeLocks, Zenon DEF append
  <2>3. \A u \in Tx : u # t => held[u][Eof] = "none"
    <3>1. held[t][Eof] = "X" \/ \A u \in Tx \ {t} : held[u][Eof] = "none"
      BY <1>6, <1>b, ExcludeLocks, Zenon DEF append
    <3>2. QED
      BY <1>b, <3>1, Zenon DEF Alone
  <2>4. \A u \in Tx : known'[u] = IF u = t THEN length + 1 ELSE known[u]
    BY <1>6, Zenon DEF append, TypeOK
  <2>5. length' = length + 1 /\ UNCHANGED pc /\ pc[t] # "drop"
    BY <1>6 DEF append
  <2>6. ASSUME NEW u \in Tx
        PROVE  /\ known'[u] # -1 => known'[u] = length' /\ held'[u][Eof] # "none"
               /\ pc'[u] = "drop" => known'[u] = -1
    <3>1. CASE u = t
      BY <2>2, <2>4, <2>5, <3>1
    <3>2. CASE u # t
      BY <2>3, <2>4, <2>5, <3>2 DEF KnownLength
    <3>3. QED
      BY <3>1, <3>2
  <2>7. QED
    BY <2>1, <2>6 DEF KnownLength
<1>7. ASSUME NEW t \in Tx, release(t) PROVE Alone' /\ KnownLength'
  <2>1. UNCHANGED <<held, length>>
    BY <1>7, Zenon DEF release, L!Shrink, locks
  <2>2. \A u \in Tx : known'[u] = IF u = t THEN -1 ELSE known[u]
    BY <1>7, Zenon DEF release, TypeOK
  <2>3. PICK to \in {"drop", "unpin"} : Goes(t, "release", to)
    BY <1>7 DEF release
  <2>4. \A u \in Tx : pc'[u] = IF u = t THEN to ELSE pc[u]
    BY <2>3, Zenon DEF Goes, TypeOK
  <2>5. QED
    BY <2>1, <2>2, <2>4, Zenon DEF Alone, KnownLength
<1>8. ASSUME NEW t \in Tx, NEW b \in Blk, Drop(t, b) PROVE Alone' /\ KnownLength'
  <2>1. \A u \in Tx, c \in Blk :
          held'[u][c] = held[u][c] \/ (u = t /\ held'[u][c] = "none")
    BY <1>8, DropLocks DEF Drop
  <2>2. UNCHANGED <<length, known>> /\ pc[t] = "drop"
    BY <1>8, Zenon DEF Drop, data, Goes
  <2>3. \A u \in Tx : u # t => pc'[u] = pc[u]
    BY <1>8, Zenon DEF Drop, Goes, TypeOK
  <2>4. known[t] = -1
    BY <2>2 DEF KnownLength
  <2>5. Alone'
    <3>1. ASSUME NEW u \in Tx, NEW w \in Tx, NEW c \in Blk, u # w, held'[u][c] = "X"
          PROVE  held'[w][c] = "none"
      <4>1. held[u][c] = "X"
        BY <2>1, <3>1
      <4>2. held[w][c] = "none"
        BY <3>1, <4>1, Zenon DEF Alone
      <4>3. QED
        BY <2>1, <4>2
    <3>2. QED
      BY <3>1 DEF Alone
  <2>6. KnownLength'
    BY <1>b, <2>1, <2>2, <2>3, <2>4, Zenon DEF KnownLength
  <2>7. QED
    BY <2>5, <2>6
<1>9. CASE Crash
  <2>1. \A u \in Tx : /\ pc'[u] = "none"
                      /\ known'[u] = -1
                      /\ \A c \in Blk : held'[u][c] = "none"
    BY <1>9, Zenon DEF Crash, NoCalls, NoBlocks
  <2>2. QED
    BY <2>1 DEF Alone, KnownLength
<1>10. CASE UNCHANGED vars
  BY <1>1, <1>10, Zenon DEF vars, locks, data
<1>11. QED
  BY <1>b, <1>2, <1>3, <1>4, <1>5, <1>6, <1>7, <1>8, <1>9, <1>10, Zenon DEF Next

LEMMA NextOldBytes == TypeOK /\ OldBytes /\ [Next]_vars => OldBytes'
<1> SUFFICES ASSUME TypeOK, OldBytes, [Next]_vars PROVE OldBytes'
  OBVIOUS
<1>b. Eof \in Blk
  BY TransactionAssumption DEF TransactionAssumption
<1>1. CASE UNCHANGED <<copy, read>>
  BY <1>1, Zenon DEF OldBytes
<1>2. ASSUME NEW t \in Tx, NEW b \in Blk, pin(t, b) \/ unpin(t, b) PROVE OldBytes'
  <2>1. PICK m \in {"none", "old"} : copy' = [copy EXCEPT ![t][b] = m]
    BY <1>2 DEF pin, unpin
  <2>2. copy' = [copy EXCEPT ![t] = [copy[t] EXCEPT ![b] = m]]
    BY <2>1
  <2>3. \A u \in Tx, c \in Blk : copy'[u][c] = copy[u][c] \/ copy'[u][c] = m
    <3>1. copy[t] \in [Blk -> {"none", "old", "new"}]
      BY DEF TypeOK
    <3>2. copy'[t] = [copy[t] EXCEPT ![b] = m]
      BY <2>2, Zenon DEF TypeOK
    <3>3. \A c \in Blk : copy'[t][c] = copy[t][c] \/ copy'[t][c] = m
      BY <3>1, <3>2, Zenon
    <3>4. \A u \in Tx : u # t => copy'[u] = copy[u]
      BY <2>2, Zenon DEF TypeOK
    <3>5. QED
      BY <3>3, <3>4, Zenon
  <2>4. m # "new" /\ UNCHANGED read
    BY <1>2, <2>1 DEF pin, unpin
  <2>5. QED
    BY <2>3, <2>4, Zenon DEF OldBytes
<1>3. ASSUME NEW t \in Tx, NEW b \in Blk, get_int(t, b) PROVE OldBytes'
  <2>1. \A u \in Tx : read'[u] = IF u = t THEN copy[t][b] ELSE read[u]
    BY <1>3, Zenon DEF get_int, TypeOK
  <2>2. UNCHANGED copy
    BY <1>3 DEF get_int
  <2>3. QED
    BY <2>1, <2>2, Zenon DEF OldBytes
<1>4. ASSUME NEW t \in Tx, unpin_all(t) PROVE OldBytes'
  <2>1. /\ \A u \in Tx : read'[u] = IF u = t THEN "none" ELSE read[u]
        /\ \A u \in Tx : copy'[u] = IF u = t THEN [b \in Blk |-> "none"] ELSE copy[u]
    BY <1>4, Zenon DEF unpin_all, TypeOK
  <2>2. QED
    BY <2>1 DEF OldBytes
<1>5. CASE Crash
  <2>1. \A u \in Tx : read'[u] = "none" /\ \A b \in Blk : copy'[u][b] = "none"
    BY <1>5, Zenon DEF Crash, NoCalls, NoBlocks
  <2>2. QED
    BY <2>1 DEF OldBytes
<1>6. ASSUME NEW t \in Tx, NEW b \in Blk,
             \/ next_tx_num(t) \/ Started(t) \/ Constructed(t)
             \/ \E ok_to_log \in BOOLEAN : set_int(t, b, ok_to_log)
             \/ size(t) \/ append(t) \/ commit(t) \/ rollback(t) \/ EndRecord(t)
             \/ Sync(t) \/ release(t) \/ Drop(t, b)
             \/ recover(t) \/ Checkpoint(t) \/ Settle(t)
      PROVE  UNCHANGED <<copy, read>>
  BY <1>6, Zenon DEF next_tx_num, Started, Constructed, set_int, Modified, size,
     append, commit, rollback, EndRecord, Sync, release, Drop, recover, Checkpoint,
     Settle, data
<1>7. CASE UNCHANGED vars
  BY <1>1, <1>7, Zenon DEF vars, data
<1>8. QED
  BY <1>b, <1>1, <1>2, <1>3, <1>4, <1>5, <1>6, <1>7, Zenon DEF Next

-----------------------------------------------------------------------------
(* The end of a transaction.                                               *)

Ended(t) == lsn[t] > 0 /\ (saved >= lsn[t] \/ Len(log) > lsn[t])

Ends ==
    \A t \in Tx :
        /\ pc[t] = "sync" => lsn[t] > 0
        /\ pc[t] = "release" => Ended(t)

\* But for a crash, neither the log nor what is saved of it shrinks.
LEMMA LogGrows ==
    ASSUME TypeOK, TypeOK', [Next]_vars, ~Crash
    PROVE  Len(log') >= Len(log) /\ saved' >= saved
<1>1. Len(log) \in Nat /\ saved \in 0 .. Len(log)
  BY DEF TypeOK
<1>2. ASSUME NEW op, NEW n, AppendRecord(op, n)
      PROVE  Len(log') >= Len(log) /\ saved' >= saved
  BY <1>1, <1>2, AppendTypes
<1>3. ASSUME NEW t \in Tx, UNCHANGED log, saved' = flush(lsn[t])
      PROVE  Len(log') >= Len(log) /\ saved' >= saved
  <2>1. lsn[t] \in 0 .. Len(log)
    BY DEF TypeOK
  <2>2. flush(lsn[t]) >= saved
    BY <2>1, FlushTypes
  <2>3. QED
    BY <1>1, <1>3, <2>2
<1>4. ASSUME UNCHANGED log, saved' \in {saved, Len(log)}
      PROVE  Len(log') >= Len(log) /\ saved' >= saved
  BY <1>1, <1>4
<1>5. QED
  BY <1>2, <1>3, <1>4, LogFrame

\* A transaction of which nothing is recorded anew stays ended.
LEMMA StaysEnded ==
    ASSUME TypeOK, TypeOK', Ends, [Next]_vars, ~Crash, NEW u \in Tx,
           lsn'[u] = lsn[u], pc'[u] = pc[u]
    PROVE  /\ pc'[u] = "sync" => lsn'[u] > 0
           /\ pc'[u] = "release" => Ended(u)'
<1>1. /\ lsn[u] \in Nat /\ saved \in Nat /\ Len(log) \in Nat
      /\ saved' \in Nat /\ Len(log') \in Nat
  BY DEF TypeOK
<1>2. Len(log') >= Len(log) /\ saved' >= saved
  BY LogGrows
<1>3. Ended(u) => Ended(u)'
  BY <1>1, <1>2 DEF Ended
<1>4. QED
  BY <1>3 DEF Ends

LEMMA NextEnds == TypeOK /\ TypeOK' /\ Ends /\ [Next]_vars => Ends'
<1> SUFFICES ASSUME TypeOK, TypeOK', Ends, [Next]_vars PROVE Ends'
  OBVIOUS
<1>b. Eof \in Blk
  BY TransactionAssumption DEF TransactionAssumption
<1>1. CASE Crash
  <2>1. \A t \in Tx : pc'[t] = "none"
    BY <1>1, Zenon DEF Crash, NoCalls
  <2>2. QED
    BY <2>1 DEF Ends
<1>2. ASSUME ~Crash, NEW t \in Tx, NEW to,
             pc' = [pc EXCEPT ![t] = to],
             \A u \in Tx : u # t => lsn'[u] = lsn[u],
             /\ to = "sync" => lsn'[t] > 0
             /\ to = "release" => Ended(t)'
      PROVE  Ends'
  <2>1. \A u \in Tx : u # t => pc'[u] = pc[u]
    BY <1>2, Zenon DEF TypeOK
  <2>2. pc'[t] = to
    BY <1>2, Zenon DEF TypeOK
  <2>3. ASSUME NEW u \in Tx
        PROVE  /\ pc'[u] = "sync" => lsn'[u] > 0
               /\ pc'[u] = "release" => Ended(u)'
    <3>1. CASE u = t
      BY <1>2, <2>2, <3>1
    <3>2. CASE u # t
      BY <1>2, <2>1, <3>2, StaysEnded
    <3>3. QED
      BY <3>1, <3>2
  <2>4. QED
    BY <2>3 DEF Ends
<1>3. CASE ~Crash /\ UNCHANGED <<pc, lsn>>
  BY <1>3, StaysEnded DEF Ends
<1>4. ASSUME ~Crash, NEW t \in Tx, NEW b \in Blk, NEW ok_to_log \in BOOLEAN,
             \/ pin(t, b) \/ unpin(t, b) \/ get_int(t, b) \/ set_int(t, b, ok_to_log)
             \/ size(t) \/ append(t)
      PROVE  Ends'
  <2>1. UNCHANGED <<pc, lsn>>
    BY <1>4, Zenon DEF pin, unpin, get_int, set_int, size, append, records
  <2>2. QED
    BY <1>3, <1>4, <2>1
<1>5. ASSUME ~Crash, NEW t \in Tx, NEW b \in Blk,
             \/ next_tx_num(t) \/ Started(t) \/ Constructed(t)
             \/ commit(t) \/ rollback(t) \/ release(t) \/ Drop(t, b) \/ recover(t)
      PROVE  Ends'
  <2>1. UNCHANGED lsn
    BY <1>5, Zenon DEF next_tx_num, Started, Constructed, commit, rollback, release,
       Drop, recover, records
  <2>2. PICK to \in {"numbered", "started", "active", "commit", "rollback", "drop",
                     "unpin", "checkpoint"} :
          pc' = [pc EXCEPT ![t] = to]
    BY <1>5 DEF next_tx_num, Started, Constructed, commit, rollback, release, Drop,
       recover, Goes
  <2>3. to # "sync" /\ to # "release"
    BY <2>2
  <2>4. QED
    BY <1>2, <1>5, <2>1, <2>2, <2>3
<1>6. ASSUME ~Crash, NEW t \in Tx, EndRecord(t) \/ Checkpoint(t) PROVE Ends'
  <2>1. PICK op, n : AppendRecord(op, n)
    BY <1>6, Zenon DEF EndRecord, Checkpoint
  <2>2. Len(log') = Len(log) + 1 /\ Len(log) \in Nat
    <3>1. Len(log') = Len(log) + 1
      BY <2>1, AppendTypes, Zenon
    <3>2. Len(log) \in Nat
      BY DEF TypeOK
    <3>3. QED
      BY <3>1, <3>2
  <2>3. lsn' = [lsn EXCEPT ![t] = Len(log')]
    BY <1>6, Zenon DEF EndRecord, Checkpoint
  <2>4. /\ lsn'[t] = Len(log')
        /\ \A u \in Tx : u # t => lsn'[u] = lsn[u]
    BY <2>3, Zenon DEF TypeOK
  <2>5. PICK to \in {"sync", "settle"} : pc' = [pc EXCEPT ![t] = to]
    BY <1>6 DEF EndRecord, Checkpoint, Goes
  <2>6. lsn'[t] > 0 /\ to # "release"
    BY <2>2, <2>4, <2>5
  <2>7. QED
    BY <1>2, <1>6, <2>4, <2>5, <2>6
<1>7. ASSUME ~Crash, NEW t \in Tx, Sync(t) PROVE Ends'
  <2>1. /\ pc[t] = "sync"
        /\ pc' = [pc EXCEPT ![t] = "release"]
        /\ saved' = flush(lsn[t])
        /\ UNCHANGED <<log, lsn>>
    BY <1>7 DEF Sync, Goes
  <2>2. lsn[t] > 0 /\ lsn[t] \in 0 .. Len(log)
    BY <2>1 DEF Ends, TypeOK
  <2>3. flush(lsn[t]) >= lsn[t] \/ Len(log) > lsn[t]
    BY <2>2, FlushTypes
  <2>4. Ended(t)'
    BY <2>1, <2>2, <2>3 DEF Ended
  <2>5. QED
    BY <1>2, <1>7, <2>1, <2>4
<1>8. ASSUME ~Crash, NEW t \in Tx, unpin_all(t) \/ Settle(t) PROVE Ends'
  <2>1. /\ pc' = [pc EXCEPT ![t] = "active"]
        /\ lsn' = [lsn EXCEPT ![t] = 0]
    BY <1>8 DEF unpin_all, Settle, Goes
  <2>2. \A u \in Tx : u # t => lsn'[u] = lsn[u]
    BY <2>1, Zenon DEF TypeOK
  <2>3. QED
    BY <1>2, <1>8, <2>1, <2>2
<1>9. CASE ~Crash /\ UNCHANGED vars
  BY <1>3, <1>9, Zenon DEF vars, records
<1>10. QED
  BY <1>b, <1>1, <1>4, <1>5, <1>6, <1>7, <1>8, <1>9, Zenon DEF Next

\* Only release begins to give locks back.
LEMMA NextReleases ==
    ASSUME TypeOK, Ends, [Next]_vars, NEW t \in Tx, t \in shrinking' \ shrinking
    PROVE  Ended(t)
<1>b. Eof \in Blk
  BY TransactionAssumption DEF TransactionAssumption
<1>1. ASSUME NEW u \in Tx, release(u) PROVE Ended(t)
  <2>1. shrinking' \subseteq shrinking \cup {u} /\ pc[u] = "release"
    BY <1>1 DEF release, L!Shrink, Goes, locks
  <2>2. t = u
    BY <2>1
  <2>3. QED
    BY <2>1, <2>2 DEF Ends
<1>2. ASSUME NEW u \in Tx, NEW b \in Blk, NEW ok_to_log \in BOOLEAN,
             \/ next_tx_num(u) \/ Started(u) \/ Constructed(u)
             \/ pin(u, b) \/ unpin(u, b) \/ get_int(u, b) \/ set_int(u, b, ok_to_log)
             \/ size(u) \/ append(u)
             \/ commit(u) \/ rollback(u) \/ EndRecord(u) \/ Sync(u)
             \/ unpin_all(u) \/ recover(u) \/ Checkpoint(u) \/ Settle(u)
      PROVE  UNCHANGED shrinking
  <2>1. CASE get_int(u, b) \/ set_int(u, b, ok_to_log)
    BY <2>1, ShareLocks, ExcludeLocks, Zenon DEF get_int, set_int, Locked
  <2>2. CASE size(u) \/ append(u)
    BY <1>b, <2>2, ShareLocks, ExcludeLocks, Zenon DEF size, append, Locked
  <2>3. QED
    BY <1>2, <2>1, <2>2, Zenon DEF next_tx_num, Started, Constructed, pin, unpin,
       commit, rollback, EndRecord, Sync, unpin_all, recover, Checkpoint, Settle,
       locks
<1>3. ASSUME NEW u \in Tx, NEW b \in Blk, Drop(u, b) PROVE FALSE
  BY <1>3, DropLocks DEF Drop
<1>4. CASE Crash
  BY <1>4 DEF Crash
<1>5. CASE UNCHANGED vars
  BY <1>5, Zenon DEF vars, locks
<1>6. QED
  BY <1>b, <1>1, <1>2, <1>3, <1>4, <1>5, Zenon DEF Next

-----------------------------------------------------------------------------
(* What is proved of every behaviour.                                      *)

TxInv ==
    /\ TypeOK
    /\ Numbered
    /\ Zeroed
    /\ Alone
    /\ KnownLength
    /\ OldBytes
    /\ Ends

LEMMA InitTxInv == Init => TxInv
<1> SUFFICES ASSUME Init PROVE TxInv
  OBVIOUS
<1>1. TypeOK
  BY InitTypeOK
<1>2. \A t \in Tx : /\ pc[t] = "none"
                    /\ rec_num[t] = 0
                    /\ known[t] = -1
                    /\ read[t] = "none"
                    /\ \A b \in Blk : held[t][b] = "none" /\ copy[t][b] = "none"
  BY Zenon DEF Init, NoCalls, NoNumbers, NoBlocks
<1>3. Numbered
  BY <1>2 DEF Numbered, Constructing
<1>4. Zeroed
  BY DEF Init, Zeroed, Places
<1>5. Alone /\ KnownLength /\ OldBytes /\ Ends
  BY <1>2 DEF Alone, KnownLength, OldBytes, Ends
<1>6. QED
  BY <1>1, <1>3, <1>4, <1>5 DEF TxInv

\* Locks are exclusive, every record in the log is zeros, what is known of the
\* file's length is covered by a lock, and a transaction releases nothing until
\* its last record is in the log: each step of transaction, recovery_mgr and
\* the records keeps all of it.
THEOREM TxInvariant == Spec => []TxInv
<1>1. TxInv /\ [Next]_vars => TxInv'
  BY NextTypeOK, NextNumbered, NextZeroed, NextShared, NextOldBytes, NextEnds, Zenon
     DEF TxInv
<1>2. QED
  BY <1>1, InitTxInv, PTL DEF Spec

\* The fields of transaction and recovery_mgr keep their types, and no flush
\* claims more of the log than there is.
THEOREM TxTypes == Spec => []TypeOK
<1>1. TxInv => TypeOK
  BY Zenon DEF TxInv
<1>2. QED
  BY <1>1, TxInvariant, PTL

\* next_tx_num gives every recovery manager a number of its own, and the
\* transaction has the same one unless others were constructed meanwhile.
THEOREM Numbers == Spec => []NumbersAgree
<1>1. TxInv => NumbersAgree
  BY Zenon DEF TxInv, Numbered, NumbersAgree
<1>2. QED
  BY <1>1, TxInvariant, PTL

\* do_rollback and do_recover find nothing to undo in any log the records write.
THEOREM NoUndo == Spec => []NothingIsUndone
<1>1. TxInv => NothingIsUndone
  BY Zenon DEF TxInv, Zeroed, NothingIsUndone
<1>2. QED
  BY <1>1, TxInvariant, PTL

\* What size and get_int told a transaction stays so until it gives back its
\* locks.
THEOREM Repeatable == Spec => []RepeatableReads
<1>1. TxInv => RepeatableReads
  <2> SUFFICES ASSUME TxInv, NEW t \in Tx
               PROVE  known[t] \in {-1, length} /\ read[t] # "new"
    BY DEF RepeatableReads
  <2>1. QED
    BY DEF TxInv, KnownLength, OldBytes
<1>2. QED
  BY <1>1, TxInvariant, PTL

\* release begins after the record that ends the transaction is in the log, and
\* saved unless another record followed it.
THEOREM ReleasedAfterEnd == Spec => EndedBeforeRelease
<1>1. TxInv /\ [Next]_vars =>
        [\A t \in Tx : HasLocks(t) /\ t \in shrinking' \ shrinking =>
            lsn[t] > 0 /\ (saved >= lsn[t] \/ Len(log) > lsn[t])]_vars
  BY NextReleases, Zenon DEF TxInv, Ended
<1>2. QED
  BY <1>1, TxInvariant, PTL DEF Spec, EndedBeforeRelease
=============================================================================
