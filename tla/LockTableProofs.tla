--------------------------- MODULE LockTableProofs ---------------------------
(***************************************************************************)
(* Block locking for any number of transactions and blocks: the table's    *)
(* counts and the private lock maps agree, exclusive locks exclude, and    *)
(* the whole is two-phase locking.                                         *)
(***************************************************************************)
EXTENDS LockTable, FiniteSetTheorems, TLAPS

\* A call inside the table is about a block that the transaction does not
\* hold yet as strongly as it asks.
CallOK ==
    \A t \in Tx :
        /\ pc[t] \in SPhase => locks[t][req[t]] = "none"
        /\ pc[t] \in XPhase => locks[t][req[t]] # "X"

\* release() gives back recorded locks only.
PendingOK ==
    \A t \in Tx : pc[t] = "release" =>
        \A b \in pending[t] : locks[t][b] # "none"

\* t's share of b is in the table.
Reg(t, b) == Holds(t, b) \/ (pc[t] \in XPhase /\ req[t] = b)

\* TableMatchesHolders for one block.
Exclusive(b) == tbl[b] = -1 /\ \E t \in Tx : HoldsX(t, b) /\ Registered(b) = {t}
Counted(b) ==
    /\ \A t \in Tx : ~HoldsX(t, b)
    /\ tbl[b] >= Cardinality(Registered(b))

\* The step changes nothing between the transactions T and the block b.
Steady(T, b) ==
    \A u \in T : /\ HoldsX(u, b)' <=> HoldsX(u, b)
                 /\ Reg(u, b)' <=> Reg(u, b)

\* The step keeps the agreement on b, and a share nobody will give back.
Kept(b) ==
    /\ (Exclusive(b) \/ Counted(b))'
    /\ Orphaned(b) => Orphaned(b)'

LockInv ==
    /\ TypeOK
    /\ CallOK
    /\ PendingOK
    /\ \A b \in Blk : Exclusive(b) \/ Counted(b)

-----------------------------------------------------------------------------
(* Types.                                                                  *)

LEMMA InitTypeOK == Init => TypeOK
  BY DEF Init, TypeOK, Locking, SPhase, XPhase

LEMMA NextTypeOK == TypeOK /\ [Next]_vars => TypeOK'
<1> SUFFICES ASSUME TypeOK, [Next]_vars PROVE TypeOK'
  OBVIOUS
<1> USE DEF TypeOK, Locking, SPhase, XPhase, Asleep
<1>1. ASSUME NEW t \in Tx, NEW b \in Blk, s_lock(t, b) PROVE TypeOK'
  BY <1>1 DEF s_lock, Enter
<1>2. ASSUME NEW t \in Tx, NEW b \in Blk, x_lock(t, b) PROVE TypeOK'
  BY <1>2 DEF x_lock, Enter
<1>3. ASSUME NEW t \in Tx, x_lock_hangs(t) PROVE TypeOK'
  BY <1>3 DEF x_lock_hangs
<1>4. ASSUME NEW t \in Tx, SGrant(t) PROVE TypeOK'
  <2>1. req[t] \in Blk /\ tbl[req[t]] \in Nat
    BY <1>4 DEF SGrant, has_x_lock
  <2>2. tbl' \in [Blk -> Nat \cup {-1}]
    BY <1>4, <2>1 DEF SGrant
  <2>3. CASE want[t] = "S"
    <3>1. locks' = [locks EXCEPT ![t][req[t]] = "S"] /\ Return(t)
      BY <1>4, <2>3 DEF SGrant
    <3>2. locks' \in [Tx -> [Blk -> {"none", "S", "X"}]]
      BY <2>1, <3>1
    <3>3. UNCHANGED <<notified, pending>>
      BY <1>4 DEF SGrant
    <3>4. QED
      BY <2>2, <3>1, <3>2, <3>3 DEF Return
  <2>4. CASE want[t] # "S"
    <3>1. Enter(t, req[t], "x_check", "X")
      BY <1>4, <2>4 DEF SGrant
    <3>2. UNCHANGED <<locks, notified, pending>>
      BY <1>4, <2>4 DEF SGrant
    <3>3. QED
      BY <2>1, <2>2, <3>1, <3>2 DEF Enter
  <2>5. QED
    BY <2>3, <2>4
<1>5. ASSUME NEW t \in Tx, SRefuse(t) PROVE TypeOK'
  BY <1>5 DEF SRefuse, Sleep, Abort, Return
<1>6. ASSUME NEW t \in Tx, XGrant(t) PROVE TypeOK'
  BY <1>6 DEF XGrant, Return
<1>7. ASSUME NEW t \in Tx, XRefuse(t) PROVE TypeOK'
  BY <1>7 DEF XRefuse, Sleep, Abort, Return
<1>8. ASSUME NEW t \in Tx, Wake(t) PROVE TypeOK'
  BY <1>8 DEF Wake
<1>9. ASSUME NEW t \in Tx, Expire(t) PROVE TypeOK'
  BY <1>9 DEF Expire
<1>10. ASSUME NEW t \in Tx, release(t) PROVE TypeOK'
  BY <1>10 DEF release
<1>11. ASSUME NEW t \in Tx, NEW b \in Blk, ReleaseOne(t, b) PROVE TypeOK'
  <2>1. unlock(b)
    BY <1>11 DEF ReleaseOne
  <2>2. tbl' \in [Blk -> Nat \cup {-1}] /\ notified' \in [Tx -> BOOLEAN]
    <3>1. CASE tbl[b] > 1
      BY <2>1, <3>1 DEF unlock
    <3>2. CASE ~(tbl[b] > 1)
      <4>1. /\ tbl' = [tbl EXCEPT ![b] = 0]
            /\ notified' = [u \in Tx |-> notified[u] \/ pc[u] \in Asleep]
        BY <2>1, <3>2 DEF unlock, Wakened
      <4>2. tbl' \in [Blk -> Nat \cup {-1}]
        BY <4>1
      <4>3. notified' \in [Tx -> BOOLEAN]
        BY <4>1, Zenon
      <4>4. QED
        BY <4>2, <4>3
    <3>3. QED
      BY <3>1, <3>2
  <2>3. /\ pending' = [pending EXCEPT ![t] = @ \ {b}]
        /\ UNCHANGED <<req, want, expired>>
    BY <1>11 DEF ReleaseOne
  <2>4. CASE pending[t] = {b}
    <3>1. /\ locks' = [locks EXCEPT ![t] = [c \in Blk |-> "none"]]
          /\ pc' = [pc EXCEPT ![t] = "idle"]
      BY <1>11, <2>4 DEF ReleaseOne
    <3>2. locks' \in [Tx -> [Blk -> {"none", "S", "X"}]]
      BY <3>1
    <3>3. QED
      BY <2>2, <2>3, <3>1, <3>2
  <2>5. CASE pending[t] # {b}
    BY <1>11, <2>2, <2>3, <2>5 DEF ReleaseOne
  <2>6. QED
    BY <2>4, <2>5
<1>12. CASE UNCHANGED vars
  BY <1>12 DEF vars
<1>13. QED
  BY <1>1, <1>2, <1>3, <1>4, <1>5, <1>6, <1>7, <1>8, <1>9, <1>10, <1>11, <1>12
  DEF Next

\* Every reachable state has the types of TypeOK.
THEOREM TypeCorrect == Spec => []TypeOK
<1>1. Init => TypeOK
  BY InitTypeOK
<1>2. TypeOK /\ [Next]_vars => TypeOK'
  BY NextTypeOK
<1>3. QED
  BY <1>1, <1>2, PTL DEF Spec

-----------------------------------------------------------------------------
(* The invariant.  Each step concerns one transaction and at most one      *)
(* block; the first lemma serves all the blocks a step does not concern.   *)

LEMMA RegisteredIsReg ==
    ASSUME NEW b
    PROVE  /\ Registered(b) = {t \in Tx : Reg(t, b)}
           /\ IsFiniteSet(Registered(b))
           /\ Cardinality(Registered(b)) \in Nat
<1>1. Registered(b) = {t \in Tx : Reg(t, b)}
  BY DEF Registered, Reg
<1>2. IsFiniteSet(Registered(b))
  BY FS_Subset, LockAssumption DEF Registered, LockAssumption
<1>3. QED
  BY <1>1, <1>2, FS_CardinalityType

LEMMA Undisturbed ==
    ASSUME NEW b \in Blk, Exclusive(b) \/ Counted(b),
           tbl'[b] = tbl[b],
           Steady(Tx, b)
    PROVE  Kept(b)
<1>1. Registered(b)' = Registered(b)
  BY DEF Registered, Reg, Steady
<1>2. CASE Exclusive(b)
  BY <1>1, <1>2 DEF Exclusive, Steady, Kept, Orphaned
<1>3. CASE Counted(b)
  BY <1>1, <1>3 DEF Counted, Steady, Kept, Orphaned
<1>4. QED
  BY <1>2, <1>3

LEMMA InitLockInv == Init => LockInv
<1> SUFFICES ASSUME Init PROVE LockInv
  OBVIOUS
<1>1. TypeOK
  BY InitTypeOK
<1>2. CallOK /\ PendingOK
  BY DEF Init, CallOK, PendingOK, SPhase, XPhase
<1>3. ASSUME NEW b \in Blk PROVE Counted(b)
  <2>1. \A t \in Tx : ~Holds(t, b) /\ ~HoldsX(t, b)
    BY DEF Init, Holds, HoldsX
  <2>2. Registered(b) = {}
    BY <2>1 DEF Registered, Init, XPhase
  <2>3. QED
    BY <2>1, <2>2, FS_EmptySet DEF Counted, Init
<1>4. QED
  BY <1>1, <1>2, <1>3 DEF LockInv

\* The calls and the pending unlocks of release() stay sound in every step.
LEMMA NextCallOK == LockInv /\ [Next]_vars => CallOK' /\ PendingOK'
<1> SUFFICES ASSUME LockInv, [Next]_vars PROVE CallOK' /\ PendingOK'
  OBVIOUS
<1> TypeOK /\ CallOK /\ PendingOK
  BY DEF LockInv
<1> USE DEF TypeOK, CallOK, PendingOK, Locking, SPhase, XPhase, Asleep
<1>1. ASSUME NEW t \in Tx, NEW b \in Blk, s_lock(t, b)
      PROVE  CallOK' /\ PendingOK'
  BY <1>1 DEF s_lock, Enter
<1>2. ASSUME NEW t \in Tx, NEW b \in Blk, x_lock(t, b)
      PROVE  CallOK' /\ PendingOK'
  BY <1>2 DEF x_lock, Enter
<1>3. ASSUME NEW t \in Tx, x_lock_hangs(t) PROVE CallOK' /\ PendingOK'
  BY <1>3 DEF x_lock_hangs
<1>4. ASSUME NEW t \in Tx, SGrant(t) PROVE CallOK' /\ PendingOK'
  <2>1. CASE want[t] = "S"
    <3>1. /\ locks' = [locks EXCEPT ![t][req[t]] = "S"]
          /\ Return(t)
          /\ pc[t] = "s_check"
          /\ UNCHANGED pending
      BY <1>4, <2>1 DEF SGrant
    <3>2. QED
      BY <3>1 DEF Return
  <2>2. CASE want[t] # "S"
    <3>1. /\ Enter(t, req[t], "x_check", "X")
          /\ UNCHANGED <<locks, pending>>
          /\ pc[t] = "s_check"
      BY <1>4, <2>2 DEF SGrant
    <3>2. QED
      BY <3>1 DEF Enter
  <2>3. QED
    BY <2>1, <2>2
<1>5. ASSUME NEW t \in Tx, SRefuse(t) PROVE CallOK' /\ PendingOK'
  BY <1>5 DEF SRefuse, Sleep, Abort, Return
<1>6. ASSUME NEW t \in Tx, XGrant(t) PROVE CallOK' /\ PendingOK'
  BY <1>6 DEF XGrant, Return
<1>7. ASSUME NEW t \in Tx, XRefuse(t) PROVE CallOK' /\ PendingOK'
  BY <1>7 DEF XRefuse, Sleep, Abort, Return
<1>8. ASSUME NEW t \in Tx, Wake(t) PROVE CallOK' /\ PendingOK'
  BY <1>8 DEF Wake
<1>9. ASSUME NEW t \in Tx, Expire(t) PROVE CallOK' /\ PendingOK'
  BY <1>9 DEF Expire
<1>10. ASSUME NEW t \in Tx, release(t) PROVE CallOK' /\ PendingOK'
  BY <1>10 DEF release
<1>11. ASSUME NEW t \in Tx, NEW b \in Blk, ReleaseOne(t, b)
       PROVE  CallOK' /\ PendingOK'
  <2>1. CASE pending[t] = {b}
    BY <1>11, <2>1 DEF ReleaseOne
  <2>2. CASE pending[t] # {b}
    BY <1>11, <2>2 DEF ReleaseOne
  <2>3. QED
    BY <2>1, <2>2
<1>12. CASE UNCHANGED vars
  BY <1>12 DEF vars
<1>13. QED
  BY <1>1, <1>2, <1>3, <1>4, <1>5, <1>6, <1>7, <1>8, <1>9, <1>10, <1>11, <1>12
  DEF Next

\* Steps that change neither the table nor who is registered: entering a
\* call, sleeping, waking, hanging, and the start of release().
LEMMA QuietSteps ==
    ASSUME LockInv, NEW t \in Tx, NEW b \in Blk, UNCHANGED <<tbl, locks>>,
           \/ \E c \in Blk : s_lock(t, c) \/ x_lock(t, c)
           \/ x_lock_hangs(t) \/ SRefuse(t) \/ Wake(t) \/ Expire(t)
           \/ release(t)
           \/ XRefuse(t) /\ Sleep(t, "x_sleep")
    PROVE  Kept(b)
<1> TypeOK /\ CallOK /\ (Exclusive(b) \/ Counted(b))
  BY DEF LockInv
<1> SUFFICES Steady(Tx, b)
  BY Undisturbed
<1> USE DEF Steady, HoldsX, Holds, Reg, TypeOK, CallOK, Locking, SPhase, XPhase,
            Asleep
<1>1. ASSUME NEW c \in Blk, s_lock(t, c)
      PROVE  Steady(Tx, b)
  BY <1>1 DEF s_lock, Enter
<1>2. ASSUME NEW c \in Blk, x_lock(t, c)
      PROVE  Steady(Tx, b)
  BY <1>2 DEF x_lock, Enter
<1>3. CASE x_lock_hangs(t)
  BY <1>3 DEF x_lock_hangs
<1>4. CASE SRefuse(t)
  BY <1>4 DEF SRefuse, Sleep, Abort, Return
<1>5. CASE Wake(t)
  BY <1>5 DEF Wake
<1>6. CASE Expire(t)
  BY <1>6 DEF Expire
<1>7. CASE release(t)
  BY <1>7 DEF release
<1>8. CASE XRefuse(t) /\ Sleep(t, "x_sleep")
  BY <1>8 DEF XRefuse, Sleep
<1>9. QED
  BY <1>1, <1>2, <1>3, <1>4, <1>5, <1>6, <1>7, <1>8

\* A shared grant adds one transaction to the count and to the registered.
LEMMA SGrantCounts ==
    ASSUME LockInv, NEW t \in Tx, NEW b \in Blk, SGrant(t)
    PROVE  Kept(b)
<1> TypeOK /\ CallOK /\ (Exclusive(b) \/ Counted(b))
  BY DEF LockInv
<1> USE DEF Steady, TypeOK, CallOK, Locking, SPhase, XPhase, Asleep
<1>1. /\ pc[t] = "s_check" /\ req[t] \in Blk /\ locks[t][req[t]] = "none"
      /\ tbl[req[t]] \in Nat /\ tbl' = [tbl EXCEPT ![req[t]] = @ + 1]
      /\ ~Reg(t, req[t])
  BY DEF SGrant, has_x_lock, Reg, Holds
<1>2. /\ Steady(Tx \ {t}, b)
      /\ (HoldsX(t, b)' <=> HoldsX(t, b))
      /\ (Reg(t, b)' <=> (Reg(t, b) \/ b = req[t]))
  <2>1. CASE want[t] = "S"
    <3>1. /\ Return(t) /\ UNCHANGED pending
          /\ locks' = [locks EXCEPT ![t][req[t]] = "S"]
      BY <2>1 DEF SGrant
    <3>2. QED
      BY <1>1, <3>1 DEF Return, HoldsX, Holds, Reg
  <2>2. CASE want[t] # "S"
    <3>1. Enter(t, req[t], "x_check", "X") /\ UNCHANGED <<locks, pending>>
      BY <2>2 DEF SGrant
    <3>2. QED
      BY <1>1, <3>1 DEF Enter, HoldsX, Holds, Reg
  <2>3. QED
    BY <2>1, <2>2
<1>3. CASE b # req[t]
  BY <1>1, <1>2, <1>3, Undisturbed
<1>4. CASE b = req[t]
  <2>1. Counted(b)
    BY <1>1, <1>4 DEF Exclusive
  <2>2. Registered(b)' = Registered(b) \cup {t}
    BY <1>2, <1>4 DEF Registered, Reg
  <2>3. t \notin Registered(b)
    BY <1>1, <1>4 DEF Registered, Reg
  <2>4. Cardinality(Registered(b)') = Cardinality(Registered(b)) + 1
    BY <2>2, <2>3, RegisteredIsReg, FS_AddElement
  <2>5. /\ tbl'[b] >= Cardinality(Registered(b)')
        /\ Orphaned(b) => Orphaned(b)'
    BY <1>1, <1>4, <2>1, <2>4, RegisteredIsReg DEF Counted, Orphaned
  <2>6. QED
    BY <1>2, <2>1, <2>5 DEF Counted, Kept
<1>5. QED
  BY <1>3, <1>4

\* An upgrade is granted only to the one registered transaction.
LEMMA XGrantIsAlone ==
    ASSUME LockInv, NEW t \in Tx, XGrant(t)
    PROVE  Registered(req[t]) = {t} /\ \A u \in Tx : ~HoldsX(u, req[t])
<1> DEFINE b == req[t]
<1> TypeOK /\ CallOK
  BY DEF LockInv
<1>1. /\ b \in Blk /\ pc[t] = "x_check" /\ locks[t][b] # "X"
      /\ tbl[b] <= 1 /\ tbl[b] \in Nat \cup {-1}
  BY DEF XGrant, has_s_locks, TypeOK, CallOK, Locking, SPhase, XPhase
<1>2. t \in Registered(b)
  BY <1>1 DEF Registered, XPhase
<1>3. Counted(b)
  <2>1. SUFFICES ASSUME Exclusive(b) PROVE FALSE
    BY <1>1 DEF LockInv
  <2>2. HoldsX(t, b)
    BY <1>2, <2>1 DEF Exclusive
  <2>3. QED
    BY <1>1, <2>2 DEF HoldsX
<1>4. Cardinality(Registered(b) \ {t}) = Cardinality(Registered(b)) - 1
  BY <1>2, RegisteredIsReg, FS_RemoveElement
<1>5. /\ IsFiniteSet(Registered(b) \ {t})
      /\ Cardinality(Registered(b) \ {t}) \in Nat
  BY RegisteredIsReg, FS_Subset, FS_CardinalityType
<1>6. Cardinality(Registered(b) \ {t}) = 0
  BY <1>1, <1>3, <1>4, <1>5, RegisteredIsReg DEF Counted
<1>7. Registered(b) \ {t} = {}
  BY <1>5, <1>6, FS_EmptySet
<1>8. QED
  BY <1>2, <1>3, <1>7 DEF Counted

LEMMA XGrantCounts ==
    ASSUME LockInv, NEW t \in Tx, NEW b \in Blk, XGrant(t)
    PROVE  Kept(b)
<1> TypeOK /\ CallOK /\ (Exclusive(b) \/ Counted(b))
  BY DEF LockInv
<1> USE DEF Steady, TypeOK, CallOK, Locking, SPhase, XPhase, Asleep
<1>1. /\ pc[t] = "x_check" /\ req[t] \in Blk
      /\ tbl' = [tbl EXCEPT ![req[t]] = -1]
      /\ locks' = [locks EXCEPT ![t][req[t]] = "X"]
      /\ Return(t) /\ UNCHANGED pending
  BY DEF XGrant
<1>2. CASE b # req[t]
  <2>1. Steady(Tx, b)
    BY <1>1, <1>2 DEF Return, HoldsX, Holds, Reg
  <2>2. QED
    BY <1>1, <1>2, <2>1, Undisturbed
<1>3. CASE b = req[t]
  <2>1. Registered(b) = {t}
    BY <1>3, XGrantIsAlone
  <2>2. \A u \in Tx : Reg(u, b)' <=> Reg(u, b)
    BY <1>1, <1>3 DEF Return, Holds, Reg
  <2>3. Registered(b)' = {t}
    BY <2>1, <2>2 DEF Registered, Reg
  <2>4. HoldsX(t, b)'
    BY <1>1, <1>3 DEF Return, HoldsX, Holds
  <2>5. ~Orphaned(b)
    <3>1. Cardinality(Registered(b)) = 1
      BY <2>1, FS_Singleton
    <3>2. QED
      BY <1>3, <3>1 DEF XGrant, has_s_locks, Orphaned
  <2>6. QED
    BY <1>1, <1>3, <2>3, <2>4, <2>5 DEF Exclusive, Kept
<1>4. QED
  BY <1>2, <1>3

\* An upgrade given up: its share stays counted, registered or not.
LEMMA XAbortCounts ==
    ASSUME LockInv, NEW t \in Tx, NEW b \in Blk, XRefuse(t), Abort(t)
    PROVE  Kept(b)
<1> TypeOK /\ CallOK /\ (Exclusive(b) \/ Counted(b))
  BY DEF LockInv
<1> USE DEF Steady, TypeOK, CallOK, Locking, SPhase, XPhase, Asleep
<1>1. /\ pc[t] = "x_check" /\ req[t] \in Blk /\ tbl[req[t]] > 1
      /\ Return(t) /\ UNCHANGED <<tbl, locks, pending>>
  BY DEF XRefuse, Abort, has_s_locks
<1>2. \A u \in Tx : HoldsX(u, b)' <=> HoldsX(u, b)
  BY <1>1 DEF Return, HoldsX, Holds
<1>3. CASE b # req[t]
  <2>1. \A u \in Tx : Reg(u, b)' <=> Reg(u, b)
    BY <1>1, <1>3 DEF Return, Holds, Reg
  <2>2. QED
    BY <1>1, <1>2, <2>1, Undisturbed
<1>4. CASE b = req[t]
  <2>1. Counted(b)
    BY <1>1, <1>4 DEF Exclusive
  <2>2. \A u \in Tx : Reg(u, b)' => Reg(u, b)
    BY <1>1 DEF Return, Holds, Reg
  <2>3. Registered(b)' \subseteq Registered(b)
    BY <2>2 DEF Registered, Reg
  <2>4. /\ Cardinality(Registered(b)') <= Cardinality(Registered(b))
        /\ Cardinality(Registered(b)') \in Nat
    BY <2>3, RegisteredIsReg, FS_Subset, FS_CardinalityType
  <2>5. /\ tbl'[b] >= Cardinality(Registered(b)')
        /\ Orphaned(b) => Orphaned(b)'
    BY <1>1, <1>4, <2>1, <2>4, RegisteredIsReg DEF Counted, Orphaned
  <2>6. QED
    BY <1>2, <2>1, <2>5 DEF Counted, Kept
<1>5. QED
  BY <1>3, <1>4

\* One unlock takes the unlocking transaction off the count, or removes the
\* entry, which no other transaction is registered in.
LEMMA ReleaseOneCounts ==
    ASSUME LockInv, NEW t \in Tx, NEW b \in Blk, NEW c \in Blk, ReleaseOne(t, c)
    PROVE  Kept(b)
<1> TypeOK /\ CallOK /\ PendingOK /\ (Exclusive(b) \/ Counted(b))
  BY DEF LockInv
<1> USE DEF Steady, TypeOK, CallOK, PendingOK, Locking, SPhase, XPhase, Asleep
<1>1. /\ pc[t] = "release" /\ c \in pending[t] /\ locks[t][c] # "none"
      /\ pending' = [pending EXCEPT ![t] = @ \ {c}]
      /\ UNCHANGED req
  BY DEF ReleaseOne
<1>2. /\ Steady(Tx \ {t}, b)
      /\ (HoldsX(t, b)' <=> (HoldsX(t, b) /\ b # c))
      /\ (Reg(t, b)' <=> (Reg(t, b) /\ b # c))
  <2>1. CASE pending[t] = {c}
    <3>1. /\ locks' = [locks EXCEPT ![t] = [d \in Blk |-> "none"]]
          /\ pc' = [pc EXCEPT ![t] = "idle"]
      BY <2>1 DEF ReleaseOne
    <3>2. QED
      BY <1>1, <2>1, <3>1 DEF HoldsX, Holds, Reg
  <2>2. CASE pending[t] # {c}
    <3>1. UNCHANGED <<locks, pc>>
      BY <2>2 DEF ReleaseOne
    <3>2. QED
      BY <1>1, <3>1 DEF HoldsX, Holds, Reg
  <2>3. QED
    BY <2>1, <2>2
<1>3. tbl' = [tbl EXCEPT ![c] = IF tbl[c] > 1 THEN @ - 1 ELSE 0]
  BY DEF ReleaseOne, unlock
<1>4. CASE b # c
  BY <1>2, <1>3, <1>4, Undisturbed
<1>5. CASE b = c
  <2>1. t \in Registered(b)
    BY <1>1, <1>5 DEF Registered, Holds
  <2>2. Registered(b)' = Registered(b) \ {t}
    BY <1>2, <1>5 DEF Registered, Reg
  <2>3. \A u \in Tx : ~HoldsX(u, b)'
    <3>1. \A u \in Tx \ {t} : ~HoldsX(u, b)
      BY <2>1 DEF Exclusive, Counted, Registered, HoldsX
    <3>2. QED
      BY <1>2, <1>5, <3>1
  <2>4. /\ Cardinality(Registered(b)') = Cardinality(Registered(b)) - 1
        /\ Cardinality(Registered(b)') \in Nat
    BY <2>1, <2>2, RegisteredIsReg, FS_RemoveElement, FS_CardinalityType
  <2>5. CASE Counted(b)
    <3>1. /\ tbl'[b] >= Cardinality(Registered(b)')
          /\ Orphaned(b) => Orphaned(b)'
      BY <1>3, <1>5, <2>4, <2>5, RegisteredIsReg DEF Counted, Orphaned
    <3>2. QED
      BY <2>3, <3>1 DEF Counted, Kept
  <2>6. CASE Exclusive(b)
    <3>1. Registered(b) = {t} /\ tbl'[b] = 0
      BY <1>3, <1>5, <2>1, <2>6 DEF Exclusive
    <3>2. Cardinality(Registered(b)') = 0
      BY <2>2, <3>1, FS_EmptySet
    <3>3. ~Orphaned(b)
      <4>1. Cardinality(Registered(b)) = 1
        BY <3>1, FS_Singleton
      <4>2. QED
        BY <2>6, <4>1 DEF Exclusive, Orphaned
    <3>4. QED
      BY <2>3, <3>1, <3>2, <3>3 DEF Counted, Kept
  <2>7. QED
    BY <2>5, <2>6
<1>6. QED
  BY <1>4, <1>5

LEMMA NextLockInv ==
    LockInv /\ [Next]_vars => LockInv' /\ \A b \in Blk : Kept(b)
<1> SUFFICES ASSUME LockInv, [Next]_vars
             PROVE  LockInv' /\ \A b \in Blk : Kept(b)
  OBVIOUS
<1>1. TypeOK' /\ CallOK' /\ PendingOK'
  BY NextTypeOK, NextCallOK DEF LockInv
<1>2. ASSUME NEW b \in Blk PROVE Kept(b)
  <2>1. ASSUME NEW t \in Tx, NEW c \in Blk, s_lock(t, c) \/ x_lock(t, c)
        PROVE  Kept(b)
    <3>1. UNCHANGED <<tbl, locks>>
      BY <2>1 DEF s_lock, x_lock
    <3>2. QED
      BY <2>1, <3>1, QuietSteps
  <2>2. ASSUME NEW t \in Tx, x_lock_hangs(t) \/ SRefuse(t) \/ Wake(t)
                                \/ Expire(t) \/ release(t)
        PROVE  Kept(b)
    <3>1. UNCHANGED <<tbl, locks>>
      BY <2>2
      DEF x_lock_hangs, SRefuse, Sleep, Abort, Wake, Expire, release
    <3>2. QED
      BY <2>2, <3>1, QuietSteps
  <2>3. ASSUME NEW t \in Tx, XRefuse(t) PROVE Kept(b)
    <3>1. CASE Sleep(t, "x_sleep")
      <4>1. UNCHANGED <<tbl, locks>>
        BY <3>1 DEF Sleep
      <4>2. QED
        BY <2>3, <3>1, <4>1, QuietSteps
    <3>2. CASE Abort(t)
      BY <2>3, <3>2, XAbortCounts
    <3>3. QED
      BY <2>3, <3>1, <3>2 DEF XRefuse
  <2>4. ASSUME NEW t \in Tx, SGrant(t) \/ XGrant(t)
        PROVE  Kept(b)
    BY <2>4, SGrantCounts, XGrantCounts
  <2>5. ASSUME NEW t \in Tx, NEW c \in Blk, ReleaseOne(t, c)
        PROVE  Kept(b)
    BY <2>5, ReleaseOneCounts
  <2>6. CASE UNCHANGED vars
    <3>1. tbl'[b] = tbl[b] /\ Steady(Tx, b)
      BY <2>6 DEF vars, Steady, HoldsX, Holds, Reg
    <3>2. QED
      BY <3>1, Undisturbed DEF LockInv
  <2>7. QED
    BY <2>1, <2>2, <2>3, <2>4, <2>5, <2>6 DEF Next
<1>3. QED
  BY <1>1, <1>2 DEF LockInv, Kept

LEMMA LockInvHolds == Spec => []LockInv
<1>1. QED
  BY InitLockInv, NextLockInv, PTL DEF Spec

-----------------------------------------------------------------------------
(* What the invariant gives.                                               *)

LEMMA InvExcludes == LockInv => MutualExclusion
<1> SUFFICES ASSUME LockInv, NEW t \in Tx, NEW u \in Tx, NEW b \in Blk,
                    HoldsX(t, b), Holds(u, b)
             PROVE  t = u
  BY DEF MutualExclusion
<1>1. Exclusive(b)
  BY DEF LockInv, Counted
<1>2. t \in Registered(b) /\ u \in Registered(b)
  BY DEF Registered, HoldsX
<1>3. QED
  BY <1>1, <1>2 DEF Exclusive

\* No transaction relies on a lock on a block that another one holds
\* exclusively, whatever was aborted, timed out or half released before.
THEOREM ExclusiveLocksExclude == Spec => []MutualExclusion
<1>1. QED
  BY LockInvHolds, InvExcludes, PTL

\* The counts in lock_table agree with the maps of all concurrency_mgrs.
THEOREM TableAgreesWithManagers == Spec => []TableMatchesHolders
<1>1. LockInv => TableMatchesHolders
  <2> SUFFICES ASSUME LockInv, NEW b \in Blk
               PROVE  IF \E t \in Tx : HoldsX(t, b)
                        THEN Exclusive(b)
                        ELSE tbl[b] >= Cardinality(Registered(b))
    BY DEF TableMatchesHolders, Exclusive
  <2>1. QED
    BY DEF LockInv, Exclusive, Counted
<1>2. QED
  BY <1>1, LockInvHolds, PTL

\* A block one of whose shares was lost in an aborted upgrade is never again
\* locked exclusively: no step brings the count down to its registered.
THEOREM OrphanedShareIsForever == Spec => OrphanedShareStays
<1>1. LockInv /\ [Next]_vars =>
        [\A b \in Blk : Orphaned(b) =>
            Orphaned(b)' /\ \A t \in Tx : ~HoldsX(t, b)']_vars
  <2> SUFFICES ASSUME LockInv, [Next]_vars, NEW b \in Blk, Orphaned(b)
               PROVE  Orphaned(b)' /\ \A t \in Tx : ~HoldsX(t, b)'
    OBVIOUS
  <2>1. Orphaned(b)' /\ LockInv'
    BY NextLockInv DEF Kept
  <2>2. ~Exclusive(b)'
    BY <2>1, FS_Singleton DEF Exclusive, Orphaned
  <2>3. QED
    BY <2>1, <2>2 DEF LockInv, Counted
<1>2. QED
  BY <1>1, LockInvHolds, PTL DEF Spec, OrphanedShareStays

\* A shared request that sleeps while its block is free has been notified.
THEOREM SharedWakeupIsNotLost == Spec => []NoLostWakeupShared
<1>1. Init => NoLostWakeupShared
  BY DEF Init, NoLostWakeupShared
<1>2. TypeOK /\ NoLostWakeupShared /\ [Next]_vars => NoLostWakeupShared'
  <2> SUFFICES ASSUME TypeOK, NoLostWakeupShared, [Next]_vars
               PROVE  NoLostWakeupShared'
    OBVIOUS
  <2> USE DEF TypeOK, NoLostWakeupShared, has_x_lock, Asleep, Locking, SPhase,
              XPhase
  <2>1. ASSUME NEW t \in Tx, NEW b \in Blk, s_lock(t, b) \/ x_lock(t, b)
        PROVE  NoLostWakeupShared'
    BY <2>1 DEF s_lock, x_lock, Enter
  <2>2. ASSUME NEW t \in Tx,
               x_lock_hangs(t) \/ Wake(t) \/ Expire(t) \/ release(t)
        PROVE  NoLostWakeupShared'
    BY <2>2 DEF x_lock_hangs, Wake, Expire, release
  <2>3. ASSUME NEW t \in Tx, SRefuse(t) \/ XRefuse(t) PROVE NoLostWakeupShared'
    BY <2>3 DEF SRefuse, XRefuse, Sleep, Abort, Return
  <2>4. ASSUME NEW t \in Tx, SGrant(t) PROVE NoLostWakeupShared'
    BY <2>4 DEF SGrant, Return, Enter
  <2>5. ASSUME NEW t \in Tx, XGrant(t) PROVE NoLostWakeupShared'
    BY <2>5 DEF XGrant, Return
  <2>6. ASSUME NEW t \in Tx, NEW b \in Blk, ReleaseOne(t, b)
        PROVE  NoLostWakeupShared'
    <3>1. /\ unlock(b) /\ UNCHANGED req
          /\ pc' = pc \/ pc' = [pc EXCEPT ![t] = "idle"]
      BY <2>6 DEF ReleaseOne
    <3>2. CASE tbl[b] > 1
      BY <3>1, <3>2, SMTT(60) DEF unlock
    <3>3. CASE ~(tbl[b] > 1)
      <4>1. \A u \in Tx : pc'[u] = "s_sleep" => notified'[u]
        <5>1. notified' = [u \in Tx |-> notified[u] \/ pc[u] \in Asleep]
          BY <3>1, <3>3 DEF unlock, Wakened
        <5>2. \A u \in Tx : pc'[u] = "s_sleep" => pc[u] = "s_sleep"
          BY <3>1
        <5>3. QED
          BY <5>1, <5>2, Zenon DEF Asleep
      <4>2. QED
        BY <4>1
    <3>4. QED
      BY <3>2, <3>3
  <2>7. CASE UNCHANGED vars
    BY <2>7 DEF vars
  <2>8. QED
    BY <2>1, <2>2, <2>3, <2>4, <2>5, <2>6, <2>7 DEF Next
<1>3. QED
  BY <1>1, <1>2, TypeCorrect, PTL DEF Spec

\* The unlocks an upgrade waits for never notify it.
THEOREM UpgradeWaitsForItsTimer == Spec => UpgradeIsNotNotified
<1>1. LockInv /\ [Next]_vars =>
        [\A t \in Tx : pc[t] = "x_sleep" /\ tbl'[req[t]] # tbl[req[t]]
                        => notified'[t] = notified[t]]_vars
  <2> SUFFICES ASSUME LockInv, [Next]_vars, NEW t \in Tx, pc[t] = "x_sleep",
                      tbl'[req[t]] # tbl[req[t]]
               PROVE  notified'[t] = notified[t]
    OBVIOUS
  <2>1. TypeOK /\ req[t] \in Blk /\ t \in Registered(req[t])
    BY DEF LockInv, TypeOK, Locking, XPhase, Registered
  <2>2. ASSUME NEW u \in Tx, SGrant(u) \/ XGrant(u)
        PROVE  notified'[t] = notified[t]
    BY <2>2 DEF SGrant, XGrant
  <2>3. ASSUME NEW u \in Tx, NEW b \in Blk, ReleaseOne(u, b)
        PROVE  notified'[t] = notified[t]
    <3>1. unlock(b) /\ pc[u] = "release" /\ b \in pending[u] /\ u # t
      BY <2>3 DEF ReleaseOne
    <3>2. b = req[t]
      BY <2>1, <3>1 DEF unlock, TypeOK
    <3>3. u \in Registered(b)
      BY <3>1 DEF LockInv, PendingOK, Registered, Holds
    <3>4. Counted(b)
      BY <2>1, <3>1, <3>2, <3>3 DEF LockInv, Exclusive
    <3>5. /\ Cardinality(Registered(b)) # 0
          /\ Cardinality(Registered(b)) # 1
      BY <2>1, <3>1, <3>2, <3>3, RegisteredIsReg, FS_EmptySet, FS_Singleton
    <3>6. tbl[b] > 1
      <4>1. Cardinality(Registered(b)) \in Nat
        BY RegisteredIsReg
      <4>2. tbl[b] \in Nat \cup {-1} /\ tbl[b] >= Cardinality(Registered(b))
        BY <2>1, <3>4 DEF Counted, TypeOK
      <4>3. QED
        BY <3>5, <4>1, <4>2
    <3>7. QED
      BY <3>1, <3>6 DEF unlock
  <2>4. QED
    BY <2>2, <2>3
    DEF Next, s_lock, x_lock, x_lock_hangs, SRefuse, XRefuse, Sleep, Abort,
        Wake, Expire, release, vars
<1>2. QED
  BY <1>1, LockInvHolds, PTL DEF Spec, UpgradeIsNotNotified

-----------------------------------------------------------------------------
(* Refinement of AbstractLocks.  Of the steps that matter, a grant that is *)
(* recorded is a Share or an Exclude, the start of release() is a Shrink   *)
(* and each of its unlocks a Drop; the rest stutters.                      *)

\* The abstract state, as LockTable maps it.
HeldLock(t, b) == IF Holds(t, b) THEN locks[t][b] ELSE "none"
AbsHeld == [t \in Tx |-> [b \in Blk |-> HeldLock(t, b)]]
AbsShrinking == {t \in Tx : pc[t] = "release"}

LEMMA AbsUnchanged ==
    ASSUME \A t \in Tx, b \in Blk : (Holds(t, b)' <=> Holds(t, b))
                                   /\ locks'[t][b] = locks[t][b],
           \A t \in Tx : pc'[t] = "release" <=> pc[t] = "release"
    PROVE  UNCHANGED Abs!avars
<1>1. AbsHeld' = AbsHeld
  BY DEF AbsHeld, HeldLock
<1>2. AbsShrinking' = AbsShrinking
  BY DEF AbsShrinking
<1>3. QED
  BY <1>1, <1>2 DEF AbsHeld, HeldLock, AbsShrinking, Abs!avars

LEMMA AbsOneChange ==
    ASSUME NEW t \in Tx, NEW b \in Blk, NEW v,
           HeldLock(t, b)' = v,
           \A u \in Tx, c \in Blk :
               u # t \/ c # b => HeldLock(u, c)' = HeldLock(u, c)
    PROVE  AbsHeld' = [AbsHeld EXCEPT ![t][b] = v]
BY DEF AbsHeld

\* Every step of the table and the managers is a step of the abstract locks.
LEMMA NextAbs == LockInv /\ [Next]_vars => [Abs!ANext]_Abs!avars
<1> SUFFICES ASSUME LockInv, [Next]_vars PROVE Abs!ANext \/ UNCHANGED Abs!avars
  OBVIOUS
<1> TypeOK /\ CallOK /\ PendingOK
  BY DEF LockInv
<1> USE DEF TypeOK, CallOK, PendingOK, Locking, SPhase, XPhase, Asleep
<1>1. ASSUME NEW t \in Tx, NEW b \in Blk, s_lock(t, b) \/ x_lock(t, b)
      PROVE  UNCHANGED Abs!avars
  BY <1>1, AbsUnchanged DEF s_lock, x_lock, Enter, Holds
<1>2. ASSUME NEW t \in Tx, x_lock_hangs(t) \/ Wake(t) \/ Expire(t)
      PROVE  UNCHANGED Abs!avars
  BY <1>2, AbsUnchanged DEF x_lock_hangs, Wake, Expire, Holds
<1>3. ASSUME NEW t \in Tx, SRefuse(t) \/ XRefuse(t) PROVE UNCHANGED Abs!avars
  BY <1>3, AbsUnchanged DEF SRefuse, XRefuse, Sleep, Abort, Return, Holds
<1>4. ASSUME NEW t \in Tx, SGrant(t) PROVE Abs!ANext \/ UNCHANGED Abs!avars
  <2>1. CASE want[t] = "S"
    <3>1. PICK b \in Blk : b = req[t]
      BY <1>4 DEF SGrant
    <3>2. /\ Return(t) /\ UNCHANGED pending
          /\ locks' = [locks EXCEPT ![t][b] = "S"]
          /\ pc[t] = "s_check" /\ tbl[b] \in Nat
      BY <1>4, <2>1, <3>1 DEF SGrant, has_x_lock
    <3>3. Counted(b)
      BY <3>2 DEF LockInv, Exclusive
    <3>4. HeldLock(t, b)' = "S"
      BY <3>2 DEF HeldLock, Holds, Return
    <3>5. ASSUME NEW u \in Tx, NEW c \in Blk, u # t \/ c # b
          PROVE  HeldLock(u, c)' = HeldLock(u, c)
      BY <3>2, <3>5 DEF HeldLock, Holds, Return
    <3>6. AbsHeld' = [AbsHeld EXCEPT ![t][b] = "S"]
      BY <3>4, <3>5, AbsOneChange
    <3>7. AbsShrinking' = AbsShrinking /\ t \notin AbsShrinking
      BY <3>2 DEF AbsShrinking, Return
    <3>8. AbsHeld[t][b] = "none" /\ \A u \in Tx : AbsHeld[u][b] # "X"
      BY <3>1, <3>2, <3>3 DEF AbsHeld, HeldLock, Counted, HoldsX
    <3>9. Abs!Share(t, b)
      BY <3>6, <3>7, <3>8 DEF Abs!Share, AbsHeld, HeldLock, AbsShrinking
    <3>10. QED
      BY <3>9 DEF Abs!ANext
  <2>2. CASE want[t] # "S"
    <3>1. /\ Enter(t, req[t], "x_check", "X") /\ UNCHANGED <<locks, pending>>
          /\ pc[t] = "s_check"
      BY <1>4, <2>2 DEF SGrant
    <3>2. QED
      BY <3>1, AbsUnchanged DEF Enter, Holds
  <2>3. QED
    BY <2>1, <2>2
<1>5. ASSUME NEW t \in Tx, XGrant(t) PROVE Abs!ANext
  <2>1. PICK b \in Blk : b = req[t]
    BY <1>5 DEF XGrant
  <2>2. /\ Return(t) /\ UNCHANGED pending
        /\ locks' = [locks EXCEPT ![t][b] = "X"]
        /\ pc[t] = "x_check"
    BY <1>5, <2>1 DEF XGrant
  <2>3. Registered(b) = {t}
    BY <1>5, <2>1, XGrantIsAlone
  <2>4. HeldLock(t, b)' = "X"
    BY <2>2 DEF HeldLock, Holds, Return
  <2>5. ASSUME NEW u \in Tx, NEW c \in Blk, u # t \/ c # b
        PROVE  HeldLock(u, c)' = HeldLock(u, c)
    BY <2>2, <2>5 DEF HeldLock, Holds, Return
  <2>6. AbsHeld' = [AbsHeld EXCEPT ![t][b] = "X"]
    BY <2>4, <2>5, AbsOneChange
  <2>7. AbsShrinking' = AbsShrinking /\ t \notin AbsShrinking
    BY <2>2 DEF AbsShrinking, Return
  <2>8. /\ AbsHeld[t][b] # "X"
        /\ \A u \in Tx \ {t} : AbsHeld[u][b] = "none"
    BY <2>1, <2>2, <2>3 DEF AbsHeld, HeldLock, Registered
  <2>9. Abs!Exclude(t, b)
    BY <2>6, <2>7, <2>8 DEF Abs!Exclude, AbsHeld, HeldLock, AbsShrinking
  <2>10. QED
    BY <2>9 DEF Abs!ANext
<1>6. ASSUME NEW t \in Tx, release(t) PROVE Abs!ANext
  <2>1. AbsHeld' = AbsHeld
    BY <1>6 DEF AbsHeld, HeldLock, Holds, release
  <2>2. AbsShrinking' = AbsShrinking \cup {t} /\ t \notin AbsShrinking
    BY <1>6 DEF AbsShrinking, release
  <2>3. Abs!Shrink(t)
    BY <2>1, <2>2 DEF Abs!Shrink, AbsHeld, HeldLock, AbsShrinking
  <2>4. QED
    BY <2>3 DEF Abs!ANext
<1>7. ASSUME NEW t \in Tx, NEW b \in Blk, ReleaseOne(t, b) PROVE Abs!ANext
  <2>1. /\ pc[t] = "release" /\ b \in pending[t] /\ locks[t][b] # "none"
        /\ pending' = [pending EXCEPT ![t] = @ \ {b}]
    BY <1>7 DEF ReleaseOne
  <2>2. t \in AbsShrinking /\ AbsHeld[t][b] # "none"
    BY <2>1 DEF AbsShrinking, AbsHeld, HeldLock, Holds
  <2>3. /\ AbsHeld' = [AbsHeld EXCEPT ![t][b] = "none"]
        /\ AbsShrinking' = IF pending[t] = {b} THEN AbsShrinking \ {t}
                                               ELSE AbsShrinking
    <3>1. CASE pending[t] = {b}
      <4>1. /\ locks' = [locks EXCEPT ![t] = [c \in Blk |-> "none"]]
            /\ pc' = [pc EXCEPT ![t] = "idle"]
        BY <1>7, <3>1 DEF ReleaseOne
      <4>2. AbsHeld' = [AbsHeld EXCEPT ![t][b] = "none"]
        <5>1. HeldLock(t, b)' = "none"
          BY <2>1, <4>1 DEF HeldLock, Holds
        <5>2. ASSUME NEW u \in Tx, NEW c \in Blk, u # t \/ c # b
              PROVE  HeldLock(u, c)' = HeldLock(u, c)
          BY <2>1, <3>1, <4>1, <5>2 DEF HeldLock, Holds
        <5>3. QED
          BY <5>1, <5>2, AbsOneChange
      <4>3. QED
        BY <2>1, <3>1, <4>1, <4>2 DEF AbsShrinking
    <3>2. CASE pending[t] # {b}
      <4>1. UNCHANGED <<locks, pc>>
        BY <1>7, <3>2 DEF ReleaseOne
      <4>2. AbsHeld' = [AbsHeld EXCEPT ![t][b] = "none"]
        <5>1. HeldLock(t, b)' = "none"
          BY <2>1, <4>1 DEF HeldLock, Holds
        <5>2. ASSUME NEW u \in Tx, NEW c \in Blk, u # t \/ c # b
              PROVE  HeldLock(u, c)' = HeldLock(u, c)
          BY <2>1, <4>1, <5>2 DEF HeldLock, Holds
        <5>3. QED
          BY <5>1, <5>2, AbsOneChange
      <4>3. QED
        BY <2>1, <3>2, <4>1, <4>2 DEF AbsShrinking
    <3>3. QED
      BY <3>1, <3>2
  <2>4. (\A c \in Blk \ {b} : AbsHeld[t][c] = "none") <=> pending[t] = {b}
    BY <2>1 DEF AbsHeld, HeldLock, Holds
  <2>5. Abs!Drop(t, b)
    BY <2>2, <2>3, <2>4 DEF Abs!Drop, AbsHeld, HeldLock, AbsShrinking
  <2>6. QED
    BY <2>5 DEF Abs!ANext
<1>8. CASE UNCHANGED vars
  BY <1>8, AbsUnchanged DEF vars, Holds
<1>9. QED
  BY <1>1, <1>2, <1>3, <1>4, <1>5, <1>6, <1>7, <1>8 DEF Next

\* lock_table with one concurrency_mgr per transaction is two-phase locking.
THEOREM LocksAreTwoPhase == Spec => TwoPhaseLocking
<1>1. Init => Abs!AInit
  BY DEF Init, Abs!AInit, Holds
<1>2. QED
  BY <1>1, NextAbs, LockInvHolds, PTL DEF Spec, TwoPhaseLocking, Abs!ASpec
=============================================================================
