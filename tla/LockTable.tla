------------------------------ MODULE LockTable ------------------------------
(***************************************************************************)
(* Block locking of a transaction: lock_table (one object, shared by all   *)
(* transactions, guarded by its own mutex) and concurrency_mgr (one per    *)
(* transaction, remembers which locks the transaction took).               *)
(*                                                                         *)
(* A transaction is driven by one thread.  A step of this module is one    *)
(* critical section of lock_table::mtx, or a step that only touches the    *)
(* thread's own state, merged with the private bookkeeping next to it.     *)
(***************************************************************************)
EXTENDS Integers, FiniteSets

CONSTANTS
    Tx,              \* transactions, each with a concurrency_mgr of its own
    Blk,             \* block identifiers
    NoBlk,           \* the request of a transaction that asks for nothing
    RelockOutcomes,  \* what locking a std::mutex one already holds may do
    MaxShared        \* bound: x_lock is asked only while a count is below it

(***************************************************************************)
(* concurrency_mgr::x_lock holds mtx when it calls has_x_lock, which locks *)
(* mtx again: undefined behaviour.  The thread hangs for ever (a pthread   *)
(* mutex) or goes on (a libstdc++ build in which thread support is         *)
(* inactive and a lock is a no-op).                                        *)
(***************************************************************************)
ASSUME LockAssumption ==
    /\ IsFiniteSet(Tx)
    /\ NoBlk \notin Blk
    /\ RelockOutcomes \subseteq {"hang", "proceed"}
    /\ MaxShared \in Nat

VARIABLES
    tbl,       \* lock_table::locks; 0 is "no entry", -1 exclusive, n>0 shared
    locks,     \* concurrency_mgr::locks of each transaction; "none" is no entry
    pc,        \* where the thread of each transaction is
    req,       \* the block the transaction is locking
    want,      \* "S" or "X": which of concurrency_mgr's calls is running
    expired,   \* timeout_expired(start) for the call that is running
    notified,  \* a notify_all reached the sleeping thread
    pending    \* blocks that release() has still to unlock

vars == <<tbl, locks, pc, req, want, expired, notified, pending>>

SPhase == {"s_check", "s_sleep"}
XPhase == {"x_check", "x_sleep"}
Asleep == {"s_sleep", "x_sleep"}
Locking == SPhase \cup XPhase

TypeOK ==
    /\ tbl \in [Blk -> Nat \cup {-1}]
    /\ locks \in [Tx -> [Blk -> {"none", "S", "X"}]]
    /\ pc \in [Tx -> {"idle", "hung", "release"} \cup Locking]
    /\ req \in [Tx -> Blk \cup {NoBlk}]
    /\ want \in [Tx -> {"S", "X"}]
    /\ expired \in [Tx -> BOOLEAN]
    /\ notified \in [Tx -> BOOLEAN]
    /\ pending \in [Tx -> SUBSET Blk]
    /\ \A t \in Tx : pc[t] \in Locking => req[t] \in Blk

has_x_lock(b) == tbl[b] < 0

\* Mutant: another share is overlooked.
has_s_locks_beyond_two(b) == tbl[b] > 2

has_s_locks(b) == tbl[b] > 1

Init ==
    /\ tbl = [b \in Blk |-> 0]
    /\ locks = [t \in Tx |-> [b \in Blk |-> "none"]]
    /\ pc = [t \in Tx |-> "idle"]
    /\ req = [t \in Tx |-> NoBlk]
    /\ want = [t \in Tx |-> "S"]
    /\ expired = [t \in Tx |-> FALSE]
    /\ notified = [t \in Tx |-> FALSE]
    /\ pending = [t \in Tx |-> {}]

-----------------------------------------------------------------------------
(* The calls of a transaction.  A call on a lock that is already held      *)
(* strongly enough returns at once and changes nothing.                    *)

\* Enter lock_table::s_lock or x_lock: start := now.
Enter(t, b, phase, mode) ==
    /\ pc' = [pc EXCEPT ![t] = phase]
    /\ req' = [req EXCEPT ![t] = b]
    /\ want' = [want EXCEPT ![t] = mode]
    /\ expired' = [expired EXCEPT ![t] = FALSE]

\* concurrency_mgr::s_lock, up to the call into the table.
s_lock(t, b) ==
    /\ pc[t] = "idle"
    /\ locks[t][b] = "none"
    /\ Enter(t, b, "s_check", "S")
    /\ UNCHANGED <<tbl, locks, notified, pending>>

\* concurrency_mgr::x_lock that gets past the second lock of mtx: a share
\* first when the transaction has no lock on the block, then the upgrade.
x_lock(t, b) ==
    /\ "proceed" \in RelockOutcomes
    /\ pc[t] = "idle"
    /\ locks[t][b] # "X"
    /\ tbl[b] < MaxShared
    /\ Enter(t, b, IF locks[t][b] = "none" THEN "s_check" ELSE "x_check", "X")
    /\ UNCHANGED <<tbl, locks, notified, pending>>

\* concurrency_mgr::x_lock that never returns from the second lock of mtx.
x_lock_hangs(t) ==
    /\ "hang" \in RelockOutcomes
    /\ pc[t] = "idle"
    /\ pc' = [pc EXCEPT ![t] = "hung"]
    /\ UNCHANGED <<tbl, locks, req, want, expired, notified, pending>>

-----------------------------------------------------------------------------
(* lock_table::s_lock and lock_table::x_lock, with the table's mutex held. *)

Sleep(t, phase) ==
    /\ ~expired[t]
    /\ pc' = [pc EXCEPT ![t] = phase]
    /\ UNCHANGED <<tbl, locks, req, want, expired, notified, pending>>

\* The call is over: its arguments and its start time are gone.
Return(t) ==
    /\ pc' = [pc EXCEPT ![t] = "idle"]
    /\ req' = [req EXCEPT ![t] = NoBlk]
    /\ want' = [want EXCEPT ![t] = "S"]
    /\ expired' = [expired EXCEPT ![t] = FALSE]

\* lock_abort_exception: the call unwinds; what it already took stays taken.
Abort(t) ==
    /\ expired[t]
    /\ Return(t)
    /\ UNCHANGED <<tbl, locks, notified, pending>>

SGrant(t) ==
    /\ pc[t] = "s_check"
    /\ ~has_x_lock(req[t])
    /\ tbl' = [tbl EXCEPT ![req[t]] = @ + 1]
    /\ IF want[t] = "S"
         THEN Return(t) /\ locks' = [locks EXCEPT ![t][req[t]] = "S"]
         ELSE Enter(t, req[t], "x_check", "X") /\ UNCHANGED locks
    /\ UNCHANGED <<notified, pending>>

\* Mutant: the wait has no end.
SRefuse_forever(t) ==
    /\ pc[t] = "s_check"
    /\ has_x_lock(req[t])
    /\ pc' = [pc EXCEPT ![t] = "s_sleep"]
    /\ UNCHANGED <<tbl, locks, req, want, expired, notified, pending>>

SRefuse(t) ==
    /\ pc[t] = "s_check"
    /\ has_x_lock(req[t])
    /\ Sleep(t, "s_sleep") \/ Abort(t)

XGrant(t) ==
    /\ pc[t] = "x_check"
    /\ ~has_s_locks(req[t])
    /\ tbl' = [tbl EXCEPT ![req[t]] = -1]
    /\ locks' = [locks EXCEPT ![t][req[t]] = "X"]
    /\ Return(t)
    /\ UNCHANGED <<notified, pending>>

XRefuse(t) ==
    /\ pc[t] = "x_check"
    /\ has_s_locks(req[t])
    /\ Sleep(t, "x_sleep") \/ Abort(t)

\* wait_for returns: after a notify_all, when its time is up, or spuriously.
Wake(t) ==
    /\ pc[t] \in Asleep
    /\ pc' = [pc EXCEPT ![t] = IF @ = "s_sleep" THEN "s_check" ELSE "x_check"]
    /\ notified' = [notified EXCEPT ![t] = FALSE]
    /\ UNCHANGED <<tbl, locks, req, want, expired, pending>>

\* MAX_TIMEOUT has passed since the call took its start time.
Expire(t) ==
    /\ pc[t] \in Locking
    /\ ~expired[t]
    /\ expired' = [expired EXCEPT ![t] = TRUE]
    /\ UNCHANGED <<tbl, locks, pc, req, want, notified, pending>>

-----------------------------------------------------------------------------
(* concurrency_mgr::release: one unlock of the table after the other, in   *)
(* the order of an unordered_map, then the private map is cleared.         *)

Wakened == [t \in Tx |-> notified[t] \/ pc[t] \in Asleep]

\* Mutants of unlock: a count without a floor, an entry removed under other
\* shares, no notification, a notification each time.
unlock_no_floor(b) == tbl' = [tbl EXCEPT ![b] = @ - 1] /\ notified' = Wakened
unlock_erases(b) == tbl' = [tbl EXCEPT ![b] = 0] /\ notified' = Wakened
unlock_silent(b) ==
    /\ tbl' = [tbl EXCEPT ![b] = IF @ > 1 THEN @ - 1 ELSE 0]
    /\ UNCHANGED notified
unlock_notifies(b) ==
    /\ tbl' = [tbl EXCEPT ![b] = IF @ > 1 THEN @ - 1 ELSE 0]
    /\ notified' = Wakened

\* lock_table::unlock: only the call that removes the entry notifies.
unlock(b) ==
    IF tbl[b] > 1
      THEN /\ tbl' = [tbl EXCEPT ![b] = @ - 1]
           /\ UNCHANGED notified
      ELSE /\ tbl' = [tbl EXCEPT ![b] = 0]
           /\ notified' = Wakened

release(t) ==
    /\ pc[t] = "idle"
    /\ \E b \in Blk : locks[t][b] # "none"
    /\ pc' = [pc EXCEPT ![t] = "release"]
    /\ pending' = [pending EXCEPT ![t] = {b \in Blk : locks[t][b] # "none"}]
    /\ UNCHANGED <<tbl, locks, req, want, expired, notified>>

\* Mutant: the map is cleared with the first unlock.
ReleaseOne_clears(t, b) ==
    /\ pc[t] = "release"
    /\ b \in pending[t]
    /\ unlock(b)
    /\ pending' = [pending EXCEPT ![t] = {}]
    /\ locks' = [locks EXCEPT ![t] = [c \in Blk |-> "none"]]
    /\ pc' = [pc EXCEPT ![t] = "idle"]
    /\ UNCHANGED <<req, want, expired>>

ReleaseOne(t, b) ==
    /\ pc[t] = "release"
    /\ b \in pending[t]
    /\ unlock(b)
    /\ pending' = [pending EXCEPT ![t] = @ \ {b}]
    /\ IF pending[t] = {b}
         THEN /\ locks' = [locks EXCEPT ![t] = [c \in Blk |-> "none"]]
              /\ pc' = [pc EXCEPT ![t] = "idle"]
         ELSE UNCHANGED <<locks, pc>>
    /\ UNCHANGED <<req, want, expired>>

-----------------------------------------------------------------------------
Check(t) == SGrant(t) \/ SRefuse(t) \/ XGrant(t) \/ XRefuse(t)

Next ==
    \E t \in Tx :
        \/ \E b \in Blk : s_lock(t, b) \/ x_lock(t, b) \/ ReleaseOne(t, b)
        \/ x_lock_hangs(t)
        \/ SGrant(t)
        \/ SRefuse(t)
        \/ XGrant(t)
        \/ XRefuse(t)
        \/ Wake(t)
        \/ Expire(t)
        \/ release(t)

Spec == Init /\ [][Next]_vars

\* A thread inside the table runs on, wait_for returns by its time limit,
\* the clock advances, and release() has nothing to wait for.
Fairness ==
    \A t \in Tx :
        /\ WF_vars(Check(t))
        /\ WF_vars(Wake(t))
        /\ WF_vars(Expire(t))
        /\ WF_vars(\E b \in Blk : ReleaseOne(t, b))

FairSpec == Spec /\ Fairness

-----------------------------------------------------------------------------
(* What the locks promise.                                                 *)

\* t may rely on its lock on b: recorded, and not yet given back.
Holds(t, b) == locks[t][b] # "none" /\ (pc[t] = "release" => b \in pending[t])
HoldsX(t, b) == Holds(t, b) /\ locks[t][b] = "X"

\* Transactions whose share of b the table still counts on somebody's behalf:
\* the holders, and those that upgrade on a share not recorded yet.
Registered(b) ==
    {t \in Tx : Holds(t, b) \/ (pc[t] \in XPhase /\ req[t] = b)}

\* A count above the registered transactions: an x_lock took the share, was
\* aborted in the upgrade, and concurrency_mgr never recorded the block.
Orphaned(b) == tbl[b] > Cardinality(Registered(b))

\* An exclusive lock excludes every other lock, also while the others are in
\* the middle of release(): lock_table.h, s_lock and x_lock.
MutualExclusion ==
    \A t, u \in Tx, b \in Blk : HoldsX(t, b) /\ Holds(u, b) => t = u

\* The shared table and the private maps agree: -1 stands for one exclusive
\* holder and nobody else, and a count covers at least all registered
\* transactions, so that no unlock of one removes the entry of another.
TableMatchesHolders ==
    \A b \in Blk :
        IF \E t \in Tx : HoldsX(t, b)
          THEN tbl[b] = -1 /\ \E t \in Tx : HoldsX(t, b) /\ Registered(b) = {t}
          ELSE tbl[b] >= Cardinality(Registered(b))

\* A sleeper in lock_table::s_lock whose block has become free has been
\* notified: the shared request does not depend on its timer to go on.
NoLostWakeupShared ==
    \A t \in Tx : pc[t] = "s_sleep" /\ ~notified[t] => has_x_lock(req[t])

\* unlock notifies only when it removes the entry, and an upgrade keeps its
\* own share in the entry: giving back the other shares of the block never
\* notifies the upgrade that waits for it, only its timer (or an unlock of
\* some other block) does.
UpgradeIsNotNotified ==
    [][\A t \in Tx : pc[t] = "x_sleep" /\ tbl'[req[t]] # tbl[req[t]]
                        => notified'[t] = notified[t]]_vars

\* The share an aborted x_lock leaves behind is never given back: from then on
\* no transaction gets the block exclusively.
OrphanedShareStays ==
    [][\A b \in Blk : Orphaned(b) =>
            Orphaned(b)' /\ \A t \in Tx : ~HoldsX(t, b)']_vars

\* What a transaction holds is what it may rely on; it shrinks in release().
Abs == INSTANCE AbstractLocks WITH
           held <- [t \in Tx |-> [b \in Blk |->
                       IF Holds(t, b) THEN locks[t][b] ELSE "none"]],
           shrinking <- {t \in Tx : pc[t] = "release"}

\* lock_table and the concurrency_mgrs implement two-phase locking: grants,
\* upgrades and unlocks are the steps of AbstractLocks, all else stutters.
TwoPhaseLocking == Abs!ASpec

\* Every request for a lock ends, granted or aborted, deadlocks between
\* upgrades included: the timeout of wait_for breaks them.
RequestTerminates ==
    \A t \in Tx : pc[t] \in Locking ~> pc[t] \notin Locking
=============================================================================
