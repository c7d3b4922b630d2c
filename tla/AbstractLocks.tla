---------------------------- MODULE AbstractLocks ----------------------------
(***************************************************************************)
(* What block locking promises to transactions: shared and exclusive locks *)
(* taken one at a time and given back in a shrinking phase in which        *)
(* nothing new is taken (two-phase locking).                               *)
(***************************************************************************)
CONSTANTS Tx, Blk

VARIABLES
    held,      \* the lock each transaction may rely on, per block
    shrinking  \* transactions that have begun to give their locks back

avars == <<held, shrinking>>

AInit ==
    /\ held = [t \in Tx |-> [b \in Blk |-> "none"]]
    /\ shrinking = {}

Share(t, b) ==
    /\ t \notin shrinking
    /\ held[t][b] = "none"
    /\ \A u \in Tx : held[u][b] # "X"
    /\ held' = [held EXCEPT ![t][b] = "S"]
    /\ UNCHANGED shrinking

Exclude(t, b) ==
    /\ t \notin shrinking
    /\ held[t][b] # "X"
    /\ \A u \in Tx \ {t} : held[u][b] = "none"
    /\ held' = [held EXCEPT ![t][b] = "X"]
    /\ UNCHANGED shrinking

Shrink(t) ==
    /\ t \notin shrinking
    /\ shrinking' = shrinking \cup {t}
    /\ UNCHANGED held

Drop(t, b) ==
    /\ t \in shrinking
    /\ held[t][b] # "none"
    /\ held' = [held EXCEPT ![t][b] = "none"]
    /\ shrinking' = IF \A c \in Blk \ {b} : held[t][c] = "none"
                      THEN shrinking \ {t}
                      ELSE shrinking

ANext ==
    \E t \in Tx :
        \/ Shrink(t)
        \/ \E b \in Blk : Share(t, b) \/ Exclude(t, b) \/ Drop(t, b)

ASpec == AInit /\ [][ANext]_avars
=============================================================================
