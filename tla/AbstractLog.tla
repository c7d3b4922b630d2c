----------------------------- MODULE AbstractLog -----------------------------
(***************************************************************************)
(* What a write-ahead log promises: records are numbered as they arrive,   *)
(* saving makes everything that is in the log durable, and a crash takes   *)
(* exactly the records that were not.                                      *)
(***************************************************************************)
EXTENDS Naturals

VARIABLES
    count,    \* records appended so far
    kept,     \* numbers of the records that are in the log
    durable   \* numbers of those that a crash leaves

avars == <<count, kept, durable>>

AInit == count = 0 /\ kept = {} /\ durable = {}

AAppend ==
    /\ count' = count + 1
    /\ kept' = kept \cup {count + 1}
    /\ UNCHANGED durable

ASave == durable' = kept /\ UNCHANGED <<count, kept>>

ACrash == kept' = durable /\ UNCHANGED <<count, durable>>

ANext == AAppend \/ ASave \/ ACrash

ASpec == AInit /\ [][ANext]_avars
=============================================================================
