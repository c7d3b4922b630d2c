--------------------------- MODULE FileMgrProofs ----------------------------
(***************************************************************************)
(* Proofs about FileMgr, for any number of threads, blocks and data.       *)
(***************************************************************************)
EXTENDS FileMgr, TLAPS

\* A writer has the stream to itself, and so has a reader that is alone.
Exclusion ==
    \A t, u \in Thread :
        t # u /\ (pc[t] \in Writing \/ (pc[t] \in Sharing /\ alone[t])) =>
            pc[u] = "idle"

\* A writer's stream stands where the writer has put it, unless it has failed.
WriterAtItsBlock ==
    \A t \in Thread :
        /\ pc[t] \in Writing /\ broken[t] => fail
        /\ pc[t] = "put" => /\ blk[t] \in 0 .. MaxBlocks - 1
                            /\ data[t] \in Data
                            /\ ~fail => pos = blk[t]
        /\ pc[t] = "extend" => fail \/ pos = Len(disk)

\* The seek of a lone reader has loaded what the flag still is.
FlagsAreFresh ==
    \A t \in Thread :
        /\ pc[t] \in {"seek", "seek_end"} => flags[t] = broken[t]
        /\ pc[t] \in {"seek", "seek_end"} /\ alone[t] => flags[t] = fail

\* What a lone reader finds at its block in a stream that had not failed.
AtItsBlock(t) ==
    alone[t] /\ ~broken[t] =>
        /\ pc[t] = "fetch" => IF blk[t] < 0 THEN fail /\ ~eof
                                            ELSE ~fail /\ pos = blk[t]
        /\ pc[t] = "check" => IF blk[t] < 0 THEN fail /\ ~eof
                              ELSE IF blk[t] < Len(disk)
                              THEN ~fail /\ page[t] = disk[blk[t] + 1]
                              ELSE fail /\ eof
        /\ pc[t] = "tell" => ~fail /\ pos = Len(disk)

\* What it finds in one that had.
Fails(t) ==
    alone[t] /\ broken[t] /\ pc[t] \in {"fetch", "check", "tell"} =>
        fail /\ ~eof

ReaderAtItsBlock == \A t \in Thread : AtItsBlock(t) /\ Fails(t)

FileInv ==
    /\ TypeOK
    /\ Exclusion
    /\ WriterAtItsBlock
    /\ FlagsAreFresh
    /\ ReaderAtItsBlock

-----------------------------------------------------------------------------
(* Types.                                                                  *)

LEMMA WrittenIsAFile ==
    ASSUME TypeOK, NEW v \in Data \cup {Zero}
    PROVE  /\ Written(v) \in Seq(Data \cup {Zero})
           /\ Len(Written(v)) = IF pos < Len(disk) THEN Len(disk) ELSE pos + 1
<1> DEFINE n == IF pos < Len(disk) THEN Len(disk) ELSE pos + 1
<1>1. /\ disk \in Seq(Data \cup {Zero})
      /\ pos \in Nat
      /\ n \in Nat
  BY DEF TypeOK
<1>2. \A i \in 1 .. n :
        (IF i = pos + 1 THEN v ELSE IF i <= Len(disk) THEN disk[i] ELSE Zero)
          \in Data \cup {Zero}
  BY <1>1
<1>3. Written(v) \in [1 .. n -> Data \cup {Zero}]
  BY <1>2 DEF Written
<1>4. DOMAIN Written(v) = 1 .. n
  BY DEF Written
<1> HIDE DEF n
<1>5. Written(v) \in Seq(Data \cup {Zero})
  BY <1>1, <1>3
<1>6. Len(Written(v)) = n
  BY <1>1, <1>4, <1>5
<1>7. QED
  BY <1>5, <1>6 DEF n

LEMMA InitTypeOK == Init => TypeOK
<1> SUFFICES ASSUME Init PROVE TypeOK
  OBVIOUS
<1>1. /\ disk \in Seq(Data \cup {Zero})
      /\ pos \in Nat
      /\ blk \in [Thread -> Int]
      /\ num \in [Thread -> Nat]
  BY DEF Init
<1>2. /\ fail \in BOOLEAN
      /\ eof \in BOOLEAN
      /\ flags \in [Thread -> BOOLEAN]
      /\ alone \in [Thread -> BOOLEAN]
      /\ broken \in [Thread -> BOOLEAN]
  BY Zenon DEF Init
<1>3. /\ pc \in [Thread -> {"idle"} \cup Sharing \cup Writing]
      /\ data \in [Thread -> Data \cup {Zero}]
      /\ page \in [Thread -> Data \cup {Zero, Old}]
      /\ out \in [Thread -> {"none", "ok", "throw"}]
  BY Zenon DEF Init
<1>4. QED
  BY <1>1, <1>2, <1>3, Zenon DEF TypeOK

LEMMA BeginTypes ==
    ASSUME TypeOK, NEW t \in Thread, NEW step \in Sharing \cup Writing,
           NEW b \in Int, NEW v \in Data \cup {Zero}, Begin(t, step, b, v)
    PROVE  /\ pc' \in [Thread -> {"idle"} \cup Sharing \cup Writing]
           /\ blk' \in [Thread -> Int]
           /\ data' \in [Thread -> Data \cup {Zero}]
           /\ page' \in [Thread -> Data \cup {Zero, Old}]
           /\ flags' \in [Thread -> BOOLEAN]
           /\ out' \in [Thread -> {"none", "ok", "throw"}]
           /\ num' \in [Thread -> Nat]
           /\ alone' \in [Thread -> BOOLEAN]
           /\ broken' \in [Thread -> BOOLEAN]
<1>1. /\ pc' \in [Thread -> {"idle"} \cup Sharing \cup Writing]
      /\ blk' \in [Thread -> Int]
      /\ data' \in [Thread -> Data \cup {Zero}]
  BY Zenon DEF Begin, TypeOK
<1>2. /\ page' \in [Thread -> Data \cup {Zero, Old}]
      /\ out' \in [Thread -> {"none", "ok", "throw"}]
  BY DEF Begin, TypeOK
<1>3. num' \in [Thread -> Nat]
  BY DEF Begin, TypeOK
<1>4. /\ flags' \in [Thread -> BOOLEAN]
      /\ broken' \in [Thread -> BOOLEAN]
  BY Zenon DEF Begin, TypeOK
<1>5. alone' \in [Thread -> BOOLEAN]
  BY Zenon DEF Begin, TypeOK
<1>6. QED
  BY <1>1, <1>2, <1>3, <1>4, <1>5

LEMMA GoTypes ==
    ASSUME TypeOK, NEW t \in Thread, NEW step \in Sharing \cup Writing,
           Go(t, step)
    PROVE  /\ pc' \in [Thread -> {"idle"} \cup Sharing \cup Writing]
           /\ blk' \in [Thread -> Int]
           /\ data' \in [Thread -> Data \cup {Zero}]
           /\ flags' \in [Thread -> BOOLEAN]
           /\ alone' \in [Thread -> BOOLEAN]
           /\ broken' \in [Thread -> BOOLEAN]
BY Zenon DEF Go, TypeOK

LEMMA EndTypes ==
    ASSUME TypeOK, NEW t \in Thread, End(t)
    PROVE  /\ pc' \in [Thread -> {"idle"} \cup Sharing \cup Writing]
           /\ blk' \in [Thread -> Int]
           /\ data' \in [Thread -> Data \cup {Zero}]
           /\ flags' \in [Thread -> BOOLEAN]
           /\ alone' \in [Thread -> BOOLEAN]
           /\ broken' \in [Thread -> BOOLEAN]
<1>1. blk' \in [Thread -> Int]
  BY DEF End, TypeOK
<1>2. QED
  BY <1>1, Zenon DEF End, TypeOK

LEMMA SeekTypes ==
    ASSUME TypeOK, NEW n \in Int, NEW f \in BOOLEAN, seekg(n, f)
    PROVE  /\ pos' \in Nat
           /\ fail' \in BOOLEAN
           /\ eof' \in BOOLEAN
<1>1. pos' \in Nat
  BY DEF seekg, TypeOK
<1>2. QED
  BY <1>1, Zenon DEF seekg

LEMMA StoreTypes ==
    ASSUME TypeOK, NEW t \in Thread, NEW v \in Data \cup {Zero}, Store(t, v)
    PROVE  /\ disk' \in Seq(Data \cup {Zero})
           /\ pos' \in Nat
           /\ fail' \in BOOLEAN
           /\ eof' \in BOOLEAN
           /\ out' \in [Thread -> {"none", "ok", "throw"}]
<1>1. disk' \in {disk, Written(v)}
  BY Zenon DEF Store
<1>2. disk' \in Seq(Data \cup {Zero})
  BY <1>1, WrittenIsAFile DEF TypeOK
<1>3. pos' \in Nat
  BY DEF Store, TypeOK
<1>4. /\ fail' \in BOOLEAN
      /\ eof' \in BOOLEAN
  BY Zenon DEF Store, TypeOK
<1>5. out' \in [Thread -> {"none", "ok", "throw"}]
  BY DEF Store, TypeOK
<1>6. QED
  BY <1>2, <1>3, <1>4, <1>5

LEMMA NextTypeOK == TypeOK /\ [Next]_vars => TypeOK'
<1> SUFFICES ASSUME TypeOK, [Next]_vars PROVE TypeOK'
  OBVIOUS
<1>0. Blk \subseteq Int
  BY FileAssumption DEF FileAssumption
<1>1. ASSUME NEW t \in Thread, NEW b \in Blk, read(t, b) PROVE TypeOK'
  <2>1. Begin(t, "seek", b, Zero)
    BY <1>1 DEF read
  <2>2. "seek" \in Sharing \cup Writing
    BY DEF Sharing
  <2>3. UNCHANGED <<disk, pos, fail, eof>>
    BY <1>1 DEF read
  <2>4. QED
    BY <1>0, <2>1, <2>2, <2>3, BeginTypes, Zenon DEF TypeOK
<1>2. ASSUME NEW t \in Thread, ReadSeek(t) PROVE TypeOK'
  <2>1. "fetch" \in Sharing \cup Writing
    BY DEF Sharing
  <2>2. /\ blk[t] \in Int
        /\ flags[t] \in BOOLEAN
    BY Zenon DEF TypeOK
  <2>3. QED
    BY <1>2, <2>1, <2>2, SeekTypes, GoTypes, Zenon DEF ReadSeek, TypeOK
<1>3. ASSUME NEW t \in Thread, ReadFetch(t) PROVE TypeOK'
  <2>1. "check" \in Sharing \cup Writing
    BY DEF Sharing
  <2>2. UNCHANGED <<disk, out, num>> /\ Go(t, "check")
    BY <1>3 DEF ReadFetch
  <2>3. pos' \in Nat
    BY <1>3 DEF ReadFetch, TypeOK
  <2>4. fail' \in BOOLEAN /\ eof' \in BOOLEAN
    BY <1>3, Zenon DEF ReadFetch, TypeOK
  <2>5. page' \in [Thread -> Data \cup {Zero, Old}]
    <3>1. CASE UNCHANGED page
      BY <3>1, Zenon DEF TypeOK
    <3>2. CASE pos < Len(disk) /\ page' = [page EXCEPT ![t] = disk[pos + 1]]
      <4>1. disk[pos + 1] \in Data \cup {Zero}
        BY <3>2 DEF TypeOK
      <4>2. QED
        BY <3>2, <4>1, Zenon DEF TypeOK
    <3>3. QED
      BY <1>3, <3>1, <3>2, Zenon DEF ReadFetch
  <2>6. QED
    BY <2>1, <2>2, <2>3, <2>4, <2>5, GoTypes, Zenon DEF TypeOK
<1>4. ASSUME NEW t \in Thread, ReadCheck(t) PROVE TypeOK'
  <2>1. End(t) /\ UNCHANGED <<disk, pos, fail, eof, num>>
    BY <1>4 DEF ReadCheck
  <2>2. page' \in [Thread -> Data \cup {Zero, Old}]
    <3>1. (IF fail /\ eof THEN Zero ELSE page[t]) \in Data \cup {Zero, Old}
      BY DEF TypeOK
    <3>2. QED
      BY <1>4, <3>1 DEF ReadCheck, TypeOK
  <2>3. out' \in [Thread -> {"none", "ok", "throw"}]
    BY <1>4 DEF ReadCheck, TypeOK
  <2>4. QED
    BY <2>1, <2>2, <2>3, EndTypes, Zenon DEF TypeOK
<1>5. ASSUME NEW t \in Thread, len(t) PROVE TypeOK'
  <2>1. Begin(t, "seek_end", 0, Zero) /\ UNCHANGED <<disk, pos, fail, eof>>
    BY <1>5 DEF len
  <2>2. "seek_end" \in Sharing \cup Writing
    BY DEF Sharing
  <2>3. 0 \in Int
    OBVIOUS
  <2>4. QED
    BY <2>1, <2>2, <2>3, BeginTypes, Zenon DEF TypeOK
<1>6. ASSUME NEW t \in Thread, LenSeek(t) PROVE TypeOK'
  <2>1. "tell" \in Sharing \cup Writing
    BY DEF Sharing
  <2>2. Len(disk) \in Int
    BY DEF TypeOK
  <2>3. flags[t] \in BOOLEAN
    BY Zenon DEF TypeOK
  <2>4. QED
    BY <1>6, <2>1, <2>2, <2>3, SeekTypes, GoTypes, Zenon DEF LenSeek, TypeOK
<1>7. ASSUME NEW t \in Thread, LenTell(t) PROVE TypeOK'
  <2>1. End(t) /\ UNCHANGED <<disk, pos, fail, eof, page>>
    BY <1>7 DEF LenTell
  <2>2. num' \in [Thread -> Nat]
    BY <1>7 DEF LenTell, tellg, TypeOK
  <2>3. out' \in [Thread -> {"none", "ok", "throw"}]
    BY <1>7 DEF LenTell, TypeOK
  <2>4. QED
    BY <2>1, <2>2, <2>3, EndTypes, Zenon DEF TypeOK
<1>8. ASSUME NEW t \in Thread, NEW b \in Blk, NEW v \in Data, write(t, b, v)
      PROVE TypeOK'
  <2>1. Begin(t, "put", b, v) /\ UNCHANGED <<disk, fail, eof>>
    BY <1>8 DEF write
  <2>2. "put" \in Sharing \cup Writing
    BY DEF Writing
  <2>3. pos' \in Nat
    BY <1>0, <1>8 DEF write, TypeOK
  <2>4. QED
    BY <1>0, <2>1, <2>2, <2>3, BeginTypes, Zenon DEF TypeOK
<1>9. ASSUME NEW t \in Thread, WriteStore(t) PROVE TypeOK'
  <2>1. data[t] \in Data \cup {Zero}
    BY DEF TypeOK
  <2>2. QED
    BY <1>9, <2>1, StoreTypes, EndTypes, Zenon DEF WriteStore, TypeOK
<1>10. ASSUME NEW t \in Thread, append(t) PROVE TypeOK'
  <2>1. Begin(t, "extend", 0, Zero) /\ UNCHANGED disk /\ seekg(Len(disk), fail)
    BY <1>10 DEF append
  <2>2. "extend" \in Sharing \cup Writing
    BY DEF Writing
  <2>3. Len(disk) \in Int /\ 0 \in Int
    BY DEF TypeOK
  <2>4. fail \in BOOLEAN
    BY DEF TypeOK
  <2>5. QED
    BY <2>1, <2>2, <2>3, <2>4, SeekTypes, BeginTypes, Zenon DEF TypeOK
<1>11. ASSUME NEW t \in Thread, AppendStore(t) PROVE TypeOK'
  <2>1. Store(t, Zero) /\ End(t) /\ UNCHANGED page
    BY <1>11 DEF AppendStore
  <2>2. num' \in [Thread -> Nat]
    BY <1>11 DEF AppendStore, tellg, TypeOK
  <2>3. QED
    BY <2>1, <2>2, StoreTypes, EndTypes, Zenon DEF TypeOK
<1>12. CASE UNCHANGED vars
  BY <1>12, Zenon DEF vars, ghosts, TypeOK
<1>13. QED
  BY <1>1, <1>2, <1>3, <1>4, <1>5, <1>6, <1>7, <1>8, <1>9, <1>10, <1>11, <1>12,
     Zenon DEF Next

-----------------------------------------------------------------------------
(* What a call changes of its thread's locals.                             *)

LEMMA BeginFacts ==
    ASSUME TypeOK, NEW t \in Thread, NEW step, NEW b, NEW v,
           Begin(t, step, b, v)
    PROVE  /\ pc[t] = "idle"
           /\ \A u \in Thread : pc'[u] = IF u = t THEN step ELSE pc[u]
           /\ blk'[t] = b /\ data'[t] = v
           /\ \A u \in Thread : flags'[u] = IF u = t THEN fail ELSE flags[u]
           /\ \A u \in Thread : broken'[u] = IF u = t THEN fail ELSE broken[u]
           /\ alone'[t] = (\A w \in Thread : pc[w] \notin Sharing)
           /\ \A u \in Thread \ {t} : alone'[u] => pc[u] \notin Sharing
BY Zenon DEF Begin, TypeOK

LEMMA GoFacts ==
    ASSUME TypeOK, NEW t \in Thread, NEW step, Go(t, step)
    PROVE  /\ \A u \in Thread : pc'[u] = IF u = t THEN step ELSE pc[u]
           /\ UNCHANGED <<blk, data, flags, broken, alone>>
BY Zenon DEF Go, TypeOK

LEMMA EndFacts ==
    ASSUME TypeOK, NEW t \in Thread, End(t)
    PROVE  /\ \A u \in Thread : pc'[u] = IF u = t THEN "idle" ELSE pc[u]
           /\ \A u \in Thread : u # t => flags'[u] = flags[u]
           /\ \A u \in Thread : u # t => broken'[u] = broken[u]
           /\ \A u \in Thread : u # t => alone'[u] = alone[u]
BY Zenon DEF End, TypeOK

-----------------------------------------------------------------------------
(* The invariant.                                                          *)

\* While a thread is in a call, nobody else writes or reads alone.
LEMMA OthersDoNotCount ==
    ASSUME Exclusion, NEW t \in Thread, pc[t] # "idle",
           NEW u \in Thread, u # t
    PROVE  pc[u] \notin Writing /\ ~(pc[u] \in Sharing /\ alone[u])
BY Zenon DEF Exclusion

LEMMA ReaderBegins ==
    ASSUME FileInv, TypeOK', NEW t \in Thread, NEW b,
           NEW step \in {"seek", "seek_end"}, lock_shared,
           Begin(t, step, b, Zero), UNCHANGED <<disk, pos, fail, eof>>
    PROVE  FileInv'
<1>1. TypeOK
  BY DEF FileInv
<1>2. /\ \A u \in Thread : pc'[u] = IF u = t THEN step ELSE pc[u]
      /\ \A u \in Thread : flags'[u] = IF u = t THEN fail ELSE flags[u]
      /\ \A u \in Thread : broken'[u] = IF u = t THEN fail ELSE broken[u]
      /\ alone'[t] = (\A w \in Thread : pc[w] \notin Sharing)
      /\ \A u \in Thread \ {t} : alone'[u] => pc[u] \notin Sharing
  BY <1>1, BeginFacts, Zenon
<1>3. \A u \in Thread : pc[u] \in {"idle"} \cup Sharing
  BY <1>1, Zenon DEF TypeOK, lock_shared
<1>4. \A u \in Thread \ {t} : alone'[u] => pc'[u] = "idle"
  BY <1>2, <1>3, Zenon
<1>5. step \notin Writing /\ step \notin {"idle", "fetch", "check", "tell"}
  BY DEF Writing
<1>6. \A u \in Thread : pc'[u] \notin Writing
  BY <1>2, <1>5, Zenon DEF lock_shared
<1>7. alone'[t] => \A u \in Thread \ {t} : pc'[u] = "idle"
  BY <1>2, <1>3, Zenon
<1>8. "idle" \notin Sharing
  BY DEF Sharing
<1>9. Exclusion'
  <2> SUFFICES ASSUME NEW u \in Thread, NEW w \in Thread, u # w,
                      pc'[u] \in Sharing, alone'[u]
               PROVE  pc'[w] = "idle"
    BY <1>6, Zenon DEF Exclusion
  <2>1. u = t
    BY <1>4, <1>8, Zenon
  <2>2. QED
    BY <1>7, <2>1, Zenon
<1>10. WriterAtItsBlock'
  BY <1>6 DEF WriterAtItsBlock, Writing
<1>11. FlagsAreFresh'
  <2>1. flags'[t] = broken'[t] /\ flags'[t] = fail'
    BY <1>2, Zenon
  <2>2. ASSUME NEW u \in Thread, u # t, pc'[u] \in {"seek", "seek_end"}
        PROVE  flags'[u] = broken'[u] /\ ~alone'[u]
    <3>1. pc[u] \in {"seek", "seek_end"}
      BY <1>2, <2>2, Zenon
    <3>2. flags[u] = broken[u]
      BY <3>1, Zenon DEF FileInv, FlagsAreFresh
    <3>3. flags'[u] = broken'[u]
      BY <1>2, <2>2, <3>2, Zenon
    <3>4. pc'[u] # "idle"
      BY <2>2
    <3>5. QED
      BY <1>4, <2>2, <3>3, <3>4, Zenon
  <2>3. QED
    BY <2>1, <2>2, Zenon DEF FlagsAreFresh
<1>12. ReaderAtItsBlock'
  <2> SUFFICES ASSUME NEW u \in Thread, alone'[u]
               PROVE  pc'[u] \notin {"fetch", "check", "tell"}
    BY Zenon DEF ReaderAtItsBlock, AtItsBlock, Fails
  <2>1. pc'[u] = step \/ pc'[u] = "idle"
    BY <1>2, <1>4, Zenon
  <2>2. QED
    BY <1>5, <2>1
<1>13. QED
  BY <1>9, <1>10, <1>11, <1>12 DEF FileInv

LEMMA ReaderGoesOn ==
    ASSUME FileInv, TypeOK', NEW t \in Thread, pc[t] \in Sharing,
           NEW step \in {"fetch", "check", "tell"}, Go(t, step),
           AtItsBlock(t)', Fails(t)'
    PROVE  FileInv'
<1>1. TypeOK /\ Exclusion
  BY DEF FileInv
<1>2. /\ \A u \in Thread : pc'[u] = IF u = t THEN step ELSE pc[u]
      /\ UNCHANGED <<flags, broken, alone>>
  BY <1>1, GoFacts, Zenon
<1>3. pc[t] # "idle"
  BY DEF Sharing
<1>4. step \in Sharing /\ step \notin Writing /\ step \notin {"seek", "seek_end"}
  BY DEF Sharing, Writing
<1>5. \A u \in Thread \ {t} : pc[u] \notin Writing /\ ~(pc[u] \in Sharing /\ alone[u])
  BY <1>1, <1>3, OthersDoNotCount, Zenon
<1>6. \A u \in Thread : pc'[u] \notin Writing
  BY <1>2, <1>4, <1>5, Zenon
<1>7. Exclusion'
  <2> SUFFICES ASSUME NEW u \in Thread, NEW w \in Thread, u # w,
                      pc'[u] \in Sharing, alone'[u]
               PROVE  pc'[w] = "idle"
    BY <1>6, Zenon DEF Exclusion
  <2>1. u = t
    BY <1>2, <1>5, Zenon
  <2>2. pc[w] = "idle"
    BY <1>1, <1>2, <2>1, Zenon DEF Exclusion
  <2>3. QED
    BY <1>2, <2>1, <2>2, Zenon
<1>8. WriterAtItsBlock'
  BY <1>6 DEF WriterAtItsBlock, Writing
<1>9. FlagsAreFresh'
  <2> SUFFICES ASSUME NEW u \in Thread, pc'[u] \in {"seek", "seek_end"}
               PROVE  flags'[u] = broken'[u] /\ ~alone'[u]
    BY Zenon DEF FlagsAreFresh
  <2>1. u # t /\ pc[u] \in {"seek", "seek_end"}
    BY <1>2, <1>4, Zenon
  <2>2. flags[u] = broken[u]
    BY <2>1, Zenon DEF FileInv, FlagsAreFresh
  <2>3. pc[u] \in Sharing
    BY <2>1 DEF Sharing
  <2>4. QED
    BY <1>2, <1>5, <2>1, <2>2, <2>3, Zenon
<1>10. ReaderAtItsBlock'
  <2> SUFFICES ASSUME NEW u \in Thread, u # t, alone'[u]
               PROVE  pc'[u] \notin {"fetch", "check", "tell"}
    BY Zenon DEF ReaderAtItsBlock, AtItsBlock, Fails
  <2>1. pc'[u] = pc[u] /\ pc[u] \notin Sharing
    BY <1>2, <1>5, Zenon
  <2>2. QED
    BY <2>1 DEF Sharing
<1>11. QED
  BY <1>7, <1>8, <1>9, <1>10 DEF FileInv

LEMMA CallEnds ==
    ASSUME FileInv, TypeOK', NEW t \in Thread, pc[t] # "idle", End(t)
    PROVE  FileInv'
<1>1. TypeOK /\ Exclusion
  BY DEF FileInv
<1>2. /\ \A u \in Thread : pc'[u] = IF u = t THEN "idle" ELSE pc[u]
      /\ \A u \in Thread : u # t => flags'[u] = flags[u]
      /\ \A u \in Thread : u # t => broken'[u] = broken[u]
      /\ \A u \in Thread : u # t => alone'[u] = alone[u]
  BY <1>1, EndFacts, Zenon
<1>3. \A u \in Thread \ {t} : pc[u] \notin Writing /\ ~(pc[u] \in Sharing /\ alone[u])
  BY <1>1, OthersDoNotCount, Zenon
<1>4. "idle" \notin Sharing \cup Writing \cup {"seek", "seek_end"}
  BY DEF Sharing, Writing
<1>5. \A u \in Thread : pc'[u] \notin Writing /\ ~(pc'[u] \in Sharing /\ alone'[u])
  BY <1>2, <1>3, <1>4, Zenon
<1>6. Exclusion'
  BY <1>5, Zenon DEF Exclusion
<1>7. WriterAtItsBlock'
  BY <1>5 DEF WriterAtItsBlock, Writing
<1>8. FlagsAreFresh'
  <2> SUFFICES ASSUME NEW u \in Thread, pc'[u] \in {"seek", "seek_end"}
               PROVE  flags'[u] = broken'[u] /\ ~alone'[u]
    BY Zenon DEF FlagsAreFresh
  <2>1. u # t /\ pc[u] \in {"seek", "seek_end"}
    BY <1>2, <1>4, Zenon
  <2>2. flags[u] = broken[u]
    BY <2>1, Zenon DEF FileInv, FlagsAreFresh
  <2>3. pc'[u] \in Sharing
    BY DEF Sharing
  <2>4. QED
    BY <1>2, <1>5, <2>1, <2>2, <2>3, Zenon
<1>9. ReaderAtItsBlock'
  <2> SUFFICES ASSUME NEW u \in Thread, alone'[u]
               PROVE  pc'[u] \notin {"fetch", "check", "tell"}
    BY Zenon DEF ReaderAtItsBlock, AtItsBlock, Fails
  <2>1. pc'[u] \notin Sharing
    BY <1>5, Zenon
  <2>2. QED
    BY <2>1 DEF Sharing
<1>10. QED
  BY <1>6, <1>7, <1>8, <1>9 DEF FileInv

LEMMA WriterBegins ==
    ASSUME FileInv, TypeOK', NEW t \in Thread, NEW b, NEW v,
           NEW step \in Writing, lock, Begin(t, step, b, v),
           fail => fail',
           step = "put" => b \in 0 .. MaxBlocks - 1 /\ v \in Data
                           /\ (~fail' => pos' = b),
           step = "extend" => fail' \/ pos' = Len(disk')
    PROVE  FileInv'
<1>1. TypeOK
  BY DEF FileInv
<1>2. /\ \A u \in Thread : pc'[u] = IF u = t THEN step ELSE pc[u]
      /\ blk'[t] = b /\ data'[t] = v
      /\ broken'[t] = fail
  BY <1>1, Zenon DEF Begin, TypeOK
<1>3. \A u \in Thread \ {t} : pc'[u] = "idle"
  BY <1>2, Zenon DEF lock
<1>4. pc'[t] = step /\ broken'[t] = fail
  BY <1>2, Zenon
<1>5. /\ step \notin Sharing \cup {"idle", "seek", "seek_end"}
      /\ "idle" \notin Writing \cup Sharing \cup {"seek", "seek_end"}
  BY DEF Sharing, Writing
<1>6. \A u \in Thread : pc'[u] \notin Sharing
  <2> TAKE u \in Thread
  <2>1. CASE u = t
    BY <1>4, <1>5, <2>1
  <2>2. CASE u # t
    BY <1>3, <1>5, <2>2
  <2>3. QED
    BY <2>1, <2>2
<1>7. Exclusion'
  <2> SUFFICES ASSUME NEW u \in Thread, NEW w \in Thread, u # w,
                      pc'[u] \in Writing
               PROVE  pc'[w] = "idle"
    BY <1>6, Zenon DEF Exclusion
  <2>1. u = t
    BY <1>3, <1>5
  <2>2. QED
    BY <1>3, <2>1
<1>8. WriterAtItsBlock'
  <2> SUFFICES ASSUME NEW u \in Thread, pc'[u] \in Writing
               PROVE  /\ broken'[u] => fail'
                      /\ pc'[u] = "put" => /\ blk'[u] \in 0 .. MaxBlocks - 1
                                           /\ data'[u] \in Data
                                           /\ ~fail' => pos' = blk'[u]
                      /\ pc'[u] = "extend" => fail' \/ pos' = Len(disk')
    BY DEF WriterAtItsBlock, Writing
  <2>1. u = t
    BY <1>3, <1>5, Zenon
  <2>2. broken'[t] => fail'
    BY <1>4, Zenon
  <2>3. QED
    BY <1>2, <1>4, <2>1, <2>2, Zenon
<1>9. FlagsAreFresh'
  BY <1>6 DEF FlagsAreFresh, Sharing
<1>10. ReaderAtItsBlock'
  BY <1>6 DEF ReaderAtItsBlock, AtItsBlock, Fails, Sharing
<1>11. QED
  BY <1>7, <1>8, <1>9, <1>10 DEF FileInv

LEMMA InitFileInv == Init => FileInv
<1> SUFFICES ASSUME Init PROVE FileInv
  OBVIOUS
<1>1. \A t \in Thread : pc[t] = "idle"
  BY Zenon DEF Init
<1>2. QED
  BY <1>1, InitTypeOK
  DEF FileInv, Exclusion, WriterAtItsBlock, FlagsAreFresh, ReaderAtItsBlock,
      AtItsBlock, Fails, Writing, Sharing

LEMMA NextFileInv == FileInv /\ [Next]_vars => FileInv'
<1> SUFFICES ASSUME FileInv, [Next]_vars PROVE FileInv'
  OBVIOUS
<1>t. TypeOK /\ TypeOK'
  BY NextTypeOK DEF FileInv
<1>b. Blk \subseteq Int
  BY FileAssumption DEF FileAssumption
<1>s. {"seek", "fetch", "check", "seek_end", "tell"} = Sharing
  BY DEF Sharing
<1>1. ASSUME NEW t \in Thread, NEW b \in Blk, read(t, b) PROVE FileInv'
  BY <1>1, <1>t, ReaderBegins DEF read
<1>2. ASSUME NEW t \in Thread, ReadSeek(t) PROVE FileInv'
  <2>1. pc[t] = "seek" /\ seekg(blk[t], flags[t]) /\ Go(t, "fetch")
    BY <1>2 DEF ReadSeek
  <2>2. /\ flags[t] = broken[t]
        /\ alone[t] => flags[t] = fail
    BY <2>1, Zenon DEF FileInv, FlagsAreFresh
  <2>3. pc'[t] = "fetch" /\ UNCHANGED <<blk, broken, alone>>
    BY <1>t, <2>1, GoFacts, Zenon
  <2>4. /\ fail' = (broken[t] \/ blk[t] < 0)
        /\ eof' = FALSE
        /\ ~broken[t] /\ ~(blk[t] < 0) => pos' = blk[t]
    BY <2>1, <2>2, Zenon DEF seekg
  <2>5. AtItsBlock(t)'
    <3>1. CASE blk[t] < 0
      BY <2>3, <2>4, <3>1 DEF AtItsBlock
    <3>2. CASE ~(blk[t] < 0)
      BY <2>3, <2>4, <3>2 DEF AtItsBlock
    <3>3. QED
      BY <3>1, <3>2
  <2>6. Fails(t)'
    BY <2>3, <2>4, Zenon DEF Fails
  <2>7. QED
    BY <1>t, <1>s, <2>1, <2>5, <2>6, ReaderGoesOn
<1>3. ASSUME NEW t \in Thread, ReadFetch(t) PROVE FileInv'
  <2>1. pc[t] = "fetch" /\ Go(t, "check") /\ UNCHANGED disk
    BY <1>3 DEF ReadFetch
  <2>2. pc'[t] = "check" /\ UNCHANGED <<blk, broken, alone>>
    BY <1>t, <2>1, GoFacts, Zenon
  <2>3. /\ alone[t] /\ ~broken[t] => IF blk[t] < 0 THEN fail /\ ~eof
                                                  ELSE ~fail /\ pos = blk[t]
        /\ alone[t] /\ broken[t] => fail /\ ~eof
    BY <2>1 DEF FileInv, ReaderAtItsBlock, AtItsBlock, Fails
  <2>4. fail => UNCHANGED <<fail, eof>>
    BY <1>3, Zenon DEF ReadFetch
  <2>5. ~fail /\ pos < Len(disk) => page'[t] = disk[pos + 1] /\ ~fail'
    BY <1>3, <1>t DEF ReadFetch, TypeOK
  <2>6. ~fail /\ ~(pos < Len(disk)) => fail' /\ eof'
    BY <1>3, <1>t DEF ReadFetch, TypeOK
  <2>7. AtItsBlock(t)'
    <3>1. CASE blk[t] < 0
      BY <2>1, <2>2, <2>3, <2>4, <3>1 DEF AtItsBlock
    <3>2. CASE ~(blk[t] < 0)
      BY <2>1, <2>2, <2>3, <2>5, <2>6, <3>2 DEF AtItsBlock
    <3>3. QED
      BY <3>1, <3>2
  <2>8. Fails(t)'
    BY <2>2, <2>3, <2>4, Zenon DEF Fails
  <2>9. QED
    BY <1>t, <1>s, <2>1, <2>7, <2>8, ReaderGoesOn
<1>4. ASSUME NEW t \in Thread, ReadCheck(t) PROVE FileInv'
  BY <1>4, <1>t, CallEnds DEF ReadCheck
<1>5. ASSUME NEW t \in Thread, len(t) PROVE FileInv'
  BY <1>5, <1>t, ReaderBegins DEF len
<1>6. ASSUME NEW t \in Thread, LenSeek(t) PROVE FileInv'
  <2>1. /\ pc[t] = "seek_end" /\ seekg(Len(disk), flags[t])
        /\ Go(t, "tell") /\ UNCHANGED disk
    BY <1>6 DEF LenSeek
  <2>2. /\ flags[t] = broken[t]
        /\ ~(Len(disk) < 0)
    BY <1>t, <2>1 DEF FileInv, FlagsAreFresh, TypeOK
  <2>3. pc'[t] = "tell" /\ UNCHANGED <<broken, alone>>
    BY <1>t, <2>1, GoFacts, Zenon
  <2>4. /\ fail' = broken[t]
        /\ eof' = FALSE
        /\ ~broken[t] => pos' = Len(disk)
    <3>1. broken[t] \in BOOLEAN
      BY <1>t, Zenon DEF TypeOK
    <3>2. QED
      BY <2>1, <2>2, <3>1, Zenon DEF seekg
  <2>5. AtItsBlock(t)'
    BY <2>1, <2>3, <2>4 DEF AtItsBlock
  <2>6. Fails(t)'
    BY <2>3, <2>4, Zenon DEF Fails
  <2>7. QED
    BY <1>t, <1>s, <2>1, <2>5, <2>6, ReaderGoesOn
<1>7. ASSUME NEW t \in Thread, LenTell(t) PROVE FileInv'
  BY <1>7, <1>t, CallEnds DEF LenTell
<1>8. ASSUME NEW t \in Thread, NEW b \in Blk, NEW v \in Data, write(t, b, v)
      PROVE FileInv'
  <2>1. /\ lock /\ b \in 0 .. MaxBlocks - 1 /\ Begin(t, "put", b, v)
        /\ UNCHANGED fail
        /\ ~fail => pos' = b
    BY <1>8, <1>b, FileAssumption DEF write, FileAssumption
  <2>2. "put" \in Writing /\ "put" # "extend"
    BY DEF Writing
  <2>3. QED
    BY <1>t, <2>1, <2>2, WriterBegins
<1>9. ASSUME NEW t \in Thread, WriteStore(t) PROVE FileInv'
  BY <1>9, <1>t, CallEnds DEF WriteStore
<1>10. ASSUME NEW t \in Thread, append(t) PROVE FileInv'
  <2>1. /\ lock /\ Begin(t, "extend", 0, Zero)
        /\ UNCHANGED disk
        /\ seekg(Len(disk), fail)
    BY <1>10 DEF append
  <2>2. fail => fail'
    BY <2>1, Zenon DEF seekg
  <2>3. fail' \/ pos' = Len(disk')
    BY <2>1 DEF seekg
  <2>4. "extend" \in Writing /\ "put" # "extend"
    BY DEF Writing
  <2>5. QED
    BY <1>t, <2>1, <2>2, <2>3, <2>4, WriterBegins
<1>11. ASSUME NEW t \in Thread, AppendStore(t) PROVE FileInv'
  BY <1>11, <1>t, CallEnds DEF AppendStore
<1>12. CASE UNCHANGED vars
  BY <1>12, <1>t
  DEF vars, ghosts, FileInv, Exclusion, WriterAtItsBlock, FlagsAreFresh,
      ReaderAtItsBlock, AtItsBlock, Fails
<1>13. QED
  BY <1>1, <1>2, <1>3, <1>4, <1>5, <1>6, <1>7, <1>8, <1>9, <1>10, <1>11, <1>12,
     Zenon DEF Next

\* Whatever the interleaving of calls, the stream is where its writer or its
\* lone reader believes it to be.
THEOREM FileInvariant == Spec => []FileInv
BY InitFileInv, NextFileInv, PTL DEF Spec

\* The state of a file has its type: no call returns a negative number.
THEOREM FileTypes == Spec => []TypeOK
<1>1. FileInv => TypeOK
  BY DEF FileInv
<1>2. QED
  BY <1>1, FileInvariant, PTL

-----------------------------------------------------------------------------
(* Readers.                                                                *)

\* A read that no other read or len overlaps returns its block, or zeros
\* beyond the end of the file, and throws at block -1 only.
THEOREM LoneReads == Spec => LoneReadIsExact
<1>1. ASSUME FileInv, NEW t \in Thread, ReadCheck(t), alone[t], ~broken[t]
      PROVE  IF blk[t] < 0 THEN out'[t] = "throw"
                           ELSE out'[t] = "ok" /\ page'[t] = Content(blk[t])
  <2>1. IF blk[t] < 0 THEN fail /\ ~eof
        ELSE IF blk[t] < Len(disk) THEN ~fail /\ page[t] = disk[blk[t] + 1]
                                   ELSE fail /\ eof
    BY <1>1 DEF ReadCheck, FileInv, ReaderAtItsBlock, AtItsBlock
  <2>2. /\ page'[t] = IF fail /\ eof THEN Zero ELSE page[t]
        /\ out'[t] = IF fail /\ ~eof THEN "throw" ELSE "ok"
    BY <1>1, Zenon DEF ReadCheck, FileInv, TypeOK
  <2>3. QED
    BY <2>1, <2>2, Zenon DEF Content
<1>2. FileInv /\ [Next]_vars =>
        [\A t \in Thread : ReadCheck(t) /\ alone[t] /\ ~broken[t] =>
           IF blk[t] < 0 THEN out'[t] = "throw"
                         ELSE out'[t] = "ok" /\ page'[t] = Content(blk[t])]_vars
  BY <1>1, Zenon
<1>3. QED
  BY <1>2, FileInvariant, PTL DEF Spec, LoneReadIsExact

\* Such a len returns the number of blocks.
THEOREM LoneLens == Spec => LoneLenIsExact
<1>1. ASSUME FileInv, NEW t \in Thread, LenTell(t), alone[t], ~broken[t]
      PROVE  num'[t] = Len(disk)
  <2>1. ~fail /\ pos = Len(disk)
    BY <1>1 DEF LenTell, FileInv, ReaderAtItsBlock, AtItsBlock
  <2>2. num'[t] = tellg
    BY <1>1, Zenon DEF LenTell, FileInv, TypeOK
  <2>3. QED
    BY <2>1, <2>2, Zenon DEF tellg
<1>2. FileInv /\ [Next]_vars =>
        [\A t \in Thread : LenTell(t) /\ alone[t] /\ ~broken[t] =>
           num'[t] = Len(disk)]_vars
  BY <1>1, Zenon
<1>3. QED
  BY <1>2, FileInvariant, PTL DEF Spec, LoneLenIsExact

\* read and len are exact when nothing overlaps them.
THEOREM LoneReaders == Spec => LoneReadersAreExact
  BY LoneReads, LoneLens, PTL DEF LoneReadersAreExact

-----------------------------------------------------------------------------
(* A stream that has failed.                                               *)

LEMMA FailedStore ==
    ASSUME FileInv, NEW t \in Thread, NEW v, pc[t] \in Writing, broken[t],
           Store(t, v)
    PROVE  out'[t] = "throw" /\ disk' = disk
<1>1. fail
  BY Zenon DEF FileInv, WriterAtItsBlock
<1>2. disk' \in {disk} /\ out' = [out EXCEPT ![t] = "throw"]
  BY <1>1, Zenon DEF Store
<1>3. QED
  BY <1>2, Zenon DEF FileInv, TypeOK

\* A call that begins on a failed stream gets nothing done: it throws, or is a
\* len and returns 0.
THEOREM NoUseOfFailedStream == Spec => FailedStreamIsOfNoUse
<1> DEFINE A(t) == /\ ReadCheck(t) /\ alone[t] => out'[t] = "throw"
                   /\ LenTell(t) /\ alone[t] => num'[t] = 0
                   /\ WriteStore(t) \/ AppendStore(t) =>
                        out'[t] = "throw" /\ disk' = disk
<1>1. ASSUME FileInv, NEW t \in Thread, broken[t] PROVE A(t)
  <2>1. ASSUME ReadCheck(t), alone[t] PROVE out'[t] = "throw"
    <3>1. fail /\ ~eof
      BY <1>1, <2>1 DEF ReadCheck, FileInv, ReaderAtItsBlock, Fails
    <3>2. QED
      BY <1>1, <2>1, <3>1, Zenon DEF ReadCheck, FileInv, TypeOK
  <2>2. ASSUME LenTell(t), alone[t] PROVE num'[t] = 0
    <3>1. fail
      BY <1>1, <2>2 DEF LenTell, FileInv, ReaderAtItsBlock, Fails
    <3>2. num'[t] = tellg
      BY <1>1, <2>2, Zenon DEF LenTell, FileInv, TypeOK
    <3>3. QED
      BY <3>1, <3>2, Zenon DEF tellg
  <2>3. ASSUME WriteStore(t) PROVE out'[t] = "throw" /\ disk' = disk
    BY <1>1, <2>3, FailedStore DEF WriteStore, Writing
  <2>4. ASSUME AppendStore(t) PROVE out'[t] = "throw" /\ disk' = disk
    BY <1>1, <2>4, FailedStore DEF AppendStore, Writing
  <2>5. QED
    BY <2>1, <2>2, <2>3, <2>4, Zenon
<1>2. FileInv /\ [Next]_vars => [\A t \in Thread : broken[t] => A(t)]_vars
  BY <1>1, Zenon
<1>3. QED
  BY <1>2, FileInvariant, PTL DEF Spec, FailedStreamIsOfNoUse

LEMMA SeekBringsBack ==
    ASSUME FileInv, NEW t \in Thread, pc[t] \in {"seek", "seek_end"},
           NEW n, seekg(n, flags[t]), fail, ~fail'
    PROVE  ~alone[t]
<1>1. ~flags[t]
  BY Zenon DEF seekg
<1>2. QED
  BY <1>1, Zenon DEF FileInv, FlagsAreFresh

\* No writer and no lone reader brings a failed stream back.
THEOREM FailureLasts == Spec => FailureIsForGood
<1>1. ASSUME FileInv, [Next]_vars, fail, ~fail'
      PROVE  \E t \in Thread : (ReadSeek(t) \/ LenSeek(t)) /\ ~alone[t]
  <2>1. ASSUME NEW t \in Thread, ReadSeek(t) PROVE ~alone[t]
    BY <1>1, <2>1, SeekBringsBack DEF ReadSeek
  <2>2. ASSUME NEW t \in Thread, LenSeek(t) PROVE ~alone[t]
    BY <1>1, <2>2, SeekBringsBack DEF LenSeek
  <2>3. ASSUME NEW t \in Thread,
               \/ \E b \in Blk : read(t, b)
               \/ ReadFetch(t)
               \/ ReadCheck(t)
               \/ len(t)
               \/ LenTell(t)
               \/ \E b \in Blk, v \in Data : write(t, b, v)
        PROVE  FALSE
    BY <1>1, <2>3, Zenon DEF read, ReadFetch, ReadCheck, len, LenTell, write
  <2>4. ASSUME NEW t \in Thread, append(t) PROVE FALSE
    BY <1>1, <2>4, Zenon DEF append, seekg
  <2>5. ASSUME NEW t \in Thread, WriteStore(t) \/ AppendStore(t) PROVE FALSE
    BY <1>1, <2>5, Zenon DEF WriteStore, AppendStore, Store
  <2>6. CASE UNCHANGED vars
    BY <1>1, <2>6, Zenon DEF vars
  <2>7. QED
    BY <1>1, <2>1, <2>2, <2>3, <2>4, <2>5, <2>6, Zenon DEF Next
<1>2. FileInv /\ [Next]_vars =>
        [fail /\ ~fail' =>
           \E t \in Thread : (ReadSeek(t) \/ LenSeek(t)) /\ ~alone[t]]_vars
  BY <1>1, Zenon
<1>3. QED
  BY <1>2, FileInvariant, PTL DEF Spec, FailureIsForGood

\* A failed stream is of no use, and stays so but for overlapping readers.
THEOREM FailedStream == Spec => FailureStays
  BY NoUseOfFailedStream, FailureLasts, PTL DEF FailureStays

-----------------------------------------------------------------------------
(* Writers.                                                                *)

LEMMA WriteIsExact ==
    ASSUME FileInv, NEW t \in Thread, WriteStore(t), disk' # disk
    PROVE  /\ blk[t] \in 0 .. MaxBlocks - 1
           /\ data[t] \in Data
           /\ Abs!BWrite(blk[t], data[t])
<1>1. pc[t] = "put" /\ Store(t, data[t])
  BY DEF WriteStore
<1>2. ~fail /\ disk' = Written(data[t])
  BY <1>1, Zenon DEF Store
<1>3. /\ blk[t] \in 0 .. MaxBlocks - 1
      /\ data[t] \in Data
      /\ pos = blk[t]
  BY <1>1, <1>2 DEF FileInv, WriterAtItsBlock
<1>4. QED
  BY <1>2, <1>3 DEF Written, Abs!BWrite, Abs!Replaced

LEMMA AppendIsExact ==
    ASSUME FileInv, NEW t \in Thread, AppendStore(t)
    PROVE  /\ disk' # disk => Abs!BAppend
           /\ out'[t] = "ok" => Abs!BAppend /\ num'[t] = Len(disk)
<1>0. TypeOK
  BY DEF FileInv
<1>1. pc[t] = "extend" /\ Store(t, Zero)
  BY DEF AppendStore
<1>2. ~fail => pos = Len(disk)
  BY <1>1 DEF FileInv, WriterAtItsBlock, Writing
<1>3. ASSUME ~fail PROVE Written(Zero) = Append(disk, Zero)
  <2>1. disk \in Seq(Data \cup {Zero}) /\ pos = Len(disk)
    BY <1>0, <1>2, <1>3 DEF TypeOK
  <2>2. Written(Zero) \in Seq(Data \cup {Zero})
        /\ Len(Written(Zero)) = Len(disk) + 1
    BY <1>0, <2>1, WrittenIsAFile
  <2>3. \A i \in 1 .. Len(disk) + 1 :
          Written(Zero)[i] = IF i <= Len(disk) THEN disk[i] ELSE Zero
    BY <2>1 DEF Written
  <2>4. QED
    BY <2>1, <2>2, <2>3
<1>4. disk' # disk => Abs!BAppend
  BY <1>1, <1>3, Zenon DEF Store, Abs!BAppend
<1>5. out'[t] = "ok" => ~fail /\ disk' = Written(Zero)
  <2>1. "throw" # "ok"
    OBVIOUS
  <2>2. QED
    BY <1>0, <1>1, <2>1, Zenon DEF Store, TypeOK
<1>6. out'[t] = "ok" => num'[t] = tellg
  BY <1>0, Zenon DEF AppendStore, TypeOK
<1>7. QED
  BY <1>2, <1>3, <1>4, <1>5, <1>6, Zenon DEF tellg, Abs!BAppend

\* A write changes its own block and append adds the block it returns,
\* whatever readers did to the stream before.
THEOREM Writers == Spec => WritersAreExact
<1> DEFINE A(t) == /\ WriteStore(t) /\ disk' # disk => Abs!BWrite(blk[t], data[t])
                   /\ AppendStore(t) /\ out'[t] = "ok" =>
                        Abs!BAppend /\ num'[t] = Len(disk)
<1>1. ASSUME FileInv, NEW t \in Thread PROVE A(t)
  BY <1>1, WriteIsExact, AppendIsExact, Zenon
<1>2. FileInv /\ [Next]_vars => [\A t \in Thread : A(t)]_vars
  BY <1>1, Zenon
<1>3. QED
  BY <1>2, FileInvariant, PTL DEF Spec, WritersAreExact

\* The file implements a store of blocks: readers never change it.
THEOREM FileIsBlockStore == Spec => BlockStore
<1>1. Init => Abs!BInit
  BY DEF Init, Abs!BInit
<1>2. FileInv /\ [Next]_vars => [Abs!BNext]_disk
  <2> SUFFICES ASSUME FileInv, [Next]_vars, disk' # disk PROVE Abs!BNext
    BY Zenon
  <2>1. ASSUME NEW t \in Thread, WriteStore(t) PROVE Abs!BNext
    BY <2>1, WriteIsExact, Zenon DEF Abs!BNext
  <2>2. ASSUME NEW t \in Thread, AppendStore(t) PROVE Abs!BNext
    BY <2>2, AppendIsExact, Zenon DEF Abs!BNext
  <2>3. ASSUME NEW t \in Thread,
               \/ \E b \in Blk : read(t, b)
               \/ ReadSeek(t) \/ ReadFetch(t) \/ ReadCheck(t)
               \/ len(t) \/ LenSeek(t) \/ LenTell(t)
               \/ \E b \in Blk, v \in Data : write(t, b, v)
               \/ append(t)
        PROVE  FALSE
    BY <2>3, Zenon DEF read, ReadSeek, ReadFetch, ReadCheck, len, LenSeek,
                       LenTell, write, append
  <2>4. CASE UNCHANGED vars
    BY <2>4, Zenon DEF vars
  <2>5. QED
    BY <2>1, <2>2, <2>3, <2>4, Zenon DEF Next
<1>3. QED
  BY <1>1, <1>2, FileInvariant, PTL DEF Spec, BlockStore, Abs!BSpec
=============================================================================
