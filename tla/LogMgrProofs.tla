---------------------------- MODULE LogMgrProofs ----------------------------
(***************************************************************************)
(* The log for any number of threads and any size of blocks: no record is  *)
(* missing, the file has no gaps, iterators see everything, newest first,  *)
(* and with a single thread the whole is a write-ahead log.                *)
(***************************************************************************)
EXTENDS LogMgr, SequenceTheorems, TLAPS

\* Where the threads are, and which block is the current one.
Control ==
    /\ up # "up" => page.recs = {} /\ cur = 0 /\ \A t \in Thread : pc[t] = "idle"
    /\ up = "opening" => Len(disk) > 0
    /\ up = "up" => /\ cur \in 1 .. Len(disk)
                    /\ \/ /\ cur = Len(disk)
                          /\ \A t \in Thread : pc[t] \notin {"reset"} \cup Torn
                       \/ /\ cur = Len(disk) - 1
                          /\ \E t \in Thread : pc[t] \in {"reset"} \cup Torn
    /\ \A t, u \in Thread : pc[t] \in Switching /\ pc[u] \in Switching => t = u
    /\ \A t \in Thread : pc[t] \in Switching => arg[t] \in Lens

\* The records of a page lie behind its boundary, one behind the other, newer
\* ones in front.
WellFormed(p) ==
    /\ p.bnd % IntSize = 0
    /\ p.bnd <= Aligned
    /\ \A r \in p.recs :
          /\ p.bnd <= r.pos
          /\ r.pos + IntSize + r.len <= Aligned
          /\ r.pos % IntSize = 0
          /\ r.len % IntSize = 0
    /\ \A r, q \in p.recs :
          /\ r.id <= q.id => r = q \/ q.pos + IntSize + q.len <= r.pos

PagesOK ==
    /\ \A k \in 1 .. Len(disk) : WellFormed(disk[k])
    /\ WellFormed(page)
    /\ \A t \in Thread : WellFormed(iter[t].page) /\ iter[t].pos % IntSize = 0

\* Every record is in the block it was appended to, and blocks are filled in
\* the order of the file.
AtHome(p, k) ==
    \A r \in p.recs : r.id \in 1 .. Len(hist) /\ hist[r.id].blk = k

Homes ==
    /\ \A i, j \in 1 .. Len(hist) : i <= j => hist[i].blk <= hist[j].blk
    /\ \A i \in 1 .. Len(hist) : hist[i].blk <= Len(disk)
    /\ up = "up" => \A i \in 1 .. Len(hist) : hist[i].blk <= cur
    /\ up = "opening" => \A i \in 1 .. Len(hist) : hist[i].blk < Len(disk)
    /\ \A k \in 1 .. Len(disk) : AtHome(disk[k], k)
    /\ AtHome(page, cur)
    /\ \A t \in Thread : pc[t] = "read" => AtHome(iter[t].page, iter[t].blk)

\* The page is ahead of its block, except between its reset and the end of the
\* switch; before that the block has all of it.
PageAhead ==
    up = "up" =>
        \/ /\ \A t \in Thread : pc[t] \notin Torn
           /\ Ids(disk[cur]) \subseteq Ids(page)
           /\ \A i \in Ids(page), j \in Ids(disk[cur]) :
                 i < j => i \in Ids(disk[cur])
           /\ (\E t \in Thread : pc[t] \in Switching) => page = disk[cur]
        \/ /\ \E t \in Thread : pc[t] \in Torn
           /\ page = EmptyPage

\* What a thread is about to flush is its own and has survived.
Owned ==
    /\ crashed \subseteq 1 .. Len(hist)
    /\ \A t \in Thread :
          /\ lsn[t] > 0 => mine[t] \in 1 .. Len(hist) \ crashed
          /\ pc[t] = "flush" => lsn[t] > 0

EmptyIsBare(k) == disk[k] = EmptyPage => k \in bare \cup clobbered

\* InnerBlocksHaveRecords, also for the blocks that are about to be inner ones.
Bare ==
    /\ up = "down" => \A k \in 1 .. Len(disk) : EmptyIsBare(k)
    /\ up = "opening" => \A k \in 1 .. Len(disk) - 1 : EmptyIsBare(k)
    /\ up = "up" => \A k \in 1 .. cur - 1 : EmptyIsBare(k)
    /\ (\E t \in Thread : pc[t] \in Switching) => EmptyIsBare(cur)

\* What an iterator has still to read is older than what it returned.
Reading ==
    \A t \in Thread : pc[t] = "read" =>
        /\ iter[t].blk \in 1 .. cur
        /\ \A r \in iter[t].page.recs : r.pos >= iter[t].pos => r.id < iter[t].seen
        /\ \A k \in 1 .. iter[t].blk - 1 : \A r \in disk[k].recs : r.id < iter[t].seen

\* The histories speak of records that were appended, each to some block.
Known ==
    /\ sure \subseteq 1 .. Len(hist)
    /\ \A t \in Thread : due[t] \subseteq 1 .. Len(hist)
    /\ \A i \in 1 .. Len(hist) : hist[i].blk >= 1

\* A step that leaves the log as it is: the threads' own business.
Still ==
    /\ UNCHANGED <<up, disk, page, cur, latest, arg, lsn, mine, hist, crashed,
                   clobbered, bare, sure>>
    /\ \A u \in Thread : /\ pc'[u] \in Switching <=> pc[u] \in Switching
                         /\ pc'[u] \in Torn <=> pc[u] \in Torn

\* A step that writes the page over the current block.
Saving ==
    /\ up = "up"
    /\ cur \in 1 .. Len(disk)
    /\ flush_internal
    /\ bare \subseteq bare'
    /\ UNCHANGED <<up, page, cur, latest, lsn, mine, iter, hist, crashed, due>>
    /\ \A u \in Thread : /\ pc'[u] \in Torn <=> pc[u] \in Torn
                         /\ pc'[u] = "read" <=> pc[u] = "read"

LogInv ==
    /\ TypeOK
    /\ Control
    /\ PagesOK
    /\ Homes
    /\ PageAhead
    /\ Owned
    /\ Bare
    /\ Reading
    /\ Known
    /\ NoRecordMissing
    /\ FlushedStays
    /\ NothingSkipped

-----------------------------------------------------------------------------
(* Arithmetic, sequences and pages.                                        *)

LEMMA AlignedFacts ==
  /\ Aligned \in Nat
  /\ Aligned >= 8
  /\ Aligned % 4 = 0
  /\ Aligned <= BlockSize /\ BlockSize < Aligned + 4
  /\ BlockSize \in Nat
  /\ \A len \in Lens : len \in Nat /\ len + 4 <= Aligned
  BY LogAssumption DEF Aligned, IntSize

LEMMA PagesFacts ==
  /\ ZeroPage \in Pages /\ EmptyPage \in Pages
  /\ ZeroPage.bnd = 0 /\ ZeroPage.recs = {}
  /\ EmptyPage.bnd = Aligned /\ EmptyPage.recs = {}
  /\ \A p \in Pages : p.bnd \in Nat /\ p.recs \subseteq Records
  /\ \A r \in Records : r.id \in Nat /\ r.pos \in Nat /\ r.len \in Nat
  BY AlignedFacts DEF ZeroPage, EmptyPage, Pages, Records

LEMMA Written ==
  ASSUME TypeOK, NEW k \in 1 .. Len(disk), NEW p \in Pages,
         disk' = [disk EXCEPT ![k] = p]
  PROVE  /\ disk' \in Seq(Pages)
         /\ Len(disk') = Len(disk)
         /\ disk'[k] = p
         /\ \A j \in 1 .. Len(disk) : j # k => disk'[j] = disk[j]
  BY ExceptSeq DEF TypeOK

LEMMA Grown ==
  ASSUME TypeOK, disk' = Append(disk, ZeroPage)
  PROVE  /\ disk' \in Seq(Pages)
         /\ Len(disk') = Len(disk) + 1
         /\ disk'[Len(disk) + 1] = ZeroPage
         /\ \A j \in 1 .. Len(disk) : disk'[j] = disk[j]
  BY AppendProperties, PagesFacts DEF TypeOK

LEMMA DiskFacts ==
  ASSUME TypeOK
  PROVE  /\ Len(disk) \in Nat
         /\ \A k \in 1 .. Len(disk) : disk[k] \in Pages
         /\ Len(hist) \in Nat
         /\ \A i \in 1 .. Len(hist) : hist[i].blk \in Nat /\ hist[i].len \in Nat
<1>1. disk \in Seq(Pages) /\ hist \in Seq([blk : Nat, len : Nat])
  BY DEF TypeOK
<1>2. \A i \in 1 .. Len(hist) : hist[i] \in [blk : Nat, len : Nat]
  BY <1>1, ElementOfSeq
<1> QED
  BY <1>1, <1>2, ElementOfSeq, LenProperties

\* The history after an append.
LEMMA Remembered ==
  ASSUME TypeOK, NEW b \in Nat, NEW len \in Nat,
         hist' = Append(hist, [blk |-> b, len |-> len])
  PROVE  /\ hist' \in Seq([blk : Nat, len : Nat])
         /\ Len(hist') = Len(hist) + 1
         /\ hist'[Len(hist) + 1] = [blk |-> b, len |-> len]
         /\ \A i \in 1 .. Len(hist) : hist'[i] = hist[i]
<1>1. [blk |-> b, len |-> len] \in [blk : Nat, len : Nat]
  OBVIOUS
<1> QED
  BY <1>1, AppendProperties DEF TypeOK

\* A record put in front of the others.
LEMMA PutFacts ==
  ASSUME NEW p \in Pages, WellFormed(p), NEW id \in Nat, NEW len \in Lens,
         Place(p.bnd, len) \in Nat, Place(p.bnd, len) % 4 = 0,
         \A r \in p.recs : r.id < id
  PROVE  /\ Put(p, id, len) \in Pages
         /\ WellFormed(Put(p, id, len))
         /\ Place(p.bnd, len) # 0 =>
              Put(p, id, len).recs =
                p.recs \cup {[id |-> id, pos |-> Place(p.bnd, len), len |-> len]}
         /\ Place(p.bnd, len) = 0 => Put(p, id, len) = ZeroPage
<1>1. CASE Place(p.bnd, len) = 0
  BY <1>1, PagesFacts, AlignedFacts DEF Put, WellFormed, IntSize
<1>2. CASE Place(p.bnd, len) # 0
  <2> DEFINE r0 == [id |-> id, pos |-> Place(p.bnd, len), len |-> len]
             q == Put(p, id, len)
  <2>1. r0 \in Records /\ r0.id = id /\ r0.pos = Place(p.bnd, len) /\ r0.len = len
    BY AlignedFacts DEF Records
  <2>2. q.bnd = r0.pos /\ q.recs = p.recs \cup {r0} /\ q \in Pages
    BY <1>2, <2>1, PagesFacts DEF Put, Pages
  <2>3. p.bnd \in Nat /\ len \in Nat /\ r0.pos = p.bnd - (len + 4)
    BY <2>1, PagesFacts, AlignedFacts DEF Place, IntSize
  <2>4. len % 4 = 0
    BY <2>1, <2>3 DEF WellFormed, IntSize
  <2>5. \A r \in p.recs : r \in Records
    BY PagesFacts
  <2> HIDE DEF q, r0
  <2>6. \A r \in q.recs : /\ q.bnd <= r.pos
                          /\ r.pos + 4 + r.len <= Aligned
                          /\ r.pos % 4 = 0
                          /\ r.len % 4 = 0
    BY <2>1, <2>2, <2>3, <2>4, <2>5, PagesFacts, AlignedFacts DEF WellFormed, IntSize
  <2>7. \A r, s \in q.recs : r.id <= s.id => r = s \/ s.pos + 4 + s.len <= r.pos
    BY <2>1, <2>2, <2>3, <2>5, PagesFacts DEF WellFormed, IntSize
  <2>8. q.bnd % 4 = 0 /\ q.bnd <= Aligned
    BY <2>1, <2>2, <2>3, AlignedFacts DEF WellFormed, IntSize
  <2>9. WellFormed(q)
    BY <2>6, <2>7, <2>8 DEF WellFormed, IntSize
  <2> QED
    BY <1>2, <2>1, <2>2, <2>9 DEF q, r0
<1> QED
  BY <1>1, <1>2

LEMMA Flushed ==
  ASSUME TypeOK, cur \in 1 .. Len(disk), flush_internal
  PROVE  /\ disk' \in Seq(Pages)
         /\ Len(disk') = Len(disk)
         /\ disk'[cur] = page
         /\ \A j \in 1 .. Len(disk) : j # cur => disk'[j] = disk[j]
         /\ clobbered' \subseteq Nat
         /\ clobbered \subseteq clobbered'
         /\ (\E t \in Thread : pc[t] \in Torn) => cur \in clobbered'
<1>1. page \in Pages /\ disk' = [disk EXCEPT ![cur] = page]
  BY DEF TypeOK, flush_internal
<1>2. clobbered \subseteq Nat /\ cur \in Nat
  BY DEF TypeOK
<1> QED
  BY <1>1, <1>2, Written DEF flush_internal

\* Records known to the history are older than the next one.
LEMMA Older ==
  ASSUME TypeOK, NEW p \in Pages, NEW k, AtHome(p, k)
  PROVE  \A r \in p.recs : r.id < Len(hist) + 1
  BY DiskFacts, PagesFacts DEF AtHome

\* The page after append, and after the end of a block switch.
LEMMA AppendEffect ==
  ASSUME TypeOK, PagesOK, Homes, Control, NEW t \in Thread, NEW len \in Lens,
         append(t, len)
  PROVE  /\ page' \in Pages /\ WellFormed(page')
         /\ page'.recs = page.recs \cup
                {[id |-> Len(hist) + 1, pos |-> Place(page.bnd, len), len |-> len]}
         /\ cur \in 1 .. Len(disk) /\ cur = Len(disk)
         /\ hist' \in Seq([blk : Nat, len : Nat])
         /\ Len(hist') = Len(hist) + 1
         /\ hist'[Len(hist) + 1] = [blk |-> cur, len |-> len]
         /\ \A i \in 1 .. Len(hist) : hist'[i] = hist[i]
<1>1. page \in Pages /\ page.bnd \in Nat /\ len \in Nat /\ Len(hist) + 1 \in Nat
  BY PagesFacts, AlignedFacts, DiskFacts DEF TypeOK
<1>2. Place(page.bnd, len) \in Nat /\ Place(page.bnd, len) # 0
      /\ Place(page.bnd, len) % 4 = 0
  BY <1>1 DEF append, Fits, IsAligned, Place, IntSize
<1>3. \A r \in page.recs : r.id < Len(hist) + 1
  BY <1>1, Older DEF Homes
<1>4. WellFormed(page) /\ page' = Put(page, Len(hist) + 1, len)
  BY DEF PagesOK, append, Record
<1>5. /\ page' \in Pages /\ WellFormed(page')
      /\ page'.recs = page.recs \cup
             {[id |-> Len(hist) + 1, pos |-> Place(page.bnd, len), len |-> len]}
  BY <1>1, <1>2, <1>3, <1>4, PutFacts
<1>6. cur \in 1 .. Len(disk) /\ cur = Len(disk) /\ cur \in Nat
  BY DEF Control, append, Idle, Free, Switching, Torn, TypeOK
<1>7. hist' = Append(hist, [blk |-> cur, len |-> len])
  BY DEF append, Record
<1> QED
  BY <1>1, <1>5, <1>6, <1>7, Remembered

LEMMA EnterEffect ==
  ASSUME TypeOK, PagesOK, Homes, Control, PageAhead, NEW t \in Thread,
         SwitchEnter(t), IsAligned(arg[t])
  PROVE  /\ page' \in Pages /\ WellFormed(page')
         /\ page = EmptyPage
         /\ IF arg[t] + 4 = Aligned
              THEN page' = ZeroPage
              ELSE page'.recs = {[id |-> Len(hist) + 1, pos |-> Place(Aligned, arg[t]),
                                  len |-> arg[t]]}
         /\ hist' \in Seq([blk : Nat, len : Nat])
         /\ Len(hist') = Len(hist) + 1
         /\ hist'[Len(hist) + 1] = [blk |-> Len(disk), len |-> arg[t]]
         /\ \A i \in 1 .. Len(hist) : hist'[i] = hist[i]
<1>1. pc[t] \in Torn /\ pc[t] \in Switching /\ up = "up"
  BY DEF SwitchEnter, Torn, Switching, Control
<1>2. page = EmptyPage /\ arg[t] \in Lens
  BY <1>1 DEF PageAhead, Control
<1>3. /\ page \in Pages /\ page.bnd = Aligned /\ page.recs = {} /\ arg[t] \in Nat
      /\ Len(hist) + 1 \in Nat /\ Len(disk) \in Nat /\ Aligned \in Nat
      /\ arg[t] + 4 <= Aligned
  BY <1>2, PagesFacts, AlignedFacts, DiskFacts
<1>4. /\ Place(page.bnd, arg[t]) = Aligned - (arg[t] + 4)
      /\ Place(page.bnd, arg[t]) \in Nat
      /\ Place(page.bnd, arg[t]) % 4 = 0
      /\ Place(page.bnd, arg[t]) = 0 <=> arg[t] + 4 = Aligned
  BY <1>3 DEF IsAligned, Place, IntSize
<1>5. WellFormed(page) /\ page' = Put(page, Len(hist) + 1, arg[t])
  BY DEF PagesOK, SwitchEnter, Record
<1>6. \A r \in page.recs : r.id < Len(hist) + 1
  BY <1>3
<1>7. /\ page' \in Pages /\ WellFormed(page')
      /\ Place(page.bnd, arg[t]) # 0 => page'.recs = page.recs \cup
             {[id |-> Len(hist) + 1, pos |-> Place(page.bnd, arg[t]), len |-> arg[t]]}
      /\ Place(page.bnd, arg[t]) = 0 => page' = ZeroPage
  BY <1>2, <1>3, <1>4, <1>5, <1>6, PutFacts
<1>8. hist' = Append(hist, [blk |-> Len(disk), len |-> arg[t]])
  BY DEF SwitchEnter, Record
<1>9. /\ hist' \in Seq([blk : Nat, len : Nat])
      /\ Len(hist') = Len(hist) + 1
      /\ hist'[Len(hist) + 1] = [blk |-> Len(disk), len |-> arg[t]]
      /\ \A i \in 1 .. Len(hist) : hist'[i] = hist[i]
  BY <1>3, <1>8, Remembered
<1>10. CASE arg[t] + 4 = Aligned
  BY <1>2, <1>4, <1>7, <1>9, <1>10
<1>11. CASE arg[t] + 4 # Aligned
  BY <1>2, <1>3, <1>4, <1>7, <1>9, <1>11
<1> QED
  BY <1>10, <1>11

-----------------------------------------------------------------------------
(* Types and control.                                                      *)

LEMMA InitInv == Init => LogInv
<1> SUFFICES ASSUME Init PROVE LogInv
  OBVIOUS
<1> USE DEF Init
<1>1. /\ disk \in Seq(Pages) /\ Len(disk) \in {0, 1}
      /\ \A k \in 1 .. Len(disk) : disk[k] = ZeroPage
      /\ hist \in Seq([blk : Nat, len : Nat]) /\ Len(hist) = 0
  <2>1. <<>> \in Seq(Pages) /\ Len(<<>>) = 0
        /\ <<>> \in Seq([blk : Nat, len : Nat])
    BY EmptySeq
  <2>2. ZeroPage \in Pages
    BY PagesFacts
  <2>3. <<ZeroPage>> \in Seq(Pages) /\ Len(<<ZeroPage>>) = 1 /\ <<ZeroPage>>[1] = ZeroPage
    BY <2>2
  <2>4. CASE disk = <<>>
    BY <2>1, <2>4
  <2>5. CASE disk = <<ZeroPage>>
    BY <2>1, <2>3, <2>5
  <2> QED
    BY <2>4, <2>5
<1>2. NoIter \in [blk : Nat, page : Pages, pos : Nat, seen : Nat]
      /\ NoIter.page = ZeroPage /\ NoIter.pos = 0
  BY PagesFacts DEF NoIter
<1>3. TypeOK
  BY <1>1, <1>2, PagesFacts DEF TypeOK
<1>4. WellFormed(ZeroPage)
  BY PagesFacts, AlignedFacts DEF WellFormed, IntSize
<1>5. Control
  BY PagesFacts DEF Control, Switching
<1>6. PagesOK
  BY <1>1, <1>2, <1>4 DEF PagesOK, IntSize
<1>7. Homes
  BY <1>1, PagesFacts DEF Homes, AtHome
<1>8. PageAhead /\ Owned /\ Reading /\ NothingSkipped /\ FlushedStays
  BY DEF PageAhead, Owned, Reading, NothingSkipped, FlushedStays
<1>9. Bare
  <2>1. \A k \in 1 .. Len(disk) : k = Len(disk)
    BY <1>1
  <2> QED
    BY <2>1 DEF Bare, EmptyIsBare, Switching
<1>10. NoRecordMissing /\ Known
  BY <1>1 DEF NoRecordMissing, Known
<1> QED
  BY <1>3, <1>5, <1>6, <1>7, <1>8, <1>9, <1>10 DEF LogInv

\* An iterator that goes on reads a block below the current one.
LEMMA MovedFacts ==
  ASSUME LogInv, NEW t \in Thread, pc[t] = "read", has_next(t)
  PROVE  /\ moved(iter[t]) \in [blk : Nat, page : Pages, pos : Nat, seen : Nat]
         /\ moved(iter[t]).seen = iter[t].seen
         /\ WellFormed(moved(iter[t]).page) /\ moved(iter[t]).pos % 4 = 0
         /\ moved(iter[t]).blk \in 1 .. cur
         /\ AtHome(moved(iter[t]).page, moved(iter[t]).blk)
         /\ \/ moved(iter[t]) = iter[t] /\ iter[t].pos # BlockSize
            \/ /\ iter[t].pos = BlockSize
               /\ iter[t].blk > 1
               /\ moved(iter[t]).blk = iter[t].blk - 1
               /\ moved(iter[t]).page = disk[iter[t].blk - 1]
               /\ moved(iter[t]).pos = disk[iter[t].blk - 1].bnd
<1>1. /\ TypeOK /\ PagesOK /\ Homes /\ up = "up" /\ cur \in 1 .. Len(disk)
      /\ iter[t].blk \in 1 .. cur
      /\ cur \in Nat /\ Len(disk) \in Nat
  BY DiskFacts DEF LogInv, Control, Reading, TypeOK
<1>2. iter[t] \in [blk : Nat, page : Pages, pos : Nat, seen : Nat]
  BY <1>1 DEF TypeOK
<1>3. WellFormed(iter[t].page) /\ iter[t].pos % 4 = 0
      /\ AtHome(iter[t].page, iter[t].blk)
  BY <1>1 DEF PagesOK, Homes, IntSize
<1>4. CASE iter[t].pos # BlockSize
  BY <1>1, <1>2, <1>3, <1>4 DEF moved
<1>5. CASE iter[t].pos = BlockSize
  <2> DEFINE k == iter[t].blk - 1
  <2>1. iter[t].blk > 1 /\ k \in 1 .. Len(disk) /\ k \in Nat /\ k \in 1 .. cur
    BY <1>1, <1>2, <1>5, AlignedFacts DEF has_next
  <2>2. disk[k] \in Pages /\ disk[k].bnd \in Nat /\ WellFormed(disk[k])
        /\ AtHome(disk[k], k) /\ disk[k].bnd % 4 = 0
    BY <1>1, <2>1, DiskFacts, PagesFacts DEF PagesOK, Homes, WellFormed, IntSize
  <2>3. /\ moved(iter[t]).blk = k /\ moved(iter[t]).page = disk[k]
        /\ moved(iter[t]).pos = disk[k].bnd /\ moved(iter[t]).seen = iter[t].seen
        /\ moved(iter[t]) \in [blk : Nat, page : Pages, pos : Nat, seen : Nat]
    BY <1>2, <1>5, <2>1, <2>2 DEF moved
  <2> QED
    BY <1>5, <2>1, <2>2, <2>3
<1> QED
  BY <1>4, <1>5

LEMMA NextTypeOK == LogInv /\ [Next]_vars => TypeOK'
<1> SUFFICES ASSUME LogInv, [Next]_vars PROVE TypeOK'
  OBVIOUS
<1>0. /\ LogInv /\ TypeOK /\ Control /\ PagesOK /\ Homes /\ PageAhead
      /\ ZeroPage \in Pages /\ EmptyPage \in Pages
      /\ Len(disk) \in Nat /\ Len(hist) \in Nat
      /\ NoIter \in [blk : Nat, page : Pages, pos : Nat, seen : Nat]
  BY PagesFacts, DiskFacts DEF LogInv, NoIter
<1> USE <1>0
<1>1. CASE StartThrows \/ UNCHANGED vars
  BY <1>1 DEF TypeOK, StartThrows, vars, ghosts
<1>2. CASE StartGrow
  <2>1. disk' \in Seq(Pages)
    BY <1>2, Grown DEF StartGrow
  <2> QED
    BY <1>2, <2>1 DEF TypeOK, StartGrow, ghosts
<1>3. CASE StartFormat
  <2>1. Len(disk) \in 1 .. Len(disk)
    BY <1>3 DEF StartFormat, Control
  <2>2. disk' \in Seq(Pages)
    BY <1>3, <2>1, Written DEF StartFormat
  <2> QED
    BY <1>3, <2>2 DEF TypeOK, StartFormat, ghosts
<1>4. CASE Crash
  <2>a. crashed \subseteq Nat /\ bare \subseteq Nat /\ cur \in Nat
    BY DEF TypeOK
  <2>b. crashed' = crashed \cup (1 .. Len(hist) \ OnDisk) /\ bare' = bare \cup {cur, Len(disk)}
    BY <1>4 DEF Crash
  <2>c. Len(disk) \in Nat /\ 1 .. Len(hist) \subseteq Nat
    OBVIOUS
  <2>d. crashed' \subseteq Nat
    BY <2>a, <2>b, <2>c, Zenon
  <2>e. bare' \subseteq Nat
    BY <2>a, <2>b, <2>c, Zenon
  <2>1. crashed' \subseteq Nat /\ bare' \subseteq Nat
    BY <2>d, <2>e
  <2>2. pc' \in [Thread -> {"idle"}] /\ arg' \in [Thread -> Nat]
        /\ lsn' \in [Thread -> Nat] /\ mine' \in [Thread -> Nat]
        /\ iter' \in [Thread -> [blk : Nat, page : Pages, pos : Nat, seen : Nat]]
        /\ due' \in [Thread -> SUBSET Nat]
    BY <1>4 DEF Crash
  <2> QED
    BY <1>4, <2>1, <2>2 DEF TypeOK, Crash
<1>5. ASSUME NEW t \in Thread, NEW len \in Lens, append(t, len) PROVE TypeOK'
  <2>1. page' \in Pages /\ hist' \in Seq([blk : Nat, len : Nat])
    BY <1>5, AppendEffect
  <2>2. lsn' \in [Thread -> Nat] /\ mine' \in [Thread -> Nat] /\ latest' \in Nat
    BY <1>5 DEF TypeOK, append, Record
  <2> QED
    BY <1>5, <2>1, <2>2 DEF TypeOK, append, ghosts
<1>6. ASSUME NEW t \in Thread, NEW len \in Lens, SwitchFlush(t, len) PROVE TypeOK'
  <2>1. disk' \in Seq(Pages) /\ clobbered' \subseteq Nat
    BY <1>6, Flushed DEF SwitchFlush, Idle, Control
  <2>2. len \in Nat /\ cur \in Nat
    BY AlignedFacts DEF TypeOK
  <2> QED
    BY <1>6, <2>1, <2>2 DEF TypeOK, SwitchFlush, Switching
<1>7. ASSUME NEW t \in Thread, SwitchGrow(t) PROVE TypeOK'
  <2>1. disk' \in Seq(Pages)
    BY <1>7, Grown DEF SwitchGrow
  <2> QED
    BY <1>7, <2>1 DEF TypeOK, SwitchGrow, Switching, ghosts
<1>8. ASSUME NEW t \in Thread, SwitchReset(t) PROVE TypeOK'
  BY <1>8 DEF TypeOK, SwitchReset, Switching, ghosts
<1>9. ASSUME NEW t \in Thread, SwitchFormat(t) PROVE TypeOK'
  <2>1. Len(disk) \in 1 .. Len(disk)
    BY <1>9 DEF SwitchFormat, Control, TypeOK
  <2>2. disk' \in Seq(Pages)
    BY <1>9, <2>1, Written DEF SwitchFormat, TypeOK
  <2> QED
    BY <1>9, <2>2 DEF TypeOK, SwitchFormat, Switching, ghosts
<1>10. ASSUME NEW t \in Thread, SwitchEnter(t) PROVE TypeOK'
  <2>1. CASE IsAligned(arg[t])
    <3>1. page' \in Pages /\ hist' \in Seq([blk : Nat, len : Nat])
      BY <1>10, <2>1, EnterEffect
    <3>a. Record(t, arg[t], Len(disk))
      BY <1>10, <2>1 DEF SwitchEnter
    <3>2. lsn' \in [Thread -> Nat] /\ mine' \in [Thread -> Nat] /\ latest' \in Nat
      BY <3>a DEF TypeOK, Record
    <3> QED
      BY <1>10, <3>1, <3>2 DEF TypeOK, SwitchEnter, ghosts
  <2>2. CASE ~IsAligned(arg[t])
    BY <1>10, <2>2 DEF TypeOK, SwitchEnter, ghosts
  <2> QED
    BY <2>1, <2>2
<1>11. ASSUME NEW t \in Thread, flush(t) PROVE TypeOK'
  BY <1>11 DEF TypeOK, flush, ghosts
<1>12. ASSUME NEW t \in Thread, DoFlush(t) PROVE TypeOK'
  <2>1. disk' \in Seq(Pages) /\ clobbered' \subseteq Nat
    BY <1>12, Flushed DEF DoFlush, Control
  <2> QED
    BY <1>12, <2>1 DEF TypeOK, DoFlush
<1>13. ASSUME NEW t \in Thread, iterator(t) PROVE TypeOK'
  <2>1. disk' \in Seq(Pages) /\ clobbered' \subseteq Nat
    BY <1>13, Flushed DEF iterator, Idle, Control
  <2> QED
    BY <1>13, <2>1 DEF TypeOK, iterator
<1>14. ASSUME NEW t \in Thread, OpenIterator(t) PROVE TypeOK'
  <2>1. cur \in Nat /\ disk[cur] \in Pages /\ disk[cur].bnd \in Nat
    BY <1>14, DiskFacts, PagesFacts DEF OpenIterator, Control
  <2>2. OnDisk \subseteq Nat
    BY DiskFacts, PagesFacts DEF OnDisk, Ids
  <2>3. iter' \in [Thread -> [blk : Nat, page : Pages, pos : Nat, seen : Nat]]
    BY <1>14, <2>1 DEF TypeOK, OpenIterator
  <2>4. due' \in [Thread -> SUBSET Nat]
    BY <1>14, <2>2 DEF TypeOK, OpenIterator
  <2> QED
    BY <1>14, <2>3, <2>4 DEF TypeOK, OpenIterator
<1>15. ASSUME NEW t \in Thread, NextRecord(t) PROVE TypeOK'
  <2>1. PICK r \in moved(iter[t]).page.recs :
              /\ iter' = [iter EXCEPT ![t] = [moved(iter[t]) EXCEPT
                              !.pos = @ + IntSize + r.len, !.seen = r.id]]
              /\ due' = [due EXCEPT ![t] = @ \ {r.id}]
    BY <1>15 DEF NextRecord
  <2>2. /\ moved(iter[t]) \in [blk : Nat, page : Pages, pos : Nat, seen : Nat]
    BY <1>15, MovedFacts DEF NextRecord
  <2>3. r \in Records
    BY <2>2, PagesFacts
  <2> DEFINE e == [moved(iter[t]) EXCEPT !.pos = @ + IntSize + r.len, !.seen = r.id]
  <2>a. e \in [blk : Nat, page : Pages, pos : Nat, seen : Nat]
    <3>1. r.id \in Nat /\ r.len \in Nat /\ moved(iter[t]).pos + IntSize + r.len \in Nat
      BY <2>2, <2>3, PagesFacts DEF IntSize
    <3> QED
      BY <2>2, <3>1
  <2>b. iter' = [iter EXCEPT ![t] = e]
    BY <2>1
  <2> HIDE DEF e
  <2>4. iter' \in [Thread -> [blk : Nat, page : Pages, pos : Nat, seen : Nat]]
        /\ due' \in [Thread -> SUBSET Nat]
    BY <2>1, <2>a, <2>b DEF TypeOK
  <2> QED
    BY <1>15, <2>4 DEF TypeOK, NextRecord
<1>16. ASSUME NEW t \in Thread, NextZero(t) PROVE TypeOK'
  <2>1. iter' = [iter EXCEPT ![t] = [moved(iter[t]) EXCEPT !.pos = @ + IntSize]]
    BY <1>16 DEF NextZero
  <2>2. /\ moved(iter[t]) \in [blk : Nat, page : Pages, pos : Nat, seen : Nat]
    BY <1>16, MovedFacts DEF NextZero
  <2> DEFINE e == [moved(iter[t]) EXCEPT !.pos = @ + IntSize]
  <2>a. e \in [blk : Nat, page : Pages, pos : Nat, seen : Nat]
    BY <2>2 DEF IntSize
  <2>b. iter' = [iter EXCEPT ![t] = e]
    BY <2>1
  <2> HIDE DEF e
  <2>3. iter' \in [Thread -> [blk : Nat, page : Pages, pos : Nat, seen : Nat]]
    BY <2>a, <2>b DEF TypeOK
  <2> QED
    BY <1>16, <2>3 DEF TypeOK, NextZero, ghosts
<1>17. ASSUME NEW t \in Thread, NextThrows(t) PROVE TypeOK'
  BY <1>17 DEF TypeOK, NextThrows
<1>18. ASSUME NEW t \in Thread, Close(t) PROVE TypeOK'
  BY <1>18 DEF TypeOK, Close
<1> QED
  BY <1>1, <1>2, <1>3, <1>4, <1>5, <1>6, <1>7, <1>8, <1>9, <1>10, <1>11, <1>12,
     <1>13, <1>14, <1>15, <1>16, <1>17, <1>18 DEF Next

LEMMA NextControl == LogInv /\ [Next]_vars => Control'
<1> SUFFICES ASSUME LogInv, [Next]_vars PROVE Control'
  OBVIOUS
<1>0. /\ LogInv /\ TypeOK /\ Control /\ PageAhead
      /\ Len(disk) \in Nat /\ cur \in Nat
      /\ pc \in [Thread -> {"idle", "flush", "open", "read"} \cup Switching]
      /\ arg \in [Thread -> Nat]
  BY DiskFacts DEF LogInv, TypeOK
<1>1. CASE StartThrows \/ UNCHANGED vars
  BY <1>0, <1>1 DEF Control, StartThrows, vars, ghosts
<1>2. CASE StartGrow
  <2>1. Len(disk') = Len(disk) + 1
    BY <1>0, <1>2, Grown DEF StartGrow
  <2> QED
    BY <1>0, <1>2, <2>1 DEF Control, StartGrow
<1>3. CASE StartFormat
  <2>1. Len(disk) \in 1 .. Len(disk)
    BY <1>0, <1>3 DEF StartFormat, Control
  <2>2. Len(disk') = Len(disk)
    BY <1>0, <1>3, <2>1, Written, PagesFacts DEF StartFormat
  <2> QED
    BY <1>0, <1>3, <2>1, <2>2 DEF Control, StartFormat, Torn, Switching
<1>4. CASE Crash
  BY <1>0, <1>4, PagesFacts DEF Control, Crash, Switching
<1>5. ASSUME NEW t \in Thread, NEW len \in Lens, append(t, len) PROVE Control'
  BY <1>0, <1>5 DEF Control, append, Idle
<1>6. ASSUME NEW t \in Thread, NEW len \in Lens, SwitchFlush(t, len) PROVE Control'
  <2>1. Len(disk') = Len(disk) /\ cur \in 1 .. Len(disk)
    BY <1>0, <1>6, Flushed DEF SwitchFlush, Idle, Control
  <2>2. \A u \in Thread : pc'[u] = IF u = t THEN "grow" ELSE pc[u]
    BY <1>0, <1>6 DEF SwitchFlush
  <2>3. \A u \in Thread : pc[u] \notin Switching
    BY <1>6 DEF SwitchFlush, Free
  <2>4. cur = Len(disk)
    BY <1>0, <1>6, <2>3 DEF Control, SwitchFlush, Idle, Switching, Torn
  <2>5. arg'[t] = len /\ up' = "up" /\ up = "up" /\ cur' = cur
    BY <1>0, <1>6 DEF SwitchFlush, Idle
  <2> QED
    BY <1>0, <2>1, <2>2, <2>3, <2>4, <2>5 DEF Control, Switching, Torn
<1>7. ASSUME NEW t \in Thread, SwitchGrow(t) PROVE Control'
  <2>1. Len(disk') = Len(disk) + 1
    BY <1>0, <1>7, Grown DEF SwitchGrow
  <2>2. \A u \in Thread : pc'[u] = IF u = t THEN "reset" ELSE pc[u]
    BY <1>0, <1>7 DEF SwitchGrow
  <2>3. up = "up" /\ up' = "up" /\ cur' = cur /\ arg' = arg /\ pc[t] = "grow"
    BY <1>0, <1>7 DEF SwitchGrow, Control
  <2>4. \A u \in Thread : pc[u] \in Switching => u = t
    BY <1>0, <2>3 DEF Control, Switching
  <2>5. cur = Len(disk) /\ cur \in 1 .. Len(disk)
    BY <1>0, <2>3, <2>4 DEF Control, Switching, Torn
  <2> QED
    BY <1>0, <2>1, <2>2, <2>3, <2>4, <2>5 DEF Control, Switching, Torn
<1>8. ASSUME NEW t \in Thread, SwitchReset(t) PROVE Control'
  <2>2. \A u \in Thread : pc'[u] = IF u = t THEN "format" ELSE pc[u]
    BY <1>0, <1>8 DEF SwitchReset
  <2>3. up = "up" /\ up' = "up" /\ cur' = cur /\ arg' = arg /\ pc[t] = "reset"
        /\ disk' = disk
    BY <1>0, <1>8 DEF SwitchReset, Control
  <2> QED
    BY <1>0, <2>2, <2>3 DEF Control, Switching, Torn
<1>9. ASSUME NEW t \in Thread, SwitchFormat(t) PROVE Control'
  <2>1. Len(disk') = Len(disk)
    BY <1>0, <1>9, Written DEF SwitchFormat, Control, TypeOK
  <2>2. \A u \in Thread : pc'[u] = IF u = t THEN "enter" ELSE pc[u]
    BY <1>0, <1>9 DEF SwitchFormat
  <2>3. up = "up" /\ up' = "up" /\ cur' = cur /\ arg' = arg /\ pc[t] = "format"
    BY <1>0, <1>9 DEF SwitchFormat, Control
  <2> QED
    BY <1>0, <2>1, <2>2, <2>3 DEF Control, Switching, Torn
<1>10. ASSUME NEW t \in Thread, SwitchEnter(t) PROVE Control'
  <2>2. \A u \in Thread : pc'[u] = IF u = t THEN "idle" ELSE pc[u]
    BY <1>0, <1>10 DEF SwitchEnter
  <2>3. up = "up" /\ up' = "up" /\ cur' = Len(disk) /\ disk' = disk /\ pc[t] = "enter"
        /\ \A u \in Thread : u # t => arg'[u] = arg[u]
    BY <1>0, <1>10 DEF SwitchEnter, Control
  <2>4. \A u \in Thread : pc[u] \in Switching => u = t
    BY <1>0, <2>3 DEF Control, Switching
  <2>5. Len(disk) \in 1 .. Len(disk)
    BY <1>0, <2>3 DEF Control
  <2> QED
    BY <1>0, <2>2, <2>3, <2>4, <2>5 DEF Control, Switching, Torn
<1>11. ASSUME NEW t \in Thread, flush(t) PROVE Control'
  <2>1. \A u \in Thread : pc'[u] = IF u = t THEN "flush" ELSE pc[u]
    BY <1>0, <1>11 DEF flush
  <2>2. up = "up" /\ up' = "up" /\ cur' = cur /\ arg' = arg /\ disk' = disk
        /\ pc[t] = "idle"
    BY <1>11 DEF flush, Idle
  <2> QED
    BY <1>0, <2>1, <2>2 DEF Control, Switching, Torn
<1>12. ASSUME NEW t \in Thread, DoFlush(t) PROVE Control'
  <2>1. \A u \in Thread : pc'[u] = IF u = t THEN "idle" ELSE pc[u]
    BY <1>0, <1>12 DEF DoFlush
  <2>2. up = "up" /\ up' = "up" /\ cur' = cur /\ arg' = arg /\ pc[t] = "flush"
    BY <1>0, <1>12 DEF DoFlush, Control
  <2>3. Len(disk') = Len(disk)
    BY <1>0, <1>12, <2>2, Flushed DEF DoFlush, Control
  <2> QED
    BY <1>0, <2>1, <2>2, <2>3 DEF Control, Switching, Torn
<1>13. ASSUME NEW t \in Thread, iterator(t) PROVE Control'
  <2>1. \A u \in Thread : pc'[u] = IF u = t THEN "open" ELSE pc[u]
    BY <1>0, <1>13 DEF iterator
  <2>2. up = "up" /\ up' = "up" /\ cur' = cur /\ arg' = arg /\ pc[t] = "idle"
    BY <1>0, <1>13 DEF iterator, Idle
  <2>3. Len(disk') = Len(disk)
    BY <1>0, <1>13, <2>2, Flushed DEF iterator, Control
  <2> QED
    BY <1>0, <2>1, <2>2, <2>3 DEF Control, Switching, Torn
<1>14. ASSUME NEW t \in Thread, NEW to \in {"idle", "read"},
              pc[t] \in {"open", "read"}, pc' = [pc EXCEPT ![t] = to],
              UNCHANGED <<up, disk, page, cur, arg>>
       PROVE  Control'
  <2>1. \A u \in Thread : pc'[u] = IF u = t THEN to ELSE pc[u]
    BY <1>0, <1>14
  <2>2. up = "up"
    BY <1>0, <1>14 DEF Control
  <2> QED
    BY <1>0, <1>14, <2>1, <2>2 DEF Control, Switching, Torn
<1>15. ASSUME NEW t \in Thread, OpenIterator(t) \/ NextThrows(t) \/ Close(t)
       PROVE  Control'
  BY <1>14, <1>15 DEF OpenIterator, NextThrows, Close
<1>16. ASSUME NEW t \in Thread, NextRecord(t) \/ NextZero(t) PROVE Control'
  BY <1>0, <1>16 DEF NextRecord, NextZero, Control
<1> QED
  BY <1>1, <1>2, <1>3, <1>4, <1>5, <1>6, <1>7, <1>8, <1>9, <1>10, <1>11, <1>12,
     <1>13, <1>15, <1>16 DEF Next

\* What a step is to the pages and the file.
LEMMA StillSteps ==
  ASSUME LogInv, NEW t \in Thread,
         \/ flush(t) \/ OpenIterator(t) \/ NextThrows(t) \/ Close(t)
         \/ NextRecord(t) \/ NextZero(t)
  PROVE  Still
<1>0. /\ pc \in [Thread -> {"idle", "flush", "open", "read"} \cup Switching]
  BY DEF LogInv, TypeOK
<1>1. CASE flush(t) \/ OpenIterator(t) \/ NextThrows(t) \/ Close(t)
  <2>1. pc[t] \notin Switching /\ pc'[t] \notin Switching
        /\ \A u \in Thread : u # t => pc'[u] = pc[u]
    BY <1>0, <1>1 DEF flush, OpenIterator, NextThrows, Close, Idle, Switching
  <2> QED
    BY <1>1, <2>1 DEF flush, OpenIterator, NextThrows, Close, Still, Switching,
                      Torn, ghosts
<1>2. CASE NextRecord(t) \/ NextZero(t)
  BY <1>2 DEF NextRecord, NextZero, Still, ghosts
<1> QED
  BY <1>1, <1>2

LEMMA SavingSteps ==
  ASSUME LogInv, NEW t \in Thread,
         (\E len \in Lens : SwitchFlush(t, len)) \/ DoFlush(t) \/ iterator(t)
  PROVE  Saving
<1>0. /\ Control
      /\ pc \in [Thread -> {"idle", "flush", "open", "read"} \cup Switching]
      /\ bare \subseteq Nat
  BY DEF LogInv, TypeOK
<1>1. ASSUME NEW len \in Lens, SwitchFlush(t, len) PROVE Saving
  <2>1. /\ up = "up" /\ flush_internal /\ bare \subseteq bare'
        /\ UNCHANGED <<up, page, cur, latest, lsn, mine, iter, hist, crashed, due>>
    BY <1>1 DEF SwitchFlush, Idle
  <2>2. pc[t] = "idle" /\ pc'[t] = "grow" /\ \A u \in Thread : u # t => pc'[u] = pc[u]
    BY <1>0, <1>1 DEF SwitchFlush, Idle
  <2> QED
    BY <1>0, <2>1, <2>2 DEF Saving, Control, Torn
<1>2. CASE DoFlush(t) \/ iterator(t)
  <2>1. pc[t] \notin Torn \cup {"read"} /\ pc'[t] \notin Torn \cup {"read"}
        /\ \A u \in Thread : u # t => pc'[u] = pc[u]
    BY <1>0, <1>2 DEF DoFlush, iterator, Idle, Torn
  <2>2. up = "up"
    BY <1>0, <1>2 DEF DoFlush, iterator, Idle, Control
  <2> QED
    BY <1>0, <1>2, <2>1, <2>2 DEF Saving, DoFlush, iterator, Control
<1> QED
  BY <1>1, <1>2

LEMMA StepKinds ==
  ASSUME LogInv, [Next]_vars
  PROVE  \/ Still
         \/ Saving
         \/ StartGrow \/ StartFormat \/ Crash
         \/ \E t \in Thread :
               \/ \E len \in Lens : append(t, len)
               \/ SwitchGrow(t) \/ SwitchReset(t) \/ SwitchFormat(t) \/ SwitchEnter(t)
<1>1. CASE StartThrows \/ UNCHANGED vars
  BY <1>1 DEF StartThrows, vars, ghosts, Still
<1> QED
  BY <1>1, StillSteps, SavingSteps DEF Next

\* Where the pages of the file come from.
LEMMA DiskStep ==
  ASSUME LogInv, [Next]_vars
  PROVE  /\ Len(disk') \in {Len(disk), Len(disk) + 1}
         /\ \A k \in 1 .. Len(disk') :
               \/ k \in 1 .. Len(disk) /\ disk'[k] = disk[k]
               \/ k = cur /\ disk'[k] = page /\ Saving
               \/ /\ disk'[k] \in {ZeroPage, EmptyPage}
                  /\ \/ k > Len(disk)
                     \/ k > cur /\ up = "up"
                     \/ k = Len(disk) /\ up = "opening"
<1>0. TypeOK /\ Control /\ PageAhead /\ Len(disk) \in Nat /\ cur \in Nat
  BY DiskFacts DEF LogInv, TypeOK
<1>1. CASE Still
  BY <1>0, <1>1 DEF Still
<1>2. CASE Saving
  <2>1. Len(disk') = Len(disk) /\ disk'[cur] = page
        /\ \A j \in 1 .. Len(disk) : j # cur => disk'[j] = disk[j]
    BY <1>0, <1>2, Flushed DEF Saving
  <2> QED
    BY <1>0, <1>2, <2>1
<1>3. CASE StartGrow \/ \E t \in Thread : SwitchGrow(t)
  <2>1. /\ Len(disk') = Len(disk) + 1 /\ disk'[Len(disk) + 1] = ZeroPage
        /\ \A j \in 1 .. Len(disk) : disk'[j] = disk[j]
    BY <1>0, <1>3, Grown DEF StartGrow, SwitchGrow
  <2> QED
    BY <1>0, <2>1
<1>4. CASE StartFormat
  <2>1. Len(disk) \in 1 .. Len(disk) /\ disk' = [disk EXCEPT ![Len(disk)] = EmptyPage]
        /\ up = "opening"
    BY <1>0, <1>4 DEF StartFormat, Control
  <2> QED
    BY <1>0, <2>1, Written, PagesFacts
<1>5. ASSUME NEW t \in Thread, SwitchFormat(t)
      PROVE  /\ Len(disk') = Len(disk)
             /\ \A k \in 1 .. Len(disk') :
                   \/ k \in 1 .. Len(disk) /\ disk'[k] = disk[k]
                   \/ disk'[k] = EmptyPage /\ k > cur /\ up = "up"
  <2>1. pc[t] \in Torn /\ pc[t] = "format" /\ up = "up"
    BY <1>0, <1>5 DEF SwitchFormat, Torn, Control
  <2>2. cur = Len(disk) - 1 /\ cur \in 1 .. Len(disk) /\ page = EmptyPage
    BY <1>0, <2>1 DEF Control, PageAhead, Torn
  <2>3. disk' = [disk EXCEPT ![Len(disk)] = EmptyPage] /\ Len(disk) \in 1 .. Len(disk)
    BY <1>0, <1>5, <2>2 DEF SwitchFormat
  <2>4. /\ Len(disk') = Len(disk) /\ disk'[Len(disk)] = EmptyPage
        /\ \A k \in 1 .. Len(disk) : k # Len(disk) => disk'[k] = disk[k]
    BY <1>0, <2>3, Written, PagesFacts
  <2> QED
    BY <1>0, <2>1, <2>2, <2>4
<1>6. CASE Crash \/ \E t \in Thread : \/ \E len \in Lens : append(t, len)
                                      \/ SwitchReset(t) \/ SwitchEnter(t)
  BY <1>0, <1>6 DEF Crash, append, SwitchReset, SwitchEnter
<1> QED
  BY <1>1, <1>2, <1>3, <1>4, <1>5, <1>6, StepKinds

LEMMA PageStep ==
  ASSUME LogInv, [Next]_vars
  PROVE  \/ page' = page /\ cur' = cur /\ hist' = hist
         \/ page' \in {ZeroPage, EmptyPage} /\ hist' = hist
         \/ \E t \in Thread, len \in Lens : append(t, len)
         \/ \E t \in Thread : SwitchEnter(t) /\ IsAligned(arg[t])
<1>0. PageAhead /\ Control
  BY DEF LogInv
<1>1. ASSUME NEW t \in Thread, SwitchEnter(t), ~IsAligned(arg[t])
      PROVE  page' = EmptyPage /\ hist' = hist
  <2>1. pc[t] \in Torn /\ up = "up"
    BY <1>0, <1>1 DEF SwitchEnter, Torn, Control
  <2> QED
    BY <1>0, <1>1, <2>1 DEF SwitchEnter, PageAhead
<1> QED
  BY <1>1, StepKinds DEF Still, Saving, StartGrow, StartFormat, Crash, SwitchGrow,
                         SwitchReset, SwitchFormat

LEMMA IterStep ==
  ASSUME LogInv, [Next]_vars, NEW u \in Thread
  PROVE  \/ /\ iter'[u] = iter[u] /\ due'[u] = due[u]
            /\ pc'[u] = "read" => pc[u] = "read" /\ up' = "up"
         \/ iter'[u] = NoIter /\ due'[u] = {} /\ pc'[u] = "idle"
         \/ OpenIterator(u)
         \/ NextRecord(u)
         \/ NextZero(u)
<1>0. /\ Control
      /\ pc \in [Thread -> {"idle", "flush", "open", "read"} \cup Switching]
      /\ DOMAIN iter = Thread /\ DOMAIN due = Thread
  BY DEF LogInv, TypeOK
<1>1. CASE UNCHANGED <<iter, due, pc, up>>
  BY <1>0, <1>1 DEF Control
<1>2. CASE StartThrows \/ UNCHANGED vars \/ StartGrow \/ StartFormat
  BY <1>0, <1>2 DEF Control, StartThrows, StartGrow, StartFormat, vars, ghosts
<1>3. CASE Crash
  BY <1>3 DEF Crash
<1>4. ASSUME NEW t \in Thread, NEW to \in {"idle", "flush", "open"} \cup Switching,
             pc' = [pc EXCEPT ![t] = to], UNCHANGED <<up, iter, due>>
      PROVE  /\ iter'[u] = iter[u] /\ due'[u] = due[u]
             /\ pc'[u] = "read" => pc[u] = "read" /\ up' = "up"
  BY <1>0, <1>4 DEF Control, Switching
<1>5. ASSUME NEW t \in Thread,
             \/ \E len \in Lens : append(t, len)
             \/ \E len \in Lens : SwitchFlush(t, len)
             \/ SwitchGrow(t) \/ SwitchReset(t) \/ SwitchFormat(t)
             \/ SwitchEnter(t) \/ flush(t) \/ DoFlush(t) \/ iterator(t)
      PROVE  /\ iter'[u] = iter[u] /\ due'[u] = due[u]
             /\ pc'[u] = "read" => pc[u] = "read" /\ up' = "up"
  <2>1. CASE \E len \in Lens : append(t, len)
    BY <1>1, <2>1, <1>0 DEF append, ghosts, Control
  <2>2. CASE \E len \in Lens : SwitchFlush(t, len)
    BY <1>4, <2>2 DEF SwitchFlush, Switching
  <2>3. CASE SwitchGrow(t) \/ SwitchReset(t) \/ SwitchFormat(t)
    BY <1>4, <2>3 DEF SwitchGrow, SwitchReset, SwitchFormat, ghosts, Switching
  <2>4. CASE SwitchEnter(t) \/ flush(t) \/ DoFlush(t) \/ iterator(t)
    BY <1>4, <2>4 DEF SwitchEnter, flush, DoFlush, iterator, ghosts
  <2> QED
    BY <1>5, <2>1, <2>2, <2>3, <2>4
<1>6. ASSUME NEW t \in Thread,
             OpenIterator(t) \/ NextRecord(t) \/ NextZero(t), t # u
      PROVE  /\ iter'[u] = iter[u] /\ due'[u] = due[u]
             /\ pc'[u] = "read" => pc[u] = "read" /\ up' = "up"
  BY <1>0, <1>6 DEF OpenIterator, NextRecord, NextZero, ghosts, Control
<1>7. ASSUME NEW t \in Thread, NextThrows(t) \/ Close(t)
      PROVE  \/ /\ iter'[u] = iter[u] /\ due'[u] = due[u]
                /\ pc'[u] = "read" => pc[u] = "read" /\ up' = "up"
             \/ iter'[u] = NoIter /\ due'[u] = {} /\ pc'[u] = "idle"
  BY <1>0, <1>7 DEF NextThrows, Close, Control
<1> QED
  BY <1>2, <1>3, <1>5, <1>6, <1>7 DEF Next

\* What opening an iterator and moving it on do to it.
LEMMA OpenEffect ==
  ASSUME LogInv, NEW u \in Thread, OpenIterator(u)
  PROVE  /\ iter'[u] = [blk |-> cur, page |-> disk[cur], pos |-> disk[cur].bnd,
                        seen |-> Len(hist) + 1]
         /\ due'[u] = {id \in OnDisk : hist[id].blk <= cur}
         /\ pc'[u] = "read"
         /\ up = "up" /\ cur \in 1 .. Len(disk)
         /\ UNCHANGED <<up, disk, page, cur, hist>>
  BY DEF LogInv, TypeOK, Control, OpenIterator

LEMMA NextEffect ==
  ASSUME LogInv, NEW u \in Thread, NextRecord(u)
  PROVE  /\ pc[u] = "read" /\ has_next(u) /\ pc' = pc
         /\ UNCHANGED <<up, disk, page, cur, hist>>
         /\ \E r \in moved(iter[u]).page.recs :
               /\ r.pos = moved(iter[u]).pos
               /\ iter'[u] = [moved(iter[u]) EXCEPT !.pos = @ + 4 + r.len, !.seen = r.id]
               /\ due'[u] = due[u] \ {r.id}
  BY DEF LogInv, TypeOK, NextRecord, IntSize

LEMMA ZeroEffect ==
  ASSUME LogInv, NEW u \in Thread, NextZero(u)
  PROVE  /\ pc[u] = "read" /\ has_next(u) /\ pc' = pc
         /\ UNCHANGED <<up, disk, page, cur, hist>>
         /\ \A r \in moved(iter[u]).page.recs : r.pos # moved(iter[u]).pos
         /\ iter'[u] = [moved(iter[u]) EXCEPT !.pos = @ + 4]
         /\ due'[u] = due[u]
  BY DEF LogInv, TypeOK, NextZero, NoRecordAt, IntSize, ghosts

LEMMA NextPagesOK == LogInv /\ [Next]_vars => PagesOK'
<1> SUFFICES ASSUME LogInv, [Next]_vars PROVE PagesOK'
  OBVIOUS
<1>0. TypeOK /\ Control /\ PagesOK /\ Homes /\ PageAhead /\ Len(disk) \in Nat
      /\ Len(disk') \in Nat
  BY NextTypeOK, DiskFacts, DiskStep DEF LogInv
<1>1. WellFormed(ZeroPage) /\ WellFormed(EmptyPage)
  BY PagesFacts, AlignedFacts DEF WellFormed, IntSize
<1>2. ASSUME NEW k \in 1 .. Len(disk') PROVE WellFormed(disk'[k])
  BY <1>0, <1>1, DiskStep DEF PagesOK
<1>3. WellFormed(page')
  BY <1>0, <1>1, PageStep, AppendEffect, EnterEffect DEF PagesOK
<1>4. ASSUME NEW u \in Thread
      PROVE  WellFormed(iter'[u].page) /\ iter'[u].pos % 4 = 0
  <2>1. CASE iter'[u] = iter[u]
    BY <1>0, <2>1 DEF PagesOK, IntSize
  <2>2. CASE iter'[u] = NoIter
    BY <1>1, <2>2 DEF NoIter
  <2>3. CASE OpenIterator(u)
    <3>1. WellFormed(disk[cur]) /\ iter'[u].page = disk[cur] /\ iter'[u].pos = disk[cur].bnd
      BY <1>0, <2>3, OpenEffect DEF PagesOK
    <3> QED
      BY <3>1 DEF WellFormed, IntSize
  <2>4. CASE NextRecord(u)
    <3>1. PICK r \in moved(iter[u]).page.recs :
                 iter'[u] = [moved(iter[u]) EXCEPT !.pos = @ + 4 + r.len, !.seen = r.id]
      BY <2>4, NextEffect
    <3>2. /\ moved(iter[u]) \in [blk : Nat, page : Pages, pos : Nat, seen : Nat]
          /\ WellFormed(moved(iter[u]).page) /\ moved(iter[u]).pos % 4 = 0
      BY <2>4, NextEffect, MovedFacts
    <3>3. r.len \in Nat /\ r.len % 4 = 0 /\ moved(iter[u]).pos \in Nat
      BY <3>1, <3>2, PagesFacts DEF WellFormed, IntSize
    <3>4. iter'[u].page = moved(iter[u]).page /\ iter'[u].pos = moved(iter[u]).pos + 4 + r.len
      BY <3>1, <3>2
    <3> QED
      BY <3>2, <3>3, <3>4
  <2>5. CASE NextZero(u)
    <3>1. iter'[u] = [moved(iter[u]) EXCEPT !.pos = @ + 4]
      BY <2>5, ZeroEffect
    <3>2. /\ moved(iter[u]) \in [blk : Nat, page : Pages, pos : Nat, seen : Nat]
          /\ WellFormed(moved(iter[u]).page) /\ moved(iter[u]).pos % 4 = 0
      BY <2>5, ZeroEffect, MovedFacts
    <3>3. /\ iter'[u].page = moved(iter[u]).page
          /\ iter'[u].pos = moved(iter[u]).pos + 4 /\ moved(iter[u]).pos \in Nat
      BY <3>1, <3>2
    <3> QED
      BY <3>2, <3>3
  <2> QED
    BY <2>1, <2>2, <2>3, <2>4, <2>5, IterStep
<1> QED
  BY <1>2, <1>3, <1>4 DEF PagesOK, WellFormed, IntSize

-----------------------------------------------------------------------------
(* Where the records are.                                                  *)

\* A step appends at most one record, to the block that is then the current
\* one, which is the last.
LEMMA HistStep ==
  ASSUME LogInv, [Next]_vars
  PROVE  \/ hist' = hist
         \/ /\ Len(hist') = Len(hist) + 1
            /\ \A i \in 1 .. Len(hist) : hist'[i] = hist[i]
            /\ hist'[Len(hist) + 1].blk = cur'
            /\ up = "up" /\ up' = "up"
            /\ cur <= cur' /\ cur' = Len(disk) /\ Len(disk') = Len(disk)
<1>0. TypeOK /\ PagesOK /\ Homes /\ Control /\ PageAhead /\ cur \in Nat
      /\ Len(disk) \in Nat
  BY DiskFacts DEF LogInv, TypeOK
<1>1. CASE hist' = hist
  BY <1>1
<1>2. ASSUME NEW t \in Thread, NEW len \in Lens, append(t, len)
      PROVE  /\ Len(hist') = Len(hist) + 1
             /\ \A i \in 1 .. Len(hist) : hist'[i] = hist[i]
             /\ hist'[Len(hist) + 1].blk = cur'
             /\ up = "up" /\ up' = "up"
             /\ cur <= cur' /\ cur' = Len(disk) /\ Len(disk') = Len(disk)
  <2>1. cur' = cur /\ disk' = disk /\ up = "up" /\ up' = "up"
    BY <1>2 DEF append, Idle
  <2>2. /\ Len(hist') = Len(hist) + 1
        /\ \A i \in 1 .. Len(hist) : hist'[i] = hist[i]
        /\ hist'[Len(hist) + 1] = [blk |-> cur, len |-> len]
        /\ cur = Len(disk)
    BY <1>0, <1>2, AppendEffect
  <2> QED
    BY <1>0, <2>1, <2>2
<1>3. ASSUME NEW t \in Thread, SwitchEnter(t), IsAligned(arg[t])
      PROVE  /\ Len(hist') = Len(hist) + 1
             /\ \A i \in 1 .. Len(hist) : hist'[i] = hist[i]
             /\ hist'[Len(hist) + 1].blk = cur'
             /\ up = "up" /\ up' = "up"
             /\ cur <= cur' /\ cur' = Len(disk) /\ Len(disk') = Len(disk)
  <2>1. cur' = Len(disk) /\ disk' = disk /\ up = "up" /\ up' = "up"
    BY <1>0, <1>3 DEF SwitchEnter, Control
  <2>2. cur \in 1 .. Len(disk)
    BY <1>0, <2>1 DEF Control
  <2>3. /\ Len(hist') = Len(hist) + 1
        /\ \A i \in 1 .. Len(hist) : hist'[i] = hist[i]
        /\ hist'[Len(hist) + 1] = [blk |-> Len(disk), len |-> arg[t]]
    BY <1>0, <1>3, EnterEffect
  <2> QED
    BY <1>0, <2>1, <2>2, <2>3
<1> QED
  BY <1>1, <1>2, <1>3, PageStep

\* The current block only moves on, unless the process ends.
LEMMA CurStep ==
  ASSUME LogInv, [Next]_vars
  PROVE  /\ up' = "up" /\ up = "up" => cur' \in {cur, Len(disk)} /\ cur <= cur'
         /\ up' = "up" /\ up # "up" => up = "opening" /\ cur' = Len(disk)
         /\ up' = "opening" /\ up # "opening" =>
              up = "down" /\ Len(disk') = Len(disk) + 1
         /\ up' = "opening" /\ up = "opening" => Len(disk') = Len(disk)
<1>0. Control /\ TypeOK /\ cur \in Nat /\ Len(disk) \in Nat
  BY DiskFacts DEF LogInv, TypeOK
<1>1. CASE StartGrow
  BY <1>0, <1>1, Grown DEF StartGrow
<1>2. CASE StartFormat \/ Crash \/ Still \/ Saving
  BY <1>0, <1>2 DEF StartFormat, Crash, Still, Saving
<1>3. ASSUME NEW t \in Thread,
             \/ \E len \in Lens : append(t, len)
             \/ SwitchGrow(t) \/ SwitchReset(t) \/ SwitchFormat(t) \/ SwitchEnter(t)
      PROVE  up = "up" /\ up' = "up" /\ cur' \in {cur, Len(disk)} /\ cur <= cur'
  BY <1>0, <1>3 DEF append, SwitchGrow, SwitchReset, SwitchFormat, SwitchEnter,
                    Control, Idle
<1> QED
  BY <1>1, <1>2, <1>3, StepKinds

LEMMA NextHomes == LogInv /\ [Next]_vars => Homes'
<1> SUFFICES ASSUME LogInv, [Next]_vars PROVE Homes'
  OBVIOUS
<1>0. /\ TypeOK /\ Control /\ PagesOK /\ Homes /\ PageAhead /\ TypeOK' /\ Control'
      /\ Len(disk) \in Nat /\ Len(hist) \in Nat /\ cur \in Nat /\ cur' \in Nat
      /\ \A i \in 1 .. Len(hist) : hist[i].blk \in Nat
      /\ page \in Pages /\ ZeroPage \in Pages /\ EmptyPage \in Pages
      /\ \A k \in 1 .. Len(disk) : disk[k] \in Pages
  BY DiskFacts, PagesFacts, NextTypeOK, NextControl DEF LogInv, TypeOK
<1>1. \A i \in 1 .. Len(hist') :
         \/ i \in 1 .. Len(hist) /\ hist'[i] = hist[i]
         \/ /\ i = Len(hist) + 1 /\ hist'[i].blk = cur' /\ Len(hist') = Len(hist) + 1
            /\ up = "up" /\ up' = "up" /\ cur <= cur' /\ cur' = Len(disk)
  BY <1>0, HistStep
<1>2. \A i, j \in 1 .. Len(hist') : i <= j => hist'[i].blk <= hist'[j].blk
  BY <1>0, <1>1 DEF Homes
<1>3. Len(disk') \in {Len(disk), Len(disk) + 1}
  BY DiskStep
<1>4. \A i \in 1 .. Len(hist') : hist'[i].blk <= Len(disk')
  BY <1>0, <1>1, <1>3 DEF Homes
<1>5. ASSUME up' = "up", NEW i \in 1 .. Len(hist') PROVE hist'[i].blk <= cur'
  BY <1>0, <1>1, <1>5, CurStep DEF Homes
<1>6. ASSUME up' = "opening", NEW i \in 1 .. Len(hist') PROVE hist'[i].blk < Len(disk')
  BY <1>0, <1>1, <1>6, CurStep DEF Homes
<1>7. ASSUME NEW k \in 1 .. Len(disk') PROVE AtHome(disk[k], k)'
  <2>1. \A r \in disk'[k].recs : r.id \in 1 .. Len(hist) /\ hist[r.id].blk = k
    BY <1>0, DiskStep, PagesFacts DEF Homes, AtHome
  <2> QED
    BY <1>0, <1>1, <2>1, HistStep DEF AtHome
<1>8. AtHome(page, cur)'
  <2>1. CASE page' = page /\ cur' = cur /\ hist' = hist
    BY <1>0, <2>1 DEF Homes, AtHome
  <2>2. CASE page' \in {ZeroPage, EmptyPage}
    BY <2>2, PagesFacts DEF AtHome
  <2>3. ASSUME NEW t \in Thread, NEW len \in Lens, append(t, len)
        PROVE  AtHome(page, cur)'
    <3>1. /\ page'.recs = page.recs \cup
                {[id |-> Len(hist) + 1, pos |-> Place(page.bnd, len), len |-> len]}
          /\ Len(hist') = Len(hist) + 1
          /\ hist'[Len(hist) + 1] = [blk |-> cur, len |-> len]
          /\ \A i \in 1 .. Len(hist) : hist'[i] = hist[i]
          /\ cur' = cur
      BY <1>0, <2>3, AppendEffect DEF append
    <3> QED
      BY <1>0, <3>1 DEF Homes, AtHome
  <2>4. ASSUME NEW t \in Thread, SwitchEnter(t), IsAligned(arg[t])
        PROVE  AtHome(page, cur)'
    <3>1. /\ \A r \in page'.recs : r.id = Len(hist) + 1
          /\ Len(hist') = Len(hist) + 1
          /\ hist'[Len(hist) + 1] = [blk |-> Len(disk), len |-> arg[t]]
          /\ cur' = Len(disk)
      <4>1. /\ Len(hist') = Len(hist) + 1
            /\ hist'[Len(hist) + 1] = [blk |-> Len(disk), len |-> arg[t]]
            /\ \/ page' = ZeroPage
               \/ page'.recs = {[id |-> Len(hist) + 1, pos |-> Place(Aligned, arg[t]),
                                 len |-> arg[t]]}
        BY <1>0, <2>4, EnterEffect
      <4>2. \A r \in page'.recs : r.id = Len(hist) + 1
        BY <4>1, PagesFacts
      <4> QED
        BY <2>4, <4>1, <4>2 DEF SwitchEnter
    <3> QED
      BY <1>0, <3>1 DEF AtHome
  <2> QED
    BY <2>1, <2>2, <2>3, <2>4, PageStep
<1>9. ASSUME NEW u \in Thread, pc'[u] = "read"
      PROVE  AtHome(iter[u].page, iter[u].blk)'
  <2>1. ASSUME iter'[u] = iter[u], pc[u] = "read"
        PROVE  AtHome(iter[u].page, iter[u].blk)'
    <3>1. AtHome(iter[u].page, iter[u].blk) /\ iter[u].page \in Pages
      BY <1>0, <2>1 DEF Homes, TypeOK
    <3> QED
      BY <2>1, <3>1, HistStep, <1>0, PagesFacts DEF AtHome
  <2>2. CASE OpenIterator(u)
    BY <1>0, <2>2, OpenEffect DEF Homes, AtHome
  <2>3. CASE NextRecord(u) \/ NextZero(u)
    <3>1. /\ pc[u] = "read" /\ has_next(u) /\ hist' = hist
          /\ iter'[u].page = moved(iter[u]).page /\ iter'[u].blk = moved(iter[u]).blk
      <4>1. CASE NextRecord(u)
        <5>1. /\ pc[u] = "read" /\ has_next(u) /\ hist' = hist
              /\ \E r \in moved(iter[u]).page.recs :
                   iter'[u] = [moved(iter[u]) EXCEPT !.pos = @ + 4 + r.len, !.seen = r.id]
          BY <4>1, NextEffect
        <5>2. moved(iter[u]) \in [blk : Nat, page : Pages, pos : Nat, seen : Nat]
          BY <5>1, MovedFacts
        <5> QED
          BY <5>1, <5>2
      <4>2. CASE NextZero(u)
        <5>1. /\ pc[u] = "read" /\ has_next(u) /\ hist' = hist
              /\ iter'[u] = [moved(iter[u]) EXCEPT !.pos = @ + 4]
          BY <4>2, ZeroEffect
        <5>2. moved(iter[u]) \in [blk : Nat, page : Pages, pos : Nat, seen : Nat]
          BY <5>1, MovedFacts
        <5> QED
          BY <5>1, <5>2
      <4> QED
        BY <2>3, <4>1, <4>2
    <3>2. AtHome(moved(iter[u]).page, moved(iter[u]).blk)
      BY <3>1, MovedFacts
    <3> QED
      BY <3>1, <3>2 DEF AtHome
  <2> QED
    BY <1>9, <2>1, <2>2, <2>3, IterStep
<1> QED
  BY <1>2, <1>4, <1>5, <1>6, <1>7, <1>8, <1>9 DEF Homes

\* During a block switch the last block, which is not yet the current one, has
\* no records.
LEMMA LastIsEmpty ==
  ASSUME LogInv, up = "up", cur # Len(disk)
  PROVE  disk[Len(disk)].recs = {}
<1>1. /\ Homes /\ Len(disk) \in 1 .. Len(disk) /\ cur \in Nat /\ cur < Len(disk)
      /\ Len(disk) \in Nat
  BY DiskFacts DEF LogInv, Control, TypeOK
<1>2. \A r \in disk[Len(disk)].recs : /\ r.id \in 1 .. Len(hist)
                                      /\ hist[r.id].blk = Len(disk)
                                      /\ hist[r.id].blk <= cur
  BY <1>1 DEF Homes, AtHome
<1> QED
  BY <1>1, <1>2

LEMMA NextPageAhead == LogInv /\ [Next]_vars => PageAhead'
<1> SUFFICES ASSUME LogInv, [Next]_vars, up' = "up" PROVE PageAhead'
  BY DEF PageAhead
<1>0. /\ TypeOK /\ Control /\ PagesOK /\ Homes /\ PageAhead
      /\ Len(disk) \in Nat /\ cur \in Nat /\ Len(hist) \in Nat
      /\ DOMAIN pc = Thread
      /\ pc \in [Thread -> {"idle", "flush", "open", "read"} \cup Switching]
  BY DiskFacts DEF LogInv, TypeOK
<1>1. CASE Still
  BY <1>0, <1>1 DEF Still, PageAhead
<1>2. CASE Saving
  <2>1. disk'[cur] = page /\ page' = page /\ cur' = cur /\ up = "up"
    BY <1>0, <1>2, Flushed DEF Saving
  <2>2. \A u \in Thread : pc'[u] \in Torn <=> pc[u] \in Torn
    BY <1>2 DEF Saving
  <2> QED
    BY <1>0, <2>1, <2>2 DEF PageAhead
<1>3. CASE StartGrow \/ Crash
  BY <1>3 DEF StartGrow, Crash
<1>4. CASE StartFormat
  <2>1. Len(disk) \in 1 .. Len(disk) /\ \A u \in Thread : pc[u] = "idle"
    BY <1>0, <1>4 DEF StartFormat, Control
  <2>2. disk'[Len(disk)] = EmptyPage
    BY <1>0, <1>4, <2>1, Written, PagesFacts DEF StartFormat
  <2>3. page' = EmptyPage /\ cur' = Len(disk) /\ pc' = pc /\ disk'[cur'] = EmptyPage
    BY <1>4, <2>2 DEF StartFormat
  <2> QED
    BY <2>1, <2>3, PagesFacts DEF PageAhead, Ids, Torn, Switching
<1>5. ASSUME NEW t \in Thread, NEW len \in Lens, append(t, len) PROVE PageAhead'
  <2>1. /\ page'.recs = page.recs \cup
             {[id |-> Len(hist) + 1, pos |-> Place(page.bnd, len), len |-> len]}
        /\ cur \in 1 .. Len(disk)
    BY <1>0, <1>5, AppendEffect
  <2>2. Ids(page') = Ids(page) \cup {Len(hist) + 1}
    <3> DEFINE r0 == [id |-> Len(hist) + 1, pos |-> Place(page.bnd, len), len |-> len]
    <3>1. page'.recs = page.recs \cup {r0} /\ r0.id = Len(hist) + 1
      BY <2>1
    <3> HIDE DEF r0
    <3> QED
      BY <3>1 DEF Ids
  <2>3. \A j \in Ids(disk[cur]) : j \in 1 .. Len(hist)
    BY <1>0, <2>1 DEF Homes, AtHome, Ids
  <2>4. disk' = disk /\ cur' = cur /\ pc' = pc /\ \A u \in Thread : pc[u] \notin Switching
    BY <1>5 DEF append, Free
  <2>5. /\ Ids(disk[cur]) \subseteq Ids(page)
        /\ \A i \in Ids(page), j \in Ids(disk[cur]) : i < j => i \in Ids(disk[cur])
    BY <1>0, <1>5, <2>4 DEF PageAhead, Torn, Switching, append, Idle
  <2>6. \A u \in Thread : pc'[u] \notin Torn /\ pc'[u] \notin Switching
    BY <2>4 DEF Torn, Switching
  <2>7. \A i \in Ids(page'), j \in Ids(disk[cur]) : i < j => i \in Ids(disk[cur])
    BY <1>0, <2>2, <2>3, <2>5
  <2> QED
    BY <2>2, <2>4, <2>5, <2>6, <2>7 DEF PageAhead
<1>6. ASSUME NEW t \in Thread, SwitchGrow(t) PROVE PageAhead'
  <2>1. /\ \A u \in Thread : pc'[u] = IF u = t THEN "reset" ELSE pc[u]
        /\ pc[t] = "grow" /\ page' = page /\ cur' = cur /\ up = "up"
    BY <1>0, <1>6 DEF SwitchGrow, Control
  <2>2. disk'[cur] = disk[cur]
    BY <1>0, <1>6, <2>1, Grown DEF SwitchGrow, Control
  <2> QED
    BY <1>0, <2>1, <2>2 DEF PageAhead, Switching, Torn
<1>7. ASSUME NEW t \in Thread, SwitchReset(t) PROVE PageAhead'
  BY <1>0, <1>7 DEF PageAhead, SwitchReset, Torn
<1>8. ASSUME NEW t \in Thread, SwitchFormat(t) PROVE PageAhead'
  <2>1. page' = page /\ pc[t] \in Torn /\ pc'[t] \in Torn /\ up = "up"
    BY <1>0, <1>8 DEF SwitchFormat, Torn, Control
  <2> QED
    BY <1>0, <2>1 DEF PageAhead
<1>9. ASSUME NEW t \in Thread, SwitchEnter(t) PROVE PageAhead'
  <2>1. /\ \A u \in Thread : pc'[u] = IF u = t THEN "idle" ELSE pc[u]
        /\ up = "up" /\ pc[t] = "enter" /\ disk' = disk /\ cur' = Len(disk)
    BY <1>0, <1>9 DEF SwitchEnter, Control
  <2>2. \A u \in Thread : pc'[u] \notin Switching /\ pc'[u] \notin Torn
    BY <1>0, <2>1 DEF Control, Switching, Torn
  <2>3. cur # Len(disk)
    BY <1>0, <2>1 DEF Control, Torn
  <2>4. Ids(disk'[cur']) = {}
    BY <2>1, <2>3, LastIsEmpty DEF Ids
  <2> QED
    BY <2>2, <2>4 DEF PageAhead
<1> QED
  BY <1>1, <1>2, <1>3, <1>4, <1>5, <1>6, <1>7, <1>8, <1>9, StepKinds

-----------------------------------------------------------------------------
(* What the threads flush, and the empty blocks.                           *)

LEMMA NextOwned == LogInv /\ [Next]_vars => Owned'
<1> SUFFICES ASSUME LogInv, [Next]_vars PROVE Owned'
  OBVIOUS
<1>0. /\ TypeOK /\ Control /\ PagesOK /\ Homes /\ PageAhead /\ Owned
      /\ Len(hist) \in Nat /\ latest \in Nat
      /\ DOMAIN pc = Thread /\ DOMAIN lsn = Thread /\ DOMAIN mine = Thread
      /\ crashed \subseteq 1 .. Len(hist)
  BY DiskFacts DEF LogInv, TypeOK, Owned
<1>1. Len(hist') \in Nat /\ Len(hist) <= Len(hist')
  BY <1>0, HistStep
<1>2. CASE Crash
  <2>1. /\ crashed' = crashed \cup (1 .. Len(hist) \ OnDisk) /\ hist' = hist
        /\ \A u \in Thread : pc'[u] = "idle" /\ lsn'[u] = 0
    BY <1>2 DEF Crash
  <2>2. crashed' \subseteq 1 .. Len(hist')
    BY <1>0, <2>1
  <2> QED
    BY <2>1, <2>2 DEF Owned
<1>3. ASSUME NEW t \in Thread, NEW len, NEW b, Record(t, len, b),
             Len(hist') = Len(hist) + 1, crashed' = crashed, pc'[t] # "flush",
             \A u \in Thread : u # t => pc'[u] = pc[u]
      PROVE  Owned'
  <2>1. /\ mine'[t] = Len(hist) + 1 /\ lsn'[t] = latest + 1
        /\ \A u \in Thread : u # t => mine'[u] = mine[u] /\ lsn'[u] = lsn[u]
    BY <1>0, <1>3 DEF Record
  <2>2. \A u \in Thread : u # t => /\ lsn'[u] > 0 => mine'[u] \in 1 .. Len(hist') \ crashed'
                                   /\ pc'[u] = "flush" => lsn'[u] > 0
    BY <1>0, <1>1, <1>3, <2>1 DEF Owned
  <2>3. mine'[t] \in 1 .. Len(hist') \ crashed'
    BY <1>0, <1>3, <2>1
  <2>4. crashed' \subseteq 1 .. Len(hist')
    BY <1>0, <1>3
  <2> QED
    BY <1>3, <2>2, <2>3, <2>4 DEF Owned
<1>4. ASSUME UNCHANGED <<lsn, mine, crashed>>,
             \A u \in Thread : pc'[u] = "flush" => pc[u] = "flush"
      PROVE  Owned'
  BY <1>0, <1>1, <1>4 DEF Owned
<1>5. CASE StartThrows \/ UNCHANGED vars \/ StartGrow \/ StartFormat
  BY <1>4, <1>5 DEF StartThrows, vars, StartGrow, StartFormat, ghosts
<1>6. ASSUME NEW t \in Thread, NEW len \in Lens, append(t, len) PROVE Owned'
  <2>1. Len(hist') = Len(hist) + 1
    BY <1>0, <1>6, AppendEffect
  <2>2. Record(t, len, cur) /\ pc' = pc /\ crashed' = crashed /\ pc[t] = "idle"
    BY <1>6 DEF append, ghosts, Idle
  <2> QED
    BY <1>3, <2>1, <2>2
<1>7. ASSUME NEW t \in Thread, NEW to, to # "flush", pc' = [pc EXCEPT ![t] = to],
             UNCHANGED <<lsn, mine, crashed>>
      PROVE  Owned'
  BY <1>0, <1>4, <1>7
<1>8. ASSUME NEW t \in Thread, NEW len \in Lens, SwitchFlush(t, len) PROVE Owned'
  BY <1>7, <1>8 DEF SwitchFlush
<1>9. ASSUME NEW t \in Thread, SwitchGrow(t) \/ SwitchReset(t) \/ SwitchFormat(t)
      PROVE  Owned'
  BY <1>7, <1>9 DEF SwitchGrow, SwitchReset, SwitchFormat, ghosts
<1>10. ASSUME NEW t \in Thread, SwitchEnter(t) PROVE Owned'
  <2>1. /\ pc' = [pc EXCEPT ![t] = "idle"] /\ crashed' = crashed
        /\ \A u \in Thread : u # t => pc'[u] = pc[u]
        /\ pc'[t] # "flush"
    BY <1>0, <1>10 DEF SwitchEnter, ghosts
  <2>2. CASE IsAligned(arg[t])
    <3>1. Len(hist') = Len(hist) + 1
      BY <1>0, <1>10, <2>2, EnterEffect
    <3>2. Record(t, arg[t], Len(disk))
      BY <1>10, <2>2 DEF SwitchEnter
    <3> QED
      BY <1>3, <2>1, <3>1, <3>2
  <2>3. CASE ~IsAligned(arg[t])
    BY <1>7, <1>10, <2>1, <2>3 DEF SwitchEnter
  <2> QED
    BY <2>2, <2>3
<1>11. ASSUME NEW t \in Thread, flush(t) PROVE Owned'
  <2>1. /\ UNCHANGED <<lsn, mine, crashed, hist>> /\ lsn[t] > 0
        /\ \A u \in Thread : u # t => pc'[u] = pc[u]
    BY <1>0, <1>11 DEF flush, ghosts
  <2> QED
    BY <1>0, <2>1 DEF Owned
<1>12. ASSUME NEW t \in Thread, DoFlush(t) \/ iterator(t) PROVE Owned'
  BY <1>7, <1>12 DEF DoFlush, iterator
<1>13. ASSUME NEW t \in Thread, OpenIterator(t) \/ NextThrows(t) \/ Close(t)
       PROVE  Owned'
  BY <1>7, <1>13 DEF OpenIterator, NextThrows, Close
<1>14. ASSUME NEW t \in Thread, NextRecord(t) \/ NextZero(t) PROVE Owned'
  BY <1>4, <1>14 DEF NextRecord, NextZero, ghosts
<1> QED
  BY <1>2, <1>5, <1>6, <1>8, <1>9, <1>10, <1>11, <1>12, <1>13, <1>14 DEF Next

LEMMA NextBare == LogInv /\ [Next]_vars => Bare'
<1> SUFFICES ASSUME LogInv, [Next]_vars PROVE Bare'
  OBVIOUS
<1>0. /\ TypeOK /\ Control /\ PageAhead /\ Bare
      /\ Len(disk) \in Nat /\ cur \in Nat
      /\ DOMAIN pc = Thread
  BY DiskFacts DEF LogInv, TypeOK
<1>1. ASSUME NEW k, disk'[k] = disk[k], EmptyIsBare(k), bare \subseteq bare',
             clobbered \subseteq clobbered'
      PROVE  EmptyIsBare(k)'
  BY <1>1 DEF EmptyIsBare
<1>2. CASE StartThrows \/ UNCHANGED vars
  BY <1>0, <1>2 DEF Bare, EmptyIsBare, StartThrows, vars, ghosts
<1>3. CASE StartGrow
  <2>1. /\ Len(disk') = Len(disk) + 1 /\ \A k \in 1 .. Len(disk) : disk'[k] = disk[k]
        /\ up = "down" /\ up' = "opening" /\ bare' = bare /\ clobbered' = clobbered
        /\ pc' = pc
    BY <1>0, <1>3, Grown DEF StartGrow, ghosts
  <2>2. \A u \in Thread : pc'[u] \notin Switching
    BY <1>0, <2>1 DEF Control, Switching
  <2> QED
    BY <1>0, <1>1, <2>1, <2>2 DEF Bare
<1>4. CASE StartFormat
  <2>1. /\ Len(disk) \in 1 .. Len(disk) /\ up = "opening" /\ up' = "up"
        /\ bare' = bare /\ clobbered' = clobbered /\ pc' = pc /\ cur' = Len(disk)
    BY <1>0, <1>4 DEF StartFormat, Control, ghosts
  <2>2. \A k \in 1 .. Len(disk) - 1 : disk'[k] = disk[k]
    BY <1>0, <1>4, <2>1, Written, PagesFacts DEF StartFormat
  <2>3. \A u \in Thread : pc'[u] \notin Switching
    BY <1>0, <2>1 DEF Control, Switching
  <2> QED
    BY <1>0, <1>1, <2>1, <2>2, <2>3 DEF Bare
<1>5. CASE Crash
  <2>1. /\ up' = "down" /\ up # "down" /\ disk' = disk /\ clobbered' = clobbered
        /\ bare' = bare \cup {cur, Len(disk)}
        /\ \A u \in Thread : pc'[u] = "idle"
    BY <1>5 DEF Crash
  <2>2. up \in {"opening", "up"}
    BY <1>0, <2>1 DEF TypeOK
  <2>3. \A k \in 1 .. Len(disk) : k \in bare' \/ EmptyIsBare(k)
    BY <1>0, <2>1, <2>2 DEF Bare, Control
  <2>4. \A k \in 1 .. Len(disk) : EmptyIsBare(k)'
    BY <2>1, <2>3 DEF EmptyIsBare
  <2> QED
    BY <2>1, <2>4 DEF Bare, Switching
<1>6. CASE Still
  BY <1>0, <1>6 DEF Bare, EmptyIsBare, Still
<1>7. ASSUME NEW t \in Thread, NEW len \in Lens, append(t, len) PROVE Bare'
  BY <1>0, <1>7 DEF Bare, EmptyIsBare, append, ghosts, Free, Idle
<1>8. ASSUME Saving, EmptyIsBare(cur)' \/ \A u \in Thread : pc'[u] \notin Switching
      PROVE  Bare'
  <2>1. /\ \A j \in 1 .. Len(disk) : j # cur => disk'[j] = disk[j]
        /\ clobbered \subseteq clobbered'
        /\ up = "up" /\ up' = "up" /\ cur' = cur /\ bare \subseteq bare'
        /\ cur \in 1 .. Len(disk)
    BY <1>0, <1>8, Flushed DEF Saving
  <2>2. \A k \in 1 .. cur - 1 : EmptyIsBare(k)'
    BY <1>0, <1>1, <2>1 DEF Bare
  <2> QED
    BY <1>8, <2>1, <2>2 DEF Bare, EmptyIsBare
<1>9. ASSUME NEW t \in Thread, NEW len \in Lens, SwitchFlush(t, len) PROVE Bare'
  <2>1. Saving /\ disk'[cur] = page /\ cur' = cur
    BY <1>0, <1>9, SavingSteps, Flushed DEF Saving
  <2>2. page = EmptyPage => cur \in bare'
    BY <1>9 DEF SwitchFlush
  <2> QED
    BY <1>8, <2>1, <2>2 DEF EmptyIsBare
<1>10. ASSUME NEW t \in Thread, DoFlush(t) \/ iterator(t) PROVE Bare'
  <2>1. /\ Saving /\ disk'[cur] = page /\ cur' = cur /\ up = "up"
        /\ clobbered \subseteq clobbered' /\ bare \subseteq bare'
        /\ (\E u \in Thread : pc[u] \in Torn) => cur \in clobbered'
    BY <1>0, <1>10, SavingSteps, Flushed DEF Saving
  <2>2. \A u \in Thread : pc'[u] \in Switching => pc[u] \in Switching
    BY <1>0, <1>10 DEF DoFlush, iterator, Switching
  <2>3. CASE \E u \in Thread : pc[u] \in Torn
    BY <1>8, <2>1, <2>3 DEF EmptyIsBare
  <2>4. CASE \A u \in Thread : pc[u] \notin Torn
    <3>1. CASE \E u \in Thread : pc[u] \in Switching
      BY <1>0, <1>1, <1>8, <2>1, <2>4, <3>1 DEF PageAhead, Bare
    <3>2. CASE \A u \in Thread : pc[u] \notin Switching
      BY <1>8, <2>1, <2>2, <3>2
    <3> QED
      BY <3>1, <3>2
  <2> QED
    BY <2>3, <2>4
<1>11. ASSUME NEW t \in Thread, SwitchGrow(t) \/ SwitchReset(t) \/ SwitchFormat(t)
       PROVE  Bare'
  <2>1. /\ up = "up" /\ up' = "up" /\ cur' = cur /\ bare' = bare
        /\ clobbered' = clobbered /\ cur \in 1 .. Len(disk) /\ pc[t] \in Switching
    BY <1>0, <1>11 DEF SwitchGrow, SwitchReset, SwitchFormat, ghosts, Control, Switching
  <2>2. \A k \in 1 .. cur : disk'[k] = disk[k]
    <3>1. CASE SwitchGrow(t)
      BY <1>0, <2>1, <3>1, Grown DEF SwitchGrow
    <3>2. CASE SwitchReset(t)
      BY <3>2 DEF SwitchReset
    <3>3. CASE SwitchFormat(t)
      <4>1. cur = Len(disk) - 1 /\ Len(disk) \in 1 .. Len(disk) /\ page \in Pages
        BY <1>0, <2>1, <3>3 DEF SwitchFormat, Control, Torn, TypeOK
      <4> QED
        BY <1>0, <3>3, <4>1, Written DEF SwitchFormat
    <3> QED
      BY <1>11, <3>1, <3>2, <3>3
  <2>3. \A k \in 1 .. cur : EmptyIsBare(k)
    BY <1>0, <2>1 DEF Bare
  <2>4. \A k \in 1 .. cur : EmptyIsBare(k)'
    BY <1>1, <2>1, <2>2, <2>3
  <2> QED
    BY <1>0, <2>1, <2>4 DEF Bare, EmptyIsBare
<1>12. ASSUME NEW t \in Thread, SwitchEnter(t) PROVE Bare'
  <2>1. /\ \A u \in Thread : pc'[u] = IF u = t THEN "idle" ELSE pc[u]
        /\ pc[t] = "enter" /\ disk' = disk /\ cur' = Len(disk)
        /\ up = "up" /\ up' = "up" /\ bare' = bare /\ clobbered' = clobbered
    BY <1>0, <1>12 DEF SwitchEnter, ghosts, Control, Switching
  <2>2. \A u \in Thread : pc'[u] \notin Switching
    BY <1>0, <2>1 DEF Control, Switching
  <2>3. cur = Len(disk) - 1
    BY <1>0, <2>1 DEF Control, Torn
  <2>4. \A k \in 1 .. Len(disk) - 1 : EmptyIsBare(k)
    BY <1>0, <2>1, <2>3 DEF Bare, Switching
  <2> QED
    BY <2>1, <2>2, <2>4 DEF Bare, EmptyIsBare
<1> QED
  BY <1>2, <1>3, <1>4, <1>5, <1>6, <1>7, <1>9, <1>10, <1>11, <1>12, StillSteps DEF Next

-----------------------------------------------------------------------------
(* Iterators.                                                              *)

\* The blocks below the one an iterator is in do not change any more.
LEMMA BelowStays ==
  ASSUME LogInv, [Next]_vars, up = "up", NEW k \in 1 .. cur - 1
  PROVE  k \in 1 .. Len(disk) /\ disk'[k] = disk[k]
<1>1. Len(disk) \in Nat /\ cur \in 1 .. Len(disk)
  BY DiskFacts DEF LogInv, Control
<1>2. k \in 1 .. Len(disk') /\ k # cur /\ ~(k > cur)
  BY <1>1, DiskStep
<1> QED
  BY <1>1, <1>2, DiskStep

\* NextRecord and NextZero, as an iterator that has moved and then goes on.
LEMMA ReadEffect ==
  ASSUME LogInv, NEW u \in Thread, NextRecord(u) \/ NextZero(u)
  PROVE  /\ pc[u] = "read" /\ pc' = pc /\ up = "up"
         /\ UNCHANGED <<up, disk, page, cur, hist>>
         /\ iter'[u].blk = moved(iter[u]).blk
         /\ iter'[u].page = moved(iter[u]).page
         /\ \/ /\ NextRecord(u)
               /\ \E r \in moved(iter[u]).page.recs :
                     /\ r.pos = moved(iter[u]).pos
                     /\ iter'[u].pos = r.pos + 4 + r.len
                     /\ iter'[u].seen = r.id
                     /\ due'[u] = due[u] \ {r.id}
            \/ /\ \A r \in moved(iter[u]).page.recs : r.pos # moved(iter[u]).pos
               /\ iter'[u].pos = moved(iter[u]).pos + 4
               /\ iter'[u].seen = iter[u].seen
               /\ due'[u] = due[u]
<1>1. /\ pc[u] = "read" /\ has_next(u) /\ pc' = pc
      /\ UNCHANGED <<up, disk, page, cur, hist>>
  BY NextEffect, ZeroEffect
<1>2. up = "up"
  BY <1>1 DEF LogInv, Control
<1>3. /\ moved(iter[u]) \in [blk : Nat, page : Pages, pos : Nat, seen : Nat]
      /\ moved(iter[u]).seen = iter[u].seen
  BY <1>1, MovedFacts
<1>4. CASE NextRecord(u)
  <2>1. PICK r \in moved(iter[u]).page.recs :
               /\ r.pos = moved(iter[u]).pos
               /\ iter'[u] = [moved(iter[u]) EXCEPT !.pos = @ + 4 + r.len, !.seen = r.id]
               /\ due'[u] = due[u] \ {r.id}
    BY <1>4, NextEffect
  <2>2. /\ iter'[u].pos = r.pos + 4 + r.len /\ iter'[u].seen = r.id
        /\ iter'[u].blk = moved(iter[u]).blk /\ iter'[u].page = moved(iter[u]).page
    BY <1>3, <2>1
  <2> QED
    BY <1>1, <1>2, <1>4, <2>1, <2>2
<1>5. CASE NextZero(u)
  <2>1. /\ \A r \in moved(iter[u]).page.recs : r.pos # moved(iter[u]).pos
        /\ iter'[u] = [moved(iter[u]) EXCEPT !.pos = @ + 4]
        /\ due'[u] = due[u]
    BY <1>5, ZeroEffect
  <2>2. /\ iter'[u].pos = moved(iter[u]).pos + 4 /\ iter'[u].seen = iter[u].seen
        /\ iter'[u].blk = moved(iter[u]).blk /\ iter'[u].page = moved(iter[u]).page
    BY <1>3, <2>1
  <2> QED
    BY <1>1, <1>2, <2>1, <2>2
<1> QED
  BY <1>4, <1>5

\* An iterator that has moved has only older records before it.
LEMMA MovedReading ==
  ASSUME LogInv, NEW u \in Thread, NextRecord(u) \/ NextZero(u)
  PROVE  LET it == moved(iter[u])
         IN  /\ it \in [blk : Nat, page : Pages, pos : Nat, seen : Nat]
             /\ WellFormed(it.page) /\ AtHome(it.page, it.blk)
             /\ it.blk \in 1 .. cur
             /\ \A r \in it.page.recs : r.pos >= it.pos => r.id < iter[u].seen
             /\ \A k \in 1 .. it.blk - 1 : \A r \in disk[k].recs : r.id < iter[u].seen
<1>1. pc[u] = "read" /\ has_next(u)
  BY NextEffect, ZeroEffect
<1>2. /\ iter[u].blk \in 1 .. cur /\ cur \in Nat
      /\ \A r \in iter[u].page.recs : r.pos >= iter[u].pos => r.id < iter[u].seen
      /\ \A k \in 1 .. iter[u].blk - 1 : \A r \in disk[k].recs : r.id < iter[u].seen
  BY <1>1 DEF LogInv, Reading, TypeOK
<1> QED
  BY <1>1, <1>2, MovedFacts

LEMMA NextReading == LogInv /\ [Next]_vars => Reading'
<1> SUFFICES ASSUME LogInv, [Next]_vars, NEW u \in Thread, pc'[u] = "read"
             PROVE  /\ iter'[u].blk \in 1 .. cur'
                    /\ \A r \in iter'[u].page.recs :
                          r.pos >= iter'[u].pos => r.id < iter'[u].seen
                    /\ \A k \in 1 .. iter'[u].blk - 1 :
                          \A r \in disk'[k].recs : r.id < iter'[u].seen
  BY DEF Reading
<1>0. /\ TypeOK /\ Control /\ PagesOK /\ Homes /\ Reading
      /\ Len(disk) \in Nat /\ Len(hist) \in Nat /\ cur \in Nat /\ cur' \in Nat
      /\ \A k \in 1 .. Len(disk) : disk[k] \in Pages
      /\ \A i \in 1 .. Len(hist) : hist[i].blk \in Nat
  BY NextTypeOK, DiskFacts DEF LogInv, TypeOK
<1>1. CASE iter'[u] = iter[u] /\ pc[u] = "read" /\ up' = "up"
  <2>1. /\ iter[u].blk \in 1 .. cur /\ up = "up" /\ cur <= cur'
        /\ \A r \in iter[u].page.recs : r.pos >= iter[u].pos => r.id < iter[u].seen
        /\ \A k \in 1 .. iter[u].blk - 1 : \A r \in disk[k].recs : r.id < iter[u].seen
    BY <1>0, <1>1, CurStep DEF Reading, Control
  <2>2. \A k \in 1 .. iter[u].blk - 1 : disk'[k] = disk[k]
    BY <1>0, <2>1, BelowStays
  <2>3. iter[u].blk \in 1 .. cur'
    BY <1>0, <2>1
  <2>4. \A k \in 1 .. iter[u].blk - 1 : \A r \in disk'[k].recs : r.id < iter[u].seen
    BY <2>1, <2>2
  <2> QED
    BY <1>1, <2>1, <2>3, <2>4
<1>2. CASE OpenIterator(u)
  <2>1. \A k \in 1 .. Len(disk) : \A r \in disk[k].recs : r.id < Len(hist) + 1
    BY <1>0, Older DEF Homes
  <2>2. /\ iter'[u].blk = cur /\ iter'[u].page = disk[cur]
        /\ iter'[u].seen = Len(hist) + 1
        /\ cur \in 1 .. Len(disk) /\ disk' = disk /\ cur' = cur
    BY <1>2, OpenEffect
  <2> QED
    BY <1>0, <2>1, <2>2
<1>3. CASE NextRecord(u) \/ NextZero(u)
  <2> DEFINE it == moved(iter[u])
  <2>1. /\ it \in [blk : Nat, page : Pages, pos : Nat, seen : Nat]
        /\ WellFormed(it.page) /\ AtHome(it.page, it.blk)
        /\ it.blk \in 1 .. cur
        /\ \A r \in it.page.recs : r.pos >= it.pos => r.id < iter[u].seen
        /\ \A k \in 1 .. it.blk - 1 : \A r \in disk[k].recs : r.id < iter[u].seen
    BY <1>3, MovedReading
  <2>2. /\ disk' = disk /\ cur' = cur /\ iter'[u].blk = it.blk /\ iter'[u].page = it.page
        /\ \/ \E r \in it.page.recs : /\ r.pos = it.pos
                                      /\ iter'[u].pos = r.pos + 4 + r.len
                                      /\ iter'[u].seen = r.id
           \/ /\ iter'[u].pos = it.pos + 4
              /\ iter'[u].seen = iter[u].seen
    BY <1>3, ReadEffect
  <2>3. it.page \in Pages /\ it.pos \in Nat /\ it.blk \in Nat
        /\ \A r \in it.page.recs : r \in Records /\ r.pos \in Nat /\ r.len \in Nat
                                   /\ r.id \in Nat
    BY <2>1, PagesFacts
  <2>4. cur <= Len(disk)
    BY <1>0, <1>3, ReadEffect DEF Control
  <2> HIDE DEF it
  <2>5. CASE iter'[u].pos = it.pos + 4 /\ iter'[u].seen = iter[u].seen
    BY <2>1, <2>2, <2>3, <2>5
  <2>6. ASSUME NEW r0 \in it.page.recs, r0.pos = it.pos,
               iter'[u].pos = r0.pos + 4 + r0.len, iter'[u].seen = r0.id
        PROVE  /\ \A r \in it.page.recs : r.pos >= iter'[u].pos => r.id < r0.id
               /\ \A k \in 1 .. it.blk - 1 : \A r \in disk[k].recs : r.id < r0.id
    <3>1. ASSUME NEW r \in it.page.recs, r.pos >= iter'[u].pos PROVE r.id < r0.id
      <4>1. r0.id <= r.id => r0 = r \/ r.pos + 4 + r.len <= r0.pos
        BY <2>1 DEF WellFormed, IntSize
      <4> QED
        BY <2>3, <2>6, <3>1, <4>1
    <3>2. ASSUME NEW k \in 1 .. it.blk - 1, NEW r \in disk[k].recs PROVE r.id < r0.id
      <4>1. k \in 1 .. Len(disk) /\ k < it.blk
        BY <1>0, <2>1, <2>3, <2>4
      <4>2. r.id \in 1 .. Len(hist) /\ hist[r.id].blk = k
        BY <1>0, <4>1 DEF Homes, AtHome
      <4>3. r0.id \in 1 .. Len(hist) /\ hist[r0.id].blk = it.blk
        BY <2>1 DEF AtHome
      <4>4. r0.id <= r.id => hist[r0.id].blk <= hist[r.id].blk
        BY <1>0, <4>2, <4>3 DEF Homes
      <4> QED
        BY <1>0, <2>3, <4>1, <4>2, <4>3, <4>4
    <3> QED
      BY <3>1, <3>2
  <2> QED
    BY <2>1, <2>2, <2>5, <2>6
<1>4. CASE iter'[u] = NoIter /\ pc'[u] = "idle"
  BY <1>4
<1> QED
  BY <1>1, <1>2, <1>3, <1>4, IterStep

-----------------------------------------------------------------------------
(* Records are not lost.                                                   *)

LEMMA GhostStep ==
  ASSUME LogInv, [Next]_vars
  PROVE  clobbered \subseteq clobbered' /\ crashed \subseteq crashed'
<1>1. CASE Saving
  BY <1>1 DEF Saving, flush_internal
<1>2. CASE ~Saving
  BY <1>2, StepKinds DEF Still, StartGrow, StartFormat, Crash, append, SwitchGrow,
                         SwitchReset, SwitchFormat, SwitchEnter, ghosts
<1> QED
  BY <1>1, <1>2

LEMMA SureStep ==
  ASSUME [Next]_vars
  PROVE  sure' = sure \/ \E t \in Thread : DoFlush(t) /\ sure' = sure \cup {mine[t]}
<1>1. CASE \E t \in Thread : DoFlush(t)
  BY <1>1 DEF DoFlush
<1>2. CASE ~ \E t \in Thread : DoFlush(t)
  BY <1>2 DEF Next, vars, ghosts, StartThrows, StartGrow, StartFormat, Crash, append,
              SwitchFlush, SwitchGrow, SwitchReset, SwitchFormat, SwitchEnter, flush,
              iterator, OpenIterator, NextRecord, NextZero, NextThrows, Close
<1> QED
  BY <1>1, <1>2

LEMMA LostStays ==
  ASSUME LogInv, [Next]_vars, NEW id \in 1 .. Len(hist), Lost(id)
  PROVE  Lost(id)'
<1>1. hist'[id] = hist[id]
  BY DiskFacts, HistStep DEF LogInv
<1> QED
  BY <1>1, GhostStep DEF Lost, Filling

\* A record in the file stays there unless a flush overwrites its block.
LEMMA DiskKept ==
  ASSUME LogInv, [Next]_vars, NEW id \in OnDisk
  PROVE  /\ id \in 1 .. Len(hist)
         /\ id \in OnDisk' \/ Lost(id)'
<1>0. /\ TypeOK /\ Homes /\ Control /\ PageAhead /\ Len(disk) \in Nat
      /\ Len(hist) \in Nat /\ cur \in Nat
  BY DiskFacts DEF LogInv, TypeOK
<1>1. PICK k \in 1 .. Len(disk) : id \in Ids(disk[k])
  BY DEF OnDisk
<1>2. id \in 1 .. Len(hist) /\ hist[id].blk = k
  BY <1>0, <1>1 DEF Ids, Homes, AtHome
<1>3. hist'[id] = hist[id]
  BY <1>0, <1>2, HistStep
<1>4. k \in 1 .. Len(disk')
  BY <1>0, DiskStep
<1>5. CASE disk'[k] = disk[k]
  BY <1>1, <1>2, <1>4, <1>5 DEF OnDisk
<1>6. CASE k = cur /\ disk'[k] = page /\ Saving
  <2>1. CASE \E t \in Thread : pc[t] \in Torn
    <3>1. cur \in clobbered'
      BY <1>0, <1>6, <2>1, Flushed DEF Saving
    <3> QED
      BY <1>2, <1>3, <1>6, <3>1 DEF Lost
  <2>2. CASE \A t \in Thread : pc[t] \notin Torn
    <3>1. Ids(disk[cur]) \subseteq Ids(page)
      BY <1>0, <1>6, <2>2 DEF PageAhead, Saving
    <3> QED
      BY <1>1, <1>2, <1>4, <1>6, <3>1 DEF OnDisk
  <2> QED
    BY <2>1, <2>2
<1>7. CASE (k > cur /\ up = "up") \/ (k = Len(disk) /\ up = "opening")
  BY <1>0, <1>2, <1>7 DEF Homes
<1> QED
  BY <1>0, <1>4, <1>5, <1>6, <1>7, DiskStep

\* A record in the page stays there until it is in the file or the process
\* ends.
LEMMA PageKept ==
  ASSUME LogInv, [Next]_vars, NEW id \in Ids(page)
  PROVE  id \in Ids(page') \/ id \in OnDisk' \/ id \in crashed'
<1>0. /\ TypeOK /\ Homes /\ Control /\ PagesOK /\ PageAhead /\ Len(disk) \in Nat
      /\ Len(hist) \in Nat /\ cur \in Nat
  BY DiskFacts DEF LogInv, TypeOK
<1>1. id \in 1 .. Len(hist) /\ page.recs # {}
  BY <1>0 DEF Ids, Homes, AtHome
<1>2. up = "up" /\ page # EmptyPage /\ cur \in 1 .. Len(disk)
      /\ \A t \in Thread : pc[t] \notin Torn
  BY <1>0, <1>1, PagesFacts DEF Control, PageAhead
<1>3. CASE page' = page
  BY <1>3
<1>4. CASE Crash
  <2>1. disk' = disk /\ crashed' = crashed \cup (1 .. Len(hist) \ OnDisk)
    BY <1>4 DEF Crash
  <2>2. OnDisk' = OnDisk
    BY <2>1 DEF OnDisk
  <2> QED
    BY <1>1, <2>1, <2>2
<1>5. ASSUME NEW t \in Thread, SwitchReset(t) PROVE id \in OnDisk'
  <2>1. page = disk[cur] /\ disk' = disk
    BY <1>0, <1>2, <1>5 DEF PageAhead, SwitchReset, Switching
  <2> QED
    BY <1>2, <2>1 DEF OnDisk
<1>6. ASSUME NEW t \in Thread, NEW len \in Lens, append(t, len)
      PROVE  id \in Ids(page')
  <2>1. page.recs \subseteq page'.recs
    BY <1>0, <1>6, AppendEffect
  <2> QED
    BY <2>1 DEF Ids
<1>7. ASSUME NEW t \in Thread, SwitchEnter(t) PROVE FALSE
  BY <1>2, <1>7 DEF SwitchEnter, Torn
<1> QED
  BY <1>2, <1>3, <1>4, <1>5, <1>6, <1>7, StepKinds
     DEF Still, Saving, StartGrow, StartFormat, SwitchGrow, SwitchFormat

\* A new record is in the page, unless it is as long as the block.
LEMMA NewKept ==
  ASSUME LogInv, [Next]_vars, NEW id \in 1 .. Len(hist'), id \notin 1 .. Len(hist)
  PROVE  id \in Ids(page') \/ Lost(id)'
<1>0. TypeOK /\ Homes /\ Control /\ PagesOK /\ PageAhead /\ Len(hist) \in Nat
  BY DiskFacts DEF LogInv
<1>1. id = Len(hist) + 1 /\ hist' # hist
  BY <1>0, HistStep
<1>2. ASSUME NEW t \in Thread, NEW len \in Lens, append(t, len)
      PROVE  id \in Ids(page')
  <2> DEFINE r0 == [id |-> Len(hist) + 1, pos |-> Place(page.bnd, len), len |-> len]
  <2>1. r0 \in page'.recs /\ r0.id = id
    BY <1>0, <1>1, <1>2, AppendEffect
  <2> HIDE DEF r0
  <2> QED
    BY <2>1 DEF Ids
<1>3. ASSUME NEW t \in Thread, SwitchEnter(t), IsAligned(arg[t])
      PROVE  id \in Ids(page') \/ Lost(id)'
  <2> DEFINE r0 == [id |-> Len(hist) + 1, pos |-> Place(Aligned, arg[t]), len |-> arg[t]]
  <2>1. CASE arg[t] + 4 = Aligned
    <3>1. hist'[id] = [blk |-> Len(disk), len |-> arg[t]]
      BY <1>0, <1>1, <1>3, EnterEffect
    <3> QED
      BY <2>1, <3>1 DEF Lost, Filling, Aligned, IntSize
  <2>2. CASE arg[t] + 4 # Aligned
    <3>1. page'.recs = {r0} /\ r0.id = id
      BY <1>0, <1>1, <1>3, <2>2, EnterEffect
    <3> HIDE DEF r0
    <3> QED
      BY <3>1 DEF Ids
  <2> QED
    BY <2>1, <2>2
<1> QED
  BY <1>1, <1>2, <1>3, PageStep

LEMMA NextNoRecordMissing == LogInv /\ [Next]_vars => NoRecordMissing'
<1> SUFFICES ASSUME LogInv, [Next]_vars, NEW id \in 1 .. Len(hist')
             PROVE  \/ id \in OnDisk' \/ id \in Ids(page') \/ id \in crashed'
                    \/ Lost(id)'
  BY DEF NoRecordMissing
<1>1. CASE id \in 1 .. Len(hist)
  <2>1. id \in OnDisk \/ id \in Ids(page) \/ id \in crashed \/ Lost(id)
    BY <1>1 DEF LogInv, NoRecordMissing
  <2> QED
    BY <1>1, <2>1, DiskKept, PageKept, GhostStep, LostStays
<1>2. CASE id \notin 1 .. Len(hist)
  BY <1>2, NewKept
<1> QED
  BY <1>1, <1>2

LEMMA NextKnown == LogInv /\ [Next]_vars => Known'
<1> SUFFICES ASSUME LogInv, [Next]_vars PROVE Known'
  OBVIOUS
<1>0. /\ TypeOK /\ Homes /\ Control /\ PagesOK /\ PageAhead /\ Known /\ Owned
      /\ Len(hist) \in Nat /\ Len(disk) \in Nat /\ cur \in Nat /\ cur' \in Nat
  BY DiskFacts, NextTypeOK DEF LogInv, TypeOK
<1>1. 1 .. Len(hist) \subseteq 1 .. Len(hist')
  BY <1>0, HistStep
<1>2. ASSUME NEW i \in 1 .. Len(hist') PROVE hist'[i].blk >= 1
  <2>1. up = "up" => cur >= 1
    BY <1>0 DEF Control
  <2> QED
    BY <1>0, <2>1, HistStep DEF Known
<1>3. OnDisk \subseteq 1 .. Len(hist)
  BY DiskKept
<1>4. ASSUME NEW u \in Thread PROVE due'[u] \subseteq 1 .. Len(hist')
  <2>1. due'[u] \subseteq due[u] \cup OnDisk
    BY IterStep, OpenEffect, ReadEffect
  <2> QED
    BY <1>0, <1>1, <1>3, <2>1 DEF Known
<1>5. sure' \subseteq 1 .. Len(hist')
  <2>1. ASSUME NEW t \in Thread, DoFlush(t) PROVE mine[t] \in 1 .. Len(hist)
    BY <1>0, <2>1 DEF DoFlush, Owned
  <2>2. sure' = sure \/ \E t \in Thread : DoFlush(t) /\ sure' = sure \cup {mine[t]}
    BY SureStep
  <2>3. sure \subseteq 1 .. Len(hist)
    BY <1>0 DEF Known
  <2>4. sure' \subseteq 1 .. Len(hist)
    <3>1. CASE sure' = sure
      BY <2>3, <3>1
    <3>2. ASSUME NEW t \in Thread, DoFlush(t), sure' = sure \cup {mine[t]}
          PROVE  sure' \subseteq 1 .. Len(hist)
      <4>1. mine[t] \in 1 .. Len(hist)
        BY <2>1, <3>2
      <4> QED
        BY <2>3, <3>2, <4>1, Zenon
    <3> QED
      BY <2>2, <3>1, <3>2
  <2> QED
    BY <1>1, <2>4
<1> QED
  BY <1>2, <1>4, <1>5 DEF Known

LEMMA NextFlushedStays == LogInv /\ [Next]_vars => FlushedStays'
<1> SUFFICES ASSUME LogInv, [Next]_vars, NEW id \in sure'
             PROVE  id \in OnDisk' \/ Lost(id)'
  BY DEF FlushedStays
<1>1. CASE id \in sure
  <2>1. id \in 1 .. Len(hist) /\ (id \in OnDisk \/ Lost(id))
    BY <1>1 DEF LogInv, Known, FlushedStays
  <2> QED
    BY <2>1, DiskKept, LostStays
<1>2. ASSUME NEW t \in Thread, DoFlush(t), id = mine[t]
      PROVE  id \in OnDisk' \/ Lost(id)'
  <2>1. id \in 1 .. Len(hist) \ crashed
    BY <1>2 DEF LogInv, Owned, DoFlush
  <2>2. id \in OnDisk \/ id \in Ids(page) \/ Lost(id)
    BY <2>1 DEF LogInv, NoRecordMissing
  <2>3. ASSUME id \in Ids(page) PROVE id \in OnDisk'
    <3>1. TypeOK /\ cur \in 1 .. Len(disk) /\ flush_internal
      BY <1>2, SavingSteps DEF LogInv, Saving
    <3>2. disk'[cur] = page /\ cur \in 1 .. Len(disk')
      BY <3>1, Flushed
    <3> QED
      BY <2>3, <3>2 DEF OnDisk
  <2> QED
    BY <2>1, <2>2, <2>3, DiskKept, LostStays
<1> QED
  BY <1>1, <1>2, SureStep

\* An iterator that has moved still has before it all that is due.
LEMMA MovedSkips ==
  ASSUME LogInv, NEW u \in Thread, pc[u] = "read", has_next(u), NEW id \in due[u]
  PROVE  LET it == moved(iter[u])
             k == hist[id].blk
         IN  \/ k = it.blk /\ \E r \in it.page.recs : r.id = id /\ r.pos >= it.pos
             \/ k < it.blk /\ id \in Ids(disk[k])
<1> DEFINE it == moved(iter[u])
           k == hist[id].blk
<1>a. /\ TypeOK /\ Control /\ PagesOK /\ Reading /\ Known
      /\ cur \in Nat /\ Len(disk) \in Nat /\ id \in 1 .. Len(hist)
  BY DiskFacts DEF LogInv, TypeOK, Known
<1>b. k \in Nat /\ k >= 1
  BY <1>a, DiskFacts DEF Known
<1>c. cur <= Len(disk)
  BY <1>a DEF Control
<1>0. /\ TypeOK /\ Control /\ PagesOK /\ Reading /\ Known
      /\ id \in 1 .. Len(hist) /\ k \in Nat /\ k >= 1
      /\ cur \in Nat /\ Len(disk) \in Nat /\ cur <= Len(disk)
  BY <1>a, <1>b, <1>c
<1>1. \/ k = iter[u].blk /\ \E r \in iter[u].page.recs : r.id = id /\ r.pos >= iter[u].pos
      \/ k < iter[u].blk /\ id \in Ids(disk[k])
  BY DEF LogInv, NothingSkipped
<1>2. \/ it = iter[u]
      \/ /\ iter[u].pos = BlockSize /\ iter[u].blk > 1
         /\ it.blk = iter[u].blk - 1
         /\ it.page = disk[iter[u].blk - 1]
         /\ it.pos = disk[iter[u].blk - 1].bnd
  BY MovedFacts
<1>3. CASE it = iter[u]
  BY <1>1, <1>3
<1>4. CASE it # iter[u]
  <2> HIDE DEF it, k
  <2>1. WellFormed(iter[u].page) /\ iter[u].blk \in Nat /\ iter[u].blk \in 1 .. cur
        /\ iter[u].page \in Pages
    BY <1>0 DEF PagesOK, Reading, TypeOK
  <2>2. \A r \in iter[u].page.recs : ~(r.pos >= iter[u].pos)
    BY <1>2, <1>4, <2>1, AlignedFacts, PagesFacts DEF WellFormed, IntSize
  <2>3. k < iter[u].blk /\ id \in Ids(disk[k])
    BY <1>1, <2>2 DEF k
  <2>4. CASE k = iter[u].blk - 1
    <3>1. WellFormed(disk[k]) /\ it.blk = k /\ it.page = disk[k] /\ it.pos = disk[k].bnd
      BY <1>0, <1>2, <1>4, <2>1, <2>4 DEF PagesOK
    <3>2. \E r \in disk[k].recs : r.id = id
      BY <2>3 DEF Ids
    <3> QED
      BY <3>1, <3>2 DEF WellFormed, it, k
  <2>5. CASE k # iter[u].blk - 1
    <3>1. k < it.blk
      BY <1>0, <1>2, <1>4, <2>1, <2>3, <2>5
    <3> QED
      BY <2>3, <3>1 DEF it, k
  <2> QED
    BY <2>4, <2>5
<1> QED
  BY <1>3, <1>4

LEMMA NextNothingSkipped == LogInv /\ [Next]_vars => NothingSkipped'
<1> SUFFICES ASSUME LogInv, [Next]_vars, NEW u \in Thread, pc'[u] = "read",
                    NEW id \in due'[u]
             PROVE  \/ /\ hist'[id].blk = iter'[u].blk
                       /\ \E r \in iter'[u].page.recs : r.id = id /\ r.pos >= iter'[u].pos
                    \/ /\ hist'[id].blk < iter'[u].blk
                       /\ id \in Ids(disk'[hist'[id].blk])
  BY DEF NothingSkipped
<1>0. /\ TypeOK /\ Control /\ PagesOK /\ Homes /\ Reading /\ Known
      /\ Len(disk) \in Nat /\ Len(hist) \in Nat /\ cur \in Nat
  BY DiskFacts DEF LogInv, TypeOK
<1>1. CASE iter'[u] = iter[u] /\ due'[u] = due[u] /\ pc[u] = "read" /\ up' = "up"
  <2>1. /\ id \in 1 .. Len(hist) /\ hist'[id] = hist[id] /\ up = "up"
        /\ iter[u].blk \in 1 .. cur
    BY <1>0, <1>1, HistStep DEF Known, Reading, Control
  <2>2. \/ /\ hist[id].blk = iter[u].blk
           /\ \E r \in iter[u].page.recs : r.id = id /\ r.pos >= iter[u].pos
        \/ hist[id].blk < iter[u].blk /\ id \in Ids(disk[hist[id].blk])
    BY <1>1 DEF LogInv, NothingSkipped
  <2>3. ASSUME hist[id].blk < iter[u].blk PROVE disk'[hist[id].blk] = disk[hist[id].blk]
    <3>1. hist[id].blk \in Nat /\ hist[id].blk >= 1
      BY <1>0, <2>1, DiskFacts DEF Known
    <3>2. hist[id].blk \in 1 .. cur - 1
      BY <1>0, <2>1, <2>3, <3>1
    <3> QED
      BY <2>1, <3>2, BelowStays
  <2> QED
    BY <1>1, <2>1, <2>2, <2>3
<1>2. CASE OpenIterator(u)
  <2>1. /\ iter'[u].blk = cur /\ iter'[u].page = disk[cur] /\ iter'[u].pos = disk[cur].bnd
        /\ id \in OnDisk /\ hist[id].blk <= cur
        /\ cur \in 1 .. Len(disk) /\ disk' = disk /\ hist' = hist
    BY <1>2, OpenEffect
  <2>2. PICK k \in 1 .. Len(disk) : id \in Ids(disk[k])
    BY <2>1 DEF OnDisk
  <2>3. hist[id].blk = k
    BY <1>0, <2>2 DEF Ids, Homes, AtHome
  <2>4. CASE k = cur
    <3>1. \E r \in disk[cur].recs : r.id = id
      BY <2>2, <2>4 DEF Ids
    <3>2. \A r \in disk[cur].recs : disk[cur].bnd <= r.pos /\ r.pos \in Nat
                                    /\ disk[cur].bnd \in Nat
      BY <1>0, <2>1, DiskFacts, PagesFacts DEF PagesOK, WellFormed
    <3>3. \E r \in disk[cur].recs : r.id = id /\ r.pos >= disk[cur].bnd
      BY <3>1, <3>2
    <3> QED
      BY <2>1, <2>3, <2>4, <3>3
  <2>5. CASE k # cur
    BY <1>0, <2>1, <2>2, <2>3, <2>5
  <2> QED
    BY <2>4, <2>5
<1>3. CASE NextRecord(u) \/ NextZero(u)
  <2> DEFINE it == moved(iter[u])
  <2>1. /\ pc[u] = "read" /\ has_next(u) /\ due'[u] \subseteq due[u]
    BY <1>3, NextEffect, ZeroEffect
  <2>2. \/ /\ hist[id].blk = it.blk
           /\ \E r \in it.page.recs : r.id = id /\ r.pos >= it.pos
        \/ hist[id].blk < it.blk /\ id \in Ids(disk[hist[id].blk])
    BY <2>1, MovedSkips
  <2>3. /\ disk' = disk /\ hist' = hist
        /\ iter'[u].blk = it.blk /\ iter'[u].page = it.page
        /\ \/ \E r \in it.page.recs : /\ r.pos = it.pos
                                      /\ iter'[u].pos = r.pos + 4 + r.len
                                      /\ due'[u] = due[u] \ {r.id}
           \/ /\ \A r \in it.page.recs : r.pos # it.pos
              /\ iter'[u].pos = it.pos + 4
    BY <1>3, ReadEffect
  <2>4. it \in [blk : Nat, page : Pages, pos : Nat, seen : Nat] /\ WellFormed(it.page)
        /\ it.pos % 4 = 0
    BY <2>1, MovedFacts
  <2>5. it.pos \in Nat /\ \A r \in it.page.recs : r.pos \in Nat /\ r.len \in Nat /\ r.id \in Nat
    BY <2>4, PagesFacts
  <2> HIDE DEF it
  <2>6. ASSUME NEW r \in it.page.recs, r.id = id, r.pos >= it.pos PROVE r.pos >= iter'[u].pos
    <3>1. ASSUME NEW r0 \in it.page.recs, r0.pos = it.pos, r0.id # id
          PROVE  r.pos >= r0.pos + 4 + r0.len
      <4>1. /\ r.id <= r0.id => r = r0 \/ r0.pos + 4 + r0.len <= r.pos
            /\ r0.id <= r.id => r = r0 \/ r.pos + 4 + r.len <= r0.pos
        BY <2>4, <3>1 DEF WellFormed, IntSize
      <4> QED
        BY <2>5, <2>6, <3>1, <4>1
    <3>2. ASSUME r.pos # it.pos PROVE r.pos >= it.pos + 4
      <4>1. r.pos % 4 = 0 /\ r.pos > it.pos
        BY <2>4, <2>5, <2>6, <3>2 DEF WellFormed, IntSize
      <4> QED
        BY <2>4, <2>5, <4>1
    <3> QED
      BY <2>3, <3>1, <3>2
  <2> QED
    BY <2>2, <2>3, <2>6
<1>4. CASE iter'[u] = NoIter /\ due'[u] = {} /\ pc'[u] = "idle"
  BY <1>4
<1> QED
  BY <1>1, <1>2, <1>3, <1>4, IterStep

-----------------------------------------------------------------------------
(* What the log promises, for any number of threads.                       *)

THEOREM LogInvariant == Spec => []LogInv
<1>1. LogInv /\ [Next]_vars => LogInv'
  BY NextTypeOK, NextControl, NextPagesOK, NextHomes, NextPageAhead, NextOwned,
     NextBare, NextReading, NextKnown, NextNoRecordMissing, NextFlushedStays,
     NextNothingSkipped
     DEF LogInv
<1> QED
  BY <1>1, InitInv, PTL DEF Spec

\* The variables of the log keep their types.
THEOREM LogTypes == Spec => []TypeOK
<1>1. LogInv => TypeOK
  BY DEF LogInv
<1> QED
  BY <1>1, LogInvariant, PTL

\* A record is in the page or in the file unless it was taken by a crash, by a
\* flush during a block switch or by the boundary word of a full block.
THEOREM NoRecordIsMissing == Spec => []NoRecordMissing
<1>1. LogInv => NoRecordMissing
  BY DEF LogInv
<1> QED
  BY <1>1, LogInvariant, PTL

LEMMA InvSavedInOrder == LogInv => SavedInOrder
<1> SUFFICES ASSUME LogInv, NEW i \in 1 .. Len(hist), NEW j \in 1 .. Len(hist),
                    i < j, j \in OnDisk, i \notin OnDisk, i \notin crashed, ~Lost(i)
             PROVE  FALSE
  BY DEF SavedInOrder
<1>0. /\ TypeOK /\ Control /\ Homes /\ PageAhead /\ cur \in Nat /\ Len(disk) \in Nat
      /\ hist[i].blk \in Nat /\ hist[j].blk \in Nat
  BY DiskFacts DEF LogInv, TypeOK
<1>1. i \in Ids(page) /\ page.recs # {}
  BY DEF LogInv, NoRecordMissing, Ids
<1>2. hist[i].blk = cur
  BY <1>0, <1>1 DEF Ids, Homes, AtHome
<1>3. PICK k \in 1 .. Len(disk) : j \in Ids(disk[k])
  BY DEF OnDisk
<1>4. hist[j].blk = k
  BY <1>0, <1>3 DEF Ids, Homes, AtHome
<1>5. up = "up" /\ page # EmptyPage
  BY <1>0, <1>1, PagesFacts DEF Control
<1>6. k <= cur /\ cur <= k
  BY <1>0, <1>2, <1>4, <1>5 DEF Homes
<1>7. j \in Ids(disk[cur]) /\ cur \in 1 .. Len(disk)
  BY <1>0, <1>3, <1>6
<1>8. i \in Ids(disk[cur])
  BY <1>0, <1>1, <1>5, <1>7 DEF PageAhead
<1> QED
  BY <1>7, <1>8 DEF OnDisk

\* A record reaches the file no later than the ones appended after it.
THEOREM SavedWithoutGaps == Spec => []SavedInOrder
  BY InvSavedInOrder, LogInvariant, PTL

\* No record is missing, and what a crash takes is the newest of them.
THEOREM LogHasItsRecords == Spec => []LogIsComplete
  BY NoRecordIsMissing, SavedWithoutGaps, PTL DEF LogIsComplete

\* What a thread flushed itself is in the file from then on, crashes or not.
THEOREM FlushedRecordsStay == Spec => []FlushedStays
<1>1. LogInv => FlushedStays
  BY DEF LogInv
<1> QED
  BY <1>1, LogInvariant, PTL

\* Only blocks a process ended on, blocks too short for a record and blocks a
\* flush overwrote during a switch are empty below the current one.
THEOREM InnerBlocksAreNotEmpty == Spec => []InnerBlocksHaveRecords
<1>1. LogInv => InnerBlocksHaveRecords
  BY DEF LogInv, Control, Bare, EmptyIsBare, InnerBlocksHaveRecords
<1> QED
  BY <1>1, LogInvariant, PTL

\* An iterator returns every record that was in the file when it was opened.
THEOREM IteratorsSkipNothing == Spec => []NothingSkipped
<1>1. LogInv => NothingSkipped
  BY DEF LogInv
<1> QED
  BY <1>1, LogInvariant, PTL

\* The log can be read: its inner blocks have records and iterators find them.
THEOREM LogCanBeRead == Spec => []LogIsReadable
  BY InnerBlocksAreNotEmpty, IteratorsSkipNothing, PTL DEF LogIsReadable

\* An iterator returns newer records before older ones.
THEOREM IteratorsGoBack == Spec => NewestFirst
<1>1. ASSUME LogInv, NEW t \in Thread, NextRecord(t) PROVE iter'[t].seen < iter[t].seen
  <2>1. PICK r \in moved(iter[t]).page.recs :
               /\ r.pos = moved(iter[t]).pos
               /\ iter'[t] = [moved(iter[t]) EXCEPT !.pos = @ + 4 + r.len, !.seen = r.id]
    BY <1>1, NextEffect
  <2>2. /\ moved(iter[t]) \in [blk : Nat, page : Pages, pos : Nat, seen : Nat]
        /\ \A q \in moved(iter[t]).page.recs :
              q.pos >= moved(iter[t]).pos => q.id < iter[t].seen
    BY <1>1, MovedReading
  <2>3. iter'[t].seen = r.id /\ r.pos \in Nat
    BY <2>1, <2>2, PagesFacts
  <2> QED
    BY <2>1, <2>2, <2>3
<1>2. LogInv /\ [Next]_vars =>
        [\A t \in Thread : NextRecord(t) => iter'[t].seen < iter[t].seen]_vars
  BY <1>1
<1> QED
  BY <1>2, LogInvariant, PTL DEF Spec, NewestFirst

-----------------------------------------------------------------------------
(* With a single thread, and records shorter than a block, the log is a    *)
(* write-ahead log: every flush saves all that was appended.               *)

\* The file keeps its records when no block with records is written.
LEMMA SameOnDisk ==
  ASSUME Len(disk) \in Nat, Len(disk') \in Nat, Len(disk) <= Len(disk'),
         \A k \in 1 .. Len(disk) :
            \/ disk'[k] = disk[k]
            \/ disk'[k].recs = {} /\ disk[k].recs = {},
         \A k \in 1 .. Len(disk') : k \in 1 .. Len(disk) \/ disk'[k].recs = {}
  PROVE  OnDisk' = OnDisk
<1>1. \A k \in 1 .. Len(disk) : Ids(disk'[k]) = Ids(disk[k])
  BY DEF Ids
<1>2. \A k \in 1 .. Len(disk') : k \in 1 .. Len(disk) \/ Ids(disk'[k]) = {}
  BY DEF Ids
<1>3. 1 .. Len(disk) \subseteq 1 .. Len(disk')
  OBVIOUS
<1> QED
  BY <1>1, <1>2, <1>3 DEF OnDisk

\* A step that takes no record in and writes no page of records.
LEMMA KeptSame ==
  ASSUME OnDisk' = OnDisk, Ids(page') \subseteq Ids(page),
         Ids(page) \subseteq OnDisk \cup Ids(page'), hist' = hist
  PROVE  UNCHANGED Abs!avars
  BY DEF Abs!avars

\* A flush outside of a block switch.
LEMMA SavingIsSave ==
  ASSUME LogInv, Saving, \A t \in Thread : pc[t] \notin Torn
  PROVE  Abs!ASave
<1>0. TypeOK /\ cur \in 1 .. Len(disk) /\ flush_internal /\ page' = page /\ hist' = hist
  BY DEF LogInv, Saving
<1>1. /\ Len(disk') = Len(disk) /\ disk'[cur] = page
      /\ \A j \in 1 .. Len(disk) : j # cur => disk'[j] = disk[j]
  BY <1>0, Flushed
<1>2. Ids(disk[cur]) \subseteq Ids(page)
  BY DEF LogInv, PageAhead, Saving
<1>3. OnDisk' = OnDisk \cup Ids(page)
  <2>1. ASSUME NEW id, id \in OnDisk' PROVE id \in OnDisk \/ id \in Ids(page)
    BY <1>0, <1>1, <2>1 DEF OnDisk
  <2>2. ASSUME NEW id \in OnDisk PROVE id \in OnDisk'
    <3>1. PICK k \in 1 .. Len(disk) : id \in Ids(disk[k])
      BY DEF OnDisk
    <3>2. id \in Ids(disk'[k]) /\ k \in 1 .. Len(disk')
      BY <1>0, <1>1, <1>2, <3>1
    <3> QED
      BY <3>2 DEF OnDisk
  <2>3. Ids(page) \subseteq OnDisk'
    BY <1>0, <1>1 DEF OnDisk
  <2> QED
    BY <2>1, <2>2, <2>3
<1> QED
  BY <1>0, <1>3 DEF Abs!ASave

\* A record that comes into the page.
LEMMA RecordIsAppend ==
  ASSUME OnDisk' = OnDisk, Len(hist') = Len(hist) + 1,
         Ids(page') = Ids(page) \cup {Len(hist) + 1}
  PROVE  Abs!AAppend
  BY DEF Abs!AAppend

LEMMA NextAbs ==
  ASSUME LogInv, [Next]_vars,
         \A t, u \in Thread : t = u,
         \A len \in Lens : len + 2 * IntSize <= Aligned
  PROVE  [Abs!ANext]_(Abs!avars)
<1>0. /\ TypeOK /\ Homes /\ Control /\ PagesOK /\ PageAhead
      /\ Len(disk) \in Nat /\ Len(hist) \in Nat /\ cur \in Nat
      /\ ZeroPage.recs = {} /\ EmptyPage.recs = {} /\ Aligned \in Nat
      /\ pc \in [Thread -> {"idle", "flush", "open", "read"} \cup Switching]
  BY DiskFacts, PagesFacts, AlignedFacts DEF LogInv, TypeOK
<1>1. CASE Still
  <2>1. disk' = disk /\ page' = page /\ hist' = hist
    BY <1>1 DEF Still
  <2>2. OnDisk' = OnDisk /\ Ids(page') = Ids(page)
    BY <2>1 DEF OnDisk
  <2> QED
    BY <2>1, <2>2, KeptSame
<1>2. CASE StartThrows \/ UNCHANGED vars
  <2>1. Still
    BY <1>2 DEF StartThrows, vars, ghosts, Still
  <2> QED
    BY <1>1, <2>1
<1>3. ASSUME NEW t \in Thread,
             (\E len \in Lens : SwitchFlush(t, len)) \/ DoFlush(t) \/ iterator(t)
      PROVE  Abs!ASave
  <2>1. pc[t] \notin Torn
    BY <1>3 DEF SwitchFlush, DoFlush, iterator, Idle, Torn
  <2>2. \A u \in Thread : pc[u] \notin Torn
    BY <2>1
  <2> QED
    BY <1>3, <2>2, SavingSteps, SavingIsSave
<1>4. CASE StartGrow \/ \E t \in Thread : SwitchGrow(t)
  <2>1. /\ Len(disk') = Len(disk) + 1 /\ disk'[Len(disk) + 1] = ZeroPage
        /\ \A j \in 1 .. Len(disk) : disk'[j] = disk[j]
        /\ page' = page /\ hist' = hist
    BY <1>0, <1>4, Grown DEF StartGrow, SwitchGrow
  <2>a. \A k \in 1 .. Len(disk') : k \in 1 .. Len(disk) \/ disk'[k].recs = {}
    <3>1. \A k \in 1 .. Len(disk') : k \in 1 .. Len(disk) \/ k = Len(disk) + 1
      BY <1>0, <2>1
    <3> QED
      BY <1>0, <2>1, <3>1
  <2>b. Len(disk') \in Nat /\ Len(disk) <= Len(disk')
    BY <1>0, <2>1
  <2>2. OnDisk' = OnDisk
    BY <1>0, <2>1, <2>a, <2>b, SameOnDisk
  <2> QED
    BY <2>1, <2>2, KeptSame
<1>5. ASSUME NEW p \in Pages, p.recs = {}, disk' = [disk EXCEPT ![Len(disk)] = p],
             Len(disk) \in 1 .. Len(disk), disk[Len(disk)].recs = {},
             page.recs = {}, page'.recs = {}, hist' = hist
      PROVE  UNCHANGED Abs!avars
  <2>1. /\ Len(disk') = Len(disk) /\ disk'[Len(disk)] = p
        /\ \A j \in 1 .. Len(disk) : j # Len(disk) => disk'[j] = disk[j]
    BY <1>0, <1>5, Written
  <2>a. \A k \in 1 .. Len(disk) :
           \/ disk'[k] = disk[k]
           \/ disk'[k].recs = {} /\ disk[k].recs = {}
    BY <1>5, <2>1
  <2>b. /\ Len(disk') \in Nat /\ Len(disk) <= Len(disk')
        /\ \A k \in 1 .. Len(disk') : k \in 1 .. Len(disk)
    BY <1>0, <2>1
  <2>2. OnDisk' = OnDisk
    BY <1>0, <2>a, <2>b, SameOnDisk
  <2> QED
    BY <1>5, <2>2, KeptSame DEF Ids
<1>6. CASE StartFormat
  <2>1. Len(disk) \in 1 .. Len(disk) /\ page.recs = {}
    BY <1>0, <1>6 DEF StartFormat, Control
  <2>2. disk[Len(disk)].recs = {}
    BY <1>0, <1>6, <2>1, DiskFacts DEF StartFormat, Homes, AtHome
  <2> QED
    BY <1>0, <1>5, <1>6, <2>1, <2>2, PagesFacts DEF StartFormat
<1>7. ASSUME NEW t \in Thread, SwitchFormat(t) PROVE UNCHANGED Abs!avars
  <2>1. up = "up" /\ pc[t] \in Torn
    BY <1>0, <1>7 DEF SwitchFormat, Control, Torn
  <2>2. cur # Len(disk) /\ page = EmptyPage /\ Len(disk) \in 1 .. Len(disk)
    BY <1>0, <2>1 DEF Control, PageAhead
  <2>3. disk[Len(disk)].recs = {}
    BY <2>1, <2>2, LastIsEmpty
  <2> QED
    BY <1>0, <1>5, <1>7, <2>2, <2>3, PagesFacts DEF SwitchFormat
<1>8. CASE Crash
  <2>1. OnDisk' = OnDisk /\ Ids(page') = {} /\ hist' = hist
    BY <1>0, <1>8 DEF Crash, OnDisk, Ids
  <2> QED
    BY <2>1 DEF Abs!ANext, Abs!ACrash
<1>9. ASSUME NEW t \in Thread, NEW len \in Lens, append(t, len) PROVE Abs!AAppend
  <2> DEFINE r0 == [id |-> Len(hist) + 1, pos |-> Place(page.bnd, len), len |-> len]
  <2>1. page'.recs = page.recs \cup {r0} /\ r0.id = Len(hist) + 1
        /\ Len(hist') = Len(hist) + 1
    BY <1>0, <1>9, AppendEffect
  <2>2. OnDisk' = OnDisk
    BY <1>9 DEF append, OnDisk
  <2> HIDE DEF r0
  <2>3. Ids(page') = Ids(page) \cup {Len(hist) + 1}
    BY <2>1 DEF Ids
  <2> QED
    BY <2>1, <2>2, <2>3, RecordIsAppend
<1>10. ASSUME NEW t \in Thread, SwitchReset(t) PROVE UNCHANGED Abs!avars
  <2>1. /\ up = "up" /\ cur \in 1 .. Len(disk)
        /\ disk' = disk /\ page' = EmptyPage /\ hist' = hist /\ pc[t] = "reset"
    BY <1>0, <1>10 DEF SwitchReset, Control
  <2>2. \A u \in Thread : pc[u] \notin Torn
    BY <2>1 DEF Torn
  <2>3. page = disk[cur]
    BY <2>1, <2>2, <1>0 DEF PageAhead, Switching
  <2>4. Ids(page) \subseteq OnDisk /\ OnDisk' = OnDisk /\ Ids(page') = {}
    BY <1>0, <2>1, <2>3 DEF OnDisk, Ids
  <2> QED
    BY <2>1, <2>4, KeptSame
<1>11. ASSUME NEW t \in Thread, SwitchEnter(t) PROVE [Abs!ANext]_(Abs!avars)
  <2>1. page = EmptyPage /\ disk' = disk /\ arg[t] \in Lens
    BY <1>0, <1>11 DEF SwitchEnter, PageAhead, Control, Torn, Switching
  <2>2. OnDisk' = OnDisk
    BY <2>1 DEF OnDisk
  <2>3. CASE ~IsAligned(arg[t])
    BY <1>11, <2>2, <2>3, KeptSame DEF SwitchEnter
  <2>4. CASE IsAligned(arg[t])
    <3> DEFINE r0 == [id |-> Len(hist) + 1, pos |-> Place(Aligned, arg[t]), len |-> arg[t]]
    <3>1. arg[t] + 4 # Aligned
      BY <1>0, <2>1, AlignedFacts DEF IntSize
    <3>2. page'.recs = {r0} /\ r0.id = Len(hist) + 1 /\ Len(hist') = Len(hist) + 1
      BY <1>0, <1>11, <2>4, <3>1, EnterEffect
    <3> HIDE DEF r0
    <3>3. Ids(page') = Ids(page) \cup {Len(hist) + 1}
      BY <1>0, <2>1, <3>2 DEF Ids
    <3> QED
      BY <2>2, <3>2, <3>3, RecordIsAppend DEF Abs!ANext
  <2> QED
    BY <2>3, <2>4
<1> QED
  BY <1>1, <1>2, <1>3, <1>4, <1>6, <1>7, <1>8, <1>9, <1>10, <1>11, StillSteps
     DEF Next, Abs!ANext

\* log_mgr, used by one thread, loses nothing that was flushed and keeps all
\* that was appended until a crash.
THEOREM LogIsDurable ==
  ASSUME \A t, u \in Thread : t = u,
         \A len \in Lens : len + 2 * IntSize <= Aligned
  PROVE  Spec => DurableLog
<1>1. Init => Abs!AInit
  <2> SUFFICES ASSUME Init PROVE Abs!AInit
    OBVIOUS
  <2>1. Len(hist) = 0 /\ Ids(page) = {}
    BY PagesFacts DEF Init, Ids
  <2>2. \A k \in 1 .. Len(disk) : disk[k] = ZeroPage
    BY DEF Init
  <2>3. OnDisk = {}
    BY <2>2, PagesFacts DEF OnDisk, Ids
  <2> QED
    BY <2>1, <2>3 DEF Abs!AInit
<1>2. LogInv /\ [Next]_vars => [Abs!ANext]_(Abs!avars)
  BY NextAbs
<1> QED
  BY <1>1, <1>2, LogInvariant, PTL DEF Spec, DurableLog, Abs!ASpec
=============================================================================
