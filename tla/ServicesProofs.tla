--------------------------- MODULE ServicesProofs ---------------------------
(***************************************************************************)
(* Proofs about what the program uses beside the database: ProcessExecutor *)
(* for any number of calls, descriptors and pieces of output, SshClient    *)
(* for any number of threads, any size of file and of the sftp buffers,    *)
(* and ConfEditor for any of the settings and any values of theirs.        *)
(***************************************************************************)
EXTENDS ProcessExecutor, SshClient, ConfEditor, SequenceTheorems, TLAPS

-----------------------------------------------------------------------------
(***************************************************************************)
(* The process executor.                                                   *)
(***************************************************************************)

Pieces == Calls \X Nat

\* Pipes and outputs are of pieces.
Streams == pipe \in [Pipes -> Seq(Pieces)] /\ output \in [Pipes -> Seq(Pieces)]

\* A descriptor in use is one that a call in progress has and will close.
Owned ==
    \A f \in Fds : table[f] # Free =>
        \E c \in Calls, e \in Ends :
            /\ table[f] = <<<<c, e[1]>>, e[2]>>
            /\ fd[c][e] = f
            /\ pc[c] = "opened" \/ (pc[c] \in {"waiting", "reaped"} /\ e[2] = "r")

\* A call has four different descriptors.
FourFds ==
    \A c \in Calls : pc[c] \in {"opened", "waiting", "reaped", "joining"} =>
        /\ fd[c] \in [Ends -> Fds]
        /\ \A e1, e2 \in Ends : fd[c][e1] = fd[c][e2] => e1 = e2

\* Two calls that are in progress have met.
Overlaps == \A c, d \in Calls : c # d /\ Busy(c) /\ Busy(d) => c \in met

\* Reader threads run between the fork and the join.
Reading ==
    \A p \in Pipes : reader[p] \in {"test", "call", "blocked"} =>
        pc[p[1]] \in {"waiting", "reaped", "joining"}

\* Where no other call is met, a reader reads its own pipe, and nobody else does.
OwnReads ==
    \A p \in Pipes :
        reading[p] # Free /\ (p[1] \notin met \/ reading[p][1] \notin met) => reading[p] = p

\* What is in a pipe or an output has been written, and is there in one place.
Known ==
    \A p \in Pipes : \A x \in ToSet(pipe[p]) \cup ToSet(output[p]) : x[2] \in 1..written[x[1]]
Apart ==
    \A p, q \in Pipes :
        /\ p # q => ToSet(pipe[p]) \cap ToSet(pipe[q]) = {} /\ ToSet(output[p]) \cap ToSet(output[q]) = {}
        /\ ToSet(pipe[p]) \cap ToSet(output[q]) = {}

\* What a call on its own has read, and what it has not read yet, are what was written.
Exact ==
    /\ \A c \in Calls : pipe[<<c, "out">>] = <<>>
    /\ \A c \in Calls \ met :
          /\ output[<<c, "out">>] = <<>>
          /\ output[<<c, "err">>] \o pipe[<<c, "err">>] = [i \in 1..written[c] |-> <<c, i>>]

ProcessInv ==
    TypeOK /\ Streams /\ Owned /\ FourFds /\ Overlaps /\ Reading /\ OwnReads /\ Known /\ Apart /\ Exact

-----------------------------------------------------------------------------

\* Appending to a sequence adds to its elements, and joining two unites them.
LEMMA AppendedElements ==
    ASSUME NEW S, NEW a \in Seq(S), NEW x \in S
    PROVE  ToSet(Append(a, x)) = ToSet(a) \cup {x}
  <1>1. DOMAIN a = 1..Len(a) /\ DOMAIN Append(a, x) = 1..(Len(a) + 1)
    OBVIOUS
  <1>2. \A i \in 1..Len(a) : Append(a, x)[i] = a[i]
    OBVIOUS
  <1>3. Append(a, x)[Len(a) + 1] = x
    OBVIOUS
  <1>4. 1..(Len(a) + 1) = 1..Len(a) \cup {Len(a) + 1}
    OBVIOUS
  <1> QED BY <1>1, <1>2, <1>3, <1>4 DEF ToSet

LEMMA JoinedElements ==
    ASSUME NEW S, NEW a \in Seq(S), NEW b \in Seq(S)
    PROVE  ToSet(a \o b) = ToSet(a) \cup ToSet(b)
  <1>1. DOMAIN a = 1..Len(a) /\ DOMAIN b = 1..Len(b) /\ DOMAIN (a \o b) = 1..(Len(a) + Len(b))
    OBVIOUS
  <1>2. \A i \in 1..(Len(a) + Len(b)) : (a \o b)[i] = IF i <= Len(a) THEN a[i] ELSE b[i - Len(a)]
    BY ConcatProperties
  <1>3. ToSet(a \o b) \subseteq ToSet(a) \cup ToSet(b)
    <2>1. \A i \in 1..(Len(a) + Len(b)) : i <= Len(a) \/ i - Len(a) \in 1..Len(b)
      OBVIOUS
    <2>2. \A i \in 1..(Len(a) + Len(b)) : (a \o b)[i] \in ToSet(a) \cup ToSet(b)
      BY <1>1, <1>2, <2>1 DEF ToSet
    <2> QED BY <1>1, <2>2 DEF ToSet
  <1>4. \A i \in 1..Len(a) : i \in 1..(Len(a) + Len(b)) /\ (a \o b)[i] = a[i]
    BY <1>2
  <1>5. \A i \in 1..Len(b) : Len(a) + i \in 1..(Len(a) + Len(b)) /\ (a \o b)[Len(a) + i] = b[i]
    BY <1>2
  <1> QED BY <1>1, <1>3, <1>4, <1>5 DEF ToSet

\* Joining two sequences piece by piece is the same from either side.
LEMMA JoinAppend ==
    ASSUME NEW S, NEW a \in Seq(S), NEW b \in Seq(S), NEW x \in S
    PROVE  a \o Append(b, x) = Append(a \o b, x)
  OBVIOUS

\* The numbers a child writes follow each other.
LEMMA Counted ==
    ASSUME NEW c \in Calls, NEW n \in Nat
    PROVE  Append([i \in 1..n |-> <<c, i>>], <<c, n + 1>>) = [i \in 1..(n + 1) |-> <<c, i>>]
  <1>1. [i \in 1..n |-> <<c, i>>] \in Seq(Pieces) /\ Len([i \in 1..n |-> <<c, i>>]) = n
    BY DEF Pieces
  <1> QED BY <1>1

\* What two sequences joined begin with is the first of them.
LEMMA FirstOfTwo ==
    ASSUME NEW c \in Calls, NEW a \in Seq(Pieces), NEW b \in Seq(Pieces), NEW n \in Nat,
           a \o b = [i \in 1..n |-> <<c, i>>]
    PROVE  Len(a) \in 0..n /\ a = [i \in 1..Len(a) |-> <<c, i>>]
  <1>1. a \o b \in Seq(Pieces) /\ Len(a \o b) = Len(a) + Len(b)
    BY ConcatProperties
  <1>2. Len(a \o b) = n
    BY <1>1
  <1>3. Len(a) \in Nat /\ Len(b) \in Nat /\ DOMAIN a = 1..Len(a)
    OBVIOUS
  <1>4. \A i \in 1..Len(a) : a[i] = (a \o b)[i] /\ i \in 1..n
    <2>1. \A i \in 1..(Len(a) + Len(b)) : (a \o b)[i] = IF i <= Len(a) THEN a[i] ELSE b[i - Len(a)]
      BY ConcatProperties
    <2>2. \A i \in 1..Len(a) : i \in 1..(Len(a) + Len(b)) /\ i <= Len(a)
      BY <1>3
    <2> QED BY <1>1, <1>2, <2>1, <2>2
  <1>5. \A i \in 1..Len(a) : a[i] = <<c, i>>
    BY <1>4
  <1>6. a = [i \in 1..Len(a) |-> a[i]]
    BY <1>3
  <1> QED BY <1>1, <1>2, <1>3, <1>5, <1>6
-----------------------------------------------------------------------------

\* A pipe is a pair, and no entry of a free descriptor.
LEMMA PipesAreNotFree == \A p \in Pipes : p # Free /\ p[1] \in Calls /\ p[2] \in Kinds /\ p = <<p[1], p[2]>>
  BY DEF Pipes, Free

LEMMA EntriesAreNotFree ==
    \A x \in Pipes \X {"r", "w"} : x # Free /\ x[1] \in Pipes /\ x = <<x[1], x[2]>>
  BY DEF Free

\* In the initial state every descriptor is free and nothing is written.
LEMMA InitInv == Init => ProcessInv
  <1> SUFFICES ASSUME Init PROVE ProcessInv
    OBVIOUS
  <1>1. TypeOK
    BY ProcessAssumption, PipesAreNotFree DEF Init, TypeOK, Ends, Kinds, Free
  <1>2. Streams
    BY DEF Init, Streams
  <1>3. Owned /\ FourFds /\ Overlaps /\ Reading /\ OwnReads
    BY DEF Init, Owned, FourFds, Overlaps, Busy, Reading, OwnReads, Pipes
  <1>4. Known /\ Apart
    <2>1. \A p \in Pipes : ToSet(pipe[p]) = {} /\ ToSet(output[p]) = {}
      BY DEF Init, ToSet
    <2> QED BY <2>1 DEF Known, Apart
  <1>5. Exact
    <2>1. [i \in 1..0 |-> 0] = <<>> /\ \A c \in Calls : [i \in 1..0 |-> <<c, i>>] = <<>>
      OBVIOUS
    <2>2. <<>> \o <<>> = <<>>
      OBVIOUS
    <2> QED BY <2>1, <2>2 DEF Init, Exact, Pipes, Kinds
  <1> QED BY <1>1, <1>2, <1>3, <1>4, <1>5 DEF ProcessInv

\* What the actions with two outcomes do in each.
OpensAt(c, r1, w1, r2, w2) ==
    /\ r1 < w1 /\ w1 < r2 /\ r2 < w2
    /\ table' = [table EXCEPT ![r1] = <<<<c, "out">>, "r">>, ![w1] = <<<<c, "out">>, "w">>,
                              ![r2] = <<<<c, "err">>, "r">>, ![w2] = <<<<c, "err">>, "w">>]
    /\ fd' = [fd EXCEPT ![c] = [e \in Ends |-> IF e[1] = "out" THEN (IF e[2] = "r" THEN r1 ELSE w1)
                                              ELSE (IF e[2] = "r" THEN r2 ELSE w2)]]
    /\ pc' = [pc EXCEPT ![c] = "opened"]
Opens(c) == \E r1, w1, r2, w2 \in FreeFds : OpensAt(c, r1, w1, r2, w2)

LEMMA OpensOrFails ==
    ASSUME NEW c \in Calls, OpenPipes(c)
    PROVE  Opens(c) \/ (pc' = [pc EXCEPT ![c] = "failed"] /\ UNCHANGED <<table, fd>>)
  BY Zenon DEF OpenPipes, Opens, OpensAt

Forks(c) ==
    /\ pc[c] = "opened"
    /\ pc' = [pc EXCEPT ![c] = "waiting"]
    /\ child' = [child EXCEPT ![c] = "running"]
    /\ holds' = [holds EXCEPT ![c] = {p \in Pipes : \E f \in Fds : table[f] = <<p, "w">>}
                                      \ {<<c, "out">>}]
    /\ table' = Closed(c, Kinds \X {"w"})
    /\ reader' = [p \in Pipes |-> IF p[1] = c THEN "test" ELSE reader[p]]
ForkFails(c) ==
    /\ pc[c] = "opened"
    /\ pc' = [pc EXCEPT ![c] = "failed"]
    /\ table' = Closed(c, Ends)
    /\ UNCHANGED <<child, holds, reader>>

LEMMA ForksOrFails == ASSUME NEW c \in Calls, Fork(c) PROVE Forks(c) \/ ForkFails(c)
  BY DEF Fork, Forks, ForkFails

\* The variables keep their types. A read of a call in progress is of a descriptor it has.
LEMMA NextTyped == ASSUME ProcessInv, [Next]_vars PROVE TypeOK' /\ Streams'
  <1> USE DEF ProcessInv, TypeOK, Streams
  <1>1. ASSUME NEW c \in Calls, OpenPipes(c) PROVE TypeOK' /\ Streams'
    <2>1. met' \subseteq Calls
      BY <1>1 DEF OpenPipes
    <2>2. UNCHANGED <<child, holds, written, pipe, active, reader, reading, output>>
      BY <1>1 DEF OpenPipes
    <2>3. CASE pc' = [pc EXCEPT ![c] = "failed"] /\ UNCHANGED <<table, fd>>
      BY <2>1, <2>2, <2>3
    <2>4. CASE Opens(c)
      <3>1. PICK r1, w1, r2, w2 \in Fds : OpensAt(c, r1, w1, r2, w2)
        BY <2>4 DEF Opens, FreeFds
      <3>2. {<<c, "out">>, <<c, "err">>} \subseteq Pipes
        BY DEF Pipes, Kinds
      <3>3. table' \in [Fds -> {Free} \cup (Pipes \X {"r", "w"})]
        BY <3>1, <3>2, ZenonT(60) DEF OpensAt
      <3>4. Fds \subseteq 0..NumFds
        BY ProcessAssumption DEF Fds
      <3>5. fd' \in [Calls -> [Ends -> 0..NumFds]]
        BY <3>1, <3>4 DEF OpensAt
      <3>6. pc' \in [Calls -> {"idle", "opened", "waiting", "reaped", "joining", "done", "failed"}]
        BY <3>1 DEF OpensAt
      <3> QED BY <2>1, <2>2, <3>3, <3>5, <3>6
    <2> QED BY <1>1, <2>3, <2>4, OpensOrFails
  <1>2. ASSUME NEW c \in Calls, Fork(c) PROVE TypeOK' /\ Streams'
    <2>1. UNCHANGED <<fd, written, pipe, active, reading, output, met>>
      BY <1>2 DEF Fork
    <2>2. \A ends : Closed(c, ends) \in [Fds -> {Free} \cup (Pipes \X {"r", "w"})]
      BY DEF Closed
    <2>3. CASE Forks(c)
      <3>1. /\ pc' \in [Calls -> {"idle", "opened", "waiting", "reaped", "joining", "done", "failed"}]
            /\ child' \in [Calls -> {"none", "running", "gone", "left"}]
        BY <2>3 DEF Forks
      <3>2. table' \in [Fds -> {Free} \cup (Pipes \X {"r", "w"})]
        BY <2>2, <2>3 DEF Forks
      <3>3. holds' \in [Calls -> SUBSET Pipes]
        BY <2>3 DEF Forks
      <3>4. reader' \in [Pipes -> {"none", "test", "call", "blocked", "ended"}]
        BY <2>3 DEF Forks
      <3>5. \A p \in Pipes : p[1] = c => reader[p] # "blocked"
        BY <2>3 DEF Forks, Reading
      <3>6. \A p \in Pipes : reader'[p] = "blocked" <=> reader[p] = "blocked"
        BY <2>3, <3>5 DEF Forks
      <3> QED BY <2>1, <3>1, <3>2, <3>3, <3>4, <3>6
    <2>4. CASE ForkFails(c)
      <3>1. pc' \in [Calls -> {"idle", "opened", "waiting", "reaped", "joining", "done", "failed"}]
        BY <2>4 DEF ForkFails
      <3> QED BY <2>1, <2>2, <2>4, <3>1 DEF ForkFails
    <2> QED BY <1>2, <2>3, <2>4, ForksOrFails
  <1>3. ASSUME NEW c \in Calls, Reap(c) PROVE TypeOK' /\ Streams'
    BY <1>3 DEF Reap
  <1>4. ASSUME NEW c \in Calls, CloseReads(c) PROVE TypeOK' /\ Streams'
    BY <1>4 DEF CloseReads, Closed
  <1>5. ASSUME NEW c \in Calls, Join(c) PROVE TypeOK' /\ Streams'
    BY <1>5 DEF Join
  <1>6. ASSUME NEW p \in Pipes, Test(p) PROVE TypeOK' /\ Streams'
    BY <1>6 DEF Test
  <1>7. ASSUME NEW p \in Pipes, EnterRead(p) PROVE TypeOK' /\ Streams'
    <2>1. fd[p[1]][<<p[2], "r">>] \in Fds
      BY <1>7, PipesAreNotFree DEF EnterRead, Reading, FourFds, Ends
    <2> DEFINE entry == table[fd[p[1]][<<p[2], "r">>]]
    <2>2. entry \in {Free} \cup (Pipes \X {"r", "w"})
      BY <2>1
    <2>3. entry # Free => entry[1] \in Pipes /\ entry[1] # Free
      BY <2>2, EntriesAreNotFree, PipesAreNotFree
    <2>4. UNCHANGED <<pc, table, fd, child, holds, written, pipe, active, output, met>> /\ reader[p] = "call"
      BY <1>7 DEF EnterRead
    <2>5. CASE /\ entry # Free
               /\ reader' = [reader EXCEPT ![p] = "blocked"]
               /\ reading' = [reading EXCEPT ![p] = entry[1]]
      <3> HIDE DEF entry
      <3> QED BY <2>3, <2>4, <2>5
    <2>6. CASE reader' = [reader EXCEPT ![p] = "ended"] /\ UNCHANGED reading
      BY <2>4, <2>6
    <2> QED BY <1>7, <2>5, <2>6 DEF EnterRead
  <1>8. ASSUME NEW p \in Pipes, ReturnFromRead(p) PROVE TypeOK' /\ Streams'
    <2>1. reading[p] \in Pipes
      BY <1>8 DEF ReturnFromRead
    <2>2. output[p] \o pipe[reading[p]] \in Seq(Pieces)
      BY <2>1, ConcatProperties
    <2>3. UNCHANGED <<pc, table, fd, child, holds, written, active, met>>
      BY <1>8 DEF ReturnFromRead
    <2>4. /\ reader[p] = "blocked" /\ reading' = [reading EXCEPT ![p] = Free]
          /\ \E at \in {"test", "ended"} : reader' = [reader EXCEPT ![p] = at]
      BY <1>8 DEF ReturnFromRead
    <2>5. output' \in [Pipes -> Seq(Pieces)] /\ pipe' \in [Pipes -> Seq(Pieces)]
      <3>1. CASE /\ output' = [output EXCEPT ![p] = @ \o pipe[reading[p]]]
                 /\ pipe' = [pipe EXCEPT ![reading[p]] = <<>>]
        BY <2>1, <2>2, <3>1
      <3>2. CASE UNCHANGED <<output, pipe>>
        BY <3>2
      <3> QED BY <1>8, <3>1, <3>2 DEF ReturnFromRead
    <2>6. /\ reader' \in [Pipes -> {"none", "test", "call", "blocked", "ended"}]
          /\ reading' \in [Pipes -> {Free} \cup Pipes]
          /\ \A q \in Pipes : reader'[q] = "blocked" <=> reading'[q] # Free
      BY <2>4
    <2> QED BY <2>3, <2>5, <2>6
  <1>9. ASSUME NEW c \in Calls, Write(c) PROVE TypeOK' /\ Streams'
    <2>1. written[c] + 1 \in 0..MaxOut
      BY <1>9, ProcessAssumption DEF Write
    <2>2. written' \in [Calls -> 0..MaxOut] /\ written'[c] = written[c] + 1
      BY <1>9, <2>1 DEF Write
    <2>3. <<c, written'[c]>> \in Pieces
      BY <2>1, <2>2 DEF Pieces
    <2>4. <<c, "err">> \in Pipes
      BY DEF Pipes, Kinds
    <2>5. Append(pipe[<<c, "err">>], <<c, written'[c]>>) \in Seq(Pieces)
      BY <2>3, <2>4, AppendProperties
    <2> QED BY <1>9, <2>2, <2>5 DEF Write
  <1>10. ASSUME NEW c \in Calls, Exit(c) PROVE TypeOK' /\ Streams'
    BY <1>10 DEF Exit
  <1>11. CASE UNCHANGED vars
    BY <1>11 DEF vars
  <1> QED
    BY <1>1, <1>2, <1>3, <1>4, <1>5, <1>6, <1>7, <1>8, <1>9, <1>10, <1>11
    DEF Next, Caller, Reader, Child

-----------------------------------------------------------------------------
\* The descriptors.

\* Descriptors are given back by the call that has them.
LEMMA NextOwned == ASSUME ProcessInv, [Next]_vars PROVE Owned'
  <1> USE DEF ProcessInv
  <1> DEFINE Holder(f, c, e) == /\ table[f] = <<<<c, e[1]>>, e[2]>>
                                /\ fd[c][e] = f
                                /\ pc[c] = "opened" \/ (pc[c] \in {"waiting", "reaped"} /\ e[2] = "r")
  <1>0. \A f \in Fds : table[f] # Free => \E c \in Calls, e \in Ends : Holder(f, c, e)
    BY DEF Owned
  <1>1. ASSUME NEW c \in Calls, OpenPipes(c) PROVE Owned'
    <2>0. pc[c] = "idle"
      BY <1>1 DEF OpenPipes
    <2>1. CASE pc' = [pc EXCEPT ![c] = "failed"] /\ UNCHANGED <<table, fd>>
      BY <1>0, <2>0, <2>1, SMTT(60) DEF TypeOK, Owned
    <2>2. CASE Opens(c)
      <3>1. PICK r1, w1, r2, w2 \in Fds : OpensAt(c, r1, w1, r2, w2)
        BY <2>2 DEF Opens, FreeFds
      <3>2. r1 # w1 /\ r1 # r2 /\ r1 # w2 /\ w1 # r2 /\ w1 # w2 /\ r2 # w2
        BY <3>1 DEF OpensAt, Fds
      <3>3. /\ table'[r1] = <<<<c, "out">>, "r">> /\ table'[w1] = <<<<c, "out">>, "w">>
            /\ table'[r2] = <<<<c, "err">>, "r">> /\ table'[w2] = <<<<c, "err">>, "w">>
        BY <3>1, <3>2 DEF OpensAt, TypeOK
      <3>4. {<<"out", "r">>, <<"out", "w">>, <<"err", "r">>, <<"err", "w">>} \subseteq Ends
        BY DEF Ends, Kinds
      <3>5. /\ fd'[c][<<"out", "r">>] = r1 /\ fd'[c][<<"out", "w">>] = w1
            /\ fd'[c][<<"err", "r">>] = r2 /\ fd'[c][<<"err", "w">>] = w2
        BY <3>1, <3>4 DEF OpensAt, TypeOK
      <3>6. pc'[c] = "opened"
        BY <3>1 DEF OpensAt, TypeOK
      <3>7. \A f \in {r1, w1, r2, w2} : \E e \in Ends : Holder(f, c, e)'
        BY <3>3, <3>4, <3>5, <3>6
      <3>8. \A f \in Fds \ {r1, w1, r2, w2} : table'[f] = table[f]
        BY <3>1 DEF OpensAt, TypeOK
      <3>9. \A d \in Calls \ {c} : fd'[d] = fd[d] /\ pc'[d] = pc[d]
        BY <3>1 DEF OpensAt, TypeOK
      <3>10. \A f \in Fds \ {r1, w1, r2, w2} : table[f] # Free =>
                \E d \in Calls, e \in Ends : Holder(f, d, e) /\ d # c
        BY <1>0, <2>0
      <3>11. \A f \in Fds \ {r1, w1, r2, w2} : table'[f] # Free => \E d \in Calls, e \in Ends : Holder(f, d, e)'
        BY <3>8, <3>9, <3>10
      <3> HIDE DEF Holder
      <3>12. \A f \in Fds : table'[f] # Free => \E d \in Calls, e \in Ends : Holder(f, d, e)'
        BY <3>7, <3>11
      <3> QED BY <3>12 DEF Owned, Holder
    <2> QED BY <1>1, <2>1, <2>2, OpensOrFails
  <1>2. ASSUME NEW c \in Calls, Fork(c) PROVE Owned'
    <2>1. UNCHANGED fd
      BY <1>2 DEF Fork
    <2>2. CASE Forks(c)
      <3>1. \A f \in Fds : table'[f] # Free =>
               table'[f] = table[f] /\ \A e \in Ends : fd[c][e] = f => e[2] # "w"
        BY <2>2 DEF Forks, Closed, Ends
      <3>2. \A d \in Calls : pc'[d] = IF d = c THEN "waiting" ELSE pc[d]
        BY <2>2 DEF Forks, TypeOK
      <3>3. \A e \in Ends : e[2] \in {"r", "w"}
        BY DEF Ends
      <3> QED BY <1>0, <2>1, <3>1, <3>2, <3>3 DEF Owned
    <2>3. CASE ForkFails(c)
      <3>1. \A f \in Fds : table'[f] # Free => table'[f] = table[f] /\ \A e \in Ends : fd[c][e] # f
        BY <2>3 DEF ForkFails, Closed
      <3>2. \A d \in Calls \ {c} : pc'[d] = pc[d]
        BY <2>3 DEF ForkFails, TypeOK
      <3> QED BY <1>0, <2>1, <3>1, <3>2 DEF Owned
    <2> QED BY <1>2, <2>2, <2>3, ForksOrFails
  <1>3. ASSUME NEW c \in Calls, Reap(c) PROVE Owned'
    <2>1. \A d \in Calls : pc'[d] = IF d = c THEN "reaped" ELSE pc[d]
      BY <1>3 DEF Reap, TypeOK
    <2> QED BY <1>0, <1>3, <2>1 DEF Reap, Owned
  <1>4. ASSUME NEW c \in Calls, CloseReads(c) PROVE Owned'
    <2>1. \A f \in Fds : table'[f] # Free =>
             table'[f] = table[f] /\ \A e \in Ends : fd[c][e] = f => e[2] # "r"
      BY <1>4 DEF CloseReads, Closed, Ends
    <2>2. \A d \in Calls \ {c} : pc'[d] = pc[d]
      BY <1>4 DEF CloseReads, TypeOK
    <2>3. pc[c] = "reaped" /\ UNCHANGED fd
      BY <1>4 DEF CloseReads
    <2> QED BY <1>0, <2>1, <2>2, <2>3 DEF Owned
  <1>5. ASSUME NEW c \in Calls, Join(c) PROVE Owned'
    <2>1. pc[c] = "joining" /\ UNCHANGED <<table, fd>> /\ \A d \in Calls \ {c} : pc'[d] = pc[d]
      BY <1>5 DEF Join, TypeOK
    <2> QED BY <1>0, <2>1 DEF Owned
  <1>6. ASSUME UNCHANGED <<table, fd, pc>> PROVE Owned'
    BY <1>6 DEF Owned
  <1> QED
    BY <1>1, <1>2, <1>3, <1>4, <1>5, <1>6
    DEF Next, Caller, Reader, Child, Test, EnterRead, ReturnFromRead, Write, Exit, vars

\* The four descriptors a call is given are different, and it keeps them.
LEMMA NextFourFds == ASSUME ProcessInv, [Next]_vars PROVE FourFds'
  <1> USE DEF ProcessInv
  <1>1. ASSUME NEW c \in Calls, OpenPipes(c) PROVE FourFds'
    <2>1. CASE pc' = [pc EXCEPT ![c] = "failed"] /\ UNCHANGED <<table, fd>>
      BY <2>1 DEF FourFds, TypeOK
    <2>2. CASE Opens(c)
      <3>1. PICK r1, w1, r2, w2 \in Fds : OpensAt(c, r1, w1, r2, w2)
        BY <2>2 DEF Opens, FreeFds
      <3>2. r1 # w1 /\ r1 # r2 /\ r1 # w2 /\ w1 # r2 /\ w1 # w2 /\ r2 # w2
        BY <3>1 DEF OpensAt, Fds
      <3>3. fd'[c] = [e \in Ends |-> IF e[1] = "out" THEN (IF e[2] = "r" THEN r1 ELSE w1)
                                     ELSE (IF e[2] = "r" THEN r2 ELSE w2)]
        BY <3>1 DEF OpensAt, TypeOK
      <3>4. \A e \in Ends : e[1] \in {"out", "err"} /\ e[2] \in {"r", "w"} /\ e = <<e[1], e[2]>>
        BY DEF Ends, Kinds
      <3>5. fd'[c] \in [Ends -> Fds]
        BY <3>3
      <3>6. \A e1, e2 \in Ends : fd'[c][e1] = fd'[c][e2] => e1[1] = e2[1] /\ e1[2] = e2[2]
        BY <3>2, <3>3, <3>4
      <3>7. \A e1, e2 \in Ends : fd'[c][e1] = fd'[c][e2] => e1 = e2
        BY <3>4, <3>6
      <3>8. \A d \in Calls \ {c} : fd'[d] = fd[d] /\ pc'[d] = pc[d]
        BY <3>1 DEF OpensAt, TypeOK
      <3> QED BY <3>5, <3>7, <3>8 DEF FourFds
    <2> QED BY <1>1, <2>1, <2>2, OpensOrFails
  <1>2. ASSUME NEW c \in Calls, NEW at \in {"waiting", "reaped", "joining", "done", "failed"},
               pc' = [pc EXCEPT ![c] = at], UNCHANGED fd,
               at = "done" \/ at = "failed" \/ pc[c] \in {"opened", "waiting", "reaped", "joining"}
        PROVE  FourFds'
    BY <1>2 DEF FourFds, TypeOK
  <1>3. ASSUME UNCHANGED <<fd, pc>> PROVE FourFds'
    BY <1>3 DEF FourFds
  <1>4. ASSUME NEW c \in Calls, Caller(c), ~OpenPipes(c) PROVE FourFds'
    <2>1. \E at \in {"waiting", "reaped", "joining", "done", "failed"} :
             /\ pc' = [pc EXCEPT ![c] = at]
             /\ UNCHANGED fd
             /\ pc[c] \in {"opened", "waiting", "reaped", "joining"}
      BY <1>4 DEF Caller, Fork, Reap, CloseReads, Join
    <2> QED BY <1>2, <2>1
  <1> QED
    BY <1>1, <1>3, <1>4
    DEF Next, Reader, Child, Test, EnterRead, ReturnFromRead, Write, Exit, vars

-----------------------------------------------------------------------------
\* Calls that meet, and whose pipes are read.

\* Only a call that opens its pipes becomes one in progress; no other step changes met.
LEMMA BusyCalls ==
    ASSUME ProcessInv, [Next]_vars
    PROVE  \/ \E c \in Calls : /\ OpenPipes(c)
                               /\ \A d \in Calls : Busy(d)' => Busy(d) \/ d = c
           \/ met' = met /\ \A d \in Calls : Busy(d)' => Busy(d)
  <1> USE DEF ProcessInv
  <1>1. ASSUME NEW c \in Calls, OpenPipes(c) PROVE \A d \in Calls : Busy(d)' => Busy(d) \/ d = c
    <2>1. \A d \in Calls \ {c} : pc'[d] = pc[d]
      <3>1. Opens(c) => \E at : pc' = [pc EXCEPT ![c] = at]
        BY DEF Opens, OpensAt
      <3> QED BY <1>1, <3>1, OpensOrFails DEF TypeOK
    <2> QED BY <2>1 DEF Busy
  <1>2. ASSUME NEW c \in Calls, Caller(c), ~OpenPipes(c) PROVE met' = met /\ \A d \in Calls : Busy(d)' => Busy(d)
    <2>1. met' = met /\ \E at : pc' = [pc EXCEPT ![c] = at] /\ pc[c] \in {"opened", "waiting", "reaped", "joining"}
      BY <1>2 DEF Caller, Fork, Reap, CloseReads, Join
    <2> QED BY <2>1 DEF Busy, TypeOK
  <1>3. ASSUME UNCHANGED <<pc, met>> PROVE met' = met /\ \A d \in Calls : Busy(d)' => Busy(d)
    BY <1>3 DEF Busy
  <1> QED
    BY <1>1, <1>2, <1>3
    DEF Next, Reader, Child, Test, EnterRead, ReturnFromRead, Write, Exit, vars

LEMMA NextOverlaps == ASSUME ProcessInv, [Next]_vars PROVE Overlaps' /\ met \subseteq met'
  <1>1. ASSUME NEW c \in Calls, OpenPipes(c), \A d \in Calls : Busy(d)' => Busy(d) \/ d = c
        PROVE  Overlaps' /\ met \subseteq met'
    <2>1. met' = IF \E d \in Calls : Busy(d) THEN met \cup {c} \cup {d \in Calls : Busy(d)} ELSE met
      BY <1>1 DEF OpenPipes
    <2> QED BY <1>1, <2>1 DEF ProcessInv, Overlaps
  <1>2. ASSUME met' = met, \A d \in Calls : Busy(d)' => Busy(d) PROVE Overlaps' /\ met \subseteq met'
    BY <1>2 DEF ProcessInv, Overlaps
  <1> QED BY <1>1, <1>2, BusyCalls

\* A call waits for its readers before it ends.
LEMMA NextReading == ASSUME ProcessInv, [Next]_vars PROVE Reading'
  <1> USE DEF ProcessInv
  <1>1. ASSUME NEW c \in Calls, OpenPipes(c) PROVE Reading'
    <2>1. pc[c] = "idle" /\ UNCHANGED reader
      BY <1>1 DEF OpenPipes
    <2>2. \E at : pc' = [pc EXCEPT ![c] = at]
      <3>1. Opens(c) => \E at : pc' = [pc EXCEPT ![c] = at]
        BY DEF Opens, OpensAt
      <3> QED BY <1>1, <3>1, OpensOrFails
    <2> QED BY <2>1, <2>2 DEF Reading, TypeOK
  <1>2. ASSUME NEW c \in Calls, Fork(c) PROVE Reading'
    <2>1. CASE Forks(c)
      BY <2>1, PipesAreNotFree DEF Forks, Reading, TypeOK
    <2>2. CASE ForkFails(c)
      BY <2>2 DEF ForkFails, Reading, TypeOK
    <2> QED BY <1>2, <2>1, <2>2, ForksOrFails
  <1>3. ASSUME NEW c \in Calls, Reap(c) \/ CloseReads(c) PROVE Reading'
    BY <1>3, PipesAreNotFree DEF Reap, CloseReads, Reading, TypeOK
  <1>4. ASSUME NEW c \in Calls, Join(c) PROVE Reading'
    <2>1. \A p \in Pipes : p[1] = c => reader[p] = "ended"
      BY <1>4, PipesAreNotFree DEF Join
    <2> QED BY <1>4, <2>1 DEF Join, Reading, TypeOK
  <1>5. ASSUME NEW p \in Pipes, Reader(p) PROVE Reading'
    <2>1. /\ UNCHANGED pc
          /\ reader[p] \in {"test", "call", "blocked"}
          /\ \E at : reader' = [reader EXCEPT ![p] = at]
      BY <1>5 DEF Reader, Test, EnterRead, ReturnFromRead
    <2> QED BY <2>1 DEF Reading, TypeOK
  <1>6. ASSUME UNCHANGED <<pc, reader>> PROVE Reading'
    BY <1>6 DEF Reading
  <1> QED
    BY <1>1, <1>2, <1>3, <1>4, <1>5, <1>6 DEF Next, Caller, Child, Write, Exit, vars

\* The pipe a read finds is that of the call that has the descriptor.
LEMMA FoundPipe ==
    ASSUME ProcessInv, NEW p \in Pipes, EnterRead(p)
    PROVE  \/ reading' = reading
           \/ \E q \in Pipes : /\ reading' = [reading EXCEPT ![p] = q]
                               /\ Busy(p[1]) /\ Busy(q[1])
                               /\ p[1] = q[1] => p = q
  <1> USE DEF ProcessInv
  <1> DEFINE f == fd[p[1]][<<p[2], "r">>]
  <1>1. pc[p[1]] \in {"waiting", "reaped", "joining"}
    BY DEF EnterRead, Reading
  <1>2. <<p[2], "r">> \in Ends /\ p[1] \in Calls
    BY PipesAreNotFree DEF Ends
  <1>3. f \in Fds
    BY <1>1, <1>2 DEF FourFds
  <1>4. CASE reading' = [reading EXCEPT ![p] = table[f][1]] /\ table[f] # Free /\ table[f][2] = "r"
    <2>1. PICK c \in Calls, e \in Ends :
             /\ table[f] = <<<<c, e[1]>>, e[2]>>
             /\ fd[c][e] = f
             /\ pc[c] = "opened" \/ (pc[c] \in {"waiting", "reaped"} /\ e[2] = "r")
      BY <1>3, <1>4 DEF Owned
    <2>2. e[1] \in Kinds /\ e[2] = "r" /\ e = <<e[1], e[2]>>
      BY <1>4, <2>1 DEF Ends
    <2> DEFINE q == <<c, e[1]>>
    <2>3. q \in Pipes /\ q[1] = c /\ q[2] = e[1] /\ table[f][1] = q
      BY <2>1, <2>2 DEF Pipes
    <2>4. Busy(p[1]) /\ Busy(c)
      BY <1>1, <2>1 DEF Busy
    <2>5. ASSUME p[1] = c PROVE p = q
      <3>1. e = <<p[2], "r">>
        BY <1>1, <1>2, <2>1, <2>5 DEF FourFds
      <3>2. e[1] = p[2]
        BY <3>1
      <3> QED BY <2>5, <3>2, PipesAreNotFree
    <2>6. reading' = [reading EXCEPT ![p] = q]
      BY <1>4, <2>3
    <2> QED BY <2>3, <2>4, <2>5, <2>6
  <1> QED BY <1>4 DEF EnterRead

LEMMA NextOwnReads == ASSUME ProcessInv, [Next]_vars PROVE OwnReads'
  <1> USE DEF ProcessInv
  <1>0. met \subseteq met'
    BY NextOverlaps
  <1>1. ASSUME UNCHANGED reading PROVE OwnReads'
    BY <1>0, <1>1 DEF OwnReads
  <1>2. ASSUME NEW p \in Pipes, ReturnFromRead(p) PROVE OwnReads'
    <2>1. reading' = [reading EXCEPT ![p] = Free]
      BY <1>2 DEF ReturnFromRead
    <2>2. \A x \in Pipes : reading'[x] # Free => reading'[x] = reading[x]
      BY <2>1 DEF TypeOK
    <2> QED BY <1>0, <2>2 DEF OwnReads
  <1>3. ASSUME NEW p \in Pipes, EnterRead(p) PROVE OwnReads'
    <2>1. met' = met
      BY <1>3 DEF EnterRead
    <2>2. ASSUME NEW q \in Pipes, reading' = [reading EXCEPT ![p] = q], Busy(p[1]), Busy(q[1]), p[1] = q[1] => p = q
          PROVE  OwnReads'
      <3>1. p[1] # q[1] => p[1] \in met /\ q[1] \in met
        BY <2>2, PipesAreNotFree DEF Overlaps
      <3>2. reading'[p] = q /\ \A x \in Pipes \ {p} : reading'[x] = reading[x]
        BY <2>2 DEF TypeOK
      <3> QED BY <2>1, <2>2, <3>1, <3>2 DEF OwnReads
    <2> QED BY <1>1, <1>3, <2>2, FoundPipe
  <1> QED
    BY <1>1, <1>2, <1>3
    DEF Next, Caller, Reader, Child, OpenPipes, Fork, Reap, CloseReads, Join, Test, Write, Exit, vars

-----------------------------------------------------------------------------
\* What is written, and where it goes.

\* A write puts a new piece at the end of one pipe.
LEMMA WriteStep ==
    ASSUME ProcessInv, NEW c \in Calls, Write(c)
    PROVE  LET w == <<c, "err">>
               x == <<c, written[c] + 1>>
           IN /\ w \in Pipes /\ x \in Pieces
              /\ pipe' = [pipe EXCEPT ![w] = Append(pipe[w], x)]
              /\ written' = [written EXCEPT ![c] = written[c] + 1]
              /\ written[c] \in Nat
              /\ UNCHANGED <<output, met>>
  <1>1. written[c] \in Nat
    BY ProcessAssumption DEF ProcessInv, TypeOK
  <1>2. <<c, "err">> \in Pipes /\ <<c, written[c] + 1>> \in Pieces
    BY <1>1 DEF Pipes, Kinds, Pieces
  <1>3. written' = [written EXCEPT ![c] = written[c] + 1] /\ written'[c] = written[c] + 1
    BY DEF Write, ProcessInv, TypeOK
  <1> QED BY <1>1, <1>2, <1>3 DEF Write

\* A read that returns moves what is in one pipe to one output.
LEMMA ReadStep ==
    ASSUME ProcessInv, NEW p \in Pipes, ReturnFromRead(p)
    PROVE  /\ reading[p] \in Pipes
           /\ UNCHANGED <<written, met>>
           /\ \/ UNCHANGED <<output, pipe>>
              \/ /\ pipe[reading[p]] # <<>>
                 /\ output' = [output EXCEPT ![p] = output[p] \o pipe[reading[p]]]
                 /\ pipe' = [pipe EXCEPT ![reading[p]] = <<>>]
  BY DEF ReturnFromRead, ProcessInv, TypeOK

LEMMA NextPlaces == ASSUME ProcessInv, [Next]_vars PROVE Known' /\ Apart'
  <1> USE DEF ProcessInv
  <1> DEFINE In(p) == ToSet(pipe[p])
             Out(p) == ToSet(output[p])
  <1>0. \A p \in Pipes : In(p) \subseteq Pieces /\ Out(p) \subseteq Pieces
    BY DEF Streams, ToSet
  <1>1. ASSUME NEW c \in Calls, Write(c) PROVE Known' /\ Apart'
    <2> DEFINE w == <<c, "err">>
               x == <<c, written[c] + 1>>
    <2>1. /\ w \in Pipes /\ x \in Pieces
          /\ pipe' = [pipe EXCEPT ![w] = Append(pipe[w], x)]
          /\ written' = [written EXCEPT ![c] = written[c] + 1]
          /\ written[c] \in Nat
          /\ UNCHANGED <<output, met>>
      BY <1>1, WriteStep
    <2>2. /\ x[1] = c /\ x[2] = written[c] + 1
          /\ \A d \in Calls : written'[d] = IF d = c THEN written[c] + 1 ELSE written[d]
      BY <2>1 DEF TypeOK
    <2> HIDE DEF w, x
    <2>3. pipe[w] \in Seq(Pieces)
      BY <2>1 DEF Streams
    <2>4. ToSet(Append(pipe[w], x)) = In(w) \cup {x}
      BY <2>1, <2>3, AppendedElements
    <2>5. \A p \in Pipes : pipe'[p] = IF p = w THEN Append(pipe[w], x) ELSE pipe[p]
      BY <2>1 DEF Streams
    <2>6. \A p \in Pipes : In(p)' = (IF p = w THEN In(w) \cup {x} ELSE In(p)) /\ Out(p)' = Out(p)
      <3>1. ASSUME NEW p \in Pipes PROVE In(p)' = (IF p = w THEN In(w) \cup {x} ELSE In(p))
        <4>1. CASE p = w
          <5>1. In(p)' = ToSet(Append(pipe[w], x))
            BY <2>5, <4>1
          <5> QED BY <2>4, <4>1, <5>1
        <4>2. CASE p # w
          BY <2>5, <4>2
        <4> QED BY <4>1, <4>2
      <3>2. \A p \in Pipes : Out(p)' = Out(p)
        BY <2>1
      <3> QED BY <3>1, <3>2
    <2>7. \A p \in Pipes : x \notin In(p) /\ x \notin Out(p)
      BY <2>1, <2>2 DEF Known
    <2>8. \A d \in Calls : written[d] \in Nat
      BY ProcessAssumption DEF TypeOK
    <2>9. \A y \in Pieces : y[1] \in Calls /\ y[2] \in Nat
      BY DEF Pieces
    <2>10. \A y \in Pieces : y[2] \in 1..written[y[1]] => y[2] \in 1..written'[y[1]]
      BY <2>1, <2>2, <2>8, <2>9
    <2>11. x[2] \in 1..written'[x[1]]
      BY <2>1, <2>2
    <2> HIDE DEF In, Out
    <2>12. \A p \in Pipes : \A y \in (In(p) \cup Out(p))' : y[2] \in 1..written'[y[1]]
      <3>1. \A p \in Pipes : \A y \in In(p) \cup Out(p) : y[2] \in 1..written[y[1]] /\ y \in Pieces
        BY <1>0 DEF Known, In, Out
      <3> QED BY <2>6, <2>10, <2>11, <3>1
    <2>13. \A p, q \in Pipes : /\ p # q => (In(p) \cap In(q))' = {} /\ (Out(p) \cap Out(q))' = {}
                               /\ (In(p) \cap Out(q))' = {}
      <3>1. \A p, q \in Pipes : /\ p # q => In(p) \cap In(q) = {} /\ Out(p) \cap Out(q) = {}
                                /\ In(p) \cap Out(q) = {}
        BY DEF Apart, In, Out
      <3> QED BY <2>6, <2>7, <3>1
    <2> QED BY <2>12, <2>13 DEF Known, Apart, In, Out
  <1>2. ASSUME NEW p \in Pipes, ReturnFromRead(p) PROVE Known' /\ Apart'
    <2> DEFINE q == reading[p]
    <2>1. q \in Pipes /\ UNCHANGED written
      BY <1>2, ReadStep
    <2>2. CASE UNCHANGED <<output, pipe>>
      BY <2>1, <2>2 DEF Known, Apart
    <2>3. CASE /\ output' = [output EXCEPT ![p] = output[p] \o pipe[q]]
               /\ pipe' = [pipe EXCEPT ![q] = <<>>]
      <3>1. output[p] \in Seq(Pieces) /\ pipe[q] \in Seq(Pieces)
        BY <2>1 DEF Streams
      <3>2. ToSet(output[p] \o pipe[q]) = Out(p) \cup In(q) /\ ToSet(<<>>) = {}
        <4>1. ToSet(output[p] \o pipe[q]) = Out(p) \cup In(q)
          BY <3>1, JoinedElements
        <4>2. ToSet(<<>>) = {}
          BY DEF ToSet
        <4> QED BY <4>1, <4>2
      <3>3. \A r \in Pipes : /\ pipe'[r] = IF r = q THEN <<>> ELSE pipe[r]
                             /\ output'[r] = IF r = p THEN output[p] \o pipe[q] ELSE output[r]
        BY <2>1, <2>3 DEF Streams
      <3>4. \A r \in Pipes : /\ In(r)' = IF r = q THEN {} ELSE In(r)
                             /\ Out(r)' = IF r = p THEN Out(p) \cup In(q) ELSE Out(r)
        BY <3>2, <3>3
      <3>5. \A r, u \in Pipes : /\ r # u => In(r) \cap In(u) = {} /\ Out(r) \cap Out(u) = {}
                                /\ In(r) \cap Out(u) = {}
        BY DEF Apart
      <3>6. \A r \in Pipes : \A y \in In(r) \cup Out(r) : y[2] \in 1..written[y[1]]
        BY DEF Known
      <3> HIDE DEF In, Out, q
      <3>7. \A r, u \in Pipes : /\ r # u => (In(r) \cap In(u))' = {} /\ (Out(r) \cap Out(u))' = {}
                                /\ (In(r) \cap Out(u))' = {}
        BY <2>1, <3>4, <3>5
      <3>8. \A r \in Pipes : \A y \in (In(r) \cup Out(r))' : y[2] \in 1..written'[y[1]]
        BY <2>1, <3>4, <3>6
      <3> QED BY <3>7, <3>8 DEF Known, Apart, In, Out
    <2> QED BY <1>2, <2>2, <2>3, ReadStep
  <1>3. ASSUME UNCHANGED <<pipe, output, written>> PROVE Known' /\ Apart'
    BY <1>3 DEF Known, Apart
  <1> QED
    BY <1>1, <1>2, <1>3
    DEF Next, Caller, Reader, Child, OpenPipes, Fork, Reap, CloseReads, Join, Test, EnterRead, Exit, vars

LEMMA NextExact == ASSUME ProcessInv, [Next]_vars PROVE Exact'
  <1> USE DEF ProcessInv
  <1>0. met \subseteq met'
    BY NextOverlaps
  <1>1. ASSUME NEW c \in Calls, Write(c) PROVE Exact'
    <2> DEFINE w == <<c, "err">>
               x == <<c, written[c] + 1>>
    <2>1. /\ w \in Pipes /\ x \in Pieces
          /\ pipe' = [pipe EXCEPT ![w] = Append(pipe[w], x)]
          /\ written' = [written EXCEPT ![c] = written[c] + 1]
          /\ written[c] \in Nat
          /\ UNCHANGED <<output, met>>
      BY <1>1, WriteStep
    <2>2. \A d \in Calls : pipe'[<<d, "out">>] = pipe[<<d, "out">>]
      BY <2>1 DEF Streams, Pipes, Kinds
    <2>3. \A d \in Calls \ {c} : pipe'[<<d, "err">>] = pipe[<<d, "err">>] /\ written'[d] = written[d]
      BY <2>1 DEF Streams, Pipes, Kinds, TypeOK
    <2>4. pipe'[w] = Append(pipe[w], x) /\ written'[c] = written[c] + 1
      BY <2>1 DEF Streams, TypeOK
    <2>5. ASSUME c \notin met PROVE output[w] \o pipe'[w] = [i \in 1..written'[c] |-> <<c, i>>]
      <3>1. output[w] \in Seq(Pieces) /\ pipe[w] \in Seq(Pieces)
        BY <2>1 DEF Streams
      <3>2. output[w] \o Append(pipe[w], x) = Append(output[w] \o pipe[w], x)
        <4>1. x \in Pieces
          BY <2>1
        <4>2. \A a, b \in Seq(Pieces), y \in Pieces : a \o Append(b, y) = Append(a \o b, y)
          BY JoinAppend
        <4> HIDE DEF x
        <4> QED BY <3>1, <4>1, <4>2
      <3>3. output[w] \o pipe[w] = [i \in 1..written[c] |-> <<c, i>>]
        BY <2>5 DEF Exact
      <3> QED BY <2>1, <2>4, <3>2, <3>3, Counted
    <2>6. ASSUME NEW d \in Calls \ met
          PROVE  /\ output'[<<d, "out">>] = <<>>
                 /\ output'[<<d, "err">>] \o pipe'[<<d, "err">>] = [i \in 1..written'[d] |-> <<d, i>>]
      <3>1. CASE d = c
        BY <2>1, <2>5, <3>1 DEF Exact
      <3>2. CASE d # c
        BY <2>1, <2>3, <3>2 DEF Exact
      <3> QED BY <3>1, <3>2
    <2> QED BY <2>1, <2>2, <2>6 DEF Exact
  <1>2. ASSUME NEW p \in Pipes, ReturnFromRead(p) PROVE Exact'
    <2> DEFINE q == reading[p]
    <2>1. q \in Pipes /\ UNCHANGED <<written, met>>
      BY <1>2, ReadStep
    <2>2. CASE UNCHANGED <<output, pipe>>
      BY <2>1, <2>2 DEF Exact
    <2>3. CASE /\ pipe[q] # <<>>
               /\ output' = [output EXCEPT ![p] = output[p] \o pipe[q]]
               /\ pipe' = [pipe EXCEPT ![q] = <<>>]
      <3>1. \A r \in Pipes : /\ pipe'[r] = IF r = q THEN <<>> ELSE pipe[r]
                             /\ output'[r] = IF r = p THEN output[p] \o pipe[q] ELSE output[r]
        BY <2>1, <2>3 DEF Streams
      <3>2. \A d \in Calls : pipe'[<<d, "out">>] = <<>>
        BY <3>1 DEF Exact, Pipes, Kinds
      <3>3. ASSUME NEW d \in Calls \ met
            PROVE  /\ output'[<<d, "out">>] = <<>>
                   /\ output'[<<d, "err">>] \o pipe'[<<d, "err">>] = [i \in 1..written[d] |-> <<d, i>>]
        <4>1. <<d, "out">> \in Pipes /\ <<d, "err">> \in Pipes
          BY DEF Pipes, Kinds
        <4>2. /\ output[<<d, "out">>] = <<>>
              /\ output[<<d, "err">>] \o pipe[<<d, "err">>] = [i \in 1..written[d] |-> <<d, i>>]
          BY DEF Exact
        <4>3. q # Free
          BY <2>1, PipesAreNotFree
        <4>4. CASE p[1] # d
          <5>1. q[1] # d
            BY <2>1, <4>3, <4>4 DEF OwnReads
          <5>2. p # <<d, "out">> /\ p # <<d, "err">> /\ q # <<d, "err">>
            BY <4>4, <5>1
          <5> QED BY <3>1, <4>1, <4>2, <5>2
        <4>5. CASE p[1] = d
          <5>1. q = p
            BY <4>3, <4>5 DEF OwnReads
          <5>2. p # <<d, "out">>
            BY <2>3, <5>1 DEF Exact
          <5>3. p = <<d, "err">>
            BY <4>5, <5>2, PipesAreNotFree DEF Kinds
          <5>4. output[p] \o pipe[p] \in Seq(Pieces)
            BY ConcatProperties DEF Streams
          <5>5. (output[p] \o pipe[p]) \o <<>> = output[p] \o pipe[p]
            BY <5>4, ConcatEmptySeq
          <5> QED BY <3>1, <4>1, <4>2, <5>1, <5>2, <5>3, <5>5
        <4> QED BY <4>4, <4>5
      <3> QED BY <2>1, <3>2, <3>3 DEF Exact
    <2> QED BY <1>2, <2>2, <2>3, ReadStep
  <1>3. ASSUME UNCHANGED <<pipe, output, written>> PROVE Exact'
    BY <1>0, <1>3 DEF Exact
  <1> QED
    BY <1>1, <1>2, <1>3
    DEF Next, Caller, Reader, Child, OpenPipes, Fork, Reap, CloseReads, Join, Test, EnterRead, Exit, vars

-----------------------------------------------------------------------------

LEMMA NextInv == ProcessInv /\ [Next]_vars => ProcessInv'
  BY NextTyped, NextOwned, NextFourFds, NextOverlaps, NextReading, NextOwnReads, NextPlaces, NextExact
  DEF ProcessInv

LEMMA AlwaysInv == Spec => []ProcessInv
  BY InitInv, NextInv, PTL DEF Spec

\* Calls and their children are well typed, for any number of them: a reader that is in
\* read(2) refers to a pipe.
THEOREM ProcessTypes == Spec => []TypeOK
  <1>1. ProcessInv => TypeOK
    BY DEF ProcessInv
  <1> QED BY <1>1, AlwaysInv, PTL

\* A call that met no other returns the first pieces its own child wrote, no piece is
\* returned twice, and the descriptors are all given back (process_executor::execute).
THEOREM OutputsAreOwn == Spec => []ReturnedOutput
  <1>1. ASSUME ProcessInv PROVE ReturnedOutput
    <2> USE <1>1 DEF ProcessInv
    <2>1. ASSUME NEW c \in Calls \ met
          PROVE  /\ output[<<c, "out">>] = <<>>
                 /\ \E n \in 0..written[c] : output[<<c, "err">>] = [i \in 1..n |-> <<c, i>>]
      <3>1. /\ <<c, "err">> \in Pipes
            /\ written[c] \in Nat
        BY ProcessAssumption DEF Pipes, Kinds, TypeOK
      <3>2. output[<<c, "err">>] \in Seq(Pieces) /\ pipe[<<c, "err">>] \in Seq(Pieces)
        BY <3>1 DEF Streams
      <3>3. /\ output[<<c, "out">>] = <<>>
            /\ output[<<c, "err">>] \o pipe[<<c, "err">>] = [i \in 1..written[c] |-> <<c, i>>]
        BY DEF Exact
      <3>4. /\ Len(output[<<c, "err">>]) \in 0..written[c]
            /\ output[<<c, "err">>] = [i \in 1..Len(output[<<c, "err">>]) |-> <<c, i>>]
        <4> DEFINE a == output[<<c, "err">>]
                   b == pipe[<<c, "err">>]
        <4>1. a \in Seq(Pieces) /\ b \in Seq(Pieces) /\ a \o b = [i \in 1..written[c] |-> <<c, i>>]
          BY <3>2, <3>3
        <4> HIDE DEF a, b
        <4>2. Len(a) \in 0..written[c] /\ a = [i \in 1..Len(a) |-> <<c, i>>]
          BY <3>1, <4>1, FirstOfTwo
        <4> QED BY <4>2 DEF a
      <3> QED BY <3>3, <3>4
    <2>2. \A p, q \in Pipes : p # q => ToSet(output[p]) \cap ToSet(output[q]) = {}
      BY DEF Apart
    <2>3. (\A c \in Calls : ~Busy(c)) => FreeFds = Fds
      BY DEF Owned, Busy, FreeFds
    <2> QED BY <2>1, <2>2, <2>3 DEF ReturnedOutput
  <1> QED BY <1>1, AlwaysInv, PTL

-----------------------------------------------------------------------------
(***************************************************************************)
(* The ssh client. Under the mutex a copy is as long as what its call has  *)
(* moved; disconnect and the calls without the lock can only take the      *)
(* session or the copy away.                                               *)
(***************************************************************************)

\* The bytes of the last chunk of a file of f bytes, after k whole ones.
LEMMA LastChunk ==
    ASSUME NEW c \in Nat \ {0}, NEW k \in Nat, NEW f \in Nat,
           k * c <= f, f < k * c + c
    PROVE  f - (f % c) = k * c
<1> DEFINE q == f \div c
           m == f % c
<1>1. q \in Int /\ m \in 0..(c - 1) /\ f = c * q + m
  BY Z3
<1>2. c * q = q * c /\ c * (q - k) = c * q - k * c
  BY <1>1
<1>3. CASE q - k >= 1
  <2>1. c * (q - k) >= c
    BY <1>1, <1>3
  <2>2. QED
    BY <1>1, <1>2, <2>1
<1>4. CASE q - k <= -1
  <2>1. c * (q - k) <= -c
    BY <1>1, <1>4
  <2>2. QED
    BY <1>1, <1>2, <2>1
<1>5. CASE q = k
  BY <1>1, <1>2, <1>5
<1>6. QED
  BY <1>1, <1>3, <1>4, <1>5

-----------------------------------------------------------------------------

Uploads == {"scp_upload", "sftp_upload"}
Downloads == {"scp_download", "sftp_download"}

\* A copy under way has the mutex, and the copy it makes is as long as what it has moved,
\* unless it has been deleted.
Copying(t) ==
    LET c == call[t]
    IN c.op \in Uploads \cup Downloads /\ c.at = "run" =>
          /\ holder = t
          /\ c.n <= c.from
          /\ c.op \in Uploads => there \in {c.n, Absent}
          /\ c.op \in Downloads => here \in {c.n, Absent}

\* sftp_upload moves whole chunks.
Chunked(t) ==
    call[t].op = "sftp_upload" /\ call[t].at = "run" => \E k \in Nat : call[t].n = k * Chunk

\* What a command has written is read or unread.
Accounted(t) == call[t].op \in Commands => call[t].sent = call[t].n + call[t].unread

\* What ReturnsAreWhole says of one thread.
Whole(t) ==
    LET c == call[t]
    IN /\ \/ Returned(t, "scp_upload")
          \/ Returned(t, "scp_download") \/ Returned(t, "sftp_download")
          => c.left \in {c.from, Absent}
       /\ Returned(t, "sftp_upload") => c.left \in {c.from - (c.from % Chunk), Absent}
       /\ Returned(t, "scp_upload") => c.from > 0
       /\ c.op \in Commands /\ c.at = "done" => c.n = c.sent
       /\ Returned(t, "execute_command") => c.errors = 0

ThreadOK(t) == Copying(t) /\ Chunked(t) /\ Accounted(t) /\ Whole(t)

SshInv == SshTypeOK /\ \A t \in Threads : ThreadOK(t)

-----------------------------------------------------------------------------

CallRecords == [op : Ops \cup {"none"}, at : {"idle", "run", "err", "done", "thrown"},
                from : 0..MaxSize, n : Nat, left : Files, sent : Nat, unread : Nat,
                errors : Nat, over : BOOLEAN, timed : BOOLEAN]

LEMMA NoCallType == NoCall \in CallRecords /\ 0 \in Files /\ Absent \in Files
  BY SshAssumption DEF NoCall, CallRecords, Files, Absent

LEMMA InitSshInv == InitSsh => SshInv
<1> SUFFICES ASSUME InitSsh
             PROVE  SshInv
  OBVIOUS
<1>1. SshTypeOK
  BY NoCallType DEF InitSsh, SshTypeOK, CallRecords
<1>2. ASSUME NEW t \in Threads
      PROVE  ThreadOK(t)
  BY <1>2 DEF InitSsh, NoCall, ThreadOK, Copying, Chunked, Accounted, Whole, Returned, Commands,
              Uploads, Downloads
<1>3. QED
  BY <1>1, <1>2 DEF SshInv

\* A thread is not disturbed by a step of another one that leaves the files to the holder
\* of the mutex, but for a deletion.
LEMMA OtherThreads ==
    ASSUME NEW u \in Threads, ThreadOK(u), call'[u] = call[u],
           holder = u => holder' = u /\ here' = here /\ there' \in {there, Absent}
    PROVE  ThreadOK(u)'
  BY DEF ThreadOK, Copying, Chunked, Accounted, Whole, Returned, Uploads, Downloads

\* A step that changes one call to c, and takes the mutex from nobody else.
LEMMA OneCall ==
    ASSUME SshInv, NEW t \in Threads, NEW c \in CallRecords,
           call' = [call EXCEPT ![t] = c],
           holder \notin {t, Nobody} => holder' = holder /\ here' = here /\ there' = there,
           link' \in {"down", "connected", "authenticated"},
           sftp' \in {"none", "raw", "ready"},
           holder' \in Threads \cup {Nobody},
           here' \in Files, there' \in Files, crashed' \in BOOLEAN,
           ThreadOK(t)'
    PROVE  SshInv'
<1>1. SshTypeOK'
  BY DEF SshInv, SshTypeOK, CallRecords
<1>2. ASSUME NEW u \in Threads
      PROVE  ThreadOK(u)'
  <2>1. CASE u = t
    BY <2>1
  <2>2. CASE u # t
    <3>1. call'[u] = call[u]
      BY <2>2 DEF SshInv, SshTypeOK
    <3>2. QED
      BY <2>2, <3>1, OtherThreads, SshAssumption DEF SshInv
  <2>3. QED
    BY <2>1, <2>2
<1>3. QED
  BY <1>1, <1>2 DEF SshInv

\* A step that leaves the calls and the mutex alone.
LEMMA NoCalls ==
    ASSUME SshInv, UNCHANGED <<call, holder, here>>, there' \in {there, Absent},
           link' \in {"down", "connected", "authenticated"},
           sftp' \in {"none", "raw", "ready"}, crashed' \in BOOLEAN
    PROVE  SshInv'
<1>1. SshTypeOK'
  BY NoCallType DEF SshInv, SshTypeOK
<1>2. ASSUME NEW u \in Threads
      PROVE  ThreadOK(u)'
  BY OtherThreads DEF SshInv
<1>3. QED
  BY <1>1, <1>2 DEF SshInv

\* An exception and a new call say nothing of what was copied or read.
LEMMA Thrown ==
    ASSUME SshInv, NEW t \in Threads, Throw(t),
           UNCHANGED <<link, sftp, here, there, crashed>>
    PROVE  SshInv'
<1> DEFINE c == [NoCall EXCEPT !.at = "thrown"]
<1>1. c \in CallRecords /\ call' = [call EXCEPT ![t] = c]
  BY NoCallType DEF Throw, CallRecords
<1>2. call'[t] = c
  BY <1>1 DEF SshInv, SshTypeOK
<1>3. ThreadOK(t)'
  BY <1>2 DEF NoCall, ThreadOK, Copying, Chunked, Accounted, Whole, Returned, Commands,
              Uploads, Downloads
<1>4. QED
  BY <1>1, <1>3, OneCall DEF SshInv, SshTypeOK, Throw

-----------------------------------------------------------------------------
(* One lemma per action or group of actions.                               *)

LEMMA SessionStep ==
    ASSUME SshInv,
           connect \/ auth \/ disconnect \/ init_sftp \/ sftp_delete_file
             \/ \E t \in Threads : UseAfterFree(t)
    PROVE  SshInv'
  BY NoCalls, NoCallType DEF SshInv, SshTypeOK, connect, auth, disconnect, init_sftp,
              sftp_delete_file, UseAfterFree

LEMMA DirectoryStep ==
    ASSUME SshInv, NEW t \in Threads, sftp_directory(t)
    PROVE  SshInv'
<1> DEFINE c == [NoCall EXCEPT !.op = "sftp_directory", !.at = "done"]
<1>1. CASE Throw(t)
  BY <1>1, Thrown DEF sftp_directory
<1>2. CASE call' = [call EXCEPT ![t] = c] /\ UNCHANGED holder
  <2>1. c \in CallRecords
    BY NoCallType DEF CallRecords, Ops
  <2>2. call'[t] = c
    BY <1>2 DEF SshInv, SshTypeOK
  <2>3. ThreadOK(t)'
    BY <2>2 DEF NoCall, ThreadOK, Copying, Chunked, Accounted, Whole, Returned, Commands,
                Uploads, Downloads
  <2>4. UNCHANGED <<link, sftp, holder, here, there, crashed>>
    BY <1>2 DEF sftp_directory
  <2>5. QED
    BY <1>2, <2>1, <2>3, <2>4, OneCall DEF SshInv, SshTypeOK
<1>3. QED
  BY <1>1, <1>2 DEF sftp_directory

\* A call that begins: a copy with the mutex and an empty destination.
LEMMA BegunCall ==
    ASSUME SshInv, NEW t \in Threads, NEW op \in Ops, NEW from \in 0..MaxSize,
           NEW timed \in BOOLEAN, Begin(t, op, from, timed),
           op \in Uploads => there' = 0, op \in Downloads => here' = 0,
           op \in Uploads \cup Downloads => holder = Nobody /\ holder' = t,
           op \notin Uploads \cup Downloads => UNCHANGED <<holder, here, there>>,
           here' \in Files, there' \in Files,
           UNCHANGED <<link, sftp, crashed>>
    PROVE  SshInv'
<1> DEFINE c == [NoCall EXCEPT !.op = op, !.at = "run", !.from = from, !.timed = timed]
<1>1. c \in CallRecords /\ call' = [call EXCEPT ![t] = c]
  BY NoCallType DEF Begin, CallRecords
<1>2. call'[t] = c
  BY <1>1 DEF SshInv, SshTypeOK
<1>3. c.op = op /\ c.at = "run" /\ c.from = from /\ c.n = 0 /\ c.sent = 0 /\ c.unread = 0
  BY DEF NoCall
<1>4. Copying(t)'
  BY <1>2, <1>3 DEF Copying, Uploads, Downloads
<1>5. Chunked(t)' /\ Accounted(t)' /\ Whole(t)'
  <2>1. 0 \in Nat /\ 0 = 0 * Chunk
    BY SshAssumption
  <2>2. QED
    BY <1>2, <1>3, <2>1 DEF Chunked, Accounted, Whole, Returned
<1>6. holder' \in Threads \cup {Nobody}
  BY DEF SshInv, SshTypeOK
<1>7. QED
  BY <1>1, <1>4, <1>5, <1>6, OneCall DEF ThreadOK, SshInv, SshTypeOK

LEMMA BeginStep ==
    ASSUME SshInv, NEW t \in Threads,
           \/ BeginUpload(t, "scp_upload") \/ BeginUpload(t, "sftp_upload")
           \/ BeginDownload(t, "scp_download") \/ BeginDownload(t, "sftp_download")
           \/ sftp_rename(t)
           \/ BeginCommand(t, "execute_command") \/ BeginCommand(t, "execute_command_with_stderr")
    PROVE  SshInv'
<1>1. here # Absent => here \in 0..MaxSize
  BY SshAssumption DEF SshInv, SshTypeOK, Files, Absent
<1>2. there # Absent => there \in 0..MaxSize
  BY SshAssumption DEF SshInv, SshTypeOK, Files, Absent
<1>3. ASSUME NEW op \in Uploads, BeginUpload(t, op)
      PROVE  SshInv'
  BY <1>1, <1>3, BegunCall, NoCallType
     DEF BeginUpload, Uploads, Downloads, Ops, SshInv, SshTypeOK
<1>4. ASSUME NEW op \in Downloads, BeginDownload(t, op)
      PROVE  SshInv'
  <2>1. CASE holder' = t /\ here' = 0 /\ Begin(t, op, there, FALSE) /\ UNCHANGED crashed
    BY <1>2, <1>4, <2>1, BegunCall, NoCallType
       DEF BeginDownload, Uploads, Downloads, Ops, SshInv, SshTypeOK
  <2>2. CASE crashed' = TRUE /\ UNCHANGED <<holder, here, call>>
    BY <1>4, <2>2, NoCalls DEF BeginDownload, SshInv, SshTypeOK
  <2>3. QED
    BY <1>4, <2>1, <2>2 DEF BeginDownload
<1>5. CASE sftp_rename(t)
  <2>1. Begin(t, "sftp_rename", 0, FALSE) /\ UNCHANGED <<link, sftp, holder, here, there, crashed>>
    BY <1>5 DEF sftp_rename
  <2>2. "sftp_rename" \in Ops /\ "sftp_rename" \notin Uploads \cup Downloads /\ 0 \in 0..MaxSize
    BY SshAssumption DEF Uploads, Downloads, Ops
  <2>3. QED
    BY <2>1, <2>2, BegunCall DEF SshInv, SshTypeOK
<1>6. ASSUME NEW op \in Commands, BeginCommand(t, op)
      PROVE  SshInv'
  <2>1. PICK timed \in BOOLEAN : Begin(t, op, 0, timed)
    BY <1>6 DEF BeginCommand
  <2>2. UNCHANGED <<link, sftp, holder, here, there, crashed>>
    BY <1>6 DEF BeginCommand
  <2>3. op \in Ops /\ op \notin Uploads \cup Downloads /\ 0 \in 0..MaxSize
    BY SshAssumption DEF Uploads, Downloads, Ops, Commands
  <2>4. QED
    BY <2>1, <2>2, <2>3, BegunCall DEF SshInv, SshTypeOK
<1>7. QED
  BY <1>3, <1>4, <1>5, <1>6 DEF Uploads, Downloads, Commands

LEMMA FailsStep ==
    ASSUME SshInv, NEW t \in Threads, Fails(t)
    PROVE  SshInv'
  BY Thrown DEF Fails

\* A copy returns: what its destination is then is as much as it should be.
LEMMA ReturnedCopy ==
    ASSUME SshInv, NEW t \in Threads, NEW left \in Files, Return(t, left),
           call[t].op \in Uploads \cup Downloads, call[t].at = "run",
           call[t].op = "scp_upload" => call[t].from > 0,
           call[t].op \in Downloads \cup {"scp_upload"} => left \in {call[t].from, Absent},
           call[t].op = "sftp_upload" => left \in {call[t].from - (call[t].from % Chunk), Absent},
           here' \in Files, there' \in Files,
           UNCHANGED <<link, sftp, crashed>>
    PROVE  SshInv'
<1> DEFINE c == [call[t] EXCEPT !.at = "done", !.left = left]
<1>1. call[t] \in CallRecords
  BY DEF SshInv, SshTypeOK, CallRecords
<1>2. c \in CallRecords /\ call' = [call EXCEPT ![t] = c]
  BY <1>1 DEF Return, CallRecords
<1>3. call'[t] = c
  BY <1>2 DEF SshInv, SshTypeOK
<1>4. c.op = call[t].op /\ c.at = "done" /\ c.from = call[t].from /\ c.left = left
  BY <1>1 DEF CallRecords
<1>5. ThreadOK(t)'
  BY <1>3, <1>4 DEF ThreadOK, Copying, Chunked, Accounted, Whole, Returned, Commands, Uploads, Downloads
<1>6. holder = t
  BY DEF SshInv, ThreadOK, Copying
<1>7. holder' = Nobody
  BY <1>6 DEF Return
<1>8. QED
  BY <1>2, <1>5, <1>6, <1>7, OneCall DEF SshInv, SshTypeOK

\* A copy moves on to n.
LEMMA MovedOn ==
    ASSUME SshInv, NEW t \in Threads, NEW n \in Nat, n <= call[t].from,
           call' = [call EXCEPT ![t].n = n],
           call[t].op \in Uploads \cup Downloads, call[t].at = "run",
           call[t].op \in Uploads => there' \in {n, Absent},
           call[t].op \in Downloads => here' \in {n, Absent},
           call[t].op = "sftp_upload" => \E k \in Nat : n = k * Chunk,
           here' \in Files, there' \in Files,
           UNCHANGED <<link, sftp, crashed, holder>>
    PROVE  SshInv'
<1> DEFINE c == [call[t] EXCEPT !.n = n]
<1>1. call[t] \in CallRecords
  BY DEF SshInv, SshTypeOK, CallRecords
<1>2. c \in CallRecords /\ call' = [call EXCEPT ![t] = c]
  BY <1>1 DEF CallRecords
<1>3. call'[t] = c
  BY <1>2 DEF SshInv, SshTypeOK
<1>4. c.op = call[t].op /\ c.at = "run" /\ c.from = call[t].from /\ c.n = n
  BY <1>1 DEF CallRecords
<1>5. holder = t
  BY DEF SshInv, ThreadOK, Copying
<1>6. ThreadOK(t)'
  BY <1>3, <1>4, <1>5 DEF ThreadOK, Copying, Chunked, Accounted, Whole, Returned, Commands, Uploads, Downloads
<1>7. QED
  BY <1>2, <1>5, <1>6, OneCall DEF SshInv, SshTypeOK

LEMMA ScpUploadStep ==
    ASSUME SshInv, NEW t \in Threads, scp_upload(t)
    PROVE  SshInv'
<1>1. call[t] \in CallRecords
  BY DEF SshInv, SshTypeOK, CallRecords
<1>2. there' \in {call[t].from, Absent} /\ there' \in Files
  BY <1>1, SshAssumption DEF scp_upload, Written, CallRecords, Files, Absent
<1>3. QED
  BY <1>2, ReturnedCopy DEF scp_upload, Uploads, Downloads, SshInv, SshTypeOK

LEMMA SftpUploadStep ==
    ASSUME SshInv, NEW t \in Threads, sftp_upload(t)
    PROVE  SshInv'
<1> DEFINE n == call[t].n + Chunk
<1>1. call[t] \in CallRecords
  BY DEF SshInv, SshTypeOK, CallRecords
<1>2. call[t].n \in Nat /\ call[t].from \in 0..MaxSize /\ n \in Nat
  BY <1>1, SshAssumption DEF CallRecords
<1>3. there \in {call[t].n, Absent} /\ call[t].n <= call[t].from
  BY DEF sftp_upload, SshInv, ThreadOK, Copying, Uploads
<1>4. PICK k \in Nat : call[t].n = k * Chunk
  BY DEF sftp_upload, SshInv, ThreadOK, Chunked
<1>5. CASE n <= call[t].from
  <2>1. k + 1 \in Nat /\ n = (k + 1) * Chunk
    BY <1>4, SshAssumption
  <2>2. there' = Written(there, n)
    BY <1>5 DEF sftp_upload
  <2>3. there' \in {n, Absent} /\ there' \in Files
    BY <1>2, <1>5, <2>2, SshAssumption DEF Written, Files, Absent
  <2>4. here' \in Files /\ call' = [call EXCEPT ![t].n = n] /\ UNCHANGED <<link, sftp, crashed, holder>>
    BY <1>5 DEF sftp_upload, SshInv, SshTypeOK
  <2>5. call[t].op = "sftp_upload" /\ call[t].at = "run"
    BY DEF sftp_upload
  <2>6. QED
    BY <1>2, <1>5, <2>1, <2>3, <2>4, <2>5, MovedOn DEF Uploads, Downloads
<1>6. CASE ~(n <= call[t].from)
  <2>1. call[t].from \in Nat /\ k * Chunk <= call[t].from /\ call[t].from < k * Chunk + Chunk
    BY <1>2, <1>3, <1>4, <1>6, SshAssumption
  <2>2. call[t].from - (call[t].from % Chunk) = call[t].n
    BY <1>4, <2>1, LastChunk, SshAssumption
  <2>3. Return(t, there) /\ UNCHANGED <<link, sftp, crashed, here, there>>
    BY <1>6 DEF sftp_upload
  <2>4. call[t].op = "sftp_upload" /\ call[t].at = "run"
    BY DEF sftp_upload
  <2>5. QED
    BY <1>3, <2>2, <2>3, <2>4, ReturnedCopy DEF Uploads, Downloads, SshInv, SshTypeOK
<1>7. QED
  BY <1>5, <1>6

LEMMA DownloadStep ==
    ASSUME SshInv, NEW t \in Threads, scp_download(t) \/ sftp_download(t)
    PROVE  SshInv'
<1>0. PICK op \in Downloads, buffer \in Int : Download(t, op, buffer)
  <2>1. call[t].from \in Int /\ Chunk \in Int
    BY SshAssumption DEF SshInv, SshTypeOK
  <2>2. QED
    BY <2>1 DEF scp_download, sftp_download, Downloads
<1>1. call[t] \in CallRecords
  BY DEF SshInv, SshTypeOK, CallRecords
<1>2. call[t].n \in Nat /\ call[t].from \in 0..MaxSize
  BY <1>1 DEF CallRecords
<1>3. call[t].op = op /\ call[t].at = "run" /\ UNCHANGED <<link, sftp, there, crashed>>
  BY <1>0 DEF Download
<1>4. here \in {call[t].n, Absent} /\ call[t].n <= call[t].from
  BY <1>3 DEF SshInv, ThreadOK, Copying
<1>5. op \notin Uploads /\ op # "scp_upload" /\ op # "sftp_upload"
  BY DEF Uploads, Downloads
<1>6. CASE call[t].n < call[t].from
  <2>1. PICK n \in (call[t].n + 1)..call[t].from :
            /\ here' = Written(here, n)
            /\ call' = [call EXCEPT ![t].n = n]
            /\ UNCHANGED holder
    BY <1>0, <1>6 DEF Download
  <2>2. n \in Nat /\ n <= call[t].from /\ here' \in {n, Absent} /\ here' \in Files
    BY <1>2, <2>1, SshAssumption DEF Written, Files, Absent
  <2>3. there' \in Files
    BY <1>3 DEF SshInv, SshTypeOK
  <2>4. QED
    BY <1>3, <1>5, <2>1, <2>2, <2>3, MovedOn
<1>7. CASE ~(call[t].n < call[t].from)
  <2>1. Return(t, here) /\ UNCHANGED here
    BY <1>0, <1>7 DEF Download
  <2>2. here \in {call[t].from, Absent}
    BY <1>2, <1>4, <1>7
  <2>3. QED
    BY <1>3, <1>5, <2>1, <2>2, ReturnedCopy DEF SshInv, SshTypeOK
<1>8. QED
  BY <1>6, <1>7

\* A step of a command: what it has written is still read or unread, and if it returns
\* nothing is unread.
LEMMA CommandStep ==
    ASSUME SshInv, NEW t \in Threads, NEW c \in CallRecords,
           call' = [call EXCEPT ![t] = c],
           c.op \in Commands, c.sent = c.n + c.unread,
           c.at = "done" => c.unread = 0 /\ c.errors = 0,
           UNCHANGED <<link, sftp, holder, here, there, crashed>>
    PROVE  SshInv'
<1>1. call'[t] = c
  BY DEF SshInv, SshTypeOK
<1>2. c.at = "done" => c.n = c.sent
  <2>1. c.n \in Nat /\ c.n + 0 = c.n
    BY DEF CallRecords
  <2>2. QED
    BY <2>1
<1>3. ThreadOK(t)'
  BY <1>1, <1>2 DEF ThreadOK, Copying, Chunked, Accounted, Whole, Returned, Commands, Uploads, Downloads
<1>4. QED
  BY <1>3, OneCall DEF SshInv, SshTypeOK

LEMMA FarEndStep ==
    ASSUME SshInv, NEW t \in Threads, FarEnd(t)
    PROVE  SshInv'
<1>1. call[t] \in CallRecords
  BY DEF SshInv, SshTypeOK, CallRecords
<1>2. call[t].op \in Commands /\ call[t].at \in {"run", "err"}
      /\ UNCHANGED <<link, sftp, holder, here, there, crashed>>
  BY DEF FarEnd
<1>3. call[t].sent = call[t].n + call[t].unread
  BY <1>2 DEF SshInv, ThreadOK, Accounted
<1>4. CASE call' = [call EXCEPT ![t].sent = @ + 1, ![t].unread = @ + 1]
  <2> DEFINE c == [call[t] EXCEPT !.sent = @ + 1, !.unread = @ + 1]
  <2> DEFINE n == call[t].sent + 1
             m == call[t].unread + 1
  <2>a. n \in Nat /\ m \in Nat
    BY <1>1 DEF CallRecords
  <2>b. c = [call[t] EXCEPT !.sent = n, !.unread = m]
    BY <1>1 DEF CallRecords
  <2> HIDE DEF n, m, c
  <2>0. /\ c \in CallRecords /\ c.op \in Commands /\ c.at # "done"
        /\ c.sent = call[t].sent + 1 /\ c.n = call[t].n /\ c.unread = call[t].unread + 1
    <3>1. c \in CallRecords /\ c.op = call[t].op /\ c.at = call[t].at
          /\ c.sent = n /\ c.n = call[t].n /\ c.unread = m
      BY <1>1, <2>a, <2>b DEF CallRecords
    <3>2. QED
      BY <1>2, <3>1 DEF n, m
  <2>1. c.sent = c.n + c.unread
    <3>1. call[t].n \in Nat /\ call[t].unread \in Nat
      BY <1>1 DEF CallRecords
    <3>2. QED
      BY <1>3, <2>0, <3>1
  <2>2. call' = [call EXCEPT ![t] = c]
    BY <1>4 DEF c
  <2>3. QED
    BY <1>2, <2>0, <2>1, <2>2, CommandStep
<1>5. CASE call' = [call EXCEPT ![t].errors = @ + 1]
  <2> DEFINE c == [call[t] EXCEPT !.errors = @ + 1]
  <2>1. c \in CallRecords /\ c.op \in Commands /\ c.at # "done" /\ c.sent = c.n + c.unread
    BY <1>1, <1>2, <1>3 DEF CallRecords
  <2>2. call' = [call EXCEPT ![t] = c]
    BY <1>5 DEF c
  <2>3. QED
    BY <1>2, <2>1, <2>2, CommandStep
<1>6. CASE call' = [call EXCEPT ![t].over = TRUE]
  <2> DEFINE c == [call[t] EXCEPT !.over = TRUE]
  <2>1. c \in CallRecords /\ c.op \in Commands /\ c.at # "done" /\ c.sent = c.n + c.unread
    BY <1>1, <1>2, <1>3 DEF CallRecords
  <2>2. call' = [call EXCEPT ![t] = c]
    BY <1>6
  <2>3. QED
    BY <1>2, <2>1, <2>2, CommandStep
<1>7. QED
  BY <1>4, <1>5, <1>6 DEF FarEnd

LEMMA ExecuteStep ==
    ASSUME SshInv, NEW t \in Threads, execute_command(t) \/ execute_command_with_stderr(t)
    PROVE  SshInv'
<1>1. call[t] \in CallRecords
  BY DEF SshInv, SshTypeOK, CallRecords
<1>2. call[t].op \in Commands /\ UNCHANGED <<link, sftp, here, there, crashed>>
  BY DEF execute_command, execute_command_with_stderr, Commands
<1>3. call[t].sent = call[t].n + call[t].unread
  BY <1>2 DEF SshInv, ThreadOK, Accounted
<1>4. CASE Throw(t)
  BY <1>2, <1>4, Thrown
<1>5. CASE call' = [call EXCEPT ![t].n = @ + call[t].unread, ![t].unread = 0]
           /\ UNCHANGED holder /\ call[t].at = "run"
  <2> DEFINE c == [call[t] EXCEPT !.n = @ + call[t].unread, !.unread = 0]
             n == call[t].n + call[t].unread
  <2>a. n \in Nat
    BY <1>1 DEF CallRecords
  <2>b. c = [call[t] EXCEPT !.n = n, !.unread = 0]
    BY <1>1 DEF CallRecords
  <2> HIDE DEF n, c
  <2>0. /\ c \in CallRecords /\ c.op \in Commands /\ c.at # "done"
        /\ c.sent = call[t].sent /\ c.n = call[t].n + call[t].unread /\ c.unread = 0
    <3>1. c \in CallRecords /\ c.op = call[t].op /\ c.at = call[t].at
          /\ c.sent = call[t].sent /\ c.n = n /\ c.unread = 0
      BY <1>1, <2>a, <2>b DEF CallRecords
    <3>2. QED
      BY <1>2, <1>5, <3>1 DEF n
  <2>1. c.sent = c.n + c.unread
    <3>1. call[t].n \in Nat /\ call[t].unread \in Nat
      BY <1>1 DEF CallRecords
    <3>2. QED
      BY <1>3, <2>0, <3>1
  <2>2. call' = [call EXCEPT ![t] = c]
    BY <1>5 DEF c
  <2>3. QED
    BY <1>2, <1>5, <2>0, <2>1, <2>2, CommandStep
<1>6. CASE call' = [call EXCEPT ![t].at = "done"] /\ UNCHANGED holder /\ is_eof(call[t])
  <2> DEFINE c == [call[t] EXCEPT !.at = "done"]
  <2>1. c \in CallRecords /\ c.op \in Commands /\ c.sent = c.n + c.unread
        /\ c.unread = 0 /\ c.errors = 0
    BY <1>1, <1>2, <1>3, <1>6 DEF CallRecords, is_eof
  <2>2. call' = [call EXCEPT ![t] = c]
    BY <1>6
  <2>3. QED
    BY <1>2, <1>6, <2>1, <2>2, CommandStep
<1>7. CASE call' = [call EXCEPT ![t].n = @ + call[t].unread, ![t].unread = 0, ![t].at = "err"]
           /\ UNCHANGED holder
  <2> DEFINE c == [call[t] EXCEPT !.n = @ + call[t].unread, !.unread = 0, !.at = "err"]
             n == call[t].n + call[t].unread
  <2>a. n \in Nat
    BY <1>1 DEF CallRecords
  <2>b. c = [call[t] EXCEPT !.n = n, !.unread = 0, !.at = "err"]
    BY <1>1 DEF CallRecords
  <2> HIDE DEF n, c
  <2>0. /\ c \in CallRecords /\ c.op \in Commands /\ c.at # "done"
        /\ c.sent = call[t].sent /\ c.n = call[t].n + call[t].unread /\ c.unread = 0
    <3>1. c \in CallRecords /\ c.op = call[t].op /\ c.at = "err"
          /\ c.sent = call[t].sent /\ c.n = n /\ c.unread = 0
      BY <1>1, <2>a, <2>b DEF CallRecords
    <3>2. QED
      BY <1>2, <1>7, <3>1 DEF n
  <2>1. c.sent = c.n + c.unread
    <3>1. call[t].n \in Nat /\ call[t].unread \in Nat
      BY <1>1 DEF CallRecords
    <3>2. QED
      BY <1>3, <2>0, <3>1
  <2>2. call' = [call EXCEPT ![t] = c]
    BY <1>7 DEF c
  <2>3. QED
    BY <1>2, <1>7, <2>0, <2>1, <2>2, CommandStep
<1>8. CASE call' = [call EXCEPT ![t].errors = 0,
                                ![t].at = IF call[t].errors = 0 /\ is_eof(call[t]) THEN "done" ELSE "run"]
           /\ UNCHANGED holder
  <2> DEFINE c == [call[t] EXCEPT !.errors = 0,
                     !.at = IF call[t].errors = 0 /\ is_eof(call[t]) THEN "done" ELSE "run"]
  <2>1. c \in CallRecords /\ c.op \in Commands /\ c.sent = c.n + c.unread
        /\ (c.at = "done" => c.unread = 0 /\ c.errors = 0)
    BY <1>1, <1>2, <1>3 DEF CallRecords, is_eof
  <2>2. call' = [call EXCEPT ![t] = c]
    BY <1>8
  <2>3. QED
    BY <1>2, <1>8, <2>1, <2>2, CommandStep
<1>9. QED
  BY <1>4, <1>5, <1>6, <1>7, <1>8 DEF execute_command, execute_command_with_stderr

-----------------------------------------------------------------------------

LEMMA SshStep ==
    ASSUME SshInv, [NextSsh]_sshVars
    PROVE  SshInv'
<1>1. CASE UNCHANGED sshVars
  BY <1>1, NoCalls DEF sshVars, SshInv, SshTypeOK
<1>2. CASE NextSsh
  BY <1>2, SessionStep, DirectoryStep, BeginStep, FailsStep, ScpUploadStep, SftpUploadStep,
     DownloadStep, FarEndStep, ExecuteStep DEF NextSsh
<1>3. QED
  BY <1>1, <1>2

\* Every reachable state of the client and its calls is well typed, a copy under way has the
\* mutex, and no more has been moved than the source had.
THEOREM SshTypes == SshSpec => []SshInv
<1>1. InitSsh => SshInv
  BY InitSshInv
<1>2. SshInv /\ [NextSsh]_sshVars => SshInv'
  BY SshStep
<1>3. QED
  BY <1>1, <1>2, PTL DEF SshSpec

\* A copy that returns normally has copied the file, an upload over sftp all but its last
\* part of a chunk, and a command that returns normally returns all it wrote.
THEOREM CopiesAreWhole == SshSpec => []ReturnsAreWhole
<1>1. SshInv => ReturnsAreWhole
  BY DEF SshInv, ThreadOK, Whole, ReturnsAreWhole
<1>2. QED
  BY <1>1, SshTypes, PTL

-----------------------------------------------------------------------------
(***************************************************************************)
(* The configuration editor.                                               *)
(***************************************************************************)

Sections == {"local", "global"}

\* While nothing has cut the file short, every setting of the two maps and every line of
\* the file has a value.
Valued ==
    whole =>
        /\ \A k \in Settings : local[k] \in ToSet(Values)
        /\ \A k \in Settings \cap InGlobal : global[k] \in ToSet(Values)
        /\ \A i \in Lines : file[Order[i].section][Order[i].key] \in ToSet(Values)
        /\ ~refused

ConfInv == ConfTypeOK /\ whole \in BOOLEAN /\ refused \in BOOLEAN /\ Valued

\* Each line has a section and a key of its own; those of the global section are of two.
LEMMA TheLines ==
    ASSUME NEW i \in Lines
    PROVE  /\ Order[i].section \in Sections /\ Order[i].key \in Settings
           /\ Order[i] = Line(Order[i].section, Order[i].key)
           /\ Order[i].section = "global" => Order[i].key \in InGlobal
           /\ i \in 1..7
  BY DEF Lines, Order, Line, Sections, InGlobal

\* The local section has a line for every setting, the global one for some.
LEMMA LineOf ==
    /\ \A k \in Settings : \E i \in Lines : Order[i] = Line("local", k)
    /\ \A k \in Settings \cap InGlobal : \E i \in Lines : Order[i] = Line("global", k)
<1>1. ASSUME NEW k \in Settings
      PROVE  \E i \in Lines : Order[i] = Line("local", k)
  <2>1. PICK i \in 1..7 : Order[i].key = k
    BY ConfAssumption
  <2>2. CASE k = "tx_isolation"
    BY <2>2 DEF Lines, Order, Line
  <2>3. CASE k = "page_encrypt"
    BY <2>3 DEF Lines, Order, Line
  <2>4. CASE k = "statistics_calls_limit"
    BY <2>4 DEF Lines, Order, Line
  <2>5. CASE k = "sys_logs_rotation"
    BY <2>5 DEF Lines, Order, Line
  <2>6. CASE k = "sys_logs_level"
    BY <2>6 DEF Lines, Order, Line
  <2>7. QED
    BY <2>1, <2>2, <2>3, <2>4, <2>5, <2>6 DEF Order, Line
<1>2. ASSUME NEW k \in Settings \cap InGlobal
      PROVE  \E i \in Lines : Order[i] = Line("global", k)
  BY DEF Lines, Order, Line, InGlobal
<1>3. QED
  BY <1>1, <1>2

\* The default is one of the values; no value is an empty or a missing one.
LEMMA TheValues ==
    /\ Default \in ToSet(Values)
    /\ None \notin ToSet(Values) /\ Empty \notin ToSet(Values)
  BY ConfAssumption DEF Default, ToSet

LEMMA ValueType ==
    ASSUME ConfTypeOK, NEW s \in Sections, NEW k \in Settings
    PROVE  ValueOf(Line(s, k)) \in ToSet(Values) \cup {None, Empty}
  BY TheValues DEF ConfTypeOK, Maps, ValueOf, Line, Sections

\* What save writes is a file.
LEMMA WrittenType ==
    ASSUME ConfTypeOK, NEW n \in 0..7, NEW cut \in BOOLEAN
    PROVE  Written_to(n, cut) \in [Sections -> Maps]
<1>1. ASSUME NEW s \in Sections, NEW k \in Settings
      PROVE  (IF \E i \in Lines : i <= n /\ Order[i] = Line(s, k)
              THEN (IF cut /\ Order[n] = Line(s, k) THEN Empty ELSE ValueOf(Line(s, k)))
              ELSE None) \in ToSet(Values) \cup {None, Empty}
  BY ValueType
<1>2. QED
  BY <1>1 DEF Written_to, Maps, Sections

\* A file written to the end has the value of every line.
LEMMA WrittenLine ==
    ASSUME NEW i \in Lines
    PROVE  Written_to(7, FALSE)[Order[i].section][Order[i].key] = ValueOf(Order[i])
<1> DEFINE s == Order[i].section
           k == Order[i].key
<1>1. s \in Sections /\ k \in Settings /\ Order[i] = Line(s, k) /\ i <= 7
  BY TheLines
<1>2. \E j \in Lines : j <= 7 /\ Order[j] = Line(s, k)
  BY <1>1
<1> HIDE DEF s, k
<1>3. Written_to(7, FALSE)[s][k] = ValueOf(Line(s, k))
  BY <1>1, <1>2 DEF Written_to, Sections
<1>4. QED
  BY <1>1, <1>3 DEF s, k

LEMMA InitConfInv == InitConf => ConfInv
<1> SUFFICES ASSUME InitConf
             PROVE  ConfInv
  OBVIOUS
<1>1. ConfTypeOK
  BY TheValues DEF InitConf, ConfTypeOK, Maps
<1>2. ASSUME NEW i \in Lines
      PROVE  file[Order[i].section][Order[i].key] \in ToSet(Values)
  BY TheValues, TheLines DEF InitConf, Sections
<1>3. QED
  BY <1>1, <1>2, TheValues DEF InitConf, ConfInv, Valued

LEMMA ParseStep ==
    ASSUME ConfInv, parse \/ Restart
    PROVE  ConfInv'
<1>1. ConfTypeOK'
  BY DEF ConfInv, ConfTypeOK, Maps, parse, Restart
<1>2. Valued'
  <2> SUFFICES ASSUME whole
               PROVE  /\ \A k \in Settings : local'[k] \in ToSet(Values)
                      /\ \A k \in Settings \cap InGlobal : global'[k] \in ToSet(Values)
    BY DEF ConfInv, Valued, parse, Restart
  <2>1. ASSUME NEW k \in Settings
        PROVE  file["local"][k] \in ToSet(Values)
    <3>1. PICK i \in Lines : Order[i] = Line("local", k)
      BY LineOf
    <3>2. QED
      BY <3>1 DEF ConfInv, Valued, Line
  <2>2. ASSUME NEW k \in Settings \cap InGlobal
        PROVE  file["global"][k] \in ToSet(Values)
    <3>1. PICK i \in Lines : Order[i] = Line("global", k)
      BY LineOf
    <3>2. QED
      BY <3>1 DEF ConfInv, Valued, Line
  <2>3. QED
    BY <2>1, <2>2, TheValues DEF parse, Restart
<1>3. QED
  BY <1>1, <1>2 DEF ConfInv, parse, Restart

LEMMA SetStep ==
    ASSUME ConfInv, NEW s \in Sections, NEW k \in Settings, NEW v \in ToSet(Values), set(s, k, v)
    PROVE  ConfInv'
<1>1. ConfTypeOK'
  BY DEF ConfInv, ConfTypeOK, Maps, set
<1>2. Valued'
  BY DEF ConfInv, ConfTypeOK, Maps, Valued, set
<1>3. QED
  BY <1>1, <1>2 DEF ConfInv, set

\* As long as the file is whole, save has a value for every line.
LEMMA NothingBad ==
    ASSUME ConfInv, whole, NEW i \in Lines
    PROVE  ValueOf(Order[i]) \in ToSet(Values)
<1>1. Order[i].key \in Settings /\ (Order[i].section = "global" => Order[i].key \in InGlobal)
  BY TheLines
<1>2. QED
  BY <1>1, TheValues DEF ConfInv, Valued, ValueOf

LEMMA SaveStep ==
    ASSUME ConfInv, save
    PROVE  ConfInv'
<1> DEFINE bad == {i \in Lines : ValueOf(Order[i]) = None}
<1>1. file' \in [Sections -> Maps]
  <2>1. CASE bad = {}
    <3>1. file' = Written_to(7, FALSE)
      BY <2>1 DEF save
    <3>2. 7 \in 0..7 /\ FALSE \in BOOLEAN
      OBVIOUS
    <3>3. QED
      BY <3>1, <3>2, WrittenType DEF ConfInv
  <2>2. CASE bad # {}
    <3>1. PICK i \in bad : file' = Written_to(i, TRUE)
      BY <2>2 DEF save
    <3>2. i \in 0..7
      BY TheLines
    <3>3. QED
      BY <3>1, <3>2, WrittenType DEF ConfInv
  <2>3. QED
    BY <2>1, <2>2
<1>2. ConfTypeOK' /\ whole' = whole /\ refused' \in BOOLEAN
  BY <1>1 DEF ConfInv, ConfTypeOK, save, Sections
<1>3. Valued'
  <2> SUFFICES ASSUME whole
               PROVE  /\ \A i \in Lines : file'[Order[i].section][Order[i].key] \in ToSet(Values)
                      /\ ~refused'
    BY <1>2 DEF ConfInv, Valued, save
  <2>1. bad = {}
    BY NothingBad, TheValues
  <2>2. file' = Written_to(7, FALSE) /\ refused' = refused
    BY <2>1 DEF save
  <2>3. QED
    BY <2>2, WrittenLine, NothingBad DEF ConfInv, Valued
<1>4. QED
  BY <1>2, <1>3 DEF ConfInv

LEMMA CutStep ==
    ASSUME ConfInv,
           SaveInterrupted \/ \E s \in Sections, k \in Settings : EditFile(s, k)
    PROVE  ConfInv'
<1>1. CASE SaveInterrupted
  <2>1. PICK n \in 0..7 : file' = Written_to(n, FALSE)
    BY <1>1 DEF SaveInterrupted
  <2>2. file' \in [Sections -> Maps]
    BY <2>1, WrittenType DEF ConfInv
  <2>3. QED
    BY <1>1, <2>2 DEF SaveInterrupted, ConfInv, ConfTypeOK, Valued, Sections
<1>2. ASSUME NEW s \in Sections, NEW k \in Settings, EditFile(s, k)
      PROVE  ConfInv'
  <2>1. file' \in [Sections -> Maps]
    BY <1>2 DEF EditFile, ConfInv, ConfTypeOK, Maps, Sections
  <2>2. QED
    BY <1>2, <2>1 DEF EditFile, ConfInv, ConfTypeOK, Valued, Sections
<1>3. QED
  BY <1>1, <1>2

\* Every reachable state of the editor and its file is well typed, and while nothing has cut
\* the file short everything save looks up has a value.
THEOREM ConfTypes == ConfSpec => []ConfInv
<1>1. InitConf => ConfInv
  BY InitConfInv
<1>2. ConfInv /\ [NextConf]_confVars => ConfInv'
  <2> SUFFICES ASSUME ConfInv, [NextConf]_confVars
               PROVE  ConfInv'
    OBVIOUS
  <2>1. CASE UNCHANGED confVars
    BY <2>1 DEF confVars, ConfInv, ConfTypeOK, Valued
  <2>2. CASE NextConf
    BY <2>2, ParseStep, SetStep, SaveStep, CutStep DEF NextConf, Sections
  <2>3. QED
    BY <2>1, <2>2
<1>3. QED
  BY <1>1, <1>2, PTL DEF ConfSpec

\* A configuration file that no process was interrupted over and nobody edited has every
\* line, no save of it has thrown, and the local map has every setting.
THEOREM SavedFilesAreWhole == ConfSpec => []SavedFileIsWhole
<1>1. ConfInv => SavedFileIsWhole
  BY TheValues DEF ConfInv, Valued, SavedFileIsWhole, HasAllLines
<1>2. QED
  BY <1>1, ConfTypes, PTL
=============================================================================
