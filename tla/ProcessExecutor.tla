-------------------------- MODULE ProcessExecutor --------------------------
(* Running a command (libs/common/process/process_executor.h): a call opens *)
(* two pipes, forks, reads both pipes with a thread each, waits for the     *)
(* child, clears the flag the threads test, closes the descriptors under    *)
(* them and joins them. Calls of several threads of the program share its   *)
(* descriptor table; a fork hands a child every descriptor that is open.    *)
(* What a child writes are the numbers 1, 2, ... MaxOut; the pipes' capacity *)
(* and the exit code are left out, and threads are assumed to start.        *)
EXTENDS Naturals, Sequences, FiniteSets, SequencesExt

CONSTANTS
    Calls,      \* calls of execute, each made once, by threads of their own
    Quiet,      \* those whose command writes nothing
    NumFds,     \* descriptors of the process
    MaxOut      \* bound: pieces of output a child writes

ASSUME ProcessAssumption == NumFds \in Nat /\ MaxOut \in Nat

VARIABLES
    pc,         \* where the calling thread is
    table,      \* the descriptor table: an end of a pipe, or Free
    fd,         \* the calls' local variables stdout_pipe and stderr_pipe
    child,      \* the calls' children
    holds,      \* the pipes whose write end a child, or what it left, holds
    written,    \* how much a child has written
    pipe,       \* the contents of the pipes
    active,     \* threads_active
    reader,     \* where the reader threads are
    reading,    \* the pipe a blocked read refers to, whatever its descriptor
    output,     \* stdout_output and stderr_output
    met         \* ghost: calls that ran while another one did

vars == <<pc, table, fd, child, holds, written, pipe, active, reader, reading, output, met>>

Kinds == {"out", "err"}
Pipes == Calls \X Kinds
Ends == Kinds \X {"r", "w"}
Fds == 1..NumFds
Free == <<>>

Busy(c) == pc[c] \notin {"idle", "done", "failed"}

FreeFds == {f \in Fds : table[f] = Free}

Init ==
    /\ pc = [c \in Calls |-> "idle"]
    /\ table = [f \in Fds |-> Free]
    /\ fd = [c \in Calls |-> [e \in Ends |-> 0]]
    /\ child = [c \in Calls |-> "none"]
    /\ holds = [c \in Calls |-> {}]
    /\ written = [c \in Calls |-> 0]
    /\ pipe = [p \in Pipes |-> <<>>]
    /\ active = [c \in Calls |-> TRUE]
    /\ reader = [p \in Pipes |-> "none"]
    /\ reading = [p \in Pipes |-> Free]
    /\ output = [p \in Pipes |-> <<>>]
    /\ met = {}

Closed_reads(c, ends) ==
    [f \in Fds |-> IF \E e \in ends : fd[c][e] = f /\ e[2] = "r" THEN Free ELSE table[f]]

\* close(2) of some of the call's descriptors.
Closed(c, ends) == [f \in Fds |-> IF \E e \in ends : fd[c][e] = f THEN Free ELSE table[f]]

\* pipe(2) takes the two lowest free descriptors; a second pipe that cannot be had
\* closes the first.
OpenPipes(c) ==
    /\ pc[c] = "idle"
    /\ \/ \E r1, w1, r2, w2 \in FreeFds :
             /\ r1 < w1 /\ w1 < r2 /\ r2 < w2
             /\ \A f \in FreeFds : f <= w2 => f \in {r1, w1, r2, w2}
             /\ table' = [table EXCEPT ![r1] = <<<<c, "out">>, "r">>, ![w1] = <<<<c, "out">>, "w">>,
                                       ![r2] = <<<<c, "err">>, "r">>, ![w2] = <<<<c, "err">>, "w">>]
             /\ fd' = [fd EXCEPT ![c] = [e \in Ends |-> IF e[1] = "out" THEN (IF e[2] = "r" THEN r1 ELSE w1)
                                                       ELSE (IF e[2] = "r" THEN r2 ELSE w2)]]
             /\ pc' = [pc EXCEPT ![c] = "opened"]
       \/ pc' = [pc EXCEPT ![c] = "failed"] /\ UNCHANGED <<table, fd>>
    /\ met' = IF \E d \in Calls : Busy(d)
              THEN met \cup {c} \cup {d \in Calls : Busy(d)} ELSE met
    /\ UNCHANGED <<child, holds, written, pipe, active, reader, reading, output>>

Fork_keeps(c) ==
    /\ pc[c] = "opened"
    /\ \/ /\ pc' = [pc EXCEPT ![c] = "waiting"]
          /\ child' = [child EXCEPT ![c] = "running"]
          /\ holds' = [holds EXCEPT ![c] = {p \in Pipes : \E f \in Fds : table[f] = <<p, "w">>}
                                            \ {<<c, "out">>}]
          /\ reader' = [p \in Pipes |-> IF p[1] = c THEN "test" ELSE reader[p]]
          /\ UNCHANGED table
       \/ /\ pc' = [pc EXCEPT ![c] = "failed"]
          /\ table' = Closed(c, Ends)
          /\ UNCHANGED <<child, holds, reader>>
    /\ UNCHANGED <<fd, written, pipe, active, reading, output, met>>

\* The child has a copy of every write end the program has open, other calls' too.
\* It duplicates both of its own onto standard output: the second dup2 undoes the first.
\* The parent closes its own copies and starts the threads.
Fork(c) ==
    /\ pc[c] = "opened"
    /\ \/ /\ pc' = [pc EXCEPT ![c] = "waiting"]
          /\ child' = [child EXCEPT ![c] = "running"]
          /\ holds' = [holds EXCEPT ![c] = {p \in Pipes : \E f \in Fds : table[f] = <<p, "w">>}
                                            \ {<<c, "out">>}]
          /\ table' = Closed(c, Kinds \X {"w"})
          /\ reader' = [p \in Pipes |-> IF p[1] = c THEN "test" ELSE reader[p]]
       \/ /\ pc' = [pc EXCEPT ![c] = "failed"]
          /\ table' = Closed(c, Ends)
          /\ UNCHANGED <<child, holds, reader>>
    /\ UNCHANGED <<fd, written, pipe, active, reading, output, met>>

Write(c) ==
    /\ child[c] = "running" /\ c \notin Quiet
    /\ written[c] < MaxOut
    /\ written' = [written EXCEPT ![c] = @ + 1]
    /\ pipe' = [pipe EXCEPT ![<<c, "err">>] = Append(@, <<c, written'[c]>>)]
    /\ UNCHANGED <<pc, table, fd, child, holds, active, reader, reading, output, met>>

\* The command ends, or its exec failed; it may leave a process of its own behind.
Exit(c) ==
    /\ child[c] = "running"
    /\ \/ child' = [child EXCEPT ![c] = "gone"] /\ holds' = [holds EXCEPT ![c] = {}]
       \/ child' = [child EXCEPT ![c] = "left"] /\ UNCHANGED holds
    /\ UNCHANGED <<pc, table, fd, written, pipe, active, reader, reading, output, met>>

\* waitpid returns; the flag is cleared, under a mutex its readers do not lock.
Reap(c) ==
    /\ pc[c] = "waiting"
    /\ child[c] \in {"gone", "left"}
    /\ pc' = [pc EXCEPT ![c] = "reaped"]
    /\ active' = [active EXCEPT ![c] = FALSE]
    /\ UNCHANGED <<table, fd, child, holds, written, pipe, reader, reading, output, met>>

CloseReads(c) ==
    /\ pc[c] = "reaped"
    /\ pc' = [pc EXCEPT ![c] = "joining"]
    /\ table' = Closed(c, Kinds \X {"r"})
    /\ UNCHANGED <<fd, child, holds, written, pipe, active, reader, reading, output, met>>

Join(c) ==
    /\ pc[c] = "joining"
    /\ \A k \in Kinds : reader[<<c, k>>] = "ended"
    /\ pc' = [pc EXCEPT ![c] = "done"]
    /\ UNCHANGED <<table, fd, child, holds, written, pipe, active, reader, reading, output, met>>

\* while (active)
Test(p) ==
    /\ reader[p] = "test"
    /\ reader' = [reader EXCEPT ![p] = IF active[p[1]] THEN "call" ELSE "ended"]
    /\ UNCHANGED <<pc, table, fd, child, holds, written, pipe, active, reading, output, met>>

\* read(2) finds the pipe by a number that may by now be free or another call's.
EnterRead(p) ==
    LET entry == table[fd[p[1]][<<p[2], "r">>]]
    IN /\ reader[p] = "call"
       /\ IF entry # Free /\ entry[2] = "r"
          THEN /\ reader' = [reader EXCEPT ![p] = "blocked"]
               /\ reading' = [reading EXCEPT ![p] = entry[1]]
          ELSE /\ reader' = [reader EXCEPT ![p] = "ended"]
               /\ UNCHANGED reading
       /\ UNCHANGED <<pc, table, fd, child, holds, written, pipe, active, output, met>>

HasWriter(p) == \/ \E f \in Fds : table[f] = <<p, "w">>
                \/ \E c \in Calls : p \in holds[c]

\* A blocked read keeps its pipe though the descriptor be closed: data or the end of file.
ReturnFromRead(p) ==
    LET q == reading[p]
    IN /\ reader[p] = "blocked"
       /\ \/ /\ pipe[q] # <<>>
             /\ output' = [output EXCEPT ![p] = @ \o pipe[q]]
             /\ pipe' = [pipe EXCEPT ![q] = <<>>]
             /\ reader' = [reader EXCEPT ![p] = "test"]
          \/ /\ pipe[q] = <<>>
             /\ ~HasWriter(q)
             /\ reader' = [reader EXCEPT ![p] = "ended"]
             /\ UNCHANGED <<output, pipe>>
       /\ reading' = [reading EXCEPT ![p] = Free]
       /\ UNCHANGED <<pc, table, fd, child, holds, written, active, met>>

Caller(c) == \/ OpenPipes(c) \/ Fork(c) \/ Reap(c) \/ CloseReads(c) \/ Join(c)
Reader(p) == Test(p) \/ EnterRead(p) \/ ReturnFromRead(p)
Child(c) == Write(c) \/ Exit(c)

Next ==
    \/ \E c \in Calls : Caller(c)
    \/ \E p \in Pipes : Reader(p)
    \/ \E c \in Calls : Child(c)

\* Threads are scheduled, and commands end; a process a command leaves need not.
Fairness ==
    /\ \A c \in Calls : WF_vars(Caller(c)) /\ WF_vars(Exit(c))
    /\ \A p \in Pipes : WF_vars(Reader(p))

Spec == Init /\ [][Next]_vars /\ Fairness

-----------------------------------------------------------------------------

\* The variables have their types, and a thread in a read refers to a pipe.
TypeOK ==
    /\ pc \in [Calls -> {"idle", "opened", "waiting", "reaped", "joining", "done", "failed"}]
    /\ table \in [Fds -> {Free} \cup (Pipes \X {"r", "w"})]
    /\ fd \in [Calls -> [Ends -> 0..NumFds]]
    /\ child \in [Calls -> {"none", "running", "gone", "left"}]
    /\ holds \in [Calls -> SUBSET Pipes]
    /\ written \in [Calls -> 0..MaxOut]
    /\ active \in [Calls -> BOOLEAN]
    /\ reader \in [Pipes -> {"none", "test", "call", "blocked", "ended"}]
    /\ reading \in [Pipes -> {Free} \cup Pipes]
    /\ \A p \in Pipes : reader[p] = "blocked" <=> reading[p] # Free
    /\ met \subseteq Calls

\* A call that overlapped no other returns nothing as standard output, which no
\* pipe carries, and as standard error a prefix of its child's standard output; and
\* however calls overlap, no piece of output is returned twice, if not always by the
\* child's own call. When no call is in progress every descriptor is free again.
ReturnedOutput ==
    /\ \A c \in Calls \ met : pc[c] = "done" =>
          /\ output[<<c, "out">>] = <<>>
          /\ \E n \in 0..written[c] : output[<<c, "err">>] = [i \in 1..n |-> <<c, i>>]
    /\ \A p, q \in Pipes : p # q => ToSet(output[p]) \cap ToSet(output[q]) = {}
    /\ (\A c \in Calls : ~Busy(c)) => FreeFds = Fds

\* Every call ends, unless a command left a process behind that keeps a write end:
\* of its own call's pipe or, inherited by the fork, of another's.
ExecuteEnds ==
    \A c \in Calls : Busy(c) ~> (~Busy(c) \/ \E d \in Calls : child[d] = "left")
=============================================================================
