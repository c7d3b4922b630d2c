----------------------------- MODULE SshClient -----------------------------
(* One ssh client (libs/ssh/ssh_client.h) that several threads use: copies *)
(* of one file to and from the far end under m_transfer_mtx, calls that     *)
(* take no lock, and commands on channels of their own. A file is its       *)
(* length, or Absent. Every call of the library may fail, which the client  *)
(* turns into an exception; what the library does is modelled from how the  *)
(* client uses it. A crash ends the program.                                *)
EXTENDS Integers, FiniteSets

CONSTANTS
    Threads,    \* threads that share the client
    Chunk,      \* the 4096 bytes of the sftp buffers
    MaxSize,    \* bound: length of the file
    MaxText     \* bound: what a command writes to each of its outputs

VARIABLES
    link,       \* the session: "down", "connected" or "authenticated"
    sftp,       \* m_sftp_session: "none", "raw" (sftp_init failed) or "ready"
    holder,     \* who holds m_transfer_mtx
    here,       \* the local file
    there,      \* the remote file
    call,       \* what the threads do
    crashed     \* undefined behaviour was met: the program has ended

sshVars == <<link, sftp, holder, here, there, call, crashed>>

Absent == -1
Nobody == "nobody"
Files == Absent..MaxSize

ASSUME SshAssumption ==
    /\ Chunk \in Nat \ {0} /\ MaxSize \in Nat /\ MaxText \in Nat
    /\ Nobody \notin Threads

Commands == {"execute_command", "execute_command_with_stderr"}
Ops == Commands \cup {"scp_upload", "scp_download", "sftp_upload", "sftp_download", "sftp_rename", "sftp_directory"}

\* from: length of the source as the call found it; n: what the call has moved or read;
\* sent, unread, errors: the command's output, what of it has not been read, what it wrote
\* as errors and was not read; over: the far end has closed; left: the copy, on return.
NoCall == [op |-> "none", at |-> "idle", from |-> 0, n |-> 0, left |-> 0,
           sent |-> 0, unread |-> 0, errors |-> 0, over |-> FALSE, timed |-> FALSE]

Idle(t) == call[t].at \in {"idle", "done", "thrown"}

InitSsh ==
    /\ link = "down"
    /\ sftp = "none"
    /\ holder = Nobody
    /\ here \in Files /\ there \in Files
    /\ call = [t \in Threads |-> NoCall]
    /\ crashed = FALSE

\* An exception: scoped_lock unlocks, the guards free the library's objects.
Throw(t) == /\ call' = [call EXCEPT ![t] = [NoCall EXCEPT !.at = "thrown"]]
            /\ holder' = IF holder = t THEN Nobody ELSE holder

connect ==
    /\ link = "down" /\ link' = "connected"
    /\ UNCHANGED <<sftp, holder, here, there, call, crashed>>

auth ==
    /\ link = "connected" /\ link' = "authenticated"
    /\ UNCHANGED <<sftp, holder, here, there, call, crashed>>

\* Takes no lock: copies and commands may be under way.
disconnect ==
    /\ link # "down" \/ sftp # "none"
    /\ link' = "down" /\ sftp' = "none"
    /\ UNCHANGED <<holder, here, there, call, crashed>>

\* A failure of sftp_init leaves the session in place, and the next call returns at once.
init_sftp ==
    /\ sftp = "none"
    /\ \/ sftp' = "raw"
       \/ sftp' = "ready" /\ link = "authenticated"
    /\ UNCHANGED <<link, holder, here, there, call, crashed>>

\* sftp_delete_file: no lock.
sftp_delete_file ==
    /\ sftp = "ready" /\ link = "authenticated"
    /\ there' = Absent
    /\ UNCHANGED <<link, sftp, holder, here, call, crashed>>

\* Listing, creating and removing directories, without the lock: what is there is not
\* modelled. The call throws at once without a session, and whenever the far end refuses.
sftp_directory(t) ==
    /\ Idle(t)
    /\ \/ /\ sftp # "none" /\ link # "down"
          /\ call' = [call EXCEPT ![t] = [NoCall EXCEPT !.op = "sftp_directory", !.at = "done"]]
          /\ UNCHANGED holder
       \/ Throw(t)
    /\ UNCHANGED <<link, sftp, here, there, crashed>>

Begin(t, op, from, timed) ==
    call' = [call EXCEPT ![t] = [NoCall EXCEPT !.op = op, !.at = "run", !.from = from, !.timed = timed]]

\* Everything before the loop of a copy succeeds: the destination is created, empty.
BeginUpload(t, op) ==
    /\ Idle(t) /\ holder = Nobody /\ here # Absent
    /\ link = "authenticated"
    /\ op = "sftp_upload" => sftp # "none"
    /\ holder' = t /\ there' = 0
    /\ Begin(t, op, here, FALSE)
    /\ UNCHANGED <<link, sftp, here, crashed>>

\* A local file that cannot be opened: scp_download frees the scp twice.
BeginDownload(t, op) ==
    /\ Idle(t) /\ holder = Nobody /\ there # Absent
    /\ link = "authenticated"
    /\ op = "sftp_download" => sftp # "none"
    /\ \/ /\ holder' = t /\ here' = 0
          /\ Begin(t, op, there, FALSE)
          /\ UNCHANGED crashed
       \/ /\ op = "scp_download"
          /\ crashed' = TRUE
          /\ UNCHANGED <<holder, here, call>>
    /\ UNCHANGED <<link, sftp, there>>

Written(file, n) == IF file = Absent THEN Absent ELSE n

Return(t, left) ==
    /\ call' = [call EXCEPT ![t].at = "done", ![t].left = left]
    /\ holder' = IF holder = t THEN Nobody ELSE holder

\* One buffer of the file's length: the second read meets the end. No read of a buffer of
\* no bytes does, and an empty file is read for ever with the mutex held.
scp_upload(t) ==
    LET c == call[t]
    IN /\ c.op = "scp_upload" /\ c.at = "run" /\ link # "down" /\ c.from > 0
       /\ there' = Written(there, c.from)
       /\ Return(t, there')
       /\ UNCHANGED <<link, sftp, here, crashed>>

\* while (file.read(...)): a read that does not fill the buffer fails, its bytes unsent.
sftp_upload(t) ==
    LET c == call[t]
        n == c.n + Chunk
    IN /\ c.op = "sftp_upload" /\ c.at = "run" /\ sftp # "none" /\ link # "down"
       /\ IF n <= c.from
          THEN /\ there' = Written(there, n)
               /\ call' = [call EXCEPT ![t].n = n]
               /\ UNCHANGED holder
          ELSE Return(t, there) /\ UNCHANGED there
       /\ UNCHANGED <<link, sftp, here, crashed>>

Download_short(t, op, buffer) ==
    LET c == call[t]
    IN /\ c.op = op /\ c.at = "run" /\ link # "down"
       /\ op = "sftp_download" => sftp # "none"
       /\ \E n \in (c.n + 1)..c.from :
             /\ n - c.n <= buffer
             /\ here' = Written(here, n)
             /\ IF n - c.n < buffer THEN Return(t, here')
                ELSE call' = [call EXCEPT ![t].n = n] /\ UNCHANGED holder
       /\ UNCHANGED <<link, sftp, there, crashed>>

\* Reads of any number of bytes up to the buffer's, the file's length for scp.
Download(t, op, buffer) ==
    LET c == call[t]
    IN /\ c.op = op /\ c.at = "run" /\ link # "down"
       /\ op = "sftp_download" => sftp # "none"
       /\ IF c.n < c.from
          THEN \E n \in (c.n + 1)..c.from :
                  /\ n - c.n <= buffer
                  /\ here' = Written(here, n)
                  /\ call' = [call EXCEPT ![t].n = n]
                  /\ UNCHANGED holder
          ELSE Return(t, here) /\ UNCHANGED here
       /\ UNCHANGED <<link, sftp, there, crashed>>

scp_download(t) == Download(t, "scp_download", call[t].from)
sftp_download(t) == Download(t, "sftp_download", Chunk)

\* A call of the library fails, as it does once the link is down.
Fails(t) ==
    /\ call[t].at \in {"run", "err"} /\ call[t].op # "sftp_rename"
    /\ ~(call[t].op = "scp_upload" /\ call[t].from = 0)
    /\ Throw(t)
    /\ UNCHANGED <<link, sftp, here, there, crashed>>

\* The session was freed by a disconnect under a copy that goes on using it.
UseAfterFree(t) ==
    /\ call[t].at = "run" /\ call[t].op \in {"sftp_upload", "sftp_download"}
    /\ sftp = "none"
    /\ crashed' = TRUE
    /\ UNCHANGED <<link, sftp, holder, here, there, call>>

\* sftp_rename calls itself, for ever.
sftp_rename(t) ==
    /\ Idle(t) /\ sftp # "none"
    /\ Begin(t, "sftp_rename", 0, FALSE)
    /\ UNCHANGED <<link, sftp, holder, here, there, crashed>>

\* Commands have channels of their own: one at a time, a bound.
BeginCommand(t, op) ==
    /\ Idle(t) /\ link = "authenticated"
    /\ \A u \in Threads : call[u].op \notin Commands \/ Idle(u)
    /\ \E timed \in BOOLEAN : Begin(t, op, 0, timed)
    /\ UNCHANGED <<link, sftp, holder, here, there, crashed>>

\* The far end: the command writes and ends; the shell ends if the command makes it.
FarEnd(t) ==
    LET c == call[t]
    IN /\ c.op \in Commands /\ c.at \in {"run", "err"}
       /\ ~c.over
       /\ \/ /\ c.sent < MaxText
             /\ call' = [call EXCEPT ![t].sent = @ + 1, ![t].unread = @ + 1]
          \/ /\ c.errors < MaxText
             /\ call' = [call EXCEPT ![t].errors = @ + 1]
          \/ call' = [call EXCEPT ![t].over = TRUE]
       /\ UNCHANGED <<link, sftp, holder, here, there, crashed>>

\* ssh_channel_is_eof: the far end has closed and nothing is left to read, of either output.
is_eof(c) == c.over /\ c.unread = 0 /\ c.errors = 0

\* One turn of execute_command's loop, which reads standard output only.
execute_command(t) ==
    LET c == call[t]
    IN /\ c.op = "execute_command" /\ c.at = "run" /\ link # "down"
       /\ \/ /\ c.unread > 0
             /\ call' = [call EXCEPT ![t].n = @ + c.unread, ![t].unread = 0]
             /\ UNCHANGED holder
          \/ /\ c.unread = 0 /\ is_eof(c)
             /\ call' = [call EXCEPT ![t].at = "done"]
             /\ UNCHANGED holder
          \/ c.timed /\ Throw(t)
       /\ UNCHANGED <<link, sftp, here, there, crashed>>

\* The shell's outputs are read in turn, each read waiting for data or the end; the time is
\* looked at between two turns only.
execute_command_with_stderr(t) ==
    LET c == call[t]
    IN /\ c.op = "execute_command_with_stderr" /\ link # "down"
       /\ \/ /\ c.at = "run" /\ (c.unread > 0 \/ c.over)
             /\ call' = [call EXCEPT ![t].n = @ + c.unread, ![t].unread = 0, ![t].at = "err"]
             /\ UNCHANGED holder
          \/ /\ c.at = "err" /\ (c.errors > 0 \/ c.over)
             /\ call' = [call EXCEPT ![t].errors = 0,
                                     ![t].at = IF c.errors = 0 /\ is_eof(c) THEN "done" ELSE "run"]
             /\ UNCHANGED holder
          \/ c.at = "run" /\ c.timed /\ Throw(t)
       /\ UNCHANGED <<link, sftp, here, there, crashed>>

NextSsh ==
    /\ ~crashed
    /\ \/ connect \/ auth \/ disconnect \/ init_sftp \/ sftp_delete_file
       \/ \E t \in Threads :
            \/ BeginUpload(t, "scp_upload") \/ BeginUpload(t, "sftp_upload")
            \/ BeginDownload(t, "scp_download") \/ BeginDownload(t, "sftp_download")
            \/ scp_upload(t) \/ sftp_upload(t) \/ scp_download(t) \/ sftp_download(t)
            \/ Fails(t) \/ UseAfterFree(t) \/ sftp_rename(t) \/ sftp_directory(t)
            \/ BeginCommand(t, "execute_command") \/ BeginCommand(t, "execute_command_with_stderr")
            \/ FarEnd(t) \/ execute_command(t) \/ execute_command_with_stderr(t)

SshSpec == InitSsh /\ [][NextSsh]_sshVars

-----------------------------------------------------------------------------

\* The variables have their types.
SshTypeOK ==
    /\ link \in {"down", "connected", "authenticated"}
    /\ sftp \in {"none", "raw", "ready"}
    /\ holder \in Threads \cup {Nobody}
    /\ here \in Files /\ there \in Files
    /\ call \in [Threads -> [op : Ops \cup {"none"}, at : {"idle", "run", "err", "done", "thrown"},
                            from : 0..MaxSize, n : Nat, left : Files, sent : Nat, unread : Nat,
                            errors : Nat, over : BOOLEAN, timed : BOOLEAN]]
    /\ crashed \in BOOLEAN

Returned(t, op) == call[t].op = op /\ call[t].at = "done"

\* What a copy that returns normally has copied, whatever other threads called meanwhile:
\* all of the file, but for an upload over sftp, which leaves out the last part of a chunk.
\* A command that returns normally returns all it wrote; execute_command returns for none
\* that wrote anything as an error, which it never reads.
ReturnsAreWhole ==
    \A t \in Threads :
        LET c == call[t]
        IN /\ \/ Returned(t, "scp_upload")
              \/ Returned(t, "scp_download") \/ Returned(t, "sftp_download")
              => c.left \in {c.from, Absent}
           /\ Returned(t, "sftp_upload") => c.left \in {c.from - (c.from % Chunk), Absent}
           /\ Returned(t, "scp_upload") => c.from > 0
           /\ c.op \in Commands /\ c.at = "done" => c.n = c.sent
           /\ Returned(t, "execute_command") => c.errors = 0
=============================================================================
