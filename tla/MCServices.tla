----------------------------- MODULE MCServices -----------------------------
(* Instances of SshClient and of ConfEditor for TLC. The two share nothing: *)
(* a behaviour is one of either, the other's variables stay as they are.    *)
EXTENDS SshClient, ConfEditor

VARIABLE part

MCValues == <<"100", "200">>

Init ==
    /\ InitSsh /\ InitConf
    /\ part \in {"ssh", "conf"}
    /\ part = "conf" => here = Absent /\ there = Absent

Ssh == part = "ssh" /\ ~crashed /\ UNCHANGED <<part, confVars>>
Conf == part = "conf" /\ UNCHANGED <<part, sshVars>>

Next ==
    \/ Ssh /\ connect
    \/ Ssh /\ auth
    \/ Ssh /\ disconnect
    \/ Ssh /\ init_sftp
    \/ Ssh /\ sftp_delete_file
    \/ \E t \in Threads :
         \/ Ssh /\ BeginUpload(t, "scp_upload")
         \/ Ssh /\ BeginUpload(t, "sftp_upload")
         \/ Ssh /\ BeginDownload(t, "scp_download")
         \/ Ssh /\ BeginDownload(t, "sftp_download")
         \/ Ssh /\ scp_upload(t)
         \/ Ssh /\ sftp_upload(t)
         \/ Ssh /\ scp_download(t)
         \/ Ssh /\ sftp_download(t)
         \/ Ssh /\ Fails(t)
         \/ Ssh /\ UseAfterFree(t)
         \/ Ssh /\ sftp_rename(t)
         \/ Ssh /\ sftp_directory(t)
         \/ Ssh /\ BeginCommand(t, "execute_command")
         \/ Ssh /\ BeginCommand(t, "execute_command_with_stderr")
         \/ Ssh /\ FarEnd(t)
         \/ Ssh /\ execute_command(t)
         \/ Ssh /\ execute_command_with_stderr(t)
    \/ Conf /\ parse
    \/ Conf /\ Restart
    \/ Conf /\ save
    \/ Conf /\ SaveInterrupted
    \/ \E s \in {"local", "global"}, k \in Settings :
         \/ Conf /\ EditFile(s, k)
         \/ \E v \in ToSet(Values) : Conf /\ set(s, k, v)

Spec == Init /\ [][Next]_<<part, sshVars, confVars>>

\* The variables of both parts have their types.
TypeOK == SshTypeOK /\ ConfTypeOK
=============================================================================
