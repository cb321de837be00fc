-------------------------------- MODULE Labs --------------------------------
(***************************************************************************)
(* All small programs of the labs together: a behaviour runs one of them.  *)
(***************************************************************************)
EXTENDS ProcessLab, LabTurns, SocketLab, DnsClient

AllScripts ==
    ProcessScripts @@ PipeScripts @@ IpcScripts @@ SocketScripts @@ DnsScripts

\* A program ends, or it stops for one of the reasons that are known: no other
\* ends up with everyone waiting for everyone, or for what will not come.
EndsUnless ==
    <>[](\/ Over
         \/ StuckProcess \/ StuckPipe \/ StuckIpc \/ StuckSocket \/ StuckDns)

=============================================================================
