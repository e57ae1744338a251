----------------------------- MODULE MCHostsFile -----------------------------
(* Small instances of HostsFile.                                           *)
EXTENDS HostsFile
=============================================================================
