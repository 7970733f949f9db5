--------------------------- MODULE MCRemoteSession ---------------------------
(***************************************************************************)
(* Two users at the same daemon.                                           *)
(***************************************************************************)
EXTENDS RemoteSession

Cli(flags) == [http |-> FALSE, flags |-> flags]
Web(flags) == [http |-> TRUE, flags |-> flags]

MCRequests ==
  {Cli({"erase", "write", "verify", "reboot"}), Cli({"boot", "write"}),
   Web({"read"}), Web({"diag", "cancel"}), Web({"status"})}
=============================================================================
