------------------------------- MODULE IocpMC -------------------------------
(***************************************************************************)
(* Instance of Iocp for TLC.                                               *)
(***************************************************************************)
EXTENDS Iocp

=============================================================================
