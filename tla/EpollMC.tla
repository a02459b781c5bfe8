------------------------------ MODULE EpollMC ------------------------------
(***************************************************************************)
(* Instances of Epoll for TLC.  Two descriptors are enough for a number to *)
(* be recycled while another watcher is registered; three addresses for a  *)
(* stale watcher, the new owner and a bystander.                           *)
(***************************************************************************)
EXTENDS Epoll
=============================================================================
