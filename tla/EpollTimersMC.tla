--------------------------- MODULE EpollTimersMC ---------------------------
(***************************************************************************)
(* Instances of EpollTimers for TLC: a one-shot and a repeating timer next *)
(* to a watcher of the application, over two descriptor numbers.           *)
(***************************************************************************)
EXTENDS EpollTimers
=============================================================================
