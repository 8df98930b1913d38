---------------------------- MODULE MCDaemonLoops ----------------------------
(* Each daemon with one place for a tool; qnetd with two clients, so that    *)
(* the disconnect of one may queue a message for the other, or schedule its  *)
(* disconnect; qdevice with two sockets, the next address to try.            *)
EXTENDS DaemonLoops
=============================================================================
