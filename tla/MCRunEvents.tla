----------------------------- MODULE MCRunEvents -----------------------------
(* RunEvents on small sets of processes and clients.                        *)
EXTENDS RunEvents
=============================================================================
