---------------------------- MODULE MCEventServer ----------------------------
(* EventServer with four descriptors, the last too high for the tables and *)
(* one with a mask at the start, and batches smaller than the list.        *)
EXTENDS EventServer

Fds == 1..4
Uncleared == {2}
===============================================================================
