----------------------------- MODULE MCWorkers ------------------------------
(* A small instance of the client programs for TLC: all of them with two      *)
(* jobs, and the pools that work ahead with a third, which is one more than   *)
(* their channel and goroutines hold.                                         *)
EXTENDS Workers, TLC

CONSTANTS j1, j2, j3

Pools == {p \in AllPrograms : p.ahead}
=============================================================================
