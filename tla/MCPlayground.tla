------------------------------ MODULE MCPlayground ------------------------------
(***************************************************************************)
(* Playground with two editors that share a worker, and as many workers as  *)
(* their runs can make the page spawn.                                      *)
(***************************************************************************)
EXTENDS Playground

CONSTANTS c1, c2, c3, c4, w1, w2, w3, w4, e1, e2

MCCalls == {c1, c2, c3, c4}
MCWorkers == {w1, w2, w3, w4}
TwoEditors == {e1, e2}
================================================================================
