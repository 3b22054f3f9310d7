---------------------------- MODULE MCIndexPipeline ----------------------------
(***************************************************************************)
(* IndexPipeline on one step file and one oath.                            *)
(***************************************************************************)
EXTENDS IndexPipeline

CONSTANTS s1, o1, r1, r2, a1

OneStepFile == {s1}
OneOath == {o1}
OneRequest == {r1}
TwoRequests == {r1, r2}
OneAccept == {a1}
================================================================================
