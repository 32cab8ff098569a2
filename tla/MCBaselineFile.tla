---------------------------- MODULE MCBaselineFile ----------------------------
(* A small instance of BaselineFile for TLC: three commands write, the     *)
(* report of one of them is refused, and two others read.                  *)
EXTENDS BaselineFile

CONSTANTS w1, w2, w3, fine, better

MCReportOf == [w \in {w1, w2, w3} |-> CASE w = w1 -> fine [] w = w2 -> better
                                        [] w = w3 -> Refused]
=============================================================================
