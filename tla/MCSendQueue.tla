------------------------------ MODULE MCSendQueue ------------------------------
(***************************************************************************)
(* An instance of SendQueue for TLC: two different messages, four of them  *)
(* in a row, before, between and after everything that can go wrong.       *)
(***************************************************************************)
EXTENDS SendQueue

CONSTANTS m1, m2

MCMessages == {m1, m2}

================================================================================
