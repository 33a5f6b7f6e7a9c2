-------------------------- MODULE MCArithmeticUnits --------------------------
(***************************************************************************)
(* ArithmeticUnits on operands of every sign: both zero and one, powers of *)
(* two, runs of ones, the two sides of a change of bit width (99 and 100). *)
(***************************************************************************)
EXTENDS ArithmeticUnits

CONSTANT Magnitudes

MCOperands == Magnitudes \cup {-n : n \in Magnitudes}
=============================================================================
