-------------------------------- MODULE MCAccount -------------------------------
(***************************************************************************)
(* Account with the values of its model-checking runs: two passwords, so   *)
(* that a wrong answer exists, and a reset token.                          *)
(***************************************************************************)
EXTENDS Account

CONSTANTS w1, w2, old, new, t1

=============================================================================
