----------------------------- MODULE MCLlmTask -----------------------------
(* A small instance of LlmTask. *)
EXTENDS LlmTask

CONSTANT c1

\* The row of the call's second job is within another manager's reach.
SecondForeign == {<<c1, 2>>}
=============================================================================
