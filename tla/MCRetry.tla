------------------------------ MODULE MCRetry ------------------------------
(* Model values and instances for Retry. *)
EXTENDS Retry

CONSTANTS h1, h2

\* The default, which starts on a rung, and one just above a rung whose second
\* retry is just above the last.
MCBases == {-1, 0, 700, 1800001}
\* A header this code never writes, which counts as none.
MCHeaders == {-1}
=============================================================================
