------------------------------ MODULE MCPayments ------------------------------
\* Instances of Payments for TLC.  No symmetry: the runs check a refinement and
\* liveness.
EXTENDS Payments
===============================================================================
