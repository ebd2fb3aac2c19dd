------------------------------ MODULE MCCheckout ------------------------------
\* Instances of Checkout for TLC.  No symmetry: a run checks liveness.
EXTENDS Checkout
===============================================================================
