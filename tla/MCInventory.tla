------------------------------ MODULE MCInventory ------------------------------
\* Instances of Inventory for TLC.  No symmetry: the run checks a refinement.
EXTENDS Inventory
===============================================================================
