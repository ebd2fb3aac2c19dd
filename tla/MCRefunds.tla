------------------------------- MODULE MCRefunds -------------------------------
\* Instances of Refunds for TLC: identifiers are interchangeable.
EXTENDS Refunds, TLC

Symmetry == Permutations(Returns) \cup Permutations(Refs) \cup Permutations(Staff)
              \cup Permutations(Workers)
===============================================================================
