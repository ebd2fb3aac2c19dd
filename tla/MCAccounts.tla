------------------------------- MODULE MCAccounts -------------------------------
\* Instances of Accounts for TLC.  Both subjects may approve, so that nothing tells
\* the values of a set apart.
EXTENDS Accounts, TLC

Symmetry == Permutations(Calls) \cup Permutations(Subjects) \cup Permutations(Rows)
            \cup Permutations(Wishes) \cup Permutations(Lists)
            \cup Permutations(Pieces) \cup Permutations(Carts)

\* No step reads both a list and a cart, so an instance starts with the ones used up
\* or with the others.
MCInit == Init /\ (\A w \in Lists : lists[w] = Deleted) # (\A k \in Carts : carts[k] = Expired)
MCSpec == MCInit /\ [][Next]_vars
===============================================================================
