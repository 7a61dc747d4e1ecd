---------------------------- MODULE MCWorkOrders ----------------------------
EXTENDS Completion, TLC

\* Vendors, orders and invocations are interchangeable.
Symmetry ==
  Permutations(Vendors) \cup Permutations(Orders) \cup Permutations(Calls)
=============================================================================
