-------------------------- MODULE MCServiceRequests --------------------------
EXTENDS ServiceRequests, TLC

\* Vendors and invocations are interchangeable.
Symmetry == Permutations(Vendors) \cup Permutations(Calls)
=============================================================================
