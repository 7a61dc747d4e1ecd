--------------------------- MODULE MCAdminClient ----------------------------
EXTENDS AdminClient, TLC

\* Requests and invocations are interchangeable.
Symmetry == Permutations(Requests) \cup Permutations(Calls)
=============================================================================
