----------------------------- MODULE MCAccount ------------------------------
EXTENDS Account, TLC

\* Addresses, files and handlers are interchangeable.  Addresses and files never
\* meet and are given the same names, so that one symmetry serves both.
Symmetry == Permutations(Addresses) \cup Permutations(Calls)
=============================================================================
