---------------------------- MODULE MCDocuments -----------------------------
EXTENDS Documents, TLC

\* Vendors, surveys, items and invocations are interchangeable.  Surveys and
\* items never meet and are given the same names, and so are the invocations, so
\* that one symmetry serves both documents.
Symmetry ==
  Permutations(Vendors) \cup Permutations(Surveys) \cup Permutations(Calls)
=============================================================================
