--------------------------- MODULE MCAdminConsole ---------------------------
EXTENDS AdminConsole, TLC

\* What is under way is interchangeable.  The screens never meet, and what they
\* have under way is given the same names, so that one symmetry serves them all.
Symmetry ==
  Permutations(Fetches) \cup Permutations(Reads) \cup Permutations(Posts)
=============================================================================
