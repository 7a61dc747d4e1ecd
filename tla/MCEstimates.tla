---------------------------- MODULE MCEstimates ----------------------------
EXTENDS QuotedSurveys, TLC

\* Everything the model names by identity is interchangeable.
Symmetry ==
  Permutations(Vendors) \cup Permutations(Surveys) \cup Permutations(Estimates)
    \cup Permutations(Calls) \cup Permutations(EstimateCalls)
=============================================================================
