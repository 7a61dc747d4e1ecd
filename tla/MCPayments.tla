----------------------------- MODULE MCPayments -----------------------------
EXTENDS Payments, TLC

\* Payments and invocations are interchangeable.
Symmetry == Permutations(Payments) \cup Permutations(Calls)

\* The request is worked off.  Repeated assignments, which only count its
\* version up before a payment may complete it, are left out.
Works ==
  { <<"CREATED", "ASSIGNED">>, <<"ASSIGNED", "IN_PROGRESS">>,
    <<"IN_PROGRESS", "WORK_COMPLETED">> }
=============================================================================
