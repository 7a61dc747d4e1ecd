\* One row that changes twice while its report is made.
CONSTANT MaxMoves = 2
SPECIFICATION ReportsSpec
INVARIANT SummaryIsSnapshot
