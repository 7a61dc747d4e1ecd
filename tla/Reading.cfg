\* Three rows on two pages and two writes beside them; one row of a report, which
\* changes twice.
CONSTANTS
  Rows = {1, 2, 3}
  PageSize = 2
  FeedLimit = 1
  Keys = {1, 2}
  Followed = {"CREATED", "ASSIGNED", "DRAFT", "SUBMITTED", "PENDING_APPROVAL", "PENDING", "SUCCESS", "ISSUED", "UNREAD", "READ", "REQUEST_HISTORY", "ORDER_HISTORY", "PAYMENT"}
  AskedFor = {"ASSIGNED", "SUBMITTED", "READ", "ORDER_HISTORY"}
  MaxWrites = 2
  MaxMoves = 2
SPECIFICATION ReadingSpec
INVARIANTS WalksAreExact ListedRowsOpen NumbersAreOfTheirTime
