------------------------------ MODULE PageWalk ------------------------------
(***************************************************************************)
(* A client turns the pages of a list while others write what is listed.   *)
(*                                                                         *)
(* A page is cut from the rows at skip and take.  A list counts and finds  *)
(* in two statements that are issued together and may be executed in       *)
(* either order; the feed reads its sources in turn and cuts the page      *)
(* itself.  Every page is a request of its own, so that rows may come, go  *)
(* and move between any two statements.  What is written does not depend   *)
(* on who reads: one walk is followed, to its end.                         *)
(***************************************************************************)
EXTENDS Listings, Naturals, FiniteSets

CONSTANTS
  Rows,        \* bound: the rows of one kind there may be, by id
  PageSize,    \* limit
  FeedLimit,   \* take: the newest rows of a source that the feed reads
  Keys,        \* bound: values of the sorting column, the first to come first
  Followed,    \* bound: statuses the rows take
  AskedFor,    \* bound: statuses that are filtered by
  MaxWrites    \* bound: writes during the walk

ASSUME RowsAssumption == Rows \subseteq Nat /\ IsFiniteSet(Rows)
ASSUME KeysAssumption == Keys \subseteq Nat
ASSUME PageSizeAssumption == PageSize \in Nat \ {0}

VARIABLES
  table,       \* the rows: status, value of the sorting column, whose they are
  query,       \* the list and the statuses it is asked for
  walk,        \* the page asked for and what of its answer is there
  seen,        \* how often the client was shown each row
  past,        \* auxiliary: what became of the rows since the walk began
  writes       \* writes so far

walkVars == <<table, query, walk, seen, past, writes>>

Absent == [ status |-> "NONE", key |-> 0, mine |-> FALSE ]

\* Only rows the viewer may see are followed: one's own are all of them.
Followable(listing) ==
  LET Seen(scope) == IF scope = "own" THEN "all" ELSE scope
  IN [ listing EXCEPT !.scope = Seen(@), !.opens.scope = Seen(@) ]

Asks(listing) ==
  {listing.shows} \cup
    (IF listing.filtered THEN { {s} : s \in listing.shows \cap AskedFor } ELSE {})

Walks ==
  UNION { [ listing : {Followable(l)}, asks : Asks(l) ] : l \in Endpoints }

\* Whose rows change: those a vendor reads by their request.
Owners(l) == IF "assigned" \in {l.scope, l.opens.scope} THEN BOOLEAN ELSE {TRUE}

\* The rows that answer the query.
Result(rows) ==
  { r \in Rows : /\ rows[r].status \in query.asks
                 /\ InScope(query.listing.scope, rows[r]) }

RowStates(of) == [ status : Statuses(of), key : Keys, mine : BOOLEAN ]

\* One type invariant.
WalkTypeOK ==
  /\ query \in Walks
  /\ table \in [Rows -> RowStates(query.listing.of) \cup {Absent}]
  /\ walk \in [ page : Nat \ {0}, todo : SUBSET query.listing.statements,
                total : 0..Cardinality(Rows), gathered : SUBSET Rows,
                over : BOOLEAN ]
  /\ seen \in [Rows -> Nat]
  /\ past \in [ steady : SUBSET Rows, entered : BOOLEAN, left : BOOLEAN,
                slipped : BOOLEAN, cut : BOOLEAN, tied : SUBSET Rows,
                handed : SUBSET Rows ]
  /\ writes \in 0..MaxWrites

\* The statements of an answer; a feed asked for one source reads only that.
Statements ==
  IF query.listing.of = "event" THEN query.listing.statements \cap query.asks
  ELSE query.listing.statements

Asked(n) ==
  [ page |-> n, todo |-> Statements, total |-> 0, gathered |-> {}, over |-> FALSE ]

WalkBegins ==
  /\ walk = Asked(1)
  /\ seen = [r \in Rows |-> 0]
  /\ past = [ steady |-> Result(table), entered |-> FALSE, left |-> FALSE,
              slipped |-> FALSE, cut |-> FALSE, tied |-> {}, handed |-> {} ]
  /\ writes = 0

\* The rows there are at first are new, or have what is asked for.
WalkInit ==
  /\ query \in Walks
  /\ LET l == query.listing
         first == Fresh[l.of] \cup (IF query.asks = l.shows THEN {} ELSE query.asks)
     IN table \in [Rows -> [ status : first \cap Followed, key : Keys,
                             mine : Owners(l) ] \cup {Absent}]
  /\ WalkBegins

-----------------------------------------------------------------------------
(***************************************************************************)
(* What others write.                                                      *)
(***************************************************************************)
Write(rows, handed) ==
  LET was == Result(table)
      is  == Result(rows)
      moved == { r \in was \cap is : rows[r].key # table[r].key }
      enters == (is \ was) \cup moved # {}
  IN /\ ~walk.over /\ writes < MaxWrites
     /\ rows # table
     /\ table' = rows
     /\ past' = [ steady  |-> (past.steady \cap is) \ moved,
                  entered |-> past.entered \/ enters,
                  left    |-> past.left \/ (was \ is) \cup moved # {},
                  slipped |-> past.slipped \/ (enters /\ walk.todo = {"find"}),
                  cut     |-> past.cut,
                  tied    |-> past.tied,
                  handed  |-> past.handed \cup handed ]
     /\ writes' = writes + 1
     /\ UNCHANGED <<query, walk, seen>>

Create(r) ==
  /\ table[r] = Absent
  /\ \E row \in [ status : Fresh[query.listing.of] \cap Followed, key : Keys,
                  mine : Owners(query.listing) ] :
       Write([table EXCEPT ![r] = row], {})

\* A step of the row's state machine; updatedAt and status may be what is sorted
\* by.
Move(r) ==
  /\ table[r] # Absent
  /\ \E to \in Machines[query.listing.of][table[r].status] \cap Followed,
        key \in IF query.listing.of = "event" THEN {table[r].key} ELSE Keys :
       Write([table EXCEPT ![r].status = to, ![r].key = key], {})

\* The row's request is assigned to another vendor, or returned to the pool.
HandOver(r) ==
  /\ table[r] # Absent
  /\ Owners(query.listing) = BOOLEAN
  /\ Write([table EXCEPT ![r].mine = ~@], {r})

\* markAllAsRead; the other statuses have no such write.
markAllAsRead ==
  /\ query.listing.of = "notification"
  /\ Write([r \in Rows |-> IF table[r].status = "UNREAD"
                             THEN [table[r] EXCEPT !.status = "READ"] ELSE table[r]], {})

\* The cleanup job deletes old notifications.
Cleanup(r) ==
  /\ query.listing.of = "notification"
  /\ Write([table EXCEPT ![r] = Absent], {r})

-----------------------------------------------------------------------------
(***************************************************************************)
(* The answer to one page.                                                 *)
(***************************************************************************)
Precedes(q, r) ==
  \/ table[q].key < table[r].key
  \/ query.listing.stable /\ table[q].key = table[r].key /\ q < r

\* The orders the database may give the rows: all that the order asked for
\* leaves open.
Rankings(S) ==
  { rank \in [S -> 0..(Cardinality(S) - 1)] :
      \A q, r \in S : q # r => /\ rank[q] # rank[r]
                               /\ Precedes(q, r) => rank[q] < rank[r] }

\* Rows the order asked for does not tell from another.
Tied(r) ==
  /\ ~query.listing.stable
  /\ \E q \in Result(table) \ {r} : table[q].key = table[r].key

\* getOffsetPagination.
SkipToNext(page) == page * PageSize
Skip(page) == (page - 1) * PageSize

PageOf(rank, page) ==
  { r \in DOMAIN rank : Skip(page) <= rank[r] /\ rank[r] < Skip(page) + PageSize }

\* totalPages.
TotalPages(total) == (total + PageSize - 1) \div PageSize

ShowRows(rows) == seen' = [r \in Rows |-> IF r \in rows THEN seen[r] + 1 ELSE seen[r]]

\* A statement has been executed.
Executed(statement, total, gathered) ==
  /\ walk' = [walk EXCEPT !.todo = @ \ {statement}, !.total = total,
                          !.gathered = gathered]
  /\ UNCHANGED <<table, query, writes>>

Count ==
  /\ "count" \in walk.todo
  /\ Executed("count", Cardinality(Result(table)), walk.gathered)
  /\ UNCHANGED <<seen, past>>

Find ==
  /\ "find" \in walk.todo
  /\ \E rank \in Rankings(Result(table)) :
       Executed("find", walk.total, PageOf(rank, walk.page))
  /\ past' = [past EXCEPT !.tied = @ \cup {r \in Result(table) : Tied(r)}]
  /\ UNCHANGED seen

\* The rows of a source that are read: the newest, any of them at a tie.
Newest(S) ==
  { T \in SUBSET S :
      /\ Cardinality(T) = IF Cardinality(S) < FeedLimit THEN Cardinality(S) ELSE FeedLimit
      /\ \A t \in T, u \in S \ T : table[t].key <= table[u].key }

ReadSource(source) ==
  LET rows == { r \in Result(table) : table[r].status = source }
  IN /\ source \in walk.todo \cap EventSources
     /\ walk.todo \cap ReadBefore[source] = {}
     /\ \E read \in IF query.listing.paged THEN Newest(rows) ELSE {rows} :
          /\ Executed(source, walk.total + Cardinality(read), walk.gathered \cup read)
          /\ past' = [past EXCEPT !.cut = @ \/ read # rows]
     /\ UNCHANGED seen

\* The answer is complete: the client is shown it, and asks for the next page as
\* long as there is one.
Reply ==
  LET more == query.listing.paged /\ walk.page < TotalPages(walk.total)
  IN /\ walk.todo = {} /\ ~walk.over
     /\ IF query.listing.of = "event" /\ query.listing.paged
          THEN \E rank \in Rankings(walk.gathered) : ShowRows(PageOf(rank, walk.page))
          ELSE ShowRows(walk.gathered)
     /\ walk' = IF more THEN Asked(walk.page + 1) ELSE [walk EXCEPT !.over = TRUE]
     /\ past' = [past EXCEPT !.slipped = @ /\ ~more]
     /\ UNCHANGED <<table, query, writes>>

WalkNext ==
  \/ Count \/ Find \/ Reply \/ markAllAsRead
  \/ \E source \in EventSources : ReadSource(source)
  \/ \E r \in Rows : Create(r) \/ Move(r) \/ HandOver(r) \/ Cleanup(r)
  \/ walk.over /\ UNCHANGED walkVars

-----------------------------------------------------------------------------
\* Who turns all pages has seen every row that was there all the time, once.  It
\* is missed only when a row before it left, or one came between the count and
\* the rows of the last answer; and it is seen twice only when a row came before
\* it.  Lists, unlike the search, also do both at a tie, and so does a feed that
\* reads no further back: rows that tie take turns in its newest.
WalksAreExact ==
  walk.over =>
    \A r \in past.steady :
      /\ seen[r] = 0 => past.left \/ past.slipped \/ past.cut \/ r \in past.tied
      /\ seen[r] > 1 => past.entered \/ past.cut \/ r \in past.tied

\* What a list has shown to somebody, its page opens for them, unless the
\* request went to another vendor, or the notification was purged, since.
Refused(detail, row) ==
  row = Absent \/ row.status \in detail.refuses \/ ~InScope(detail.scope, row)

ListedRowsOpen ==
  \A r \in Rows :
    seen[r] > 0 /\ Refused(query.listing.opens, table[r]) => r \in past.handed

=============================================================================
