----------------------------- MODULE AdminList ------------------------------
(***************************************************************************)
(* A list page of the administrators' application: service requests,       *)
(* technical surveys and estimates, which have the same handlers.          *)
(*                                                                         *)
(* The page keeps the query it shows (params), what is in the search box   *)
(* (typed), its address (url) and the rows of the last answer it heeded.   *)
(* A change of the query starts a load and makes the one before late; the  *)
(* Refresh button starts a fetch nothing makes late.  Between two awaits   *)
(* the page is not interrupted.                                            *)
(*                                                                         *)
(* Rows are named by the query they answer.  All filters but the search    *)
(* are one, and so are the sort's field and its order.                     *)
(***************************************************************************)
EXTENDS Naturals

CONSTANTS
  Filters, All,           \* filter values, and the one that filters nothing
  Searches, NoSearch,     \* texts of the search box, and the empty one
  Sorts, DefaultSort,     \* orders of the rows, and createdAt descending
  Limits, DefaultLimit,   \* rows per page, and 10
  MaxPage,                \* bound: pages a list may have
  NoRows,                 \* no answer has come yet
  Fetches                 \* bound: requests the page may have under way

ASSUME DefaultsAssumption ==
  /\ All \in Filters /\ NoSearch \in Searches
  /\ DefaultSort \in Sorts /\ DefaultLimit \in Limits
  /\ MaxPage \in Nat \ {0}

VARIABLES
  params,       \* the query of the page
  typed,        \* what the search box holds
  url,          \* the query its address names
  list,         \* the rows, the spinner and the error
  fetches,      \* requests under way
  overtaken     \* auxiliary: the query changed while a refresh was under way

listVars == <<params, typed, url, list, fetches, overtaken>>

Queries == [ filter : Filters, search : Searches, sort : Sorts,
             page : 1..MaxPage, limit : Limits ]

Bare == [ filter |-> All, search |-> NoSearch, sort |-> DefaultSort,
          page |-> 1, limit |-> DefaultLimit ]

ASSUME NoRowsAssumption == NoRows \notin Queries

FetchStates == [ kind : {"none", "load", "late", "refresh"}, query : Queries ]

NoFetch == [ kind |-> "none", query |-> Bare ]

ListTypeOK ==
  /\ params \in Queries
  /\ typed \in Searches
  /\ url \in Queries
  /\ list \in [ shown : Queries \cup {NoRows}, isLoading : BOOLEAN, isError : BOOLEAN ]
  /\ fetches \in [Fetches -> FetchStates]
  /\ overtaken \in BOOLEAN

\* Nothing answered, and the spinner turning.
Loading(rows) == [ shown |-> rows, isLoading |-> TRUE, isError |-> FALSE ]

\* The page is opened at an address: every state it has starts from it.
Mounted(f, query) ==
  [g \in Fetches |-> IF g = f THEN [ kind |-> "load", query |-> query ] ELSE NoFetch]

ListInit ==
  /\ params = Bare
  /\ typed = NoSearch
  /\ url = Bare
  /\ list = Loading(NoRows)
  /\ \E f \in Fetches : fetches = Mounted(f, Bare)
  /\ overtaken = FALSE

RefreshUnderWay == \E f \in Fetches : fetches[f].kind = "refresh"

-----------------------------------------------------------------------------
\* The effect on the query: its cleanup makes a load that is under way late.
Loaded(f, query) ==
  [g \in Fetches |->
     IF g = f THEN [ kind |-> "load", query |-> query ]
     ELSE IF fetches[g].kind = "load" THEN [fetches[g] EXCEPT !.kind = "late"]
     ELSE fetches[g]]

\* A handler sets the query; the effect runs when that changed anything.
Show(query) ==
  /\ params' = query
  /\ IF query = params THEN UNCHANGED <<list, fetches, overtaken>>
     ELSE /\ \E f \in Fetches : fetches[f].kind = "none" /\ fetches' = Loaded(f, query)
          /\ list' = Loading(list.shown)
          /\ overtaken' = RefreshUnderWay

\* updateUrlParams names every part of the query that is not the default.
UpdateUrl(query) == url' = query

\* The search box takes a text of its own, and hands it on when the typing has
\* paused, or when it is cleared.
Type(text) ==
  /\ text # typed
  /\ typed' = text
  /\ UNCHANGED <<params, url, list, fetches, overtaken>>

handleSearchChange(text) ==
  LET query == [params EXCEPT !.search = text, !.page = 1]
  IN /\ Show(query)
     /\ UpdateUrl(query)
     /\ typed' = text

Debounced == typed # params.search /\ handleSearchChange(typed)

ClearSearch == typed # NoSearch /\ handleSearchChange(NoSearch)

handleFilterChange ==
  \E value \in Filters \ {params.filter} :
    LET query == [params EXCEPT !.filter = value, !.page = 1]
    IN Show(query) /\ UpdateUrl(query) /\ UNCHANGED typed

\* The search box follows when the search was not empty; a text it has not yet
\* handed on stays otherwise.  The address forgets the rows per page.
handleResetFilters ==
  /\ params.search # NoSearch \/ params.filter # All
  /\ Show([Bare EXCEPT !.limit = params.limit])
  /\ UpdateUrl(Bare)
  /\ typed' = IF params.search # NoSearch THEN NoSearch ELSE typed

\* The table and its footer are there only beside an answer.
TableShown == ~list.isLoading /\ ~list.isError

\* A click on a column's head, or the sort box of the estimates, which is always
\* there: the page stays.
handleSortToggle ==
  \E sort \in Sorts \ {params.sort} :
    LET query == [params EXCEPT !.sort = sort]
    IN Show(query) /\ UpdateUrl(query) /\ UNCHANGED typed

handlePageChange ==
  /\ TableShown
  /\ \E page \in (1..MaxPage) \ {params.page} :
       LET query == [params EXCEPT !.page = page]
       IN Show(query) /\ UpdateUrl(query) /\ UNCHANGED typed

handleLimitChange ==
  /\ TableShown
  /\ \E limit \in Limits \ {params.limit} :
       LET query == [params EXCEPT !.limit = limit, !.page = 1]
       IN Show(query) /\ UpdateUrl(query) /\ UNCHANGED typed

-----------------------------------------------------------------------------
\* The Refresh button, or Retry beside an error.
Refresh ==
  /\ ~list.isLoading
  /\ \E f \in Fetches :
       /\ fetches[f].kind = "none"
       /\ fetches' = [fetches EXCEPT ![f] = [ kind |-> "refresh", query |-> params ]]
  /\ list' = Loading(list.shown)
  /\ overtaken' = (overtaken /\ RefreshUnderWay)
  /\ UNCHANGED <<params, typed, url>>

\* Only a load looks whether it is late.
AnyAnswer(f) == TRUE
IsMounted(f) == fetches[f].kind # "late"

\* An answer, or an error: the rows and the spinner are those of the answer.
AnswerFetch(f) ==
  /\ fetches[f].kind # "none"
  /\ IF IsMounted(f)
     THEN \/ list' = [ shown |-> fetches[f].query, isLoading |-> FALSE,
                       isError |-> list.isError ]
          \/ list' = [ shown |-> list.shown, isLoading |-> FALSE, isError |-> TRUE ]
     ELSE UNCHANGED list
  /\ fetches' = [fetches EXCEPT ![f] = NoFetch]
  /\ UNCHANGED <<params, typed, url, overtaken>>

\* The page is left and come back to, or loaded again: what is under way
\* belongs to the page that was left.
Return ==
  /\ params' = url
  /\ typed' = url.search
  /\ list' = Loading(NoRows)
  /\ \E f \in Fetches : fetches' = Mounted(f, url)
  /\ overtaken' = FALSE
  /\ UNCHANGED url

ListNext ==
  \/ \E text \in Searches : Type(text)
  \/ Debounced \/ ClearSearch
  \/ handleFilterChange \/ handleResetFilters
  \/ handleSortToggle \/ handlePageChange \/ handleLimitChange
  \/ Refresh \/ Return
  \/ \E f \in Fetches : AnswerFetch(f)

=============================================================================
