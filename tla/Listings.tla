------------------------------ MODULE Listings ------------------------------
(***************************************************************************)
(* What the backend's reading endpoints ask the database for: the lists    *)
(* with the page that opens from their rows, the search, and the feed of   *)
(* activity.  A row has a kind, and its status is all that the endpoints   *)
(* tell apart besides whose it is.                                         *)
(*                                                                         *)
(* A list is scoped to "all" rows, to the viewer's "own" (they name the    *)
(* customer, or the vendor of a survey or an order, for good) or to those  *)
(* "assigned", by their request, to the vendor who looks.  Keywords, dates *)
(* and the other filters that do not change are left out.                  *)
(***************************************************************************)
EXTENDS StatusMachines

\* How the handlers move a row on: requests also by their documents and by a
\* vendor's rejection; no survey becomes a draft again.
RequestMoves ==
  [ s \in RequestStatuses |-> RequestTransitions[s] \cup
      {"SURVEY_SUBMITTED", "SURVEY_APPROVED", "AWAITING_APPROVAL", "CREATED"} ]
SurveyMoves == [ s \in SurveyStatuses |-> SurveyTransitions[s] \ {"DRAFT"} ]

\* markAsRead and markAllAsRead.
NotificationMoves == [ UNREAD |-> {"READ"}, READ |-> {} ]

\* What the feed shows is written once; its status is the table it is in.
EventSources == {"REQUEST_HISTORY", "ORDER_HISTORY", "ORDER_TIMELINE", "PAYMENT"}

Machines ==
  [ request      |-> RequestMoves,
    survey       |-> SurveyMoves,
    estimate     |-> EstimateTransitions,
    order        |-> WorkOrderTransitions,
    payment      |-> PaymentTransitions,
    invoice      |-> InvoiceTransitions,
    notification |-> NotificationMoves,
    event        |-> [ s \in EventSources |-> {} ] ]

Statuses(of) == DOMAIN Machines[of]

\* A row is "mine" while its request is assigned to the vendor who looks; an
\* order's history goes with the order, which keeps its vendor.
InScope(scope, row) ==
  scope = "assigned" /\ row.status # "ORDER_HISTORY" => row.mine

\* The status a new row has.
Fresh ==
  [ request      |-> {"CREATED"},  survey  |-> {"DRAFT"},
    estimate     |-> {"DRAFT"},    order   |-> {"ASSIGNED"},
    payment      |-> {"PENDING"},  invoice |-> {"ISSUED"},
    notification |-> {"UNREAD"},   event   |-> EventSources ]

-----------------------------------------------------------------------------
\* An endpoint that answers with one row: whom it refuses, and at which status.
Detail(scope, refuses) == [ scope |-> scope, refuses |-> refuses ]

getCustomerRequestById       == Detail("own", {})
getRequestByIdAdmin          == Detail("all", {})
getAssignedRequestByIdVendor == Detail("assigned", {})
getVendorSurveyById          == Detail("own", {})
getSurveyByIdAdmin           == Detail("all", {})
getCustomerSurveyById        == Detail("own", {"DRAFT"})
getVendorEstimateById        == Detail("assigned", {})
getCustomerEstimateById      == Detail("own", {"DRAFT"})
getEstimateByIdAdmin         == Detail("all", {})
getWorkOrderByIdAdmin        == Detail("all", {})
getVendorWorkOrderById       == Detail("own", {})
getCustomerWorkOrderById     == Detail("own", {})
getCustomerPaymentById       == Detail("own", {})
getPaymentByIdAdmin          == Detail("all", {})
getCustomerInvoiceById       == Detail("own", {})
getInvoiceByIdAdmin          == Detail("all", {})
getNotificationById          == Detail("own", {})

\* Where no endpoint opens what is listed.
NoDetail == Detail("all", {})

-----------------------------------------------------------------------------
\* A list: what may be asked for (a status among those it shows, or all of
\* them), whether rows with one sorting value are told apart by id, and what
\* opens from it.  It is answered by two statements, each in its own snapshot.
List(of, scope, opens) ==
  [ of |-> of, scope |-> scope, shows |-> Statuses(of), filtered |-> TRUE,
    stable |-> FALSE, paged |-> TRUE, statements |-> {"count", "find"},
    opens |-> opens ]

\* The customer's lists of documents, which take no status.
Published(of, shows, opens) ==
  [ List(of, "own", opens) EXCEPT !.shows = shows, !.filtered = FALSE ]

getCustomerRequests      == List("request", "own", getCustomerRequestById)
getAllRequestsAdmin      == List("request", "all", getRequestByIdAdmin)
getAssignedRequestsVendor == List("request", "assigned", getAssignedRequestByIdVendor)
getVendorSurveys         == List("survey", "own", getVendorSurveyById)
getAllSurveysAdmin       == List("survey", "all", getSurveyByIdAdmin)
DraftsPublished          == Published("survey", {"DRAFT", "SUBMITTED", "APPROVED"},
                                      getCustomerSurveyById)
getCustomerSurveys       == Published("survey", {"SUBMITTED", "APPROVED"},
                                      getCustomerSurveyById)
getVendorEstimates       == List("estimate", "assigned", getVendorEstimateById)
getCustomerEstimates     == Published("estimate",
                                      {"PENDING_APPROVAL", "APPROVED", "REJECTED"},
                                      getCustomerEstimateById)
getAllEstimatesAdmin     == List("estimate", "all", getEstimateByIdAdmin)
getAllWorkOrdersAdmin    == List("order", "all", getWorkOrderByIdAdmin)
getVendorWorkOrders      == List("order", "own", getVendorWorkOrderById)
getCustomerWorkOrders    == List("order", "own", getCustomerWorkOrderById)
getCustomerPayments      == List("payment", "own", getCustomerPaymentById)
getAllPaymentsAdmin      == List("payment", "all", getPaymentByIdAdmin)
getCustomerInvoices      == List("invoice", "own", getCustomerInvoiceById)
getAllInvoicesAdmin      == List("invoice", "all", getInvoiceByIdAdmin)
getUserNotifications     == List("notification", "own", getNotificationById)
getAllNotificationsAdmin == List("notification", "all", NoDetail)

Lists ==
  { getCustomerRequests, getAllRequestsAdmin, getAssignedRequestsVendor,
    getVendorSurveys, getAllSurveysAdmin, getCustomerSurveys,
    getVendorEstimates, getCustomerEstimates, getAllEstimatesAdmin,
    getAllWorkOrdersAdmin, getVendorWorkOrders, getCustomerWorkOrders,
    getCustomerPayments, getAllPaymentsAdmin,
    getCustomerInvoices, getAllInvoicesAdmin,
    getUserNotifications, getAllNotificationsAdmin }

-----------------------------------------------------------------------------
\* The scopes FilterBuilderService gives the roles, by kind.
Everyone == {"all", "own", "assigned"}
buildServiceRequestWhere == Everyone
buildSurveyWhere         == Everyone
buildEstimateWhere       == Everyone
buildWorkOrderWhere      == {"all", "own"}
buildPaymentWhere        == Everyone
buildInvoiceWhere        == Everyone
buildNotificationWhere   == {"all", "own"}

\* SortingService.getOrderBy: the id is the last column of the order.
getOrderBy(list) == [ list EXCEPT !.stable = TRUE ]

Search(of, scopes) == { getOrderBy(List(of, scope, NoDetail)) : scope \in scopes }

searchServiceRequests == Search("request", buildServiceRequestWhere)
searchSurveys         == Search("survey", buildSurveyWhere)
searchEstimates       == Search("estimate", buildEstimateWhere)
searchWorkOrders      == Search("order", buildWorkOrderWhere)
searchPayments        == Search("payment", buildPaymentWhere)
searchInvoices        == Search("invoice", buildInvoiceWhere)
searchNotifications   == Search("notification", buildNotificationWhere)

SearchLists ==
  searchServiceRequests \cup searchSurveys \cup searchEstimates \cup
  searchWorkOrders \cup searchPayments \cup searchInvoices \cup searchNotifications

-----------------------------------------------------------------------------
\* The feed of activity, or one source of it: each source is a statement of its
\* own, and what they answer is put into one order, with the id last.
Feed(scope, sources) ==
  [ of |-> "event", scope |-> scope, shows |-> sources, filtered |-> TRUE,
    stable |-> TRUE, paged |-> TRUE, statements |-> sources, opens |-> NoDetail ]

getTimeline ==
  { Feed(scope, {"REQUEST_HISTORY", "ORDER_HISTORY", "PAYMENT"}) : scope \in Everyone }

\* The history of one request, or of one order, as a whole.
History(sources) ==
  [ Feed("all", sources) EXCEPT !.filtered = FALSE, !.paged = FALSE ]

getEntityHistory ==
  { History({"REQUEST_HISTORY"}), History({"ORDER_HISTORY", "ORDER_TIMELINE"}) }

\* The sources that are read before a source.
ReadBefore ==
  [ REQUEST_HISTORY |-> {},
    ORDER_HISTORY   |-> {"REQUEST_HISTORY"},
    ORDER_TIMELINE  |-> {"ORDER_HISTORY"},
    PAYMENT         |-> {"REQUEST_HISTORY", "ORDER_HISTORY"} ]

Endpoints == Lists \cup SearchLists \cup getTimeline \cup getEntityHistory

=============================================================================
