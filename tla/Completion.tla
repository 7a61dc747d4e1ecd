----------------------------- MODULE Completion -----------------------------
(***************************************************************************)
(* WorkOrders with a history: which completions in flight were checked     *)
(* before their order's checklist changed.  completeWorkVendor validates   *)
(* the tasks and photos it reads before its transaction, and the version   *)
(* it compares there is the order's, which no checklist write changes.     *)
(***************************************************************************)
EXTENDS WorkOrders

VARIABLE outdated   \* the completions in flight whose check no longer holds

completionVars == <<vars, outdated>>

Completing(c) ==
  /\ calls[c].to = "COMPLETED"
  /\ \/ calls[c].op = "transition" /\ calls[c].from = "IN_PROGRESS"
     \/ calls[c].op = "sync" /\ orders[calls[c].order].status = "IN_PROGRESS"

ChecklistChanges(w) ==
  orders'[w].todo # orders[w].todo \/ orders'[w].photo # orders[w].photo

CompletionInit == Init /\ outdated = {}

CompletionNext ==
  /\ Next
  /\ outdated' =
       {c \in Calls : /\ Completing(c) /\ Completing(c)'
                      /\ c \in outdated \/ ChecklistChanges(calls[c].order)}

CompletionSpec == CompletionInit /\ [][CompletionNext]_completionVars

-----------------------------------------------------------------------------
\* A work order is completed with every task done and a photo, unless a task or
\* an attachment was written between the check and the commit: nothing else
\* that vendor, admin and the rest of the backend do at once, no pause and no
\* second completion, lets an order be completed that is not done.
OrdersAreCompletedDone ==
  [][ \A w \in Orders :
        orders[w].status = "IN_PROGRESS" /\ orders'[w].status = "COMPLETED"
          => \/ ~orders'[w].todo /\ orders'[w].photo
             \/ \E c \in outdated : calls[c].order = w /\ calls'[c].op = "none"
     ]_completionVars

=============================================================================
