------------------------------ MODULE Pricing -------------------------------
(***************************************************************************)
(* EstimatesService and PricingCalculatorService: the line items of one    *)
(* estimate, its totals, and its submission.                               *)
(*                                                                         *)
(* A handler finds the estimate a draft, then opens a transaction at READ  *)
(* COMMITTED that changes an item, reads the items and the stored discount *)
(* and writes all the totals.  It sees its own change, but none that is    *)
(* not committed yet; rows it has changed are locked until its end.        *)
(*                                                                         *)
(* Prices and discounts are in cents, quantities in hundredths, as their   *)
(* columns store them (bound: they are given with no more decimals), and   *)
(* rounded to cents is what the code rounds.  All items have the same unit *)
(* price and tax rate, a whole percentage.  How an estimate comes to be,   *)
(* and the answer of the customer, are in Estimates.                       *)
(***************************************************************************)
EXTENDS Integers, FiniteSetsExt

CONSTANTS
  Items,        \* bound: items the estimate ever has
  NoItem,       \* a handler that changes no item
  Quantities,   \* bound: quantities an item is given
  UnitPrice, TaxRate,
  Discounts,    \* bound: discounts given to an item, or to the estimate
  MaxDiscount,  \* bound: no recalculation beyond this stored discount
  Calls         \* handlers that may be in flight at once

VARIABLES
  draft,    \* whether the status is DRAFT
  items,    \* the estimate_items rows
  totals,   \* the amounts of the estimates row
  agreed,   \* the overall discount the vendor last gave
  calls     \* what each handler has read, written and is about to commit

vars == <<draft, items, totals, agreed, calls>>

ItemRows == [ on : BOOLEAN, qty : Nat, disc : Nat, total : Int ]
NoRow == [ on |-> FALSE, qty |-> 0, disc |-> 0, total |-> 0 ]

Totals == [ subtotal : Nat, tax : Nat, discount : Nat, total : Nat ]
NoTotals == [ subtotal |-> 0, tax |-> 0, discount |-> 0, total |-> 0 ]

\* A handler has its operation, the item, the field an update gives and the row
\* it makes of what it read (for "discount", the discount, as its disc); once
\* the transaction has written, the row and the totals as they will be.  It is
\* undisturbed as long as no other handler has committed.
CallStates ==
  [ op          : {"none", "create", "update", "delete",
                   "discount", "terms", "submit"},
    written     : BOOLEAN,
    undisturbed : BOOLEAN,
    item        : Items \cup {NoItem},
    given       : {"none", "qty", "disc"},
    row         : ItemRows,
    totals      : Totals ]

NoItems == [i \in Items |-> NoRow]

NoCall ==
  [ op |-> "none", written |-> FALSE, undisturbed |-> TRUE, item |-> NoItem,
    given |-> "none", row |-> NoRow, totals |-> NoTotals ]

\* One type invariant: the rows and what every handler holds.
TypeOK ==
  /\ draft \in BOOLEAN
  /\ items \in [Items -> ItemRows]
  /\ totals \in Totals
  /\ agreed \in Nat
  /\ calls \in [Calls -> CallStates]

\* createOrVersionEstimateVendor stores the discount it is given.
Init ==
  /\ draft = TRUE
  /\ items = NoItems
  /\ agreed \in Discounts \cup {0}
  /\ totals = [NoTotals EXCEPT !.discount = agreed]
  /\ calls = [c \in Calls |-> NoCall]

-----------------------------------------------------------------------------
\* toFixed(2) of an exact amount, which is in ten-thousandths of a cent: halves
\* are rounded away from zero.
Cents(x) ==
  IF x >= 0 THEN (x + 5000) \div 10000 ELSE -((5000 - x) \div 10000)

\* calculateLineItem: the tax of what is left after the discount, if anything;
\* each result is rounded, the total not from rounded ones.
Subtotal(qty) == 100 * qty * UnitPrice
Taxable(qty, disc) == Subtotal(qty) - 10000 * disc
Tax(qty, disc) ==
  IF Taxable(qty, disc) > 0 THEN (Taxable(qty, disc) * TaxRate) \div 100 ELSE 0
LineTax(qty, disc) == Cents(Tax(qty, disc))
LineTotal(qty, disc) == Cents(Taxable(qty, disc) + Tax(qty, disc))

\* calculateEstimateTotals: the exact subtotals, the rounded taxes, the items'
\* discounts and the overall one together, no total below zero, and each sum
\* rounded once.
Sum(its, Amount(_)) == MapThenSumSet(Amount, { i \in Items : its[i].on })

EstimateTotals(its, overall) ==
  LET ItemSubtotal(i) == Subtotal(its[i].qty)
      ItemTax(i) == LineTax(its[i].qty, its[i].disc)
      ItemDiscount(i) == its[i].disc
      subtotal == Sum(its, ItemSubtotal)
      tax == Sum(its, ItemTax)
      discount == Sum(its, ItemDiscount) + overall
      total == subtotal + 10000 * (tax - discount)
  IN [ subtotal |-> Cents(subtotal), tax |-> tax, discount |-> discount,
       total |-> IF total < 0 THEN 0 ELSE Cents(total) ]

-----------------------------------------------------------------------------
Idle(c) == calls[c].op = "none"

Hold(c, op, i, given, row) ==
  /\ Idle(c)
  /\ draft
  /\ calls' = [calls EXCEPT ![c] =
                 [NoCall EXCEPT !.op = op, !.item = i, !.given = given, !.row = row]]
  /\ UNCHANGED <<draft, items, totals, agreed>>

Finish(c) == calls' = [calls EXCEPT ![c] = NoCall]

\* A handler commits: whatever else is in flight has been disturbed.
FinishCommitted(c) ==
  calls' = [d \in Calls |->
              IF d = c THEN NoCall
              ELSE [calls[d] EXCEPT !.undisturbed = Idle(d)]]

Row(qty, disc) ==
  [ on |-> TRUE, qty |-> qty, disc |-> disc, total |-> LineTotal(qty, disc) ]

\* createEstimateItemVendor, up to the transaction.
ReadForCreateItem(c, i) ==
  /\ ~items[i].on
  /\ \A d \in Calls : calls[d].item # i
  /\ \E q \in Quantities, d \in Discounts : Hold(c, "create", i, "none", Row(q, d))

\* updateEstimateItemVendor: the line's total is computed from the field given
\* and, for the other, from what has been read.  (Bound: one field at a time.)
ReadForUpdateItem(c, i) ==
  /\ items[i].on
  /\ \/ \E q \in Quantities : Hold(c, "update", i, "qty", Row(q, items[i].disc))
     \/ \E d \in Discounts : Hold(c, "update", i, "disc", Row(items[i].qty, d))

\* deleteEstimateItemVendor.
ReadForDeleteItem(c, i) == items[i].on /\ Hold(c, "delete", i, "none", NoRow)

\* updateEstimateVendor, with and without a discount.
ReadForUpdate(c) ==
  \/ Hold(c, "terms", NoItem, "none", NoRow)
  \/ \E d \in Discounts : Hold(c, "discount", NoItem, "none", [NoRow EXCEPT !.disc = d])

\* submitEstimateVendor: something is quoted.
AnyQuotation == TRUE
Submittable == (\E i \in Items : items[i].on) /\ totals.total > 0
ReadForSubmit(c) == Submittable /\ Hold(c, "submit", NoItem, "none", NoRow)

\* The row an item's change leaves: an update writes the field it is given, and
\* the line's total.
Written(call) ==
  [ on    |-> call.row.on,
    qty   |-> IF call.given = "disc" THEN items[call.item].qty ELSE call.row.qty,
    disc  |-> IF call.given = "qty" THEN items[call.item].disc ELSE call.row.disc,
    total |-> call.row.total ]

\* Another transaction has changed the item and not committed yet.
Locked(c) ==
  \E d \in Calls \ {c} : calls[d].written /\ calls[d].item # NoItem
                           /\ calls[d].item = calls[c].item

\* updateEstimateVendor writes the estimate's row first and so keeps it locked.
RowLocked(c) ==
  \E d \in Calls \ {c} : calls[d].written /\ calls[d].op \in {"discount", "terms"}

\* The transaction changes the item, which must still be there, and
\* recalculateAndUpdateEstimateTotals reads what is committed and that change.
OverallForgotten(call) == IF call.op = "discount" THEN call.row.disc ELSE 0
Overall(call) ==
  IF call.op = "discount" THEN call.row.disc ELSE totals.discount

RecalculatedAfter(its, changed) == changed

Recalculate(c) ==
  LET call == calls[c]
      row == Written(call)
      its == IF call.item = NoItem THEN items ELSE [items EXCEPT ![call.item] = row]
  IN /\ call.op \in {"create", "update", "delete", "discount", "terms"}
     /\ ~call.written
     /\ ~Locked(c)
     /\ call.op \in {"discount", "terms"} => ~RowLocked(c)
     /\ call.op \in {"update", "delete"} => items[call.item].on
     /\ Overall(call) <= MaxDiscount
     /\ calls' = [calls EXCEPT ![c] =
                    [call EXCEPT !.written = TRUE, !.given = "none", !.row = row,
                       !.totals = EstimateTotals(RecalculatedAfter(items, its),
                                                 Overall(call))]]
     /\ UNCHANGED <<draft, items, totals, agreed>>

\* The totals are written, and the transaction commits.
Commit(c) ==
  LET call == calls[c]
  IN /\ call.written
     /\ ~RowLocked(c)
     /\ items' = IF call.item = NoItem THEN items
                 ELSE [items EXCEPT ![call.item] = call.row]
     /\ totals' = call.totals
     /\ agreed' = IF call.op = "discount" THEN call.row.disc ELSE agreed
     /\ FinishCommitted(c)
     /\ UNCHANGED draft

\* EstimateStateService.transitionStatus, to PENDING_APPROVAL.
CommitSubmit(c) ==
  /\ calls[c].op = "submit"
  /\ ~RowLocked(c)
  /\ draft' = FALSE
  /\ FinishCommitted(c)
  /\ UNCHANGED <<items, totals, agreed>>

\* A handler ends without committing.
Abort(c) ==
  /\ ~Idle(c)
  /\ Finish(c)
  /\ UNCHANGED <<draft, items, totals, agreed>>

Next ==
  \E c \in Calls :
    \/ \E i \in Items :
         ReadForCreateItem(c, i) \/ ReadForUpdateItem(c, i) \/ ReadForDeleteItem(c, i)
    \/ ReadForUpdate(c) \/ ReadForSubmit(c)
    \/ Recalculate(c) \/ Commit(c) \/ CommitSubmit(c) \/ Abort(c)

Spec == Init /\ [][Next]_vars

-----------------------------------------------------------------------------
\* The amounts of the estimate are those of its lines, as the customer adds them
\* up: the tax is that of the lines to the cent, and the total that of the lines
\* less the overall part of the discount, but never below zero.  Lines and
\* estimate are rounded apart, so the total may be a cent off for every line.
LineTotalsExact ==
  \A i \in Items : items[i].on => items[i].total = LineTotal(items[i].qty, items[i].disc)

TotalsAddUp ==
  LET ItemTax(i) == LineTax(items[i].qty, items[i].disc)
      ItemTotal(i) == LineTotal(items[i].qty, items[i].disc)
      ItemDiscount(i) == items[i].disc
      due == Sum(items, ItemTotal) - (totals.discount - Sum(items, ItemDiscount))
      lines == Cardinality({i \in Items : items[i].on})
  IN /\ totals.tax = Sum(items, ItemTax)
     /\ totals.total \in Max({due, 0}) - lines .. Max({due, 0}) + lines


\* A quotation is submitted with something in it and a price above zero, unless
\* a change is committed between the check and the submission.
UndisturbedSubmissionsArePriced ==
  [][ \A c \in Calls :
        draft /\ ~draft' /\ calls[c].op = "submit" /\ calls'[c].op = "none"
          /\ calls[c].undisturbed
          => (\E i \in Items : items[i].on) /\ totals.total > 0 ]_vars

\* What is stored as the estimate's discount is the overall one and those of its
\* items, and the next recalculation takes the sum for the overall one: it only
\* grows.  At least it is never less than the vendor agreed to and the items
\* say, unless changes that overlap have lost a part of it.
DiscountGranted ==
  LET Disc(i) == items[i].disc
  IN totals.discount >= agreed + Sum(items, Disc)

UndisturbedChangesKeepDiscount ==
  [][ \A c \in Calls :
        calls[c].written /\ calls[c].undisturbed /\ calls'[c].op = "none"
          /\ (items' # items \/ totals' # totals)
          => (DiscountGranted => DiscountGranted') ]_vars

=============================================================================
