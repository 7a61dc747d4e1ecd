----------------------------- MODULE Documents ------------------------------
(***************************************************************************)
(* What is in the documents of a request until they are submitted: the     *)
(* surveys with their inspections, and the items and totals of one         *)
(* estimate.  The handlers of the one never touch the other (what ties     *)
(* them together is in Estimates), so a behaviour is one of the two.       *)
(***************************************************************************)
EXTENDS Inspections

CONSTANTS Items, NoItem, Quantities, UnitPrice, TaxRate, Discounts, MaxDiscount,
          QuotationCalls

ASSUME NoItemAssumption == NoItem \notin Items
ASSUME AmountsAssumption ==
  /\ Quantities \subseteq Nat
  /\ Discounts \subseteq Nat
  /\ UnitPrice \in Nat /\ TaxRate \in Nat /\ MaxDiscount \in Nat

VARIABLES
  draft, items, totals, agreed, quotationCalls,   \* those of Pricing
  document                                        \* which the behaviour is about

Quotation ==
  INSTANCE Pricing WITH Calls <- QuotationCalls, calls <- quotationCalls

quotationVars == <<draft, items, totals, agreed, quotationCalls>>
documentVars == <<inspectionVars, quotationVars, document>>

\* One type invariant for both.
DocumentsTypeOK ==
  /\ InspectionTypeOK
  /\ Quotation!TypeOK
  /\ document \in {"survey", "estimate"}

DocumentsInit ==
  /\ InspectionInit
  /\ Quotation!Init
  /\ document \in {"survey", "estimate"}
  /\ document = "survey" => agreed = 0    \* of no matter to a survey

DocumentsNext ==
  \/ document = "survey" /\ InspectionNext /\ UNCHANGED <<quotationVars, document>>
  \/ document = "estimate" /\ Quotation!Next /\ UNCHANGED <<inspectionVars, document>>

DocumentsSpec == DocumentsInit /\ [][DocumentsNext]_documentVars

-----------------------------------------------------------------------------

\* takes no granted discount back,
UndisturbedChangesKeepDiscount == Quotation!UndisturbedChangesKeepDiscount

\* and a quotation is submitted with something in it and a price.
UndisturbedSubmissionsArePriced == Quotation!UndisturbedSubmissionsArePriced

=============================================================================
