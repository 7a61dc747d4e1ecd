--------------------------- MODULE Payments_proofs ---------------------------
(***************************************************************************)
(* Payments and their invoices, for any number of vendors, payments,       *)
(* invocations, attempts and announcements.                                *)
(*                                                                         *)
(* That payments follow their table although a commit is decided on an old *)
(* snapshot needs the snapshot's worth to be known: while the payment has  *)
(* the version that was read, it has the status that was read, and from    *)
(* its update to the commit it is locked (SyncHolds, OneLock).             *)
(*                                                                         *)
(* An invoice needs no such thing: what it rests on, a payment that was    *)
(* settled, no step undoes.  A request is paid once because, unless        *)
(* initiations raced, one payment at most is pending or settled.           *)
(***************************************************************************)
EXTENDS Invoices, RequestRow_proofs

USE PaymentsAssumption, MaxAttemptsAssumption, MaxPaymentVersionAssumption

LEMMA PaymentTableTyped ==
  /\ PaymentStatuses = {"PENDING", "PROCESSING", "SUCCESS", "FAILED", "REFUNDED"}
  /\ \A s \in PaymentStatuses : PaymentTransitions[s] \subseteq PaymentStatuses
  /\ \A s \in PaymentStatuses : "NONE" \notin PaymentTransitions[s]
<1>1. PaymentStatuses = {"PENDING", "PROCESSING", "SUCCESS", "FAILED", "REFUNDED"}
  BY DEF PaymentStatuses, PaymentTransitions
<1> QED
  BY <1>1 DEF PaymentTransitions

\* The snapshot of a payment that an invocation is about to move.
SnapshotHolds(call) ==
  call.op = "transition" =>
    /\ call.payment \in Payments
    /\ call.to \in {"SUCCESS", "FAILED"}
    /\ Exists(call.payment)
    /\ call.count <= payments[call.payment].version
    /\ call.count = payments[call.payment].version
         => call.from = payments[call.payment].status

\* The payment a transaction has updated, and the request it has read since.
SyncHolds(call) ==
  call.op = "sync" =>
    /\ call.payment \in Payments
    /\ call.to \in {"SUCCESS", "FAILED"}
    /\ call.to \in PaymentTransitions[payments[call.payment].status]
    /\ Exists(call.payment)
    /\ payments[call.payment].version < MaxPaymentVersion
    /\ call.from \in RequestStatuses
    /\ call.count <= version
    /\ call.count = version => call.from \in held

CallHolds(call) == SnapshotHolds(call) /\ SyncHolds(call)

\* A payment is locked by one transaction.
OneLock ==
  \A c, d \in Calls :
    calls[c].op = "sync" /\ calls[d].op = "sync" /\ calls[c].payment = calls[d].payment
      => c = d

\* The inductive invariant.
IInv == TypeOK /\ OneLock /\ \A c \in Calls : CallHolds(calls[c])

-----------------------------------------------------------------------------
LEMMA InitIInv == Init => IInv
BY RequestTableTyped, PaymentTableTyped, MaxVersionAssumption
   DEF Init, RowInit, IInv, TypeOK, RowTypeOK, Assignable, PaymentRows, Unused,
       CallStates, NoCall, OneLock, CallHolds, SnapshotHolds, SyncHolds

\* What a step does to a payment: nothing, or it appears, or it moves along its
\* table with a new version.
Moved(p) ==
  \/ payments'[p] = payments[p]
  \/ ~Exists(p) /\ payments'[p] = [ status |-> "PENDING", version |-> 1 ]
  \/ /\ Exists(p)
     /\ payments'[p].status \in PaymentTransitions[payments[p].status]
     /\ payments'[p].status \in {"SUCCESS", "FAILED"}
     /\ payments'[p].version = payments[p].version + 1

PaymentsMove ==
  /\ payments' \in [Payments -> PaymentRows]
  /\ \A p \in Payments : Moved(p)

LEMMA InitiationMovesPayments ==
  ASSUME IInv, NEW c \in Calls, CommitInitiate(c)
  PROVE  PaymentsMove
<1>1. PICK p \in Payments :
        /\ ~Exists(p)
        /\ payments' = [payments EXCEPT ![p] =
                          [ status |-> "PENDING", version |-> 1 ]]
  BY DEF CommitInitiate
<1> QED
  BY <1>1, PaymentTableTyped DEF IInv, TypeOK, PaymentRows, PaymentsMove, Moved

LEMMA TransitionMovesPayments ==
  ASSUME IInv, NEW c \in Calls, CommitTransition(c)
  PROVE  /\ PaymentsMove
         /\ calls[c].payment \in Payments
         /\ payments'[calls[c].payment].status = calls[c].to
         /\ \A p \in Payments \ {calls[c].payment} : payments'[p] = payments[p]
<1> DEFINE p == calls[c].payment
           to == calls[c].to
<1>1. /\ p \in Payments
      /\ Exists(p)
      /\ to \in PaymentTransitions[payments[p].status]
      /\ to \in {"SUCCESS", "FAILED"}
      /\ payments[p].version < MaxPaymentVersion
  BY DEF CommitTransition, IInv, CallHolds, SyncHolds
<1>2. /\ payments \in [Payments -> PaymentRows]
      /\ payments[p].status \in PaymentStatuses
      /\ payments[p].version \in 0..MaxPaymentVersion
  BY <1>1 DEF IInv, TypeOK, PaymentRows, Exists
<1>3. to \in PaymentStatuses
  BY <1>1, PaymentTableTyped
<1>4. payments' = [payments EXCEPT ![p] =
                     [ status |-> to, version |-> payments[p].version + 1 ]]
  BY <1>1 DEF CommitTransition, IInv, TypeOK
<1> QED
  BY <1>1, <1>2, <1>3, <1>4 DEF PaymentRows, PaymentsMove, Moved

LEMMA OtherStepsKeepPayments ==
  ASSUME IInv, [Next]_vars,
         \A c \in Calls : ~CommitInitiate(c) /\ ~CommitTransition(c)
  PROVE  payments' = payments
BY DEF Next, vars, UpdatePayment, CommitWebhook, Abort, ReadForInitiate, ReadForVerify,
       ReadForReconcile, ReadForWebhook, Hold, Capture, Outside, paymentVars

LEMMA PaymentsMoveForward == IInv /\ [Next]_vars => PaymentsMove
<1> SUFFICES ASSUME IInv, [Next]_vars
             PROVE  PaymentsMove
  OBVIOUS
<1>1. CASE payments' = payments
  BY <1>1 DEF PaymentsMove, Moved, IInv, TypeOK
<1> QED
  BY <1>1, InitiationMovesPayments, TransitionMovesPayments,
     OtherStepsKeepPayments

\* Every step on the request is a step of the abstract row.
LEMMA StepsImplementRow == IInv /\ [Next]_vars => [RowNext]_row
<1> SUFFICES ASSUME IInv, [Next]_vars
             PROVE  [RowNext]_row
  OBVIOUS
<1>1. ASSUME NEW c \in Calls, CommitTransition(c)
      PROVE  [RowNext]_row
  <2>1. calls[c].op = "sync" /\ SyncRequest(c) /\ SyncHolds(calls[c])
    BY <1>1 DEF CommitTransition, IInv, CallHolds
  <2>2. ASSUME VersionedWrite(calls[c].from, "COMPLETED", calls[c].count, Keep)
        PROVE  Transition
    <3>1. calls[c].count = version /\ calls[c].from \in held
      BY <2>1, <2>2 DEF VersionedWrite, VersionMatches, SyncHolds
    <3> QED
      BY <2>2, <3>1, RequestTableTyped, VendorsAssumption DEF Transition
  <2> QED
    BY <2>1, <2>2 DEF SyncRequest, RowNext
<1>2. ASSUME Outside
      PROVE  RowNext
  BY <1>2 DEF Outside
<1> QED
  BY <1>1, <1>2
     DEF Next, vars, row, Hold, ReadForInitiate, CommitInitiate, UpdatePayment,
         CommitWebhook, Abort, ReadForVerify, ReadForReconcile, ReadForWebhook, Capture

-----------------------------------------------------------------------------
\* The steps in which an invocation only reads: what it then holds is true.
Reads(c) ==
  \/ ReadForInitiate(c)
  \/ \E p \in Payments :
       ReadForVerify(c, p) \/ ReadForReconcile(c, p) \/ ReadForWebhook(c, p)

LEMMA ReadsHold ==
  ASSUME IInv, NEW c \in Calls, Reads(c)
  PROVE  /\ UNCHANGED <<row, payments, captured>>
         /\ \A d \in Calls \ {c} : calls'[d] = calls[d]
         /\ calls' \in [Calls -> CallStates]
         /\ CallHolds(calls'[c])
         /\ calls'[c].op # "sync"
<1> DEFINE Goal == /\ UNCHANGED <<row, payments, captured>>
                   /\ \A d \in Calls \ {c} : calls'[d] = calls[d]
                   /\ calls' \in [Calls -> CallStates]
                   /\ CallHolds(calls'[c])
                   /\ calls'[c].op # "sync"
<1> USE PaymentTableTyped
    DEF IInv, TypeOK, CallStates, PaymentRows, CallHolds, SnapshotHolds,
        SyncHolds, Hold, Exists
<1>1. CASE ReadForInitiate(c)
  BY <1>1 DEF ReadForInitiate
<1>2. ASSUME NEW p \in Payments, NEW op \in {"transition", "webhook"},
             NEW to \in {"SUCCESS", "FAILED"},
             Exists(p), Hold(c, op, p, to, payments[p].version)
      PROVE  Goal
  BY <1>2
<1> QED
  BY <1>1, <1>2 DEF Reads, ReadForVerify, ReadForReconcile, ReadForWebhook

\* A payment that a transaction has updated stays as it is until that one ends.
LEMMA LockedPaymentsKept ==
  ASSUME IInv, [Next]_vars,
         NEW d \in Calls, calls[d].op = "sync", calls'[d] = calls[d]
  PROVE  payments'[calls[d].payment] = payments[calls[d].payment]
<1> DEFINE p == calls[d].payment
<1>1. p \in Payments /\ Exists(p)
  BY DEF IInv, CallHolds, SyncHolds
<1>2. ASSUME NEW c \in Calls, CommitInitiate(c)
      PROVE  payments'[p] = payments[p]
  BY <1>1, <1>2 DEF CommitInitiate, IInv, TypeOK
<1>3. ASSUME NEW c \in Calls, CommitTransition(c)
      PROVE  payments'[p] = payments[p]
  <2>1. c # d
    BY <1>3 DEF CommitTransition, Finish, NoCall, IInv, TypeOK
  <2>2. calls[c].payment # p
    BY <1>3, <2>1 DEF CommitTransition, IInv, OneLock
  <2> QED
    BY <1>1, <1>3, <2>2, TransitionMovesPayments
<1> QED
  BY <1>2, <1>3, OtherStepsKeepPayments

\* A snapshot that holds goes on holding.
LEMMA SnapshotsKept ==
  ASSUME IInv, PaymentsMove, NEW c \in Calls, calls'[c] = calls[c]
  PROVE  SnapshotHolds(calls[c])'
<1>1. SUFFICES ASSUME calls[c].op = "transition"
               PROVE  SnapshotHolds(calls[c])'
  BY DEF SnapshotHolds
<1> DEFINE p == calls[c].payment
<1>2. /\ p \in Payments
      /\ calls[c].to \in {"SUCCESS", "FAILED"}
      /\ Exists(p)
      /\ calls[c].count <= payments[p].version
      /\ calls[c].count = payments[p].version => calls[c].from = payments[p].status
      /\ Moved(p)
  BY <1>1 DEF IInv, CallHolds, SnapshotHolds, PaymentsMove
<1>3. /\ calls[c].count \in Nat
      /\ payments[p].version \in Nat
      /\ payments[p].status \in PaymentStatuses
  BY <1>2 DEF IInv, TypeOK, CallStates, PaymentRows, Exists
<1> QED
  BY <1>2, <1>3, PaymentTableTyped DEF Moved, Exists, SnapshotHolds

LEMMA SyncsKept ==
  ASSUME IInv, [Next]_vars, NEW d \in Calls, calls'[d] = calls[d]
  PROVE  SyncHolds(calls[d])'
<1> SUFFICES ASSUME calls[d].op = "sync"
             PROVE  SyncHolds(calls[d])'
  BY DEF SyncHolds
<1>1. /\ \/ version' = version /\ held \subseteq held'
         \/ version' = version + 1
      /\ version \in Nat /\ calls[d].count \in Nat
  BY StepsImplementRow, RowMovesForward DEF IInv, TypeOK, RowTypeOK, CallStates
<1>2. SyncHolds(calls[d]) /\ payments'[calls[d].payment] = payments[calls[d].payment]
  BY LockedPaymentsKept DEF IInv, CallHolds
<1> QED
  BY <1>1, <1>2 DEF SyncHolds, Exists

LEMMA NextCallsHold ==
  IInv /\ [Next]_vars
    => /\ calls' \in [Calls -> CallStates]
       /\ OneLock'
       /\ \A c \in Calls : CallHolds(calls[c])'
<1> SUFFICES ASSUME IInv, [Next]_vars
             PROVE  /\ calls' \in [Calls -> CallStates]
                    /\ OneLock'
                    /\ \A c \in Calls : CallHolds(calls[c])'
  OBVIOUS
<1> DEFINE Goal(c) == /\ \A d \in Calls \ {c} : calls'[d] = calls[d]
                      /\ calls' \in [Calls -> CallStates]
                      /\ CallHolds(calls[c])'
                      /\ calls'[c].op = "sync" => ~Locked(calls'[c].payment)
<1>1. ASSUME NEW c \in Calls, Reads(c)
      PROVE  Goal(c)
  <2>1. CallHolds(calls[c])'
    BY <1>1, ReadsHold DEF CallHolds, SnapshotHolds, SyncHolds, Exists
  <2> QED
    BY <1>1, <2>1, ReadsHold
<1>2. ASSUME NEW c \in Calls, NEW call \in CallStates,
             call.op \notin {"transition", "sync"},
             calls' = [calls EXCEPT ![c] = call]
      PROVE  Goal(c)
  BY <1>2 DEF CallHolds, SnapshotHolds, SyncHolds, IInv, TypeOK
<1>3. ASSUME NEW c \in Calls, Finish(c)
      PROVE  Goal(c)
  <2>1. NoCall \in CallStates /\ NoCall.op = "none"
    BY PaymentTableTyped DEF NoCall, CallStates
  <2> QED
    BY <1>2, <1>3, <2>1 DEF Finish
<1>4. ASSUME NEW c \in Calls, CommitInitiate(c)
      PROVE  Goal(c)
  <2>1. CASE Finish(c)
    BY <1>3, <2>1
  <2>2. CASE ~Finish(c)
    <3> DEFINE again == [ op |-> "initiate", payment |-> NoPayment,
                          from |-> "PENDING", to |-> "PENDING",
                          count |-> calls[c].count + 1 ]
    <3>1. /\ calls[c].count < MaxAttempts
          /\ calls' = [calls EXCEPT ![c] = again]
      BY <1>4, <2>2 DEF CommitInitiate, IInv, TypeOK
    <3>2. calls[c].count \in Nat
      BY DEF IInv, TypeOK, CallStates
    <3>3. again \in CallStates /\ again.op = "initiate"
      BY <3>1, <3>2, PaymentTableTyped DEF CallStates
    <3> QED
      BY <1>2, <3>1, <3>3
  <2> QED
    BY <2>1, <2>2
<1>5. ASSUME NEW c \in Calls, UpdatePayment(c)
      PROVE  Goal(c)
  <2> DEFINE p == calls[c].payment
             call == [ op |-> "sync", payment |-> p, from |-> status,
                       to |-> calls[c].to, count |-> version ]
  <2>1. /\ p \in Payments /\ Exists(p)
        /\ calls[c].to \in {"SUCCESS", "FAILED"}
        /\ calls[c].to \in PaymentTransitions[payments[p].status]
        /\ payments[p].version < MaxPaymentVersion
    BY <1>5 DEF UpdatePayment, PaymentVersionMatches, IInv, CallHolds, SnapshotHolds
  <2>2. /\ calls' = [calls EXCEPT ![c] = call]
        /\ UNCHANGED <<row, payments>>
        /\ ~Locked(p)
    BY <1>5 DEF UpdatePayment
  <2>3. status \in RequestStatuses /\ version \in 0..MaxVersion /\ status \in held
    BY DEF IInv, TypeOK, RowTypeOK
  <2>4. call \in CallStates
    BY <2>1, <2>3, PaymentTableTyped DEF CallStates
  <2>5. calls'[c] = call
    BY <2>2 DEF IInv, TypeOK
  <2>6. CallHolds(calls[c])'
    BY <2>1, <2>2, <2>3, <2>5 DEF CallHolds, SnapshotHolds, SyncHolds, Exists, row
  <2> QED
    BY <2>2, <2>4, <2>5, <2>6 DEF IInv, TypeOK
<1>6. UNCHANGED calls \/ \E c \in Calls : Goal(c)
  <2>1. \/ UNCHANGED calls
        \/ \E c \in Calls : \/ Reads(c) \/ Finish(c) \/ CommitInitiate(c)
                            \/ UpdatePayment(c)
    BY DEF Next, vars, Reads, CommitTransition, CommitWebhook, Abort, Capture,
           Outside, paymentVars
  <2> HIDE DEF Goal
  <2> QED
    BY <1>1, <1>3, <1>4, <1>5, <2>1
<1>7. ASSUME NEW d \in Calls, calls'[d] = calls[d]
      PROVE  CallHolds(calls[d])'
  BY <1>7, PaymentsMoveForward, SnapshotsKept, SyncsKept DEF CallHolds
<1>8. calls' \in [Calls -> CallStates] /\ \A c \in Calls : CallHolds(calls[c])'
  BY <1>6, <1>7 DEF IInv, TypeOK
<1>9. OneLock'
  BY <1>6 DEF OneLock, Locked, IInv
<1> QED
  BY <1>8, <1>9

LEMMA StepsKeepIInv == IInv /\ [Next]_vars => IInv'
<1>1. ASSUME IInv, [Next]_vars
      PROVE  captured' \in SUBSET Payments
  <2>1. CASE captured' = captured
    BY <1>1, <2>1 DEF IInv, TypeOK
  <2>2. ASSUME NEW p \in Payments, Capture(p)
        PROVE  captured' \in SUBSET Payments
    BY <1>1, <2>2 DEF Capture, IInv, TypeOK
  <2> QED
    BY <1>1, <2>1, <2>2
       DEF Next, vars, CommitInitiate, UpdatePayment, CommitTransition,
           CommitWebhook, Abort, ReadForInitiate, ReadForVerify, ReadForReconcile, ReadForWebhook,
           Hold, Outside, paymentVars
<1> QED
  BY <1>1, NextCallsHold, PaymentsMoveForward, StepsImplementRow, RowStepTyped
     DEF IInv, TypeOK, PaymentsMove

THEOREM Invariance == Spec => []IInv
BY InitIInv, StepsKeepIInv, PTL DEF Spec

-----------------------------------------------------------------------------
\* Type correctness of the payments, the request and what invocations hold.
THEOREM TypeCorrect == Spec => []TypeOK
<1>1. IInv => TypeOK
  BY DEF IInv
<1> QED
  BY Invariance, <1>1, PTL

\* Payments implement the abstract row.
THEOREM PaymentsImplementRow == Spec => RowSpec
<1>1. Init => RowInit
  BY DEF Init
<1> QED
  BY Invariance, <1>1, StepsImplementRow, PTL DEF Spec, RowSpec

\* A payment moves along its table from the status it really has, and the
\* version counts its moves.
THEOREM PaymentsFollowTable == Spec => PaymentFollowsTable
<1>1. IInv /\ [Next]_vars
        => [ \A p \in Payments :
               Exists(p) /\ payments'[p] # payments[p]
                 => /\ payments'[p].status \in PaymentTransitions[payments[p].status]
                    /\ payments'[p].version = payments[p].version + 1 ]_vars
  BY PaymentsMoveForward DEF PaymentsMove, Moved
<1> QED
  BY Invariance, <1>1, PTL DEF Spec, PaymentFollowsTable

\* A settlement and the completion of its request are one step, from a status
\* that allows completion, unless the request had been read as completed and has
\* moved on since.
THEOREM SettlementCompletes == Spec => SettlementCompletesRequest
<1> USE DEF Settles
<1> DEFINE Completes(p) ==
             \/ /\ status' = "COMPLETED"
                /\ status \in {"WORK_COMPLETED", "QUALITY_CHECK",
                               "FINAL_PAYMENT_PENDING", "COMPLETED"}
             \/ MovedOnSinceRead(p)
           A == held = {status} => \A p \in Payments : Settles(p) => Completes(p)
<1>1. IInv /\ [Next]_vars => [A]_vars
  <2> SUFFICES ASSUME IInv, [Next]_vars, held = {status},
                      NEW p \in Payments, Settles(p)
               PROVE  Completes(p)
    OBVIOUS
  <2>1. ASSUME NEW c \in Calls, CommitInitiate(c)
        PROVE  FALSE
    BY <2>1 DEF CommitInitiate, IInv, TypeOK
  <2>2. ASSUME NEW c \in Calls, CommitTransition(c)
        PROVE  Completes(p)
    <3>1. calls[c].to = "SUCCESS" /\ calls[c].payment = p
      BY <2>2, TransitionMovesPayments
    <3>2. calls[c].op = "sync" /\ SyncRequest(c) /\ SyncHolds(calls[c])
      BY <2>2 DEF CommitTransition, IInv, CallHolds
    <3>3. /\ status \in RequestStatuses
          /\ version \in Nat /\ calls[c].count \in Nat
      BY DEF IInv, TypeOK, RowTypeOK, CallStates
    <3>4. calls[c].from = status \/ calls[c].count < version
      BY <3>2, <3>3 DEF SyncHolds
    <3>5. CASE calls[c].from = "COMPLETED"
      BY <3>1, <3>2, <3>4, <3>5 DEF SyncRequest, MovedOnSinceRead, row
    <3>6. CASE calls[c].from # "COMPLETED"
      <4>1. VersionedWrite(calls[c].from, "COMPLETED", calls[c].count, Keep)
        BY <3>1, <3>2, <3>6 DEF SyncRequest
      <4>2. status' = "COMPLETED" /\ "COMPLETED" \in RequestTransitions[status]
        BY <3>3, <3>4, <4>1 DEF VersionedWrite, VersionMatches, CanTransition
      <4> QED
        BY <3>3, <4>2, RequestTableTyped DEF RequestTransitions
    <3> QED
      BY <3>5, <3>6
  <2> QED
    BY <2>1, <2>2, OtherStepsKeepPayments
<1> QED
  BY Invariance, <1>1, PTL DEF Spec, SettlementCompletesRequest

-----------------------------------------------------------------------------
(***************************************************************************)
(* Invoices.  An announcement and every invocation of an invoice handler   *)
(* rest on a payment that is settled, and no step takes that back; nor     *)
(* does one take an invoice back.  That a request is paid once rests on    *)
(* the check of an initiation: while no initiation has bypassed it, at     *)
(* most one payment can still be, or is, settled.                          *)
(***************************************************************************)
Decided(p) == payments[p].status \in {"NONE", "PENDING", "SUCCESS", "FAILED"}

Alive(p) == payments[p].status \in {"PENDING", "SUCCESS"}

OneAlive == \A p, q \in Payments : Alive(p) /\ Alive(q) => p = q

InvoiceCallHolds(call) ==
  call.op # "none" =>
    /\ call.payment \in Payments
    /\ payments[call.payment].status = "SUCCESS"
    /\ call.op \in {"render", "cancel"} => Invoiced(call.payment)

\* The inductive invariant of payments and invoices.
BillingIInv ==
  /\ IInv /\ BillingTypeOK
  /\ \A p \in Payments : Decided(p)
  /\ duplicated \/ OneAlive
  /\ InvoicesRestOnPayments
  /\ \A p \in Payments : invoices[p].status \in {"NONE", "ISSUED", "CANCELLED"}
  /\ \A i \in InvoiceCalls : InvoiceCallHolds(invoiceCalls[i])

LEMMA InvoiceTableTyped ==
  /\ InvoiceStatuses = {"DRAFT", "ISSUED", "PAID", "CANCELLED"}
  /\ InvoiceTransitions["ISSUED"] = {"PAID", "CANCELLED"}
  /\ InvoiceTransitions["CANCELLED"] = {}
BY DEF InvoiceStatuses, InvoiceTransitions

\* To the payments, every step of billing is a step of theirs or none.
LEMMA InvoiceStepsKeepPayments == InvoiceStep => UNCHANGED vars
BY DEF InvoiceStep, CommitGenerate, LinkPdf, CommitCancel, AbortInvoice,
       ReadForGenerate, ReadForRender, ReadForRegenerate, ReadForCancel,
       ForgetAnnouncement

LEMMA BillingStepsPayments == [BillingNext]_billingVars => [Next]_vars
BY InvoiceStepsKeepPayments
   DEF BillingNext, PaymentStep, billingVars, vars

LEMMA BillingKeepsPayments == BillingSpec => Spec
<1>1. BillingInit => Init
  BY DEF BillingInit
<1> QED
  BY <1>1, BillingStepsPayments, PTL DEF BillingSpec, Spec

\* A payment is decided once: what is settled stays settled, what has failed
\* stays failed.
LEMMA DecisionsLast ==
  ASSUME BillingIInv, [Next]_vars, NEW p \in Payments
  PROVE  /\ Decided(p)'
         /\ payments[p].status \in {"SUCCESS", "FAILED"}
              => payments'[p].status = payments[p].status
         /\ payments[p].status = "PENDING"
              => payments'[p].status \in {"PENDING", "SUCCESS", "FAILED"}
         /\ ~Exists(p) => payments'[p].status \in {"NONE", "PENDING"}
<1>1. Moved(p) /\ Decided(p)
  BY PaymentsMoveForward DEF BillingIInv, PaymentsMove
<1>2. /\ PaymentTransitions["PENDING"] = {"PROCESSING", "SUCCESS", "FAILED"}
      /\ PaymentTransitions["SUCCESS"] = {"REFUNDED"}
      /\ PaymentTransitions["FAILED"] = {"PENDING"}
  BY DEF PaymentTransitions
<1> QED
  BY <1>1, <1>2 DEF Moved, Decided, Exists

\* A step creates at most one payment, and touches no other one with it.
LEMMA OneCreation ==
  ASSUME IInv, [Next]_vars, NEW p \in Payments, ~Exists(p), Exists(p)',
         NEW q \in Payments \ {p}
  PROVE  payments'[q] = payments[q]
<1>1. ASSUME NEW c \in Calls, CommitInitiate(c)
      PROVE  payments'[q] = payments[q]
  <2>1. PICK new \in Payments :
          payments' = [payments EXCEPT ![new] =
                         [ status |-> "PENDING", version |-> 1 ]]
    BY <1>1 DEF CommitInitiate
  <2>2. new = p
    BY <2>1 DEF Exists, IInv, TypeOK
  <2> QED
    BY <2>1, <2>2 DEF IInv, TypeOK
<1>2. ASSUME NEW c \in Calls, CommitTransition(c)
      PROVE  FALSE
  <2>1. calls[c].payment # p
    BY <1>2, PaymentTableTyped DEF CommitTransition, IInv, CallHolds, SyncHolds
  <2> QED
    BY <1>2, <2>1, TransitionMovesPayments DEF Exists
<1> QED
  BY <1>1, <1>2, OtherStepsKeepPayments DEF Exists

LEMMA OneAliveKept ==
  ASSUME BillingIInv, PaymentStep, ~duplicated'
  PROVE  OneAlive'
<1> SUFFICES ASSUME NEW p \in Payments, NEW q \in Payments,
                    Alive(p)', Alive(q)', p # q
             PROVE  FALSE
  BY DEF OneAlive, Alive
<1>1. /\ ~duplicated /\ ~Duplicates /\ OneAlive
      /\ IInv /\ [Next]_vars
  BY DEF PaymentStep, BillingIInv
<1>2. ASSUME NEW a \in Payments, NEW b \in Payments \ {a}, ~Exists(a),
             Alive(a)', Alive(b)'
      PROVE  FALSE
  <2>1. NoLivePayment
    BY <1>1, <1>2 DEF Duplicates, Exists, Alive
  <2>2. payments'[b] = payments[b]
    BY <1>1, <1>2, OneCreation DEF Exists, Alive
  <2> QED
    BY <1>2, <2>1, <2>2 DEF NoLivePayment, Alive
<1>3. ASSUME NEW a \in Payments, Exists(a), Alive(a)'
      PROVE  Alive(a)
  BY <1>1, <1>3, DecisionsLast DEF Exists, Alive, Decided, BillingIInv
<1> QED
  BY <1>1, <1>2, <1>3 DEF OneAlive

-----------------------------------------------------------------------------
\* What a step must keep of the invoices, besides the payments.
InvoicesHold ==
  /\ announced \in SUBSET Payments
  /\ invoices \in [Payments -> InvoiceRows]
  /\ invoiceCalls \in [InvoiceCalls -> InvoiceCallStates]
  /\ InvoicesRestOnPayments
  /\ \A p \in Payments : invoices[p].status \in {"NONE", "ISSUED", "CANCELLED"}
  /\ \A i \in InvoiceCalls : InvoiceCallHolds(invoiceCalls[i])

\* An invocation takes or drops what it holds, and writes nothing.
LEMMA TakesHold ==
  ASSUME BillingIInv, UNCHANGED <<payments, invoices>>, announced' \subseteq announced,
         NEW i \in InvoiceCalls, NEW call \in InvoiceCallStates,
         InvoiceCallHolds(call),
         invoiceCalls' = [invoiceCalls EXCEPT ![i] = call]
  PROVE  InvoicesHold'
<1>1. InvoiceCallHolds(invoiceCalls[i])'
  BY DEF BillingIInv, BillingTypeOK, InvoiceCallHolds, Invoiced
<1>2. ASSUME NEW j \in InvoiceCalls \ {i}
      PROVE  InvoiceCallHolds(invoiceCalls[j])'
  BY DEF BillingIInv, BillingTypeOK, InvoiceCallHolds, Invoiced
<1> QED
  BY <1>1, <1>2
     DEF BillingIInv, BillingTypeOK, InvoicesHold, InvoicesRestOnPayments, Invoiced

\* An invocation writes the invoice of a settled payment.
LEMMA WritesHold ==
  ASSUME BillingIInv, UNCHANGED <<payments, announced>>,
         NEW p \in Payments, payments[p].status = "SUCCESS",
         NEW invoice \in InvoiceRows, invoice.status \in {"ISSUED", "CANCELLED"},
         invoices' = [invoices EXCEPT ![p] = invoice],
         NEW i \in InvoiceCalls, NEW call \in InvoiceCallStates,
         call.op = "none" \/ call.payment = p,
         invoiceCalls' = [invoiceCalls EXCEPT ![i] = call]
  PROVE  InvoicesHold'
<1>1. InvoiceCallHolds(invoiceCalls[i])'
  BY DEF BillingIInv, BillingTypeOK, InvoiceCallHolds, Invoiced
<1>2. ASSUME NEW j \in InvoiceCalls \ {i}
      PROVE  InvoiceCallHolds(invoiceCalls[j])'
  BY DEF BillingIInv, BillingTypeOK, InvoiceCallHolds, Invoiced
<1> QED
  BY <1>1, <1>2
     DEF BillingIInv, BillingTypeOK, InvoicesHold, InvoicesRestOnPayments, Invoiced

\* What is dropped, and what an invocation under way is about.
LEMMA NoInvoiceCallTyped ==
  /\ NoInvoiceCall \in InvoiceCallStates
  /\ NoInvoiceCall.op = "none" /\ InvoiceCallHolds(NoInvoiceCall)
BY InvoiceTableTyped DEF NoInvoiceCall, InvoiceCallStates, InvoiceCallHolds

LEMMA InvoiceCallTyped ==
  ASSUME BillingIInv, NEW i \in InvoiceCalls, invoiceCalls[i].op # "none"
  PROVE  /\ invoiceCalls[i].payment \in Payments
         /\ invoiceCalls[i].from \in InvoiceStatuses
         /\ payments[invoiceCalls[i].payment].status = "SUCCESS"
         /\ invoices[invoiceCalls[i].payment] \in InvoiceRows
         /\ invoiceCalls[i].op \in {"render", "cancel"}
              => Invoiced(invoiceCalls[i].payment)
BY DEF InvoiceCallStates, InvoiceCallHolds, BillingIInv, BillingTypeOK

LEMMA InvoiceStepsHold ==
  ASSUME BillingIInv, InvoiceStep
  PROVE  InvoicesHold'
<1> USE InvoiceTableTyped, NoInvoiceCallTyped, InvoiceCallTyped
<1>1. UNCHANGED payments
  BY InvoiceStepsKeepPayments DEF vars
<1>2. ASSUME NEW i \in InvoiceCalls, CommitGenerate(i)
      PROVE  InvoicesHold'
  <2> DEFINE p == invoiceCalls[i].payment
             invoice == [invoices[p] EXCEPT !.status = "ISSUED"]
             call == [ op |-> "render", payment |-> p, from |-> "DRAFT" ]
  <2>1. invoiceCalls[i].op # "none"
    BY <1>2 DEF CommitGenerate
  <2>2. p \in Payments /\ payments[p].status = "SUCCESS"
    BY <2>1
  <2>3. /\ invoice \in InvoiceRows /\ invoice.status = "ISSUED"
        /\ call \in InvoiceCallStates /\ call.payment = p
    BY <2>1, <2>2 DEF InvoiceRows, InvoiceCallStates
  <2>4. /\ invoices' = [invoices EXCEPT ![p] = invoice]
        /\ invoiceCalls' = [invoiceCalls EXCEPT ![i] = call]
        /\ UNCHANGED announced
    BY <1>2 DEF CommitGenerate
  <2> QED
    BY <1>1, <2>2, <2>3, <2>4, WritesHold
<1>3. ASSUME NEW i \in InvoiceCalls, LinkPdf(i) \/ CommitCancel(i)
      PROVE  InvoicesHold'
  <2> DEFINE p == invoiceCalls[i].payment
             linked == [invoices[p] EXCEPT !.pdf = TRUE]
             cancelled == [invoices[p] EXCEPT !.status = "CANCELLED"]
  <2>1. invoiceCalls[i].op \in {"render", "cancel"}
    BY <1>3 DEF LinkPdf, CommitCancel
  <2>2. p \in Payments /\ payments[p].status = "SUCCESS" /\ Invoiced(p)
    BY <2>1
  <2>3. invoices[p].status \in {"ISSUED", "CANCELLED"}
    BY <2>2 DEF BillingIInv, Invoiced
  <2>4. /\ linked \in InvoiceRows /\ linked.status \in {"ISSUED", "CANCELLED"}
        /\ cancelled \in InvoiceRows /\ cancelled.status = "CANCELLED"
    BY <2>1, <2>3 DEF InvoiceRows
  <2>5. /\ \/ invoices' = [invoices EXCEPT ![p] = linked]
           \/ invoices' = [invoices EXCEPT ![p] = cancelled]
        /\ invoiceCalls' = [invoiceCalls EXCEPT ![i] = NoInvoiceCall]
        /\ UNCHANGED announced
    BY <1>3 DEF LinkPdf, CommitCancel, Drop
  <2> QED
    BY <1>1, <2>2, <2>4, <2>5, WritesHold
<1>4. ASSUME NEW i \in InvoiceCalls, AbortInvoice(i)
      PROVE  InvoicesHold'
  BY <1>1, <1>4, TakesHold DEF AbortInvoice, Drop
<1>5. ASSUME NEW i \in InvoiceCalls, NEW p \in Payments,
             ReadForGenerate(i, p) \/ ReadForRegenerate(i, p) \/ ReadForCancel(i, p)
      PROVE  InvoicesHold'
  <2>1. PICK call \in {[ op |-> "generate", payment |-> p, from |-> "DRAFT" ],
                       [ op |-> "render", payment |-> p, from |-> "DRAFT" ],
                       [ op |-> "cancel", payment |-> p, from |-> invoices[p].status ]} :
          /\ invoiceCalls' = [invoiceCalls EXCEPT ![i] = call]
          /\ call.op = "generate" => payments[p].status = "SUCCESS"
          /\ call.op # "generate" => Invoiced(p)
    BY <1>5 DEF ReadForGenerate, ReadForRegenerate, ReadForCancel, Take, PaymentMade
  <2>2. Invoiced(p)
          => payments[p].status = "SUCCESS" /\ invoices[p].status \in InvoiceStatuses
    BY DEF BillingIInv, InvoicesRestOnPayments, Invoiced
  <2>3. call \in InvoiceCallStates /\ InvoiceCallHolds(call)
    BY <2>1, <2>2 DEF InvoiceCallStates, InvoiceCallHolds
  <2>4. announced' \subseteq announced /\ UNCHANGED invoices
    BY <1>5 DEF ReadForGenerate, ReadForRegenerate, ReadForCancel
  <2> QED
    BY <1>1, <2>1, <2>3, <2>4, TakesHold
<1>6. ASSUME NEW p \in Payments, ForgetAnnouncement(p)
      PROVE  InvoicesHold'
  BY <1>1, <1>6
     DEF ForgetAnnouncement, BillingIInv, BillingTypeOK, InvoicesHold,
         InvoicesRestOnPayments, InvoiceCallHolds, Invoiced
<1> QED
  BY <1>2, <1>3, <1>4, <1>5, <1>6 DEF InvoiceStep, ReadForRender

LEMMA PaymentStepsHold ==
  ASSUME BillingIInv, PaymentStep
  PROVE  InvoicesHold'
<1>1. [Next]_vars /\ UNCHANGED <<invoices, invoiceCalls>>
  BY DEF PaymentStep
<1>2. \A p \in Payments :
        payments[p].status = "SUCCESS" => payments'[p].status = "SUCCESS"
  BY <1>1, DecisionsLast
<1>3. \A p \in announced' : p \in Payments /\ payments'[p].status = "SUCCESS"
  BY <1>2
     DEF PaymentStep, Settles, BillingIInv, BillingTypeOK, InvoicesRestOnPayments
<1> QED
  BY <1>1, <1>2, <1>3
     DEF BillingIInv, BillingTypeOK, InvoicesHold, InvoicesRestOnPayments,
         InvoiceCallHolds, Invoiced

LEMMA InitBillingIInv == BillingInit => BillingIInv
<1> SUFFICES ASSUME BillingInit
             PROVE  BillingIInv
  OBVIOUS
<1>1. Init /\ IInv
  BY InitIInv DEF BillingInit
<1>2. \A p \in Payments : Decided(p) /\ ~Alive(p)
  BY <1>1 DEF Init, Unused, Decided, Alive
<1> QED
  BY <1>1, <1>2, InvoiceTableTyped
     DEF BillingInit, BillingIInv, BillingTypeOK, IInv, OneAlive, NoInvoice,
         InvoiceRows, NoInvoiceCall, InvoiceCallStates, InvoicesRestOnPayments,
         InvoiceCallHolds, Invoiced

LEMMA StepsKeepBillingIInv ==
  BillingIInv /\ [BillingNext]_billingVars => BillingIInv'
<1> SUFFICES ASSUME BillingIInv, [BillingNext]_billingVars
             PROVE  BillingIInv'
  OBVIOUS
<1>1. [Next]_vars
  BY BillingStepsPayments
<1>2. IInv' /\ \A p \in Payments : Decided(p)'
  BY <1>1, StepsKeepIInv, DecisionsLast DEF BillingIInv
<1>3. InvoicesHold'
  <2>1. CASE UNCHANGED billingVars
    BY <2>1 DEF billingVars, BillingIInv, BillingTypeOK, InvoicesHold,
                InvoicesRestOnPayments, InvoiceCallHolds, Invoiced
  <2> QED
    BY <2>1, PaymentStepsHold, InvoiceStepsHold DEF BillingNext
<1>4. duplicated' \in BOOLEAN /\ (duplicated' \/ OneAlive')
  <2>1. CASE PaymentStep
    BY <2>1, OneAliveKept DEF PaymentStep, BillingIInv, BillingTypeOK
  <2>2. CASE UNCHANGED <<payments, duplicated>>
    BY <2>2 DEF BillingIInv, BillingTypeOK, OneAlive, Alive
  <2> QED
    BY <2>1, <2>2, InvoiceStepsKeepPayments DEF BillingNext, billingVars, vars
<1> QED
  BY <1>2, <1>3, <1>4 DEF BillingIInv, BillingTypeOK, IInv, InvoicesHold

THEOREM BillingInvariance == BillingSpec => []BillingIInv
BY InitBillingIInv, StepsKeepBillingIInv, PTL DEF BillingSpec

-----------------------------------------------------------------------------
\* Type correctness of payments and invoices, and of all that is held of them.
THEOREM BillingTypeCorrect == BillingSpec => []BillingTypeOK
<1>1. BillingIInv => BillingTypeOK
  BY DEF BillingIInv
<1> QED
  BY BillingInvariance, <1>1, PTL

\* What is invoiced or announced has been paid.
THEOREM InvoicesArePaid == BillingSpec => []InvoicesRestOnPayments
<1>1. BillingIInv => InvoicesRestOnPayments
  BY DEF BillingIInv
<1> QED
  BY BillingInvariance, <1>1, PTL

\* A request is paid twice only when two payments were created beside each other.
THEOREM PaidOnce == BillingSpec => []PaidTwiceOnlyByRacing
<1>1. BillingIInv => PaidTwiceOnlyByRacing
  BY DEF BillingIInv, PaidTwiceOnlyByRacing, OneAlive, Alive
<1> QED
  BY BillingInvariance, <1>1, PTL

\* An invoice moves along its table though its updates check no version.
THEOREM InvoicesFollowTable == BillingSpec => InvoiceFollowsTable
<1> DEFINE A == \A p \in Payments :
                  invoices'[p].status # invoices[p].status
                    => IF Invoiced(p)
                       THEN invoices'[p].status \in InvoiceTransitions[invoices[p].status]
                       ELSE invoices'[p].status = "ISSUED"
<1>1. BillingIInv /\ [BillingNext]_billingVars => [A]_billingVars
  <2> SUFFICES ASSUME BillingIInv, [BillingNext]_billingVars, NEW p \in Payments,
                      invoices'[p].status # invoices[p].status
               PROVE  IF Invoiced(p)
                      THEN invoices'[p].status \in InvoiceTransitions[invoices[p].status]
                      ELSE invoices'[p].status = "ISSUED"
    BY DEF billingVars
  <2>1. /\ invoices \in [Payments -> InvoiceRows]
        /\ invoices[p].status \in {"NONE", "ISSUED", "CANCELLED"}
    BY DEF BillingIInv, BillingTypeOK
  <2>2. ASSUME NEW i \in InvoiceCalls, CommitGenerate(i)
        PROVE  ~Invoiced(p) /\ invoices'[p].status = "ISSUED"
    BY <2>1, <2>2 DEF CommitGenerate, PaymentIdUnique, InvoiceRows
  <2>3. ASSUME NEW i \in InvoiceCalls, LinkPdf(i)
        PROVE  FALSE
    BY <2>1, <2>3 DEF LinkPdf, InvoiceRows
  <2>4. ASSUME NEW i \in InvoiceCalls, CommitCancel(i)
        PROVE  Invoiced(p) /\ invoices'[p].status \in InvoiceTransitions[invoices[p].status]
    <3>1. /\ Invoiced(invoiceCalls[i].payment)
          /\ invoices' = [invoices EXCEPT ![invoiceCalls[i].payment].status = "CANCELLED"]
      BY <2>4, InvoiceCallTyped DEF CommitCancel
    <3> QED
      BY <2>1, <3>1, InvoiceTableTyped DEF Invoiced, InvoiceRows
  <2>5. UNCHANGED invoices
          \/ \E i \in InvoiceCalls : CommitGenerate(i) \/ LinkPdf(i) \/ CommitCancel(i)
    BY DEF BillingNext, PaymentStep, InvoiceStep, billingVars, AbortInvoice,
           ReadForGenerate, ReadForRender, ReadForRegenerate, ReadForCancel,
           ForgetAnnouncement
  <2> QED
    BY <2>2, <2>3, <2>4, <2>5
<1> QED
  BY BillingInvariance, <1>1, PTL DEF BillingSpec, InvoiceFollowsTable

=============================================================================
