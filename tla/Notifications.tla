--------------------------- MODULE Notifications ----------------------------
(***************************************************************************)
(* NotificationDispatcherService under the queue: JobQueue with the        *)
(* processor of notification jobs, and the event listener beside it, which *)
(* dispatches at once and repeats nothing.                                 *)
(*                                                                         *)
(* All of them dispatch to one recipient with one title and type, as jobs  *)
(* under one id do and events of one kind may; the check for duplicates    *)
(* looks at nothing else.  The row of the in-app channel is the only state *)
(* a dispatch leaves; who has read it changes nothing here.                *)
(***************************************************************************)
EXTENDS JobQueue

CONSTANT Slots   \* bound: dispatches under way that no attempt waits for

ASSUME SlotsAssumption == IsFiniteSet(Slots) /\ Slots \cap Jobs = {}

VARIABLES
  dispatches,   \* how far the dispatch of each chain's attempt, or slot, is
  recent,       \* the rows of the last 60 seconds
  old           \* whether there are older rows

notificationVars == <<dispatches, recent, old>>
allVars == <<jobs, current, chains, dispatches, recent, old>>

Dispatchers == Jobs \cup Slots

\* One type invariant for the dispatches and the rows they leave.
NotificationsTypeOK ==
  /\ TypeOK
  /\ dispatches \in [Dispatchers -> {"none", "checking", "sending"}]
  /\ recent \in Nat
  /\ old \in BOOLEAN

NotificationsInit ==
  /\ Init
  /\ dispatches = [d \in Dispatchers |-> "none"]
  /\ recent = 0
  /\ old = FALSE

Sending == {d \in Dispatchers : dispatches[d] = "sending"}
Go(d, at) == dispatches' = [dispatches EXCEPT ![d] = at]

\* An attempt is told that its dispatch has returned.
Returns(d) == IF d \in Jobs THEN Succeed(d) ELSE UNCHANGED vars
Throws(d) == IF d \in Jobs THEN Fail(d) ELSE UNCHANGED vars

-----------------------------------------------------------------------------
\* processSingleNotification, at each attempt; and a handler of the listener.
StartAttempt(k) ==
  /\ Start(k)
  /\ Go(k, "checking")
  /\ UNCHANGED <<recent, old>>

Listen(s) ==
  /\ dispatches[s] = "none"
  /\ Go(s, "checking")
  /\ UNCHANGED <<vars, recent, old>>

\* isDuplicateDelivery finds a row, or none, or the query fails.
NotChecked == TRUE
NoDuplicate == recent = 0

SuppressDuplicate(d) ==
  /\ dispatches[d] = "checking"
  /\ ~NoDuplicate
  /\ Go(d, "none") /\ Returns(d)
  /\ UNCHANGED <<recent, old>>

CheckPasses(d) ==
  /\ dispatches[d] = "checking"
  /\ NoDuplicate
  /\ Go(d, "sending")
  /\ UNCHANGED <<vars, recent, old>>

CheckThrows(d) ==
  /\ dispatches[d] = "checking"
  /\ Go(d, "none") /\ Throws(d)
  /\ UNCHANGED <<recent, old>>

\* The provider creates the row, or fails: the dispatch returns either way.
Deliver(d) ==
  /\ dispatches[d] = "sending"
  /\ recent' = recent + 1
  /\ Go(d, "none") /\ Returns(d)
  /\ UNCHANGED old

ProviderFails(d) ==
  /\ dispatches[d] = "sending"
  /\ Go(d, "none") /\ Returns(d)
  /\ UNCHANGED <<recent, old>>

\* Nobody waits for the dispatch any longer, but it goes on.
Detach(k, s) ==
  /\ dispatches[s] = "none"
  /\ dispatches' = [dispatches EXCEPT ![s] = dispatches[k], ![k] = "none"]
  /\ UNCHANGED <<recent, old>>

\* executeWithTimeout gives up after 5 seconds and returns; the queue gives up
\* after 30 and tries again.
ProviderTimesOut(k, s) == dispatches[k] = "sending" /\ Detach(k, s) /\ Succeed(k)
AttemptTimesOut(k, s) == Detach(k, s) /\ Fail(k)

\* 60 seconds after a row was created; the cleanup after 90 days; and jobs.
Age ==
  /\ recent > 0
  /\ recent' = recent - 1 /\ old' = TRUE
  /\ UNCHANGED <<vars, dispatches>>

Purge ==
  /\ old
  /\ old' = FALSE
  /\ UNCHANGED <<vars, dispatches, recent>>

Enqueue(j) == AddJob(j) /\ UNCHANGED notificationVars

DispatchStep(d) ==
  \/ SuppressDuplicate(d) \/ CheckPasses(d) \/ CheckThrows(d)
  \/ Deliver(d) \/ ProviderFails(d)

NotificationsNext ==
  \/ \E j \in Jobs : Enqueue(j) \/ StartAttempt(j)
  \/ \E s \in Slots : Listen(s)
  \/ \E d \in Dispatchers : DispatchStep(d)
  \/ \E k \in Jobs, s \in Slots : ProviderTimesOut(k, s) \/ AttemptTimesOut(k, s)
  \/ Age \/ Purge

NotificationsSpec == NotificationsInit /\ [][NotificationsNext]_allVars

\* The event loop fires every timer, and the database answers every query.
FairNotificationsSpec ==
  /\ NotificationsSpec
  /\ \A k \in Jobs : WF_allVars(StartAttempt(k))
  /\ \A d \in Dispatchers : WF_allVars(DispatchStep(d))

-----------------------------------------------------------------------------
\* The check for a duplicate and the creation are separate, and an attempt that
\* timed out goes on beside its retry; still a recipient gets no more of one
\* notification within a minute than dispatches were under way at once.
RepeatsOnlyByRacing ==
  recent + Cardinality(Sending) <= Cardinality(Dispatchers)

=============================================================================
