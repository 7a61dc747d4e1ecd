-------------------------- MODULE Informing_proofs ---------------------------
(***************************************************************************)
(* What users are told, for any number of records and any number of        *)
(* attempts, and what they are shown, for any number of rows, pages and    *)
(* writes.                                                                 *)
(*                                                                         *)
(* The queue.  That the stored record is never forgotten is inductive once *)
(* it is known that nothing runs before the first record is stored.  That  *)
(* a settled record is disturbed only after a second one was made under    *)
(* its id needs to be known for one record: its chain is over once it has  *)
(* settled.  A user is told twice only by dispatches that overlapped: rows *)
(* and dispatches that are past the check trade places, and a dispatch     *)
(* passes the check only while there is no row.                            *)
(*                                                                         *)
(* The reports.  A statement whose turn is over counted the row if the row *)
(* answered to it all the time.                                            *)
(*                                                                         *)
(* The lists.  All endpoints have the properties the walk needs, and what  *)
(* a walk shows follows from the number of rows that come before a row:    *)
(* the rank the database gives it, and so its page.  While nothing leaves, *)
(* the number only grows, and no row is passed over; while nothing comes,  *)
(* it only shrinks, and no row is met again.                               *)
(***************************************************************************)
EXTENDS Notifications, Reading, FiniteSetTheorems, TLAPS

USE JobsAssumption, MaxAttemptsAssumption

\* What the proofs need of the types; how many attempts there are at most is
\* left to TLC.
Typed ==
  /\ jobs \in [Jobs -> [ status : JobStatuses \cup {"none"}, attempts : Nat ]]
  /\ current \in Jobs \cup {NoJob}
  /\ chains \in [Jobs -> [ at  : {"none", "timer", "attempt", "over"},
                           job : Jobs \cup {NoJob} ]]

\* Nothing is under way before a record is stored, an attempt has a record, and
\* a record exists as soon as its chain does.
ChainsHaveRecords ==
  \A k \in Jobs :
    /\ chains[k].at # "none" => current # NoJob
    /\ chains[k].at = "attempt" => chains[k].job \in Jobs
    /\ chains[k].at = "none" => jobs[k].status = "none"
    /\ current = k => chains[k].at # "none"
    /\ chains[k].at = "attempt" => chains[chains[k].job].at # "none"

\* The only chain there is has run out when its record has settled.
OnlyChain(j) == \A k \in Jobs : chains[k].at # "none" => k = j

LoneRecordsRest ==
  \A j \in Jobs : OnlyChain(j) /\ Settled(j) => chains[j].at = "over"

\* The inductive invariant.
IInv == Typed /\ ChainsHaveRecords /\ PendingJobsRun /\ LoneRecordsRest

-----------------------------------------------------------------------------
LEMMA InitIInv == Init => IInv
BY DEF Init, IInv, Typed, ChainsHaveRecords, PendingJobsRun, LoneRecordsRest,
       Settled

LEMMA NextTyped == Typed /\ ChainsHaveRecords /\ [Next]_vars => Typed'
<1> SUFFICES ASSUME Typed, ChainsHaveRecords, [Next]_vars
             PROVE  Typed'
  OBVIOUS
<1> USE DEF Typed, ChainsHaveRecords, JobStatuses
<1>1. ASSUME NEW j \in Jobs, AddJob(j)
      PROVE  Typed'
  BY <1>1 DEF AddJob
<1>2. ASSUME NEW k \in Jobs, Start(k)
      PROVE  Typed'
  BY <1>2 DEF Start, CountAttempt
<1>3. ASSUME NEW k \in Jobs, Succeed(k)
      PROVE  Typed'
  BY <1>3 DEF Succeed, Over
<1>4. ASSUME NEW k \in Jobs, Fail(k)
      PROVE  Typed'
  BY <1>4 DEF Fail, Over, RetryTimer
<1> QED
  BY <1>1, <1>2, <1>3, <1>4 DEF Next, vars

LEMMA NextChainsHaveRecords ==
  Typed /\ ChainsHaveRecords /\ [Next]_vars => ChainsHaveRecords'
<1> SUFFICES ASSUME Typed, ChainsHaveRecords, [Next]_vars
             PROVE  ChainsHaveRecords'
  OBVIOUS
<1> USE DEF Typed, ChainsHaveRecords, JobStatuses
<1>1. ASSUME NEW j \in Jobs, AddJob(j)
      PROVE  ChainsHaveRecords'
  BY <1>1 DEF AddJob
<1>2. ASSUME NEW k \in Jobs, Start(k)
      PROVE  ChainsHaveRecords'
  BY <1>2 DEF Start, CountAttempt
<1>3. ASSUME NEW k \in Jobs, Succeed(k)
      PROVE  ChainsHaveRecords'
  BY <1>3 DEF Succeed, Over
<1>4. ASSUME NEW k \in Jobs, Fail(k)
      PROVE  ChainsHaveRecords'
  BY <1>4 DEF Fail, Over, RetryTimer
<1> QED
  BY <1>1, <1>2, <1>3, <1>4 DEF Next, vars

LEMMA NextPendingJobsRun == IInv /\ [Next]_vars => PendingJobsRun'
<1> SUFFICES ASSUME IInv, [Next]_vars
             PROVE  PendingJobsRun'
  OBVIOUS
<1> USE DEF IInv, Typed, ChainsHaveRecords, PendingJobsRun, JobStatuses
<1>1. ASSUME NEW j \in Jobs, AddJob(j)
      PROVE  PendingJobsRun'
  BY <1>1 DEF AddJob
<1>2. ASSUME NEW k \in Jobs, Start(k)
      PROVE  PendingJobsRun'
  BY <1>2 DEF Start, CountAttempt
<1>3. ASSUME NEW k \in Jobs, Succeed(k)
      PROVE  PendingJobsRun'
  BY <1>3 DEF Succeed, Over
<1>4. ASSUME NEW k \in Jobs, Fail(k)
      PROVE  PendingJobsRun'
  BY <1>4 DEF Fail, Over, RetryTimer
<1> QED
  BY <1>1, <1>2, <1>3, <1>4 DEF Next, vars

LEMMA NextLoneRecordsRest == IInv /\ [Next]_vars => LoneRecordsRest'
<1> SUFFICES ASSUME IInv, [Next]_vars
             PROVE  LoneRecordsRest'
  OBVIOUS
<1> USE DEF IInv, Typed, ChainsHaveRecords, LoneRecordsRest, OnlyChain, Settled,
            JobStatuses
<1>1. ASSUME NEW j \in Jobs, AddJob(j)
      PROVE  LoneRecordsRest'
  BY <1>1 DEF AddJob
<1>2. ASSUME NEW k \in Jobs, Start(k)
      PROVE  LoneRecordsRest'
  BY <1>2 DEF Start, CountAttempt
<1>3. ASSUME NEW k \in Jobs, Succeed(k)
      PROVE  LoneRecordsRest'
  BY <1>3 DEF Succeed, Over
<1>4. ASSUME NEW k \in Jobs, Fail(k)
      PROVE  LoneRecordsRest'
  BY <1>4 DEF Fail, Over, RetryTimer
<1> QED
  BY <1>1, <1>2, <1>3, <1>4 DEF Next, vars

LEMMA Invariance == Spec => []IInv
<1>1. IInv /\ [Next]_vars => IInv'
  BY NextTyped, NextChainsHaveRecords, NextPendingJobsRun, NextLoneRecordsRest
     DEF IInv
<1> QED
  BY InitIInv, <1>1, PTL DEF Spec

-----------------------------------------------------------------------------
\* The stored record is never forgotten: while it waits there is a timer that
\* will run it, while it is active an attempt of it is under way.
THEOREM StoredJobsRun == Spec => []PendingJobsRun
<1>1. IInv => PendingJobsRun
  BY DEF IInv
<1> QED
  BY Invariance, <1>1, PTL

\* Two chains make the number of records more than one.
LEMMA TwoAdded ==
  ASSUME NEW i \in Added, NEW k \in Added, i # k
  PROVE  Cardinality(Added) > 1
<1>1. IsFiniteSet(Added)
  BY FS_Subset, JobsAssumption DEF Added
<1>2. Cardinality({i, k}) = 2
  <2>1. IsFiniteSet({i}) /\ Cardinality({i}) = 1
    BY FS_Singleton
  <2>2. Cardinality({i} \cup {k}) = 2
    BY <2>1, FS_AddElement
  <2> QED
    BY <2>2, {i, k} = {i} \cup {k}, Zenon
<1>3. Cardinality({i, k}) <= Cardinality(Added)
  BY <1>1, FS_Subset
<1> QED
  BY <1>1, <1>2, <1>3, FS_CardinalityType

\* A settled record stays settled unless a second record was made under its id.
THEOREM SettledRecordsRest == Spec => SettledJobsStay
<1> DEFINE Rest == \A j \in Jobs :
                     Settled(j) /\ jobs'[j] # jobs[j] => Cardinality(Added) > 1
<1>1. IInv /\ [Next]_vars => [Rest]_vars
  <2> SUFFICES ASSUME IInv, Next, NEW j \in Jobs, Settled(j), jobs'[j] # jobs[j]
               PROVE  Cardinality(Added) > 1
    OBVIOUS
  <2> USE DEF IInv, Typed, ChainsHaveRecords, LoneRecordsRest, Settled, JobStatuses
  <2>1. j \in Added
    BY DEF Added
  <2>2. PICK k \in Jobs : chains[k].at \in {"timer", "attempt"}
    BY DEF Next, AddJob, Start, Succeed, Fail
  <2>3. \E i \in Added : i # j
    BY <2>1, <2>2 DEF Added, OnlyChain
  <2> QED
    BY <2>1, <2>3, TwoAdded
<1> QED
  BY Invariance, <1>1, PTL DEF Spec, SettledJobsStay

-----------------------------------------------------------------------------
\* The chains that have used up, or are using, an attempt at j after which j
\* is not tried again: as attempts go on, they bound what exceeds MaxAttempts.
Spent(j) == {k \in Jobs : \/ chains[k].at = "over"
                          \/ chains[k].at = "attempt" /\ chains[k].job = j}

AttemptsPaidFor ==
  \A j \in Jobs : jobs[j].attempts < MaxAttempts + Cardinality(Spent(j))

LEMMA SpentFinite ==
  \A j \in Jobs : /\ IsFiniteSet(Spent(j))
                  /\ IsFiniteSet(Spent(j)')
                  /\ Cardinality(Spent(j)) \in Nat
                  /\ Cardinality(Spent(j)') \in Nat
<1> SUFFICES ASSUME NEW j \in Jobs
             PROVE  /\ IsFiniteSet(Spent(j))
                    /\ IsFiniteSet(Spent(j)')
                    /\ Cardinality(Spent(j)) \in Nat
                    /\ Cardinality(Spent(j)') \in Nat
  OBVIOUS
<1>1. IsFiniteSet(Spent(j)) /\ IsFiniteSet(Spent(j)')
  BY FS_Subset, JobsAssumption DEF Spent
<1> QED
  BY <1>1, FS_CardinalityType

\* Where no chain leaves the set and no attempt is made, nothing changes.
LEMMA SpentGrows ==
  ASSUME NEW j \in Jobs, Spent(j) \subseteq Spent(j)',
         jobs[j].attempts \in Nat, jobs'[j].attempts = jobs[j].attempts,
         jobs[j].attempts < MaxAttempts + Cardinality(Spent(j))
  PROVE  jobs'[j].attempts < MaxAttempts + Cardinality(Spent(j)')
<1>1. Cardinality(Spent(j)) <= Cardinality(Spent(j)')
  BY SpentFinite, FS_Subset
<1> QED
  BY <1>1, SpentFinite

LEMMA NextAttemptsPaidFor ==
  IInv /\ AttemptsPaidFor /\ [Next]_vars => AttemptsPaidFor'
<1> SUFFICES ASSUME IInv, AttemptsPaidFor, [Next]_vars, NEW j \in Jobs
             PROVE  jobs'[j].attempts < MaxAttempts + Cardinality(Spent(j)')
  BY DEF AttemptsPaidFor
<1> USE DEF IInv, Typed, ChainsHaveRecords, JobStatuses
<1>0. /\ jobs[j].attempts \in Nat
      /\ jobs[j].attempts < MaxAttempts + Cardinality(Spent(j))
  BY DEF AttemptsPaidFor
<1>1. ASSUME NEW i \in Jobs, AddJob(i)
      PROVE  jobs'[j].attempts < MaxAttempts + Cardinality(Spent(j)')
  <2>1. CASE i = j
    <3>1. jobs'[j].attempts = 0
      BY <1>1, <2>1 DEF AddJob
    <3> QED
      BY <3>1, SpentFinite
  <2>2. CASE i # j
    <3>1. jobs'[j].attempts = jobs[j].attempts
      BY <1>1, <2>2 DEF AddJob
    <3>2. Spent(j) \subseteq Spent(j)'
      BY <1>1 DEF AddJob, Spent
    <3> QED
      BY <1>0, <3>1, <3>2, SpentGrows
  <2> QED
    BY <2>1, <2>2
<1>2. ASSUME NEW k \in Jobs, Start(k)
      PROVE  jobs'[j].attempts < MaxAttempts + Cardinality(Spent(j)')
  <2>1. CASE current = j
    <3>1. jobs'[j].attempts = jobs[j].attempts + 1
      BY <1>2, <2>1 DEF Start, CountAttempt
    <3>2. k \notin Spent(j) /\ Spent(j)' = Spent(j) \cup {k}
      BY <1>2, <2>1 DEF Start, Spent
    <3>3. Cardinality(Spent(j)') = Cardinality(Spent(j)) + 1
      BY <3>2, SpentFinite, FS_AddElement
    <3> QED
      BY <1>0, <3>1, <3>3, SpentFinite
  <2>2. CASE current # j
    <3>1. jobs'[j].attempts = jobs[j].attempts
      BY <1>2, <2>2 DEF Start
    <3>2. Spent(j) \subseteq Spent(j)'
      BY <1>2 DEF Start, Spent
    <3> QED
      BY <1>0, <3>1, <3>2, SpentGrows
  <2> QED
    BY <2>1, <2>2
<1>3. ASSUME NEW k \in Jobs, Succeed(k)
      PROVE  jobs'[j].attempts < MaxAttempts + Cardinality(Spent(j)')
  <2>1. jobs'[j].attempts = jobs[j].attempts
    BY <1>3 DEF Succeed
  <2>2. Spent(j) \subseteq Spent(j)'
    BY <1>3 DEF Succeed, Spent, Over
  <2> QED
    BY <1>0, <2>1, <2>2, SpentGrows
<1>4. ASSUME NEW k \in Jobs, Fail(k)
      PROVE  jobs'[j].attempts < MaxAttempts + Cardinality(Spent(j)')
  <2>1. jobs'[j].attempts = jobs[j].attempts
    BY <1>4 DEF Fail
  <2>2. CASE chains[k].job = j /\ jobs[j].attempts < MaxAttempts
    BY <2>1, <2>2, SpentFinite
  <2>3. CASE ~(chains[k].job = j /\ jobs[j].attempts < MaxAttempts)
    <3>1. Spent(j) \subseteq Spent(j)'
      BY <1>4, <2>3 DEF Fail, MayRetry, Spent, Over
    <3> QED
      BY <1>0, <2>1, <3>1, SpentGrows
  <2> QED
    BY <2>2, <2>3
<1>5. CASE UNCHANGED vars
  <2>1. Spent(j)' = Spent(j) /\ jobs' = jobs
    BY <1>5 DEF vars, Spent
  <2> QED
    BY <1>0, <2>1
<1> QED
  BY <1>1, <1>2, <1>3, <1>4, <1>5 DEF Next

LEMMA Paid == Spec => []AttemptsPaidFor
<1>1. Init => AttemptsPaidFor
  BY SpentFinite DEF Init, AttemptsPaidFor
<1> QED
  BY Invariance, <1>1, NextAttemptsPaidFor, PTL DEF Spec

LEMMA SpentAreAdded ==
  \A j \in Jobs : /\ Cardinality(Added) \in Nat
                  /\ Cardinality(Spent(j)) <= Cardinality(Added)
                  /\ Cardinality(Added) <= Cardinality(Jobs)
<1>1. IsFiniteSet(Added) /\ Cardinality(Added) <= Cardinality(Jobs)
  BY FS_Subset, JobsAssumption DEF Added
<1>2. \A j \in Jobs : Spent(j) \subseteq Added
  BY DEF Spent, Added
<1> QED
  BY <1>1, <1>2, FS_Subset, FS_CardinalityType

\* A record is attempted no more often than it may be, plus once for every
\* chain left over from a record it replaced.
THEOREM AttemptsAreBounded == Spec => []AttemptsBounded
<1>1. IInv /\ AttemptsPaidFor => AttemptsBounded
  <2> SUFFICES ASSUME IInv, AttemptsPaidFor, NEW j \in Jobs
               PROVE  jobs[j].attempts <= MaxAttempts + Cardinality(Added) - 1
    BY DEF AttemptsBounded
  <2> QED
    BY SpentAreAdded, SpentFinite DEF IInv, Typed, AttemptsPaidFor
<1> QED
  BY Invariance, Paid, <1>1, PTL

\* The type invariant, whose bound on the attempts is that of the theorem above.
THEOREM TypeCorrect == Spec => []TypeOK
<1>1. IInv /\ AttemptsPaidFor => TypeOK
  <2> SUFFICES ASSUME IInv, AttemptsPaidFor
               PROVE  TypeOK
    OBVIOUS
  <2>1. Cardinality(Jobs) \in Nat
    BY FS_CardinalityType, JobsAssumption
  <2>2. \A j \in Jobs :
          jobs[j].attempts \in 0..(MaxAttempts + Cardinality(Jobs) - 1)
    BY <2>1, SpentAreAdded, SpentFinite DEF IInv, Typed, AttemptsPaidFor
  <2> QED
    BY <2>2 DEF IInv, Typed, TypeOK
<1> QED
  BY Invariance, Paid, <1>1, PTL

-----------------------------------------------------------------------------
(***************************************************************************)
(* Notifications.  Rows and dispatches that are past the check trade       *)
(* places; a dispatch passes the check only while there is no row, so they *)
(* never are more than the dispatches there can be.                        *)
(***************************************************************************)
DispatchesTyped ==
  /\ dispatches \in [Dispatchers -> {"none", "checking", "sending"}]
  /\ recent \in Nat
  /\ old \in BOOLEAN

\* An attempt is one dispatch's, and no dispatch but those in the slots goes on
\* when its attempt has ended.
AttemptsDispatch ==
  \A k \in Jobs : dispatches[k] # "none" <=> chains[k].at = "attempt"

\* The inductive invariant of the dispatches, beside that of the queue.
NotificationsIInv == DispatchesTyped /\ AttemptsDispatch /\ RepeatsOnlyByRacing

LEMMA NotificationsStepQueue == [NotificationsNext]_allVars => [Next]_vars
BY DEF NotificationsNext, allVars, vars, Next, Enqueue, StartAttempt, Listen,
       DispatchStep, SuppressDuplicate, CheckPasses, CheckThrows, Deliver,
       ProviderFails, Returns, Throws, ProviderTimesOut, AttemptTimesOut, Age,
       Purge

\* What is proved of the queue holds of it with its notifications.
LEMMA NotificationsAreJobs == NotificationsSpec => Spec
<1>1. NotificationsInit => Init
  BY DEF NotificationsInit
<1> QED
  BY <1>1, NotificationsStepQueue, PTL DEF NotificationsSpec, Spec

LEMMA DispatchersFinite ==
  /\ Cardinality(Dispatchers) \in Nat
  /\ IsFiniteSet(Sending) /\ Cardinality(Sending) \in Nat
  /\ IsFiniteSet(Sending') /\ Cardinality(Sending') \in Nat
  /\ Cardinality(Sending') <= Cardinality(Dispatchers)
<1>1. IsFiniteSet(Dispatchers)
  BY SlotsAssumption, FS_Union DEF Dispatchers
<1>2. IsFiniteSet(Sending) /\ IsFiniteSet(Sending')
  BY <1>1, FS_Subset DEF Sending
<1>3. Cardinality(Sending') <= Cardinality(Dispatchers)
  BY <1>1, FS_Subset DEF Sending
<1> QED
  BY <1>1, <1>2, <1>3, FS_CardinalityType

\* A dispatch moves; the attempt that waits for it is told when it returns.
LEMMA DispatchStepsKept ==
  ASSUME IInv, NotificationsIInv, NEW d \in Dispatchers, DispatchStep(d)
  PROVE  NotificationsIInv'
<1> USE DispatchersFinite DEF NotificationsIInv
<1>1. /\ dispatches[d] # "none"
      /\ \E at \in {"none", "sending"} :
           /\ dispatches' = [dispatches EXCEPT ![d] = at]
           /\ at = "none" => Returns(d) \/ Throws(d)
           /\ at # "none" => UNCHANGED vars
  BY DEF DispatchStep, SuppressDuplicate, CheckPasses, CheckThrows, Deliver,
         ProviderFails, Go
<1>2. DispatchesTyped'
  BY <1>1 DEF DispatchesTyped, DispatchStep, SuppressDuplicate, CheckPasses,
              CheckThrows, Deliver, ProviderFails
<1>3. AttemptsDispatch'
  <2>1. CASE UNCHANGED vars /\ (d \in Jobs => dispatches'[d] # "none")
    BY <1>1, <2>1 DEF AttemptsDispatch, DispatchesTyped, vars, Dispatchers
  <2>2. CASE d \in Jobs /\ (Succeed(d) \/ Fail(d)) /\ dispatches'[d] = "none"
    <3>1. /\ chains'[d].at # "attempt"
          /\ \A k \in Jobs \ {d} : chains'[k] = chains[k]
      BY <2>2 DEF Succeed, Fail, Over, RetryTimer, IInv, Typed
    <3> QED
      BY <1>1, <2>2, <3>1 DEF AttemptsDispatch, DispatchesTyped, Dispatchers
  <2> QED
    BY <1>1, <2>1, <2>2 DEF Returns, Throws, DispatchesTyped
<1>4. RepeatsOnlyByRacing'
  <2>1. CASE CheckPasses(d)
    BY <2>1 DEF CheckPasses, NoDuplicate, RepeatsOnlyByRacing
  <2>2. CASE dispatches[d] = "sending" /\ dispatches'[d] = "none"
    <3>1. d \in Sending /\ Sending' = Sending \ {d}
      BY <1>1, <2>2 DEF Sending, DispatchesTyped
    <3>2. Cardinality(Sending') = Cardinality(Sending) - 1
      BY <3>1, FS_RemoveElement
    <3>3. recent' \in {recent, recent + 1}
      BY <2>2 DEF DispatchStep, SuppressDuplicate, CheckPasses, CheckThrows,
                  Deliver, ProviderFails
    <3> QED
      BY <3>2, <3>3 DEF RepeatsOnlyByRacing, DispatchesTyped
  <2>3. CASE dispatches[d] = "checking" /\ dispatches'[d] = "none"
    <3>1. Sending' = Sending
      BY <1>1, <2>3 DEF Sending, DispatchesTyped
    <3>2. recent' = recent
      BY <2>3 DEF DispatchStep, SuppressDuplicate, CheckPasses, CheckThrows,
                  Deliver, ProviderFails
    <3> QED
      BY <3>1, <3>2 DEF RepeatsOnlyByRacing
  <2> QED
    BY <1>1, <2>1, <2>2, <2>3
       DEF DispatchStep, SuppressDuplicate, CheckThrows, Deliver, ProviderFails,
           Go, DispatchesTyped
<1> QED
  BY <1>2, <1>3, <1>4

\* A dispatch that nobody waits for any longer goes on in a slot.
LEMMA DetachmentsKept ==
  ASSUME IInv, NotificationsIInv, NEW k \in Jobs, NEW s \in Slots,
         ProviderTimesOut(k, s) \/ AttemptTimesOut(k, s)
  PROVE  NotificationsIInv'
<1> USE DispatchersFinite, SlotsAssumption DEF NotificationsIInv, Dispatchers
<1>1. /\ dispatches[s] = "none"
      /\ dispatches' = [dispatches EXCEPT ![s] = dispatches[k], ![k] = "none"]
      /\ UNCHANGED <<recent, old>>
      /\ Succeed(k) \/ Fail(k)
  BY DEF ProviderTimesOut, AttemptTimesOut, Detach
<1>2. DispatchesTyped'
  BY <1>1 DEF DispatchesTyped
<1>3. AttemptsDispatch'
  <2>1. /\ chains'[k].at # "attempt"
        /\ \A j \in Jobs \ {k} : chains'[j] = chains[j]
    BY <1>1 DEF Succeed, Fail, Over, RetryTimer, IInv, Typed
  <2> QED
    BY <1>1, <2>1 DEF AttemptsDispatch, DispatchesTyped
<1>4. RepeatsOnlyByRacing'
  <2>1. CASE k \in Sending
    <3>1. s \notin Sending \ {k} /\ Sending' = (Sending \ {k}) \cup {s}
      BY <1>1, <2>1 DEF Sending, DispatchesTyped
    <3>2. /\ IsFiniteSet(Sending \ {k})
          /\ Cardinality(Sending \ {k}) = Cardinality(Sending) - 1
      BY <2>1, FS_RemoveElement
    <3>3. Cardinality(Sending') = Cardinality(Sending \ {k}) + 1
      BY <3>1, <3>2, FS_AddElement
    <3> QED
      BY <1>1, <3>2, <3>3 DEF RepeatsOnlyByRacing
  <2>2. CASE k \notin Sending
    <3>1. Sending' = Sending
      BY <1>1, <2>2 DEF Sending, DispatchesTyped
    <3> QED
      BY <1>1, <3>1 DEF RepeatsOnlyByRacing
  <2> QED
    BY <2>1, <2>2
<1> QED
  BY <1>2, <1>3, <1>4

\* No other step sends anything.
LEMMA OthersKept ==
  ASSUME IInv, NotificationsIInv,
         \/ \E j \in Jobs : Enqueue(j) \/ StartAttempt(j)
         \/ \E s \in Slots : Listen(s)
         \/ Age \/ Purge
  PROVE  NotificationsIInv'
<1> USE DispatchersFinite, SlotsAssumption DEF NotificationsIInv, Dispatchers
<1>1. CASE \E j \in Jobs : Enqueue(j)
  <2>1. PICK j \in Jobs : Enqueue(j)
    BY <1>1
  <2>2. AttemptsDispatch'
    BY <2>1 DEF Enqueue, AddJob, notificationVars, AttemptsDispatch, IInv, Typed
  <2> QED
    BY <2>1, <2>2 DEF Enqueue, notificationVars, DispatchesTyped,
                      RepeatsOnlyByRacing, Sending
<1>2. CASE \E j \in Jobs : StartAttempt(j)
  <2>1. PICK j \in Jobs : StartAttempt(j)
    BY <1>2
  <2>2. /\ dispatches[j] = "none"
        /\ dispatches' = [dispatches EXCEPT ![j] = "checking"]
        /\ UNCHANGED <<recent, old>>
    BY <2>1 DEF StartAttempt, Start, Go, AttemptsDispatch
  <2>3. AttemptsDispatch'
    BY <2>1, <2>2
       DEF StartAttempt, Start, AttemptsDispatch, DispatchesTyped, IInv, Typed
  <2>4. Sending' = Sending
    BY <2>2 DEF Sending, DispatchesTyped
  <2> QED
    BY <2>2, <2>3, <2>4 DEF DispatchesTyped, RepeatsOnlyByRacing
<1>3. CASE \E s \in Slots : Listen(s)
  <2>1. PICK s \in Slots : Listen(s)
    BY <1>3
  <2>2. /\ dispatches[s] = "none"
        /\ dispatches' = [dispatches EXCEPT ![s] = "checking"]
        /\ UNCHANGED <<vars, recent, old>>
    BY <2>1 DEF Listen, Go
  <2>3. AttemptsDispatch'
    BY <2>2 DEF AttemptsDispatch, DispatchesTyped, vars
  <2>4. Sending' = Sending
    BY <2>2 DEF Sending, DispatchesTyped
  <2> QED
    BY <2>2, <2>3, <2>4 DEF DispatchesTyped, RepeatsOnlyByRacing
<1>4. CASE Age \/ Purge
  <2>1. UNCHANGED <<chains, dispatches>> /\ old' \in BOOLEAN
    BY <1>4 DEF Age, Purge, vars
  <2>2. (recent > 0 /\ recent' = recent - 1) \/ recent' = recent
    BY <1>4, Zenon DEF Age, Purge
  <2>3. recent' \in Nat /\ recent' <= recent
    BY <2>2 DEF DispatchesTyped
  <2> QED
    BY <2>1, <2>3 DEF DispatchesTyped, AttemptsDispatch, RepeatsOnlyByRacing, Sending
<1> QED
  BY <1>1, <1>2, <1>3, <1>4

LEMMA NotificationsInvariance == NotificationsSpec => []NotificationsIInv
<1>1. NotificationsInit => NotificationsIInv
  <2> SUFFICES ASSUME NotificationsInit
               PROVE  NotificationsIInv
    OBVIOUS
  <2>1. DispatchesTyped /\ AttemptsDispatch
    BY DEF NotificationsInit, Init, DispatchesTyped, AttemptsDispatch, Dispatchers
  <2>2. Cardinality(Sending) = 0
    <3>1. Sending = {}
      BY DEF NotificationsInit, Sending
    <3> QED
      BY <3>1, FS_EmptySet
  <2>3. RepeatsOnlyByRacing
    BY <2>2, DispatchersFinite DEF NotificationsInit, RepeatsOnlyByRacing
  <2> QED
    BY <2>1, <2>3 DEF NotificationsIInv
<1>2. IInv /\ NotificationsIInv /\ [NotificationsNext]_allVars => NotificationsIInv'
  <2> SUFFICES ASSUME IInv, NotificationsIInv, [NotificationsNext]_allVars
               PROVE  NotificationsIInv'
    OBVIOUS
  <2>1. CASE UNCHANGED allVars
    BY <2>1 DEF allVars, NotificationsIInv, DispatchesTyped, AttemptsDispatch,
                RepeatsOnlyByRacing, Sending
  <2> QED
    BY <2>1, DispatchStepsKept, DetachmentsKept, OthersKept DEF NotificationsNext
<1> QED
  BY <1>1, <1>2, NotificationsAreJobs, Invariance, PTL DEF NotificationsSpec

\* Type correctness of the queue with its dispatches and their rows.
THEOREM NotificationsTypeCorrect == NotificationsSpec => []NotificationsTypeOK
<1>1. NotificationsIInv /\ TypeOK => NotificationsTypeOK
  BY DEF NotificationsIInv, DispatchesTyped, NotificationsTypeOK
<1> QED
  BY <1>1, NotificationsInvariance, NotificationsAreJobs, TypeCorrect, PTL

\* However attempts, retries, timeouts and events overlap, a recipient gets no
\* more of one notification within a minute than dispatches were under way.
THEOREM RepeatsAreRaced == NotificationsSpec => []RepeatsOnlyByRacing
<1>1. NotificationsIInv => RepeatsOnlyByRacing
  BY DEF NotificationsIInv
<1> QED
  BY <1>1, NotificationsInvariance, PTL

-----------------------------------------------------------------------------
(***************************************************************************)
(* The reports.                                                            *)
(***************************************************************************)
\* Every report issues one group of statements after another.
LEMMA ReportsHaveGroups ==
  \A r \in AllReports :
    /\ Len(r.groups) \in Nat \ {0}
    /\ DOMAIN r.groups = 1..Len(r.groups)
<1> SUFFICES ASSUME NEW r \in AllReports
             PROVE  Len(r.groups) \in Nat \ {0} /\ DOMAIN r.groups = 1..Len(r.groups)
  OBVIOUS
<1>1. CASE r = getAdminDashboardSummary
  BY <1>1 DEF getAdminDashboardSummary, Report
<1>2. CASE r = getVendorDashboardSummary
  BY <1>2 DEF getVendorDashboardSummary, Report
<1>3. CASE r = getCustomerDashboardSummary
  BY <1>3 DEF getCustomerDashboardSummary, Report
<1>4. CASE r = getRevenueAnalytics
  BY <1>4 DEF getRevenueAnalytics, Report
<1>5. CASE r = getServiceAnalytics
  BY <1>5 DEF getServiceAnalytics, Report
<1>6. CASE r = getPaymentAnalytics
  BY <1>6 DEF getPaymentAnalytics, Report
<1>7. CASE r = getWorkOrderAnalytics
  BY <1>7 DEF getWorkOrderAnalytics, Report
<1> QED
  BY <1>1, <1>2, <1>3, <1>4, <1>5, <1>6, <1>7, Zenon DEF AllReports

\* What the handlers let a row become is a status of its kind.
LEMMA MachinesTyped ==
  \A k \in DOMAIN Machines :
    /\ Fresh[k] \subseteq Statuses(k)
    /\ \A s \in Statuses(k) : Machines[k][s] \subseteq Statuses(k)
<1> DEFINE HasTypes(k) == /\ Fresh[k] \subseteq Statuses(k)
                       /\ \A s \in Statuses(k) : Machines[k][s] \subseteq Statuses(k)
<1>1. HasTypes("request")
  BY DEF Statuses, Machines, Fresh, RequestMoves, RequestStatuses, RequestTransitions
<1>2. HasTypes("survey")
  BY DEF Statuses, Machines, Fresh, SurveyMoves, SurveyStatuses, SurveyTransitions
<1>3. HasTypes("estimate")
  BY DEF Statuses, Machines, Fresh, EstimateTransitions
<1>4. HasTypes("order")
  BY DEF Statuses, Machines, Fresh, WorkOrderTransitions
<1>5. HasTypes("payment")
  BY DEF Statuses, Machines, Fresh, PaymentTransitions
<1>6. HasTypes("invoice")
  BY DEF Statuses, Machines, Fresh, InvoiceTransitions
<1>7. HasTypes("notification")
  BY DEF Statuses, Machines, Fresh, NotificationMoves
<1>8. HasTypes("event")
  BY DEF Statuses, Machines, Fresh, EventSources
<1> QED
  BY <1>1, <1>2, <1>3, <1>4, <1>5, <1>6, <1>7, <1>8 DEF Machines

-----------------------------------------------------------------------------
\* The inductive invariant: a statement whose turn is over counted the row if
\* the row answered to it all the time, and none counted a row that never did.
CountsSteady(s) ==
  (\A i \in DOMAIN had : Matches(s, had[i])) => s \in counted

ReportsIInv ==
  /\ ReportsTypeOK
  /\ making = [ report |-> making.report, at |-> making.at,
                todo |-> making.todo, lost |-> making.lost ]
  /\ had # <<>> /\ had[Len(had)] = entry
  /\ \A n \in 1..Len(making.report.groups) :
       n <= making.at =>
         \A s \in About(making.report.groups[n]) \ making.lost :
           (n = making.at => s \notin making.todo) => CountsSteady(s)
  /\ \A s \in counted : \E i \in DOMAIN had : Matches(s, had[i])

\* Both initial states of a report.
LEMMA ReportBeginsIInv ==
  ASSUME kind \in DOMAIN Machines \ {"event"}, entry \in Entries,
         NEW report \in AllReports, making = Asking(report, 1), ReportBegins
  PROVE  ReportsIInv
<1>1. /\ Len(report.groups) \in Nat \ {0}
      /\ DOMAIN report.groups = 1..Len(report.groups)
  BY ReportsHaveGroups
<1>2. /\ making = [ report |-> report, at |-> 1,
                    todo |-> About(report.groups[1]), lost |-> {} ]
      /\ counted = {} /\ had = <<entry>>
  BY DEF Asking, ReportBegins
<1>3. About(report.groups[1]) \subseteq UNION { report.groups[n] : n \in DOMAIN report.groups }
  BY <1>1 DEF About
<1>4. ReportsTypeOK
  BY <1>1, <1>2, <1>3 DEF ReportsTypeOK
<1> QED
  BY <1>1, <1>2, <1>4 DEF ReportsIInv

LEMMA EntryStaysTyped ==
  ASSUME ReportsIInv, EntryChanges
  PROVE  entry' \in Entries
<1>1. /\ kind \in DOMAIN Machines
      /\ entry \in Entries
  BY DEF ReportsIInv, ReportsTypeOK
<1>2. CASE entry = NoEntry
  BY <1>1, <1>2, MachinesTyped DEF EntryChanges, Entries
<1>3. CASE entry # NoEntry
  BY <1>1, <1>3, MachinesTyped DEF EntryChanges, Entries
<1> QED
  BY <1>2, <1>3

LEMMA EntryChangesKept ==
  ASSUME ReportsIInv, EntryChanges
  PROVE  ReportsIInv'
<1>1. /\ had \in Seq(Entries) /\ entry' \in Entries
      /\ had' = Append(had, entry')
      /\ UNCHANGED <<kind, making, counted>>
  BY EntryStaysTyped DEF ReportsIInv, ReportsTypeOK, EntryChanges
<1>2. /\ had' \in Seq(Entries)
      /\ had' # <<>> /\ had'[Len(had')] = entry'
      /\ DOMAIN had \subseteq DOMAIN had'
      /\ \A i \in DOMAIN had : had'[i] = had[i]
  BY <1>1
<1>3. ReportsTypeOK'
  BY <1>1, <1>2 DEF ReportsIInv, ReportsTypeOK, Entries
<1>4. \A s : CountsSteady(s) => CountsSteady(s)'
  BY <1>1, <1>2 DEF CountsSteady, Matches
<1>5. \A s \in counted' : \E i \in DOMAIN had' : Matches(s, had'[i])
  BY <1>1, <1>2 DEF ReportsIInv
<1> QED
  BY <1>1, <1>2, <1>3, <1>4, <1>5 DEF ReportsIInv, About

\* A statement that is read, or given up.
LEMMA StatementsKept ==
  ASSUME ReportsIInv, NEW s \in making.todo, Execute(s) \/ Lose(s)
  PROVE  ReportsIInv'
<1>1. /\ UNCHANGED <<kind, entry, had>>
      /\ making' = [ report |-> making.report, at |-> making.at,
                     todo |-> making.todo \ {s}, lost |-> making'.lost ]
      /\ \/ making'.lost = making.lost
         \/ making'.lost = making.lost \cup {s}
  <2>1. making = [ report |-> making.report, at |-> making.at,
                   todo |-> making.todo, lost |-> making.lost ]
    BY DEF ReportsIInv
  <2> QED
    BY <2>1 DEF Execute, Lose
<1>2. /\ counted \subseteq counted' /\ counted' \subseteq counted \cup {s}
      /\ s \in counted' => s \in counted \/ Matches(s, entry)
  BY DEF Execute, Lose
<1>3. s \notin making'.lost => CountsSteady(s)'
  <2>1. Len(had) \in DOMAIN had /\ had[Len(had)] = entry
    BY DEF ReportsIInv, ReportsTypeOK
  <2>2. CASE Execute(s)
    BY <2>1, <2>2 DEF Execute, CountsSteady, Matches
  <2>3. CASE Lose(s)
    BY <2>3, <1>1 DEF Lose, ReportsIInv
  <2> QED
    BY <2>2, <2>3
<1>4. \A t : CountsSteady(t) => CountsSteady(t)'
  BY <1>1, <1>2 DEF CountsSteady, Matches
<1>5. ReportsTypeOK'
  BY <1>1, <1>2 DEF ReportsIInv, ReportsTypeOK, Entries
<1>6. \A t \in counted' : \E i \in DOMAIN had' : Matches(t, had'[i])
  <2>1. Len(had) \in DOMAIN had /\ had[Len(had)] = entry
    BY DEF ReportsIInv, ReportsTypeOK
  <2> QED
    BY <1>1, <1>2, <2>1 DEF ReportsIInv
<1>7. \A n \in 1..Len(making'.report.groups) :
        n <= making'.at =>
          \A t \in About(making.report.groups[n]) \ making'.lost :
            (n = making'.at => t \notin making'.todo) => CountsSteady(t)'
  BY <1>1, <1>3, <1>4 DEF ReportsIInv
<1>8. (\A n \in 1..Len(making.report.groups) :
         n <= making.at =>
           \A t \in About(making.report.groups[n]) \ making.lost :
             (n = making.at => t \notin making.todo) => CountsSteady(t))'
  BY <1>1, <1>7 DEF About
<1> QED
  BY <1>1, <1>5, <1>6, <1>8 DEF ReportsIInv

LEMMA NextGroupKept ==
  ASSUME ReportsIInv, NextGroup
  PROVE  ReportsIInv'
<1> DEFINE groups == making.report.groups
           n == making.at + 1
<1>1. /\ Len(groups) \in Nat \ {0} /\ DOMAIN groups = 1..Len(groups)
      /\ making.at \in 1..Len(groups)
      /\ making.todo = {}
  BY ReportsHaveGroups
     DEF ReportsIInv, ReportsTypeOK, NextGroup, Reported, Awaited
<1>2. /\ UNCHANGED <<kind, entry, counted, had>>
      /\ making' = [ report |-> making.report, at |-> n,
                     todo |-> IF n > Len(groups) THEN {} ELSE About(groups[n]),
                     lost |-> making.lost ]
  <2>1. making = [ report |-> making.report, at |-> making.at,
                   todo |-> making.todo, lost |-> making.lost ]
    BY DEF ReportsIInv
  <2> QED
    BY <2>1 DEF NextGroup
<1>3. ReportsTypeOK'
  <2>1. making'.todo \subseteq UNION { groups[m] : m \in DOMAIN groups }
    BY <1>1, <1>2 DEF About
  <2> QED
    BY <1>1, <1>2, <2>1 DEF ReportsIInv, ReportsTypeOK, Entries
<1>4. \A t : CountsSteady(t)' <=> CountsSteady(t)
  BY <1>2 DEF CountsSteady, Matches
<1>5. \A m \in 1..Len(groups) :
        m <= n =>
          \A t \in About(groups[m]) \ making.lost :
            (m = n => t \notin making'.todo) => CountsSteady(t)
  <2> SUFFICES ASSUME NEW m \in 1..Len(groups), m <= n,
                      NEW t \in About(groups[m]) \ making.lost,
                      m = n => t \notin making'.todo
               PROVE  CountsSteady(t)
    OBVIOUS
  <2>1. m # n
    BY <1>1, <1>2
  <2>2. m <= making.at
    BY <1>1, <2>1
  <2> QED
    BY <1>1, <2>2 DEF ReportsIInv
<1>6. (\A m \in 1..Len(making.report.groups) :
         m <= making.at =>
           \A t \in About(making.report.groups[m]) \ making.lost :
             (m = making.at => t \notin making.todo) => CountsSteady(t))'
  BY <1>2, <1>4, <1>5 DEF About
<1> QED
  BY <1>2, <1>3, <1>6 DEF ReportsIInv

LEMMA ReportsIInvInductive == ReportsIInv /\ [ReportsNext]_reportVars => ReportsIInv'
<1>1. ReportsIInv /\ UNCHANGED reportVars => ReportsIInv'
  BY DEF ReportsIInv, ReportsTypeOK, reportVars, CountsSteady, Matches, Entries,
         About
<1> QED
  BY <1>1, EntryChangesKept, StatementsKept, NextGroupKept DEF ReportsNext

LEMMA ReportsInvariance == ReadingSpec => []ReportsIInv
<1>1. ReadingInit => ReportsIInv
  <2>1. CASE ReportsInit
    BY <2>1, ReportBeginsIInv DEF ReportsInit
  <2>2. CASE NoReport
    <3>1. /\ kind \in DOMAIN Machines \ {"event"} /\ entry \in Entries
          /\ getWorkOrderAnalytics \in AllReports
      BY <2>2 DEF NoReport, Machines, Entries, AllReports
    <3> QED
      BY <2>2, <3>1, ReportBeginsIInv DEF NoReport
  <2> QED
    BY <2>1, <2>2 DEF ReadingInit
<1>2. [ReadingNext]_readingVars => [ReportsNext]_reportVars
  BY DEF ReadingNext, readingVars, reportVars
<1> QED
  BY <1>1, <1>2, ReportsIInvInductive, PTL DEF ReadingSpec

\* Type correctness of the row that is reported and the report.
THEOREM ReportsTypeCorrect == ReadingSpec => []ReportsTypeOK
<1>1. ReportsIInv => ReportsTypeOK
  BY DEF ReportsIInv
<1> QED
  BY <1>1, ReportsInvariance, PTL

\* Each number of a report counts a row that answered to it all the time, and
\* none that never did, or it is missing.
THEOREM NumbersOfTheirTime == ReadingSpec => []NumbersAreOfTheirTime
<1>1. ReportsIInv => NumbersAreOfTheirTime
  <2> SUFFICES ASSUME ReportsIInv, Reported,
                      NEW n \in DOMAIN making.report.groups,
                      NEW s \in About(making.report.groups[n]) \ making.lost
               PROVE  /\ CountsSteady(s)
                      /\ s \in counted => \E i \in DOMAIN had : Matches(s, had[i])
    BY DEF NumbersAreOfTheirTime, CountsSteady
  <2>1. /\ n \in 1..Len(making.report.groups)
        /\ n <= making.at /\ n # making.at
    BY ReportsHaveGroups DEF ReportsIInv, ReportsTypeOK, Reported
  <2> QED
    BY <2>1 DEF ReportsIInv
<1> QED
  BY <1>1, ReportsInvariance, PTL

-----------------------------------------------------------------------------
(***************************************************************************)
(* The endpoints.                                                          *)
(***************************************************************************)
\* What opens from a list takes every status the list shows, whatever the row
\* becomes, and looks at the request only where the list does.
Opening(l) ==
  /\ l.shows \cap l.opens.refuses = {}
  /\ \A s \in Statuses(l.of) \ l.opens.refuses :
       Machines[l.of][s] \cap l.opens.refuses = {}
  /\ l.opens.scope = "assigned" => l.scope = "assigned" /\ l.of # "event"

\* A feed tells its rows apart and reads each source by itself, a list is counted
\* and found, and comes in pages.
Columns == {"of", "scope", "shows", "stable", "paged", "statements", "opens"}

Sound(l) ==
  /\ Columns \subseteq DOMAIN l
  /\ {"scope", "refuses"} \subseteq DOMAIN l.opens
  /\ l.of \in DOMAIN Machines
  /\ l.shows \subseteq Statuses(l.of)
  /\ l.paged \in BOOLEAN /\ l.stable \in BOOLEAN
  /\ IF l.of = "event"
       THEN l.stable /\ l.statements = l.shows
       ELSE l.paged /\ l.statements = {"count", "find"}
  /\ Opening(l)

\* The columns that make a list what it is.
LEMMA SoundLike ==
  ASSUME NEW l, Sound(l), NEW k, Columns \subseteq DOMAIN k,
         {"scope", "refuses"} \subseteq DOMAIN k.opens,
         k.of = l.of, k.statements = l.statements, k.paged = l.paged,
         k.opens.refuses = l.opens.refuses,
         k.shows \subseteq Statuses(k.of) \ k.opens.refuses,
         k.of # "event" \/ k.shows = l.shows,
         k.stable \in BOOLEAN, k.of # "event" \/ k.stable,
         k.opens.scope = "assigned" => k.scope = "assigned" /\ k.of # "event"
  PROVE  Sound(k)
BY DEF Sound, Opening

LEMMA ListsSound ==
  ASSUME NEW of \in DOMAIN Machines \ {"event"}, NEW scope, NEW seenBy,
         seenBy = "assigned" => scope = "assigned"
  PROVE  /\ Sound(List(of, scope, Detail(seenBy, {})))
         /\ Sound(getOrderBy(List(of, scope, Detail(seenBy, {}))))
<1> DEFINE l == List(of, scope, Detail(seenBy, {}))
<1>1. /\ Columns \subseteq DOMAIN l /\ {"scope", "refuses"} \subseteq DOMAIN l.opens
      /\ l.of = of /\ l.scope = scope /\ l.shows = Statuses(of)
      /\ l.stable = FALSE /\ l.paged = TRUE /\ l.statements = {"count", "find"}
      /\ l.opens.scope = seenBy /\ l.opens.refuses = {}
  BY DEF List, Detail, Columns
<1> HIDE DEF l
<1>2. Opening(l)
  BY <1>1 DEF Opening
<1>3. Sound(l)
  BY <1>1, <1>2 DEF Sound
<1> DEFINE k == getOrderBy(l)
<1>4. /\ Columns \subseteq DOMAIN k
      /\ k.stable = TRUE
      /\ \A x \in Columns \ {"stable"} : k[x] = l[x]
  BY <1>1 DEF getOrderBy, Columns
<1> HIDE DEF k
<1>5. Sound(k)
  BY <1>1, <1>3, <1>4, SoundLike DEF Columns
<1> QED
  BY <1>3, <1>5 DEF k, l

LEMMA PublishedSound == Sound(getCustomerSurveys) /\ Sound(getCustomerEstimates)
<1>1. /\ Machines["survey"] = SurveyMoves /\ Machines["estimate"] = EstimateTransitions
      /\ {"survey", "estimate"} \subseteq DOMAIN Machines
  BY DEF Machines
<1>2. /\ Statuses("survey") = SurveyStatuses
      /\ SurveyStatuses = {"DRAFT", "SUBMITTED", "APPROVED", "REJECTED", "SUPERSEDED"}
      /\ \A s \in SurveyStatuses : "DRAFT" \notin SurveyMoves[s]
  BY <1>1 DEF Statuses, SurveyMoves, SurveyStatuses, SurveyTransitions
<1>3. /\ Statuses("estimate") = EstimateStatuses
      /\ EstimateStatuses = {"DRAFT", "PENDING_APPROVAL", "APPROVED", "REJECTED",
                             "REVISED", "SUPERSEDED"}
      /\ \A s \in EstimateStatuses : "DRAFT" \notin EstimateTransitions[s]
  BY <1>1 DEF Statuses, EstimateStatuses, EstimateTransitions
<1>4. ASSUME NEW of \in {"survey", "estimate"}, NEW shows,
             shows \subseteq Statuses(of) \ {"DRAFT"}
      PROVE  Sound(Published(of, shows, Detail("own", {"DRAFT"})))
  <2> DEFINE l == List(of, "own", Detail("own", {"DRAFT"}))
             k == Published(of, shows, Detail("own", {"DRAFT"}))
  <2>1. /\ Columns \subseteq DOMAIN l /\ {"scope", "refuses"} \subseteq DOMAIN l.opens
        /\ l.of = of /\ l.scope = "own" /\ l.stable = FALSE /\ l.paged = TRUE
        /\ l.statements = {"count", "find"}
        /\ l.opens.scope = "own" /\ l.opens.refuses = {"DRAFT"}
    BY DEF List, Detail, Columns
  <2>2. k = [l EXCEPT !.shows = shows, !.filtered = FALSE]
    BY DEF Published
  <2> HIDE DEF l, k
  <2>3. /\ Columns \subseteq DOMAIN k /\ k.shows = shows
        /\ \A x \in Columns \ {"shows"} : k[x] = l[x]
    BY <2>1, <2>2 DEF Columns
  <2>4. /\ k.of = of /\ k.scope = "own" /\ k.stable = FALSE /\ k.paged = TRUE
        /\ k.statements = {"count", "find"} /\ k.opens = l.opens
    BY <2>1, <2>3 DEF Columns
  <2>5. Opening(k)
    BY <1>1, <1>2, <1>3, <1>4, <2>1, <2>3, <2>4 DEF Opening
  <2>6. Sound(k)
    BY <1>1, <1>4, <2>1, <2>3, <2>4, <2>5 DEF Sound
  <2> QED
    BY <2>6 DEF k
<1>5. Sound(getCustomerSurveys)
  BY <1>2, <1>4 DEF getCustomerSurveys, getCustomerSurveyById
<1>6. Sound(getCustomerEstimates)
  BY <1>3, <1>4 DEF getCustomerEstimates, getCustomerEstimateById
<1> QED
  BY <1>5, <1>6

LEMMA FeedsSound == \A l \in getTimeline \cup getEntityHistory : Sound(l)
<1>1. /\ "event" \in DOMAIN Machines
      /\ Statuses("event") = EventSources
      /\ \A s \in EventSources : Machines["event"][s] = {}
  BY DEF Machines, Statuses
<1>2. ASSUME NEW scope, NEW sources, sources \subseteq EventSources
      PROVE  Sound(Feed(scope, sources)) /\ Sound(History(sources))
  <2> DEFINE l(s) == Feed(s, sources)
             k == History(sources)
  <2>1. ASSUME NEW s
        PROVE  /\ Columns \subseteq DOMAIN l(s)
               /\ {"scope", "refuses"} \subseteq DOMAIN l(s).opens
               /\ l(s).of = "event" /\ l(s).shows = sources /\ l(s).stable = TRUE
               /\ l(s).paged = TRUE /\ l(s).statements = sources
               /\ l(s).opens.scope = "all" /\ l(s).opens.refuses = {}
    BY DEF Feed, NoDetail, Detail, Columns
  <2>2. k = [l("all") EXCEPT !.filtered = FALSE, !.paged = FALSE]
    BY DEF History
  <2> HIDE DEF l, k
  <2>3. ASSUME NEW s
        PROVE  Sound(l(s))
    <3>1. Opening(l(s))
      BY <2>1 DEF Opening
    <3> QED
      BY <1>1, <1>2, <2>1, <3>1 DEF Sound
  <2>4. /\ Columns \subseteq DOMAIN k /\ k.paged = FALSE
        /\ \A x \in Columns \ {"paged"} : k[x] = l("all")[x]
    BY <2>1, <2>2 DEF Columns
  <2>5. /\ k.of = "event" /\ k.shows = sources /\ k.stable = TRUE
        /\ k.statements = sources /\ k.opens = l("all").opens
    BY <2>1, <2>4 DEF Columns
  <2>6. Opening(k)
    BY <2>1, <2>5 DEF Opening
  <2>7. Sound(k)
    BY <1>1, <1>2, <2>1, <2>4, <2>5, <2>6 DEF Sound
  <2> QED
    BY <2>3, <2>7 DEF l, k
<1> QED
  BY <1>2 DEF getTimeline, getEntityHistory, EventSources

LEMMA EndpointsSound == \A l \in Endpoints : Sound(l)
<1> USE DEF NoDetail
<1>1. DOMAIN Machines \ {"event"} =
        {"request", "survey", "estimate", "order", "payment", "invoice", "notification"}
  BY DEF Machines
<1>2. \A l \in Lists : Sound(l)
  <2> USE <1>1, ListsSound, PublishedSound
  <2>1. /\ Sound(getCustomerRequests) /\ Sound(getAllRequestsAdmin)
        /\ Sound(getAssignedRequestsVendor)
    BY DEF getCustomerRequests, getAllRequestsAdmin, getAssignedRequestsVendor,
           getCustomerRequestById, getRequestByIdAdmin, getAssignedRequestByIdVendor
  <2>2. Sound(getVendorSurveys) /\ Sound(getAllSurveysAdmin)
    BY DEF getVendorSurveys, getAllSurveysAdmin, getVendorSurveyById, getSurveyByIdAdmin
  <2>3. Sound(getVendorEstimates) /\ Sound(getAllEstimatesAdmin)
    BY DEF getVendorEstimates, getAllEstimatesAdmin, getVendorEstimateById,
           getEstimateByIdAdmin
  <2>4. /\ Sound(getAllWorkOrdersAdmin) /\ Sound(getVendorWorkOrders)
        /\ Sound(getCustomerWorkOrders)
    BY DEF getAllWorkOrdersAdmin, getVendorWorkOrders, getCustomerWorkOrders,
           getWorkOrderByIdAdmin, getVendorWorkOrderById, getCustomerWorkOrderById
  <2>5. /\ Sound(getCustomerPayments) /\ Sound(getAllPaymentsAdmin)
        /\ Sound(getCustomerInvoices) /\ Sound(getAllInvoicesAdmin)
    BY DEF getCustomerPayments, getAllPaymentsAdmin, getCustomerInvoices,
           getAllInvoicesAdmin, getCustomerPaymentById, getPaymentByIdAdmin,
           getCustomerInvoiceById, getInvoiceByIdAdmin
  <2>6. Sound(getUserNotifications) /\ Sound(getAllNotificationsAdmin)
    BY DEF getUserNotifications, getAllNotificationsAdmin, getNotificationById
  <2> QED
    BY <2>1, <2>2, <2>3, <2>4, <2>5, <2>6 DEF Lists
<1>3. \A l \in SearchLists : Sound(l)
  <2>1. \A of \in DOMAIN Machines \ {"event"} :
          \A scopes : \A l \in Search(of, scopes) : Sound(l)
    BY ListsSound DEF Search
  <2> QED
    BY <1>1, <2>1
       DEF SearchLists, searchServiceRequests, searchSurveys, searchEstimates,
           searchWorkOrders, searchPayments, searchInvoices, searchNotifications
<1> QED
  BY <1>2, <1>3, FeedsSound DEF Endpoints

-----------------------------------------------------------------------------
(***************************************************************************)
(* The walk.                                                               *)
(***************************************************************************)
\* What is asked for; the rows; the answer under way.
AskingSound == Sound(query.listing) /\ query.asks \subseteq query.listing.shows

RowsTyped == table \in [Rows -> RowStates(query.listing.of) \cup {Absent}]

AnswerTyped ==
  /\ walk = [ page |-> walk.page, todo |-> walk.todo, total |-> walk.total,
              gathered |-> walk.gathered, over |-> walk.over ]
  /\ walk.page \in Nat \ {0}
  /\ walk.todo \subseteq Statements
  /\ walk.total \in Nat
  /\ walk.gathered \subseteq Rows
  /\ walk.over \in BOOLEAN
  /\ seen \in [Rows -> Nat]

PastTyped ==
  /\ past = [ steady |-> past.steady, entered |-> past.entered, left |-> past.left,
              slipped |-> past.slipped, cut |-> past.cut, tied |-> past.tied,
              handed |-> past.handed ]
  /\ past.steady \subseteq Result(table)
  /\ past.entered \in BOOLEAN /\ past.left \in BOOLEAN
  /\ past.slipped \in BOOLEAN /\ past.cut \in BOOLEAN

WalkTyped == AskingSound /\ RowsTyped /\ AnswerTyped /\ PastTyped

\* What is shown, or will be, opens.
OpensWhatIsRead ==
  \A r \in Rows :
    (seen[r] > 0 \/ r \in walk.gathered) /\ Refused(query.listing.opens, table[r])
      => r \in past.handed

LEMMA WalksSound ==
  ASSUME NEW q \in Walks
  PROVE  Sound(q.listing) /\ q.asks \subseteq q.listing.shows
<1>1. PICK l \in Endpoints : q \in [ listing : {Followable(l)}, asks : Asks(l) ]
  BY DEF Walks
<1>2. q.listing = Followable(l) /\ q.asks \in Asks(l)
  BY <1>1
<1> DEFINE k == Followable(l)
           scope == IF l.scope = "own" THEN "all" ELSE l.scope
           seenBy == IF l.opens.scope = "own" THEN "all" ELSE l.opens.scope
<1>3. Sound(l)
  BY EndpointsSound
<1>4. /\ Columns \subseteq DOMAIN k
      /\ \A x \in Columns \ {"scope", "opens"} : k[x] = l[x]
      /\ k.scope = scope
      /\ k.opens = [ l.opens EXCEPT !.scope = seenBy ]
  <2>1. Columns \subseteq DOMAIN l /\ {"scope"} \subseteq DOMAIN l.opens
    BY <1>3 DEF Sound
  <2>2. k = [ l EXCEPT !.scope = scope, !.opens = [ l.opens EXCEPT !.scope = seenBy ] ]
    BY <2>1 DEF Followable, Columns
  <2> HIDE DEF k
  <2> QED
    BY <2>1, <2>2 DEF Columns
<1> HIDE DEF k
<1>5. /\ {"scope", "refuses"} \subseteq DOMAIN k.opens
      /\ k.opens.refuses = l.opens.refuses
      /\ k.opens.scope = seenBy
  BY <1>3, <1>4 DEF Sound
<1>6. /\ k.of = l.of /\ k.shows = l.shows /\ k.stable = l.stable
      /\ k.paged = l.paged /\ k.statements = l.statements
  BY <1>4 DEF Columns
<1>7. Opening(k)
  BY <1>3, <1>4, <1>5, <1>6 DEF Opening, Sound
<1>8. Sound(k)
  BY <1>3, <1>4, <1>5, <1>6, <1>7 DEF Sound
<1>9. q.asks \subseteq l.shows
  BY <1>2 DEF Asks
<1> QED
  BY <1>2, <1>6, <1>8, <1>9 DEF k

LEMMA NoRowIsNone ==
  /\ \A k \in DOMAIN Machines : "NONE" \notin Statuses(k)
  /\ \A k \in DOMAIN Machines \ {"event"} : "ORDER_HISTORY" \notin Statuses(k)
  /\ Statuses("notification") = {"UNREAD", "READ"}
  /\ Machines["notification"]["UNREAD"] = {"READ"}
  /\ \A s \in Statuses("event") : Machines["event"][s] = {}
<1> DEFINE Plain(k) == "NONE" \notin Statuses(k) /\ "ORDER_HISTORY" \notin Statuses(k)
<1>1. Plain("request")
  BY DEF Statuses, Machines, RequestMoves, RequestStatuses, RequestTransitions
<1>2. Plain("survey")
  BY DEF Statuses, Machines, SurveyMoves, SurveyStatuses, SurveyTransitions
<1>3. Plain("estimate")
  BY DEF Statuses, Machines, EstimateTransitions
<1>4. Plain("order")
  BY DEF Statuses, Machines, WorkOrderTransitions
<1>5. Plain("payment")
  BY DEF Statuses, Machines, PaymentTransitions
<1>6. Plain("invoice")
  BY DEF Statuses, Machines, InvoiceTransitions
<1>7. /\ Plain("notification")
      /\ Statuses("notification") = {"UNREAD", "READ"}
      /\ Machines["notification"]["UNREAD"] = {"READ"}
  BY DEF Statuses, Machines, NotificationMoves
<1>8. /\ "NONE" \notin Statuses("event")
      /\ \A s \in Statuses("event") : Machines["event"][s] = {}
  BY DEF Statuses, Machines, EventSources
<1> QED
  BY <1>1, <1>2, <1>3, <1>4, <1>5, <1>6, <1>7, <1>8 DEF Machines

\* What a page that lists a row may show, the endpoint for one row does.
LEMMA ShownOpens ==
  ASSUME AskingSound, RowsTyped, NEW r \in Result(table)
  PROVE  r \in Rows /\ ~Refused(query.listing.opens, table[r])
<1> DEFINE l == query.listing
<1>1. /\ r \in Rows
      /\ table[r].status \in query.asks
      /\ InScope(l.scope, table[r])
  BY DEF Result
<1>2. /\ l.of \in DOMAIN Machines /\ l.shows \subseteq Statuses(l.of)
      /\ l.shows \cap l.opens.refuses = {}
      /\ l.opens.scope = "assigned" => l.scope = "assigned"
      /\ query.asks \subseteq l.shows
  BY DEF AskingSound, Sound, Opening
<1>3. table[r] # Absent
  BY <1>1, <1>2, NoRowIsNone DEF Absent
<1> QED
  BY <1>1, <1>2, <1>3 DEF Refused, InScope

LEMMA ResultReads == Result(table) \subseteq Rows /\ IsFiniteSet(Result(table))
BY RowsAssumption, FS_Subset DEF Result

-----------------------------------------------------------------------------
\* What every write does to what is known of the walk.
LEMMA WriteKeepsTypes ==
  ASSUME WalkTyped, NEW rows \in [Rows -> RowStates(query.listing.of) \cup {Absent}],
         NEW handed, Write(rows, handed)
  PROVE  WalkTyped'
<1> DEFINE is == Result(rows)
           moved == { r \in Result(table) \cap is : rows[r].key # table[r].key }
<1>1. /\ UNCHANGED <<query, walk, seen>> /\ table' = rows
      /\ is = Result(table)'
  BY DEF Write, Result
<1>2. AskingSound' /\ RowsTyped' /\ AnswerTyped'
  BY <1>1 DEF WalkTyped, AskingSound, RowsTyped, AnswerTyped, Statements, RowStates
<1>3. PastTyped'
  <2>1. /\ past' = [ steady |-> (past.steady \cap is) \ moved,
                     entered |-> past'.entered, left |-> past'.left,
                     slipped |-> past'.slipped, cut |-> past.cut, tied |-> past.tied,
                     handed |-> past.handed \cup handed ]
        /\ past'.entered \in BOOLEAN /\ past'.left \in BOOLEAN
        /\ past'.slipped \in BOOLEAN
    BY DEF Write, WalkTyped, PastTyped
  <2> HIDE DEF is, moved
  <2> QED
    BY <1>1, <2>1 DEF WalkTyped, PastTyped
<1> QED
  BY <1>2, <1>3 DEF WalkTyped

\* What a write leaves of a row that opens, and of what the feed shows.
RowsStayOpen(rows, handed) ==
  \A q \in Rows : Refused(query.listing.opens, rows[q])
                    => Refused(query.listing.opens, table[q]) \/ q \in handed

EventsStay(rows) ==
  query.listing.of = "event" =>
    \A q \in Rows : table[q] # Absent => /\ rows[q] # Absent
                                         /\ rows[q].status = table[q].status
                                         /\ rows[q].key = table[q].key

LEMMA WriteKeepsOpen ==
  ASSUME WalkTyped, OpensWhatIsRead, NEW rows, NEW handed, Write(rows, handed),
         RowsStayOpen(rows, handed)
  PROVE  OpensWhatIsRead'
<1>1. /\ UNCHANGED <<query, walk, seen>> /\ table' = rows
      /\ past'.handed = past.handed \cup handed
  BY DEF Write
<1> QED
  BY <1>1 DEF OpensWhatIsRead, RowsStayOpen

\* The writes there are.
LEMMA WritesAre ==
  ASSUME WalkTyped,
         \/ markAllAsRead
         \/ \E r \in Rows : Create(r) \/ Move(r) \/ HandOver(r) \/ Cleanup(r)
  PROVE  \E rows \in [Rows -> RowStates(query.listing.of) \cup {Absent}] :
           \E handed : /\ Write(rows, handed)
                       /\ RowsStayOpen(rows, handed)
                       /\ EventsStay(rows)
<1> DEFINE l == query.listing
           RowsOf == [Rows -> RowStates(l.of) \cup {Absent}]
           HasTypes(rows) == rows \in RowsOf
           Opens(rows, handed) == RowsStayOpen(rows, handed) /\ EventsStay(rows)
           Done == \E rows \in RowsOf : \E handed : Write(rows, handed) /\ Opens(rows, handed)
<1>1. /\ HasTypes(table) /\ Sound(l) /\ Opening(l)
      /\ l.of \in DOMAIN Machines
      /\ Fresh[l.of] \subseteq Statuses(l.of)
      /\ \A s \in Statuses(l.of) : Machines[l.of][s] \subseteq Statuses(l.of)
  BY MachinesTyped DEF WalkTyped, RowsTyped, AskingSound, Sound
<1>2. ASSUME NEW rows, NEW handed, Write(rows, handed), HasTypes(rows), Opens(rows, handed)
      PROVE  Done
  BY <1>2
<1>3. CASE markAllAsRead
  <2> DEFINE rows == [r \in Rows |-> IF table[r].status = "UNREAD"
                        THEN [table[r] EXCEPT !.status = "READ"] ELSE table[r]]
  <2>1. l.of = "notification" /\ Write(rows, {})
    BY <1>3 DEF markAllAsRead
  <2>2. "READ" \in Statuses(l.of)
    BY <2>1, NoRowIsNone
  <2>3. HasTypes(rows)
    BY <1>1, <2>2 DEF RowStates, Absent
  <2>4. Opens(rows, {})
    BY <1>1, <2>1, NoRowIsNone DEF Refused, InScope, Opening, RowStates, Absent,
            RowsStayOpen, EventsStay
  <2> QED
    BY <1>2, <2>1, <2>3, <2>4
<1>4. ASSUME NEW r \in Rows, Create(r)
      PROVE  Done
  <2>1. PICK row \in [ status : Fresh[l.of] \cap Followed, key : Keys, mine : Owners(l) ] :
          Write([table EXCEPT ![r] = row], {})
    BY <1>4 DEF Create
  <2>2. HasTypes([table EXCEPT ![r] = row])
    BY <1>1 DEF RowStates, Owners
  <2>3. Opens([table EXCEPT ![r] = row], {})
    BY <1>1, <1>4 DEF Create, Refused, RowsStayOpen, EventsStay
  <2> QED
    BY <1>2, <2>1, <2>2, <2>3
<1>5. ASSUME NEW r \in Rows, Move(r)
      PROVE  Done
  <2>1. PICK to \in Machines[l.of][table[r].status],
             key \in IF l.of = "event" THEN {table[r].key} ELSE Keys :
          Write([table EXCEPT ![r].status = to, ![r].key = key], {})
    BY <1>5 DEF Move
  <2> DEFINE rows == [table EXCEPT ![r].status = to, ![r].key = key]
  <2>2. table[r] \in RowStates(l.of)
    BY <1>1, <1>5 DEF Move
  <2>3. /\ table[r].status \in Statuses(l.of) /\ to \in Statuses(l.of) /\ key \in Keys
        /\ rows \in [Rows -> {rows[q] : q \in Rows}]
        /\ \A q \in Rows \ {r} : rows[q] = table[q]
        /\ rows[r] = [ status |-> to, key |-> key, mine |-> table[r].mine ]
    <3>1. /\ table[r] = [ status |-> table[r].status, key |-> table[r].key,
                          mine |-> table[r].mine ]
          /\ table[r].status \in Statuses(l.of) /\ table[r].key \in Keys
      BY <2>2 DEF RowStates
    <3>2. /\ rows \in [Rows -> {rows[q] : q \in Rows}]
          /\ \A q \in Rows \ {r} : rows[q] = table[q]
          /\ rows[r] = [ table[r] EXCEPT !.status = to, !.key = key ]
      BY <1>1
    <3>3. rows[r] = [ status |-> to, key |-> key, mine |-> table[r].mine ]
      BY <3>1, <3>2
    <3> HIDE DEF rows
    <3> QED
      BY <1>1, <3>1, <3>2, <3>3
  <2>4. HasTypes(rows)
    BY <1>1, <2>2, <2>3 DEF RowStates
  <2>5. Opens(rows, {})
    <3>1. to \in l.opens.refuses => table[r].status \in l.opens.refuses
      BY <1>1, <2>3 DEF Opening
    <3>2. l.opens.scope = "assigned" => table[r].status # "ORDER_HISTORY"
      BY <1>1, <2>3, NoRowIsNone DEF Opening
    <3>3. [ status |-> to, key |-> key, mine |-> table[r].mine ] # Absent
      BY <1>1, <2>3, NoRowIsNone DEF Absent
    <3>4. Refused(l.opens, rows[r]) => Refused(l.opens, table[r])
      BY <2>3, <3>1, <3>2, <3>3 DEF Refused, InScope
    <3>5. l.of # "event"
      BY <1>1, <2>3, NoRowIsNone
    <3> HIDE DEF rows
    <3> QED
      BY <2>3, <3>4, <3>5 DEF RowsStayOpen, EventsStay
  <2> QED
    BY <1>2, <2>1, <2>4, <2>5
<1>6. ASSUME NEW r \in Rows, HandOver(r)
      PROVE  Done
  <2> DEFINE rows == [table EXCEPT ![r].mine = ~@]
  <2>1. Write(rows, {r}) /\ table[r] \in RowStates(l.of)
    BY <1>1, <1>6 DEF HandOver
  <2>2. HasTypes(rows)
    BY <1>1, <2>1 DEF RowStates
  <2>3. Opens(rows, {r})
    <3>1. /\ rows[r] = [table[r] EXCEPT !.mine = ~@]
          /\ \A q \in Rows \ {r} : rows[q] = table[q]
      BY <1>1
    <3>2. /\ rows[r].status = table[r].status /\ rows[r].key = table[r].key
          /\ table[r].status # "NONE"
      BY <1>1, <2>1, <3>1, NoRowIsNone DEF RowStates
    <3>3. rows[r] # Absent
      BY <3>2 DEF Absent
    <3> HIDE DEF rows
    <3>4. RowsStayOpen(rows, {r})
      BY <3>1 DEF RowsStayOpen
    <3>5. EventsStay(rows)
      BY <3>1, <3>2, <3>3 DEF EventsStay
    <3> QED
      BY <3>4, <3>5
  <2> QED
    BY <1>2, <2>1, <2>2, <2>3
<1>7. ASSUME NEW r \in Rows, Cleanup(r)
      PROVE  Done
  <2> DEFINE rows == [table EXCEPT ![r] = Absent]
  <2>1. Write(rows, {r}) /\ l.of = "notification"
    BY <1>7 DEF Cleanup
  <2>2. HasTypes(rows) /\ Opens(rows, {r})
    BY <1>1, <2>1 DEF RowsStayOpen, EventsStay
  <2> QED
    BY <1>2, <2>1, <2>2
<1> QED
  BY <1>3, <1>4, <1>5, <1>6, <1>7

LEMMA WritesKept ==
  ASSUME WalkTyped, OpensWhatIsRead,
         \/ markAllAsRead
         \/ \E r \in Rows : Create(r) \/ Move(r) \/ HandOver(r) \/ Cleanup(r)
  PROVE  WalkTyped' /\ OpensWhatIsRead'
BY WritesAre, WriteKeepsTypes, WriteKeepsOpen

-----------------------------------------------------------------------------
\* What a statement does to the answer.
LEMMA ExecutedTypes ==
  ASSUME WalkTyped, NEW s, NEW total \in Nat, NEW more \in SUBSET Rows,
         Executed(s, total, more), UNCHANGED seen
  PROVE  /\ AskingSound' /\ RowsTyped' /\ AnswerTyped'
         /\ UNCHANGED <<table, query, seen>>
         /\ walk'.page = walk.page /\ walk'.over = walk.over
         /\ walk'.todo = walk.todo \ {s}
         /\ walk'.total = total /\ walk'.gathered = more
         /\ Result(table)' = Result(table)
<1>1. /\ UNCHANGED <<table, query, seen>>
      /\ walk' = [ page |-> walk.page, todo |-> walk.todo \ {s}, total |-> total,
                   gathered |-> more, over |-> walk.over ]
  BY DEF WalkTyped, AnswerTyped, Executed
<1> QED
  BY <1>1
     DEF WalkTyped, AskingSound, RowsTyped, AnswerTyped, Statements, RowStates, Result

LEMMA CountKept ==
  ASSUME WalkTyped, Count
  PROVE  WalkTyped' /\ (OpensWhatIsRead => OpensWhatIsRead')
<1>1. Cardinality(Result(table)) \in Nat
  BY ResultReads, FS_CardinalityType
<1>2. Executed("count", Cardinality(Result(table)), walk.gathered) /\ UNCHANGED <<seen, past>>
  BY DEF Count
<1>3. walk.gathered \in SUBSET Rows
  BY DEF WalkTyped, AnswerTyped
<1>4. /\ AskingSound' /\ RowsTyped' /\ AnswerTyped' /\ Result(table)' = Result(table)
      /\ UNCHANGED <<table, query, seen>> /\ walk'.gathered = walk.gathered
  BY <1>1, <1>2, <1>3, ExecutedTypes
<1> QED
  BY <1>2, <1>4 DEF WalkTyped, PastTyped, OpensWhatIsRead

LEMMA FindKept ==
  ASSUME WalkTyped, Find
  PROVE  WalkTyped' /\ (OpensWhatIsRead => OpensWhatIsRead')
<1>1. PICK rank \in Rankings(Result(table)) :
        Executed("find", walk.total, PageOf(rank, walk.page))
  BY DEF Find
<1>2. PageOf(rank, walk.page) \subseteq Result(table)
  BY DEF PageOf, Rankings
<1>3. /\ past' = [past EXCEPT !.tied = @ \cup {r \in Result(table) : Tied(r)}]
      /\ UNCHANGED seen
  BY DEF Find
<1>4. /\ AskingSound' /\ RowsTyped' /\ AnswerTyped' /\ Result(table)' = Result(table)
      /\ UNCHANGED <<table, query, seen>> /\ walk'.gathered \subseteq Result(table)
  <2>1. walk.total \in Nat
    BY DEF WalkTyped, AnswerTyped
  <2>2. PICK page : page = PageOf(rank, walk.page)
    OBVIOUS
  <2>3. page \in SUBSET Rows /\ Executed("find", walk.total, page)
    BY <1>1, <1>2, <2>2, ResultReads
  <2>4. page \subseteq Result(table)
    BY <1>2, <2>2
  <2>5. /\ AskingSound' /\ RowsTyped' /\ AnswerTyped'
        /\ UNCHANGED <<table, query, seen>>
        /\ walk'.gathered = page /\ Result(table)' = Result(table)
    BY <1>3, <2>1, <2>3, ExecutedTypes, Zenon
  <2> QED
    BY <2>4, <2>5
<1>5. PastTyped' /\ past'.handed = past.handed
  BY <1>3, <1>4 DEF WalkTyped, PastTyped
<1> QED
  BY <1>4, <1>5, ShownOpens DEF WalkTyped, OpensWhatIsRead

LEMMA SourceKept ==
  ASSUME WalkTyped, NEW source, ReadSource(source)
  PROVE  WalkTyped' /\ (OpensWhatIsRead => OpensWhatIsRead')
<1> DEFINE rows == { r \in Result(table) : table[r].status = source }
<1>1. PICK read \in IF query.listing.paged THEN Newest(rows) ELSE {rows} :
        /\ Executed(source, walk.total + Cardinality(read), walk.gathered \cup read)
        /\ past' = [past EXCEPT !.cut = @ \/ read # rows]
  BY DEF ReadSource
<1>2. read \subseteq Result(table) /\ Cardinality(read) \in Nat
  BY ResultReads, FS_Subset, FS_CardinalityType DEF Newest
<1>3. UNCHANGED seen /\ walk.total \in Nat
  BY DEF ReadSource, WalkTyped, AnswerTyped
<1>4. walk.gathered \cup read \in SUBSET Rows
  BY <1>2, ResultReads DEF WalkTyped, AnswerTyped
<1>5. /\ AskingSound' /\ RowsTyped' /\ AnswerTyped' /\ Result(table)' = Result(table)
      /\ UNCHANGED <<table, query, seen>> /\ walk'.gathered = walk.gathered \cup read
  <2>1. PICK total, all : /\ total = walk.total + Cardinality(read)
                          /\ all = walk.gathered \cup read
    OBVIOUS
  <2>2. total \in Nat /\ all \in SUBSET Rows /\ Executed(source, total, all)
    BY <1>1, <1>2, <1>3, <1>4, <2>1
  <2>3. /\ AskingSound' /\ RowsTyped' /\ AnswerTyped'
        /\ UNCHANGED <<table, query, seen>>
        /\ walk'.gathered = all /\ Result(table)' = Result(table)
    BY <1>3, <2>2, ExecutedTypes, Zenon
  <2> QED
    BY <2>1, <2>3
<1>6. PastTyped' /\ past'.handed = past.handed
  BY <1>1, <1>5 DEF WalkTyped, PastTyped
<1> QED
  BY <1>2, <1>5, <1>6, ShownOpens DEF WalkTyped, OpensWhatIsRead

\* What the client is shown was gathered.
LEMMA ReplyShows ==
  ASSUME WalkTyped, Reply
  PROVE  /\ seen' \in [Rows -> Nat]
         /\ \E shown \in SUBSET walk.gathered :
              /\ ShowRows(shown)
              /\ \/ ~(query.listing.of = "event" /\ query.listing.paged)
                    /\ shown = walk.gathered
                 \/ /\ query.listing.of = "event" /\ query.listing.paged
                    /\ \E rank \in Rankings(walk.gathered) :
                         shown = PageOf(rank, walk.page)
<1>1. \E shown \in SUBSET walk.gathered :
        /\ ShowRows(shown)
        /\ \/ ~(query.listing.of = "event" /\ query.listing.paged)
              /\ shown = walk.gathered
           \/ /\ query.listing.of = "event" /\ query.listing.paged
              /\ \E rank \in Rankings(walk.gathered) : shown = PageOf(rank, walk.page)
  BY DEF Reply, PageOf, Rankings
<1>2. ASSUME NEW shown, ShowRows(shown)
      PROVE  seen' \in [Rows -> Nat]
  BY <1>2 DEF ShowRows, WalkTyped, AnswerTyped
<1> QED
  BY <1>1, <1>2

LEMMA ReplyKept ==
  ASSUME WalkTyped, Reply
  PROVE  WalkTyped' /\ (OpensWhatIsRead => OpensWhatIsRead')
<1> DEFINE more == query.listing.paged /\ walk.page < TotalPages(walk.total)
<1>1. /\ UNCHANGED <<table, query>> /\ Result(table)' = Result(table)
      /\ past' = [past EXCEPT !.slipped = @ /\ ~more]
      /\ walk' = IF more THEN Asked(walk.page + 1) ELSE [walk EXCEPT !.over = TRUE]
  BY DEF Reply, Result
<1>2. /\ walk'.page \in Nat \ {0} /\ walk'.todo \subseteq Statements
      /\ walk'.total \in Nat /\ walk'.gathered \subseteq walk.gathered
      /\ walk'.over \in BOOLEAN
      /\ walk' = [ page |-> walk'.page, todo |-> walk'.todo, total |-> walk'.total,
                   gathered |-> walk'.gathered, over |-> walk'.over ]
  <2>1. CASE more
    BY <1>1, <2>1 DEF WalkTyped, AnswerTyped, Asked
  <2>2. CASE ~more
    <3>1. walk' = [ page |-> walk.page, todo |-> walk.todo, total |-> walk.total,
                    gathered |-> walk.gathered, over |-> TRUE ]
      BY <1>1, <2>2 DEF WalkTyped, AnswerTyped
    <3> QED
      BY <3>1 DEF WalkTyped, AnswerTyped
  <2> QED
    BY <2>1, <2>2
<1>3. AskingSound' /\ RowsTyped'
  BY <1>1 DEF WalkTyped, AskingSound, RowsTyped, RowStates
<1>4. AnswerTyped'
  BY <1>1, <1>2, ReplyShows DEF WalkTyped, AnswerTyped, Statements
<1>5. PastTyped' /\ past'.handed = past.handed
  BY <1>1 DEF WalkTyped, PastTyped
<1>6. ASSUME NEW r \in Rows, seen'[r] > 0
      PROVE  seen[r] > 0 \/ r \in walk.gathered
  BY <1>6, ReplyShows DEF ShowRows
<1> QED
  BY <1>1, <1>2, <1>3, <1>4, <1>5, <1>6 DEF WalkTyped, OpensWhatIsRead

-----------------------------------------------------------------------------
LEMMA WalkBeginsTyped ==
  ASSUME WalkBegins, query \in Walks, RowsTyped
  PROVE  WalkTyped /\ OpensWhatIsRead
<1>1. AskingSound
  BY WalksSound DEF AskingSound
<1>2. AnswerTyped /\ OpensWhatIsRead
  BY DEF AnswerTyped, WalkBegins, Asked, OpensWhatIsRead
<1>3. PastTyped
  BY DEF PastTyped, WalkBegins
<1> QED
  BY <1>1, <1>2, <1>3 DEF WalkTyped

LEMMA WalkTypes ==
  ASSUME WalkTyped, OpensWhatIsRead, [WalkNext]_walkVars
  PROVE  WalkTyped' /\ OpensWhatIsRead'
<1>1. CASE UNCHANGED walkVars
  BY <1>1 DEF walkVars, WalkTyped, OpensWhatIsRead, AskingSound, RowsTyped,
              AnswerTyped, PastTyped, Statements, RowStates, Result
<1> QED
  BY <1>1, WritesKept, CountKept, FindKept, SourceKept, ReplyKept DEF WalkNext

\* Both initial states of a walk.
LEMMA WalkStarts ==
  ASSUME ReadingInit
  PROVE  query \in Walks /\ RowsTyped /\ WalkBegins
<1>1. CASE WalkInit
  <2> DEFINE l == query.listing
  <2>1. query \in Walks /\ WalkBegins
    BY <1>1 DEF WalkInit
  <2>2. Sound(l) /\ query.asks \subseteq l.shows
    BY <2>1, WalksSound
  <2>3. Fresh[l.of] \cup query.asks \subseteq Statuses(l.of)
    BY <2>2, MachinesTyped DEF Sound
  <2>4. RowsTyped
    BY <1>1, <2>3 DEF WalkInit, RowsTyped, RowStates, Owners
  <2> QED
    BY <2>1, <2>4
<1>2. CASE NoWalk
  <2>1. Walks # {}
    <3>1. getCustomerRequests \in Endpoints
      BY DEF Endpoints, Lists
    <3>2. PICK l \in Endpoints : TRUE
      BY <3>1
    <3>3. [ listing |-> Followable(l), asks |-> l.shows ]
            \in [ listing : {Followable(l)}, asks : Asks(l) ]
      BY DEF Asks
    <3> QED
      BY <3>3 DEF Walks
  <2> QED
    BY <1>2, <2>1 DEF NoWalk, RowsTyped
<1> QED
  BY <1>1, <1>2 DEF ReadingInit

LEMMA WalkInvariance == ReadingSpec => [](WalkTyped /\ OpensWhatIsRead)
<1>1. ReadingInit => WalkTyped /\ OpensWhatIsRead
  BY WalkStarts, WalkBeginsTyped
<1>2. [ReadingNext]_readingVars => [WalkNext]_walkVars
  BY DEF ReadingNext, readingVars, walkVars
<1>3. WalkTyped /\ OpensWhatIsRead /\ [WalkNext]_walkVars
        => (WalkTyped /\ OpensWhatIsRead)'
  BY WalkTypes
<1> QED
  BY <1>1, <1>2, <1>3, PTL DEF ReadingSpec

\* What a list has shown to somebody, its page opens for them, unless the request
\* went to another vendor, or the notification was purged, since.
THEOREM ShownRowsOpen == ReadingSpec => []ListedRowsOpen
<1>1. OpensWhatIsRead => ListedRowsOpen
  BY DEF OpensWhatIsRead, ListedRowsOpen
<1> QED
  BY <1>1, WalkInvariance, PTL

-----------------------------------------------------------------------------
(***************************************************************************)
(* Which rows the pages show.                                              *)
(***************************************************************************)
\* How many rows of S come before the row.
Place(S, r) == Cardinality({q \in S : Precedes(q, r)})

\* A list: while nothing leaves, the rows that are not yet shown have their place
\* on this page or after it, and the last page is not given before theirs; while
\* nothing comes, the rows that are shown have theirs before it.
ListReaches(r) ==
  ~past.left /\ seen[r] = 0 =>
    IF walk.over THEN past.slipped
    ELSE IF "find" \in walk.todo THEN Skip(walk.page) <= Place(Result(table), r)
    ELSE r \notin walk.gathered =>
           /\ SkipToNext(walk.page) <= Place(Result(table), r)
           /\ walk.todo = {} => past.slipped \/ SkipToNext(walk.page) < walk.total

ListPasses(r) ==
  ~past.entered =>
    /\ seen[r] <= 1
    /\ seen[r] = 1 /\ ~walk.over => /\ Place(Result(table), r) < Skip(walk.page)
                                    /\ r \notin walk.gathered
    /\ r \in walk.gathered => Place(Result(table), r) < SkipToNext(walk.page)

ListsExact ==
  query.listing.of # "event" =>
    /\ "find" \in walk.todo => walk.gathered = {}
    /\ walk.todo = {"find"} /\ ~past.left /\ ~past.slipped
         => Cardinality(Result(table)) <= walk.total
    /\ \A r \in past.steady \ past.tied : ListReaches(r) /\ ListPasses(r)

\* A feed: the rows that are gathered, or still will be.
ToCome == walk.gathered \cup {q \in Result(table) : table[q].status \in walk.todo}

FeedReaches(r) ==
  ~past.left /\ seen[r] = 0 => ~walk.over /\ Skip(walk.page) <= Place(ToCome, r)

FeedPasses(r) ==
  ~past.entered => /\ seen[r] <= 1
                   /\ seen[r] = 1 /\ ~walk.over => Place(ToCome, r) < Skip(walk.page)

FeedsExact ==
  query.listing.of = "event" =>
    /\ \A q \in walk.gathered : table[q] # Absent /\ table[q].status \notin walk.todo
    /\ walk.total = Cardinality(walk.gathered)
    /\ ~query.listing.paged => walk.page = 1
    /\ ~past.left => walk.gathered \subseteq Result(table)
    /\ ~past.cut =>
         /\ ~past.entered => Result(table) \subseteq ToCome
         /\ past.steady \subseteq ToCome
         /\ \A r \in past.steady : FeedReaches(r) /\ FeedPasses(r)

ExactIInv ==
  /\ WalkTyped
  /\ walk.over => walk.todo = {}
  /\ ListsExact
  /\ FeedsExact

LEMMA PagesFollow ==
  ASSUME NEW page \in Nat \ {0}
  PROVE  /\ Skip(page) \in Nat /\ SkipToNext(page) \in Nat
         /\ SkipToNext(page) = Skip(page) + PageSize
         /\ Skip(page + 1) = SkipToNext(page)
         /\ Skip(1) = 0
         /\ \A total \in Nat : SkipToNext(page) < total => page < TotalPages(total)
<1>1. PageSize \in Nat /\ PageSize > 0
  BY PageSizeAssumption
<1>2. PICK before \in Nat : page = before + 1
  <2>1. page - 1 \in Nat /\ page = (page - 1) + 1
    OBVIOUS
  <2> QED
    BY <2>1
<1>3. (before + 1) * PageSize = before * PageSize + PageSize /\ before * PageSize \in Nat
  BY <1>1, <1>2
<1>4. ASSUME NEW total \in Nat, page * PageSize < total
      PROVE  page < TotalPages(total)
  <2> DEFINE a == total + PageSize - 1
             d == a \div PageSize
  <2>1. a \in Nat /\ page * PageSize + PageSize <= a
    BY <1>1, <1>4, <1>3, <1>2
  <2>2. d \in Nat /\ a < d * PageSize + PageSize
    BY <1>1, <2>1
  <2>3. page * PageSize < d * PageSize
    BY <1>1, <1>3, <1>2, <2>1, <2>2
  <2>4. ASSUME d <= page
        PROVE  FALSE
    <3>1. d * PageSize <= page * PageSize
      BY <1>1, <2>2, <2>4
    <3> QED
      BY <1>1, <2>2, <2>3, <3>1
  <2> QED
    BY <2>2, <2>4 DEF TotalPages
<1> QED
  BY <1>1, <1>2, <1>3, <1>4 DEF Skip, SkipToNext

LEMMA PlacesGrow ==
  ASSUME NEW S, NEW T \in SUBSET Rows, NEW r \in Rows, S \subseteq T,
         UNCHANGED query, table'[r].key = table[r].key,
         \A q \in S : table'[q].key = table[q].key
  PROVE  /\ Cardinality({q \in S : Precedes(q, r)}) <= Cardinality({q \in T : Precedes(q, r)'})
         /\ Cardinality({q \in S : Precedes(q, r)}) \in Nat
<1>1. {q \in S : Precedes(q, r)} \subseteq {q \in T : Precedes(q, r)'}
  BY DEF Precedes
<1> QED
  BY <1>1, RowsAssumption, FS_Subset, FS_CardinalityType

\* Rows have a place in the order, if the order tells them apart.
LEMMA PlacesDiffer ==
  ASSUME WalkTyped, NEW q \in Rows, NEW r \in Rows
  PROVE  /\ ~Precedes(r, r)
         /\ Precedes(q, r) => ~Precedes(r, q)
         /\ \/ Precedes(q, r) \/ Precedes(r, q) \/ q = r
            \/ ~query.listing.stable /\ table[q].key = table[r].key
<1>1. table[q].key \in Nat /\ table[r].key \in Nat /\ q \in Nat /\ r \in Nat
  <2>1. \A t \in Rows : table[t].key \in Keys \cup {0}
    BY DEF WalkTyped, RowsTyped, RowStates, Absent
  <2>2. Keys \cup {0} \subseteq Nat
    BY KeysAssumption
  <2>3. table[q].key \in Nat /\ table[r].key \in Nat
    BY <2>1, <2>2, Zenon
  <2> QED
    BY <2>3, RowsAssumption
<1> QED
  BY <1>1 DEF Precedes

LEMMA RankIsPlace ==
  ASSUME WalkTyped, NEW S \in SUBSET Rows, NEW rank \in Rankings(S), NEW r \in S,
         query.listing.stable \/ \A q \in S \ {r} : table[q].key # table[r].key
  PROVE  rank[r] = Place(S, r) /\ rank[r] \in Nat /\ Place(S, r) < Cardinality(S)
<1> DEFINE before == {q \in S : Precedes(q, r)}
           after == {q \in S : Precedes(r, q)}
           n == Cardinality(S)
           m == rank[r]
<1>1. IsFiniteSet(S) /\ n \in Nat
  BY RowsAssumption, FS_Subset, FS_CardinalityType
<1>2. /\ rank \in [S -> 0..(n - 1)]
      /\ \A q, t \in S : q # t => /\ rank[q] # rank[t]
                                  /\ Precedes(q, t) => rank[q] < rank[t]
  BY DEF Rankings
<1>3. before \cup after = S \ {r} /\ before \cap after = {}
  BY PlacesDiffer
<1>4. /\ IsFiniteSet(before) /\ Cardinality(before) \in Nat
      /\ IsFiniteSet(after) /\ Cardinality(after) \in Nat
      /\ Cardinality(before) + Cardinality(after) = n - 1
  <2>1. /\ IsFiniteSet(before) /\ Cardinality(before) \in Nat
        /\ IsFiniteSet(after) /\ Cardinality(after) \in Nat
    BY <1>1, FS_Subset, FS_CardinalityType
  <2>2. Cardinality(S \ {r}) = n - 1
    BY <1>1, FS_RemoveElement
  <2>3. Cardinality(before \cap after) = 0
    BY <1>3, FS_EmptySet
  <2>4. Cardinality(before \cup after)
          = Cardinality(before) + Cardinality(after) - Cardinality(before \cap after)
    BY <2>1, FS_Union
  <2> HIDE DEF before, after, n
  <2>5. Cardinality(before \cup after) = n - 1
    BY <1>3, <2>2, Zenon
  <2> QED
    BY <1>1, <2>1, <2>3, <2>4, <2>5
<1>5. Cardinality(before) <= m
  <2> DEFINE f == [q \in before |-> rank[q]]
  <2>1. f \in Injection(before, 0..(m - 1))
    <3>1. \A q \in before : q # r
      BY <1>3
    <3>2. f \in [before -> 0..(m - 1)]
      BY <1>2, <3>1
    <3>3. \A x, y \in before : f[x] = f[y] => x = y
      BY <1>2
    <3> HIDE DEF f
    <3> QED
      BY <3>2, <3>3 DEF Injection, IsInjective
  <2>2. IsFiniteSet(0..(m - 1)) /\ Cardinality(0..(m - 1)) = m
    BY <1>2, FS_Interval
  <2> QED
    BY <2>1, <2>2, FS_Injection
<1>6. Cardinality(after) <= n - 1 - m
  <2> DEFINE f == [q \in after |-> rank[q]]
  <2>1. f \in Injection(after, (m + 1)..(n - 1))
    <3>1. \A q \in after : q # r
      BY <1>3
    <3>2. f \in [after -> (m + 1)..(n - 1)]
      BY <1>2, <3>1, <1>1
    <3>3. \A x, y \in after : f[x] = f[y] => x = y
      BY <1>2
    <3> HIDE DEF f
    <3> QED
      BY <3>2, <3>3 DEF Injection, IsInjective
  <2>2. /\ IsFiniteSet((m + 1)..(n - 1))
        /\ Cardinality((m + 1)..(n - 1)) = n - 1 - m
    <3>1. m \in Nat /\ n \in Nat /\ m <= n - 1
      BY <1>1, <1>2
    <3> HIDE DEF m, n
    <3>2. m + 1 \in Int /\ n - 1 \in Int
      BY <3>1
    <3>3. /\ IsFiniteSet((m + 1)..(n - 1))
          /\ Cardinality((m + 1)..(n - 1)) = IF m + 1 > n - 1 THEN 0 ELSE n - 1 - (m + 1) + 1
      BY <3>2, FS_Interval
    <3> QED
      BY <3>1, <3>3
  <2> QED
    BY <2>1, <2>2, FS_Injection
<1>7. m \in Nat /\ m < n
  BY <1>1, <1>2
<1> HIDE DEF before, after, m, n
<1>8. Cardinality(before) = m
  BY <1>1, <1>4, <1>5, <1>6, <1>7
<1> QED
  BY <1>7, <1>8 DEF Place, before, m, n

LEMMA PlaceTyped ==
  ASSUME NEW S \in SUBSET Rows, NEW r
  PROVE  Place(S, r) \in Nat
BY RowsAssumption, FS_Subset, FS_CardinalityType DEF Place

LEMMA PlaceInside ==
  ASSUME NEW S \in SUBSET Rows, NEW T \in SUBSET Rows, S \subseteq T, NEW r
  PROVE  Place(S, r) <= Place(T, r)
<1>1. {q \in S : Precedes(q, r)} \subseteq {q \in T : Precedes(q, r)}
  OBVIOUS
<1> QED
  BY <1>1, RowsAssumption, FS_Subset DEF Place

LEMMA PlaceBelow ==
  ASSUME WalkTyped, NEW S \in SUBSET Rows, NEW r \in S
  PROVE  Place(S, r) < Cardinality(S)
<1>1. {q \in S : Precedes(q, r)} \subseteq S \ {r}
  BY PlacesDiffer
<1>2. /\ IsFiniteSet(S) /\ Cardinality(S) \in Nat
      /\ IsFiniteSet(S \ {r}) /\ Cardinality(S \ {r}) = Cardinality(S) - 1
  BY RowsAssumption, FS_Subset, FS_CardinalityType, FS_RemoveElement
<1>3. Place(S, r) <= Cardinality(S \ {r})
  BY <1>1, <1>2, FS_Subset DEF Place
<1> QED
  BY <1>2, <1>3, PlaceTyped

-----------------------------------------------------------------------------
\* What a write does to the rows that were there all the time.
LEMMA WriteMoves ==
  ASSUME WalkTyped, NEW rows, NEW handed, Write(rows, handed)
  PROVE  /\ UNCHANGED <<query, walk, seen>> /\ ~walk.over
         /\ past'.cut = past.cut /\ past'.tied = past.tied
         /\ past'.steady \subseteq past.steady
         /\ past'.steady \subseteq Result(table) \cap Result(table)'
         /\ \A r \in past'.steady : table'[r].key = table[r].key
         /\ ~past'.left =>
              /\ ~past.left /\ Result(table) \subseteq Result(table)'
              /\ \A q \in Result(table) : table'[q].key = table[q].key
         /\ ~past'.entered =>
              /\ ~past.entered /\ Result(table)' \subseteq Result(table)
              /\ \A q \in Result(table)' : table'[q].key = table[q].key
         /\ ~past'.slipped =>
              /\ ~past.slipped
              /\ walk.todo = {"find"} => Result(table)' \subseteq Result(table)
<1> DEFINE was == Result(table)
           is == Result(rows)
           moved == { r \in was \cap is : rows[r].key # table[r].key }
           enters == (is \ was) \cup moved # {}
<1>1. /\ UNCHANGED <<query, walk, seen>> /\ ~walk.over /\ table' = rows
      /\ is = Result(table)'
  BY DEF Write, Result
<1>2. /\ past'.cut = past.cut /\ past'.tied = past.tied
      /\ past'.steady = (past.steady \cap is) \ moved
      /\ past'.entered = (past.entered \/ enters)
      /\ past'.left = (past.left \/ (was \ is) \cup moved # {})
      /\ past'.slipped = (past.slipped \/ (enters /\ walk.todo = {"find"}))
  BY DEF Write
<1>3. past.steady \subseteq was
  BY DEF WalkTyped, PastTyped
<1>4. \A r \in was \cap is : r \in moved <=> table'[r].key # table[r].key
  BY <1>1
<1>5. past'.steady \subseteq was \cap is /\ \A r \in past'.steady : r \notin moved
  BY <1>2, <1>3
<1> HIDE DEF moved, was, is
<1>6. \A r \in past'.steady : table'[r].key = table[r].key
  BY <1>4, <1>5
<1>7. ~past'.left => ~past.left /\ was \subseteq is /\ moved = {}
  BY <1>2
<1>8. ~past'.entered => ~past.entered /\ is \subseteq was /\ moved = {}
  BY <1>2
<1>9. ~past'.slipped => ~past.slipped /\ (walk.todo = {"find"} => is \subseteq was)
  BY <1>2
<1> QED
  BY <1>1, <1>2, <1>4, <1>5, <1>6, <1>7, <1>8, <1>9 DEF was

LEMMA ListWritten ==
  ASSUME ExactIInv, query.listing.of # "event", NEW rows, NEW handed, Write(rows, handed)
  PROVE  ListsExact'
<1> USE DEF ExactIInv
<1> DEFINE was == Result(table)
           is == Result(table)'
<1>1. /\ UNCHANGED <<query, walk, seen>> /\ ~walk.over
      /\ past'.tied = past.tied
      /\ past'.steady \subseteq past.steady
      /\ past'.steady \subseteq was \cap is
      /\ \A r \in past'.steady : table'[r].key = table[r].key
  BY WriteMoves
<1>2. ~past'.left => /\ ~past.left /\ was \subseteq is
                     /\ \A q \in was : table'[q].key = table[q].key
  BY WriteMoves
<1>3. ~past'.entered => /\ ~past.entered /\ is \subseteq was
                        /\ \A q \in is : table'[q].key = table[q].key
  BY WriteMoves
<1>4. ~past'.slipped => /\ ~past.slipped
                        /\ walk.todo = {"find"} => is \subseteq was
  BY WriteMoves
<1>5. was \subseteq Rows /\ is \subseteq Rows
  BY DEF Result
<1>6. walk'.todo = {"find"} /\ ~past'.left /\ ~past'.slipped
        => Cardinality(is) <= walk'.total
  <2>1. walk'.todo = {"find"} /\ ~past'.left /\ ~past'.slipped => is = was
    BY <1>1, <1>2, <1>4
  <2> QED
    BY <1>1, <1>2, <1>4, <2>1 DEF ListsExact
<1>7. ASSUME NEW r \in past'.steady \ past'.tied
      PROVE  ListReaches(r)' /\ ListPasses(r)'
  <2>1. ListReaches(r) /\ ListPasses(r) /\ r \in Rows
    BY <1>1, <1>5 DEF ListsExact
  <2>2. PICK place, later : /\ place = Cardinality({q \in was : Precedes(q, r)})
                            /\ later = Cardinality({q \in is : Precedes(q, r)'})
    OBVIOUS
  <2>3. place = Place(was, r) /\ later = Place(Result(table), r)'
    BY <2>2 DEF Place
  <2>4. /\ place \in Nat /\ later \in Nat
        /\ ~past'.left => place <= later
        /\ ~past'.entered => later <= place
    <3>1. place \in Nat
      BY <1>5, <2>3, PlaceTyped
    <3>2. later \in Nat
      BY <1>5, <2>2, RowsAssumption, FS_Subset, FS_CardinalityType
    <3>3. ~past'.left => place <= later
      BY <1>1, <1>2, <1>5, <2>1, <2>2, PlacesGrow
    <3>4. ~past'.entered => later <= place
      <4>1. ~past'.entered =>
              {q \in is : Precedes(q, r)'} \subseteq {q \in was : Precedes(q, r)}
        BY <1>1, <1>3 DEF Precedes
      <4> QED
        BY <1>5, <2>2, <4>1, RowsAssumption, FS_Subset
    <3> QED
      BY <3>1, <3>2, <3>3, <3>4
  <2>5. walk.page \in Nat \ {0}
    BY DEF WalkTyped, AnswerTyped
  <2>6. Skip(walk.page) \in Nat /\ SkipToNext(walk.page) \in Nat
    BY <2>5, PagesFollow
  <2>7. Skip(walk'.page) = Skip(walk.page) /\ SkipToNext(walk'.page) = SkipToNext(walk.page)
    BY <1>1
  <2>8. ListReaches(r)'
    BY <1>1, <1>2, <1>4, <2>1, <2>3, <2>4, <2>6, <2>7 DEF ListReaches
  <2>9. ListPasses(r)'
    BY <1>1, <1>3, <2>1, <2>3, <2>4, <2>6, <2>7 DEF ListPasses
  <2> QED
    BY <2>8, <2>9
<1> QED
  BY <1>1, <1>6, <1>7 DEF ListsExact

-----------------------------------------------------------------------------
\* The statements of a list, and of a feed.
LEMMA StatementsOf ==
  ASSUME AskingSound
  PROVE  /\ query.listing.of # "event" =>
              query.listing.paged /\ Statements = {"count", "find"}
         /\ query.listing.of = "event" =>
              /\ query.listing.stable
              /\ Statements = query.asks
              /\ Statements \subseteq EventSources
         /\ {"count", "find"} \cap EventSources = {}
<1>1. query.listing.of = "event" => query.listing.shows \subseteq EventSources
  BY DEF AskingSound, Sound, Statuses, Machines
<1> QED
  BY <1>1 DEF AskingSound, Sound, Statements, EventSources

LEMMA ListCounted ==
  ASSUME ExactIInv, query.listing.of # "event", Count
  PROVE  ListsExact'
<1> USE DEF ExactIInv
<1> DEFINE n == Cardinality(Result(table))
<1>1. n \in Nat /\ Result(table) \subseteq Rows
  BY ResultReads, FS_CardinalityType
<1>2. Executed("count", n, walk.gathered) /\ UNCHANGED <<seen, past>> /\ "count" \in walk.todo
  BY DEF Count
<1>3. walk.gathered \in SUBSET Rows /\ walk.page \in Nat \ {0}
  BY DEF WalkTyped, AnswerTyped
<1>4. /\ UNCHANGED <<table, query, seen, past>> /\ walk'.page = walk.page
      /\ walk'.over = walk.over /\ walk'.todo = walk.todo \ {"count"}
      /\ walk'.total = n /\ walk'.gathered = walk.gathered
      /\ Result(table)' = Result(table)
  BY <1>1, <1>2, <1>3, ExecutedTypes
<1>5. ~walk.over
  BY <1>2
<1>6. ASSUME NEW r \in past.steady \ past.tied
      PROVE  ListReaches(r)' /\ ListPasses(r)'
  <2>1. ListReaches(r) /\ ListPasses(r) /\ r \in Result(table)
    BY DEF ListsExact, WalkTyped, PastTyped
  <2>2. PICK place : place = Place(Result(table), r)
    OBVIOUS
  <2>3. place = Place(Result(table), r)' /\ place \in Nat /\ place < n
    BY <1>1, <1>4, <2>1, <2>2, PlaceTyped, PlaceBelow DEF Place, Precedes
  <2>4. /\ Skip(walk.page) \in Nat /\ SkipToNext(walk.page) \in Nat
        /\ Skip(walk'.page) = Skip(walk.page)
        /\ SkipToNext(walk'.page) = SkipToNext(walk.page)
    BY <1>3, <1>4, PagesFollow
  <2> HIDE DEF n
  <2>5. ListReaches(r)'
    BY <1>1, <1>4, <1>5, <2>1, <2>2, <2>3, <2>4 DEF ListReaches
  <2>6. ListPasses(r)'
    BY <1>4, <1>5, <2>1, <2>2, <2>3, <2>4 DEF ListPasses
  <2> QED
    BY <2>5, <2>6
<1> QED
  BY <1>1, <1>4, <1>6 DEF ListsExact

LEMMA ListFound ==
  ASSUME ExactIInv, query.listing.of # "event", Find
  PROVE  ListsExact'
<1> USE DEF ExactIInv
<1>1. /\ "find" \in walk.todo /\ walk.gathered = {} /\ ~walk.over
      /\ walk.total \in Nat /\ walk.page \in Nat \ {0}
      /\ walk.todo \subseteq {"count", "find"}
      /\ Result(table) \in SUBSET Rows
      /\ Cardinality(Result(table)) \in Nat
  BY StatementsOf, ResultReads, FS_CardinalityType
     DEF Find, ListsExact, WalkTyped, AnswerTyped
<1>2. PICK rank \in Rankings(Result(table)) :
        Executed("find", walk.total, PageOf(rank, walk.page))
  BY DEF Find
<1>3. PICK shown : shown = PageOf(rank, walk.page)
  OBVIOUS
<1>4. shown \in SUBSET Rows /\ DOMAIN rank = Result(table)
  BY <1>1, <1>3 DEF PageOf, Rankings
<1>5. /\ UNCHANGED <<table, query, seen>> /\ walk'.page = walk.page
      /\ walk'.over = walk.over /\ walk'.todo = walk.todo \ {"find"}
      /\ walk'.total = walk.total /\ walk'.gathered = shown
      /\ Result(table)' = Result(table)
  <2>1. Executed("find", walk.total, shown) /\ UNCHANGED seen
    BY <1>2, <1>3 DEF Find
  <2> QED
    BY <1>1, <1>4, <2>1, ExecutedTypes
<1>6. /\ past'.left = past.left /\ past'.entered = past.entered
      /\ past'.slipped = past.slipped /\ past'.steady = past.steady
      /\ past'.tied = past.tied \cup {r \in Result(table) : Tied(r)}
  BY DEF Find, WalkTyped, PastTyped
<1>7. ASSUME NEW r \in past'.steady \ past'.tied
      PROVE  ListReaches(r)' /\ ListPasses(r)'
  <2>1. /\ ListReaches(r) /\ ListPasses(r)
        /\ r \in Result(table) /\ ~Tied(r) /\ r \in Rows
    BY <1>1, <1>6 DEF ListsExact, WalkTyped, PastTyped
  <2>2. PICK place : place = Place(Result(table), r)
    OBVIOUS
  <2>3. /\ place = Place(Result(table), r)' /\ place \in Nat
        /\ place < Cardinality(Result(table))
    BY <1>1, <1>5, <2>1, <2>2, PlaceTyped, PlaceBelow DEF Place, Precedes
  <2>4. rank[r] = place
    <3>1. query.listing.stable
            \/ \A q \in Result(table) \ {r} : table[q].key # table[r].key
      BY <2>1 DEF Tied
    <3> QED
      BY <1>1, <2>1, <2>2, <3>1, RankIsPlace
  <2>5. /\ Skip(walk.page) \in Nat /\ SkipToNext(walk.page) \in Nat
        /\ SkipToNext(walk.page) = Skip(walk.page) + PageSize
        /\ Skip(walk'.page) = Skip(walk.page)
        /\ SkipToNext(walk'.page) = SkipToNext(walk.page)
    BY <1>1, <1>5, PagesFollow
  <2>6. r \in shown <=> Skip(walk.page) <= place /\ place < SkipToNext(walk.page)
    BY <1>3, <1>4, <2>1, <2>4, <2>5 DEF PageOf
  <2>7. walk'.todo = {} /\ ~past.left =>
          past.slipped \/ Cardinality(Result(table)) <= walk.total
    BY <1>1, <1>5 DEF ListsExact
  <2>8. ListReaches(r)'
    BY <1>1, <1>5, <1>6, <2>1, <2>2, <2>3, <2>5, <2>6, <2>7 DEF ListReaches
  <2>9. ListPasses(r)'
    BY <1>1, <1>5, <1>6, <2>1, <2>2, <2>3, <2>5, <2>6 DEF ListPasses
  <2> QED
    BY <2>8, <2>9
<1> QED
  BY <1>5, <1>7 DEF ListsExact

LEMMA ListReplied ==
  ASSUME ExactIInv, query.listing.of # "event", Reply
  PROVE  ListsExact'
<1> USE DEF ExactIInv
<1> DEFINE more == walk.page < TotalPages(walk.total)
<1>1. /\ walk.todo = {} /\ ~walk.over
      /\ UNCHANGED <<table, query>> /\ Result(table)' = Result(table)
      /\ Result(table) \subseteq Rows
      /\ walk.total \in Nat /\ walk.page \in Nat \ {0}
  BY DEF Reply, Result, WalkTyped, AnswerTyped
<1>2. query.listing.paged /\ Statements = {"count", "find"}
  BY StatementsOf DEF WalkTyped
<1>3. /\ past'.left = past.left /\ past'.entered = past.entered
      /\ past'.slipped = (past.slipped /\ ~more) /\ past'.steady = past.steady
      /\ past'.tied = past.tied
  BY <1>2 DEF Reply, WalkTyped, PastTyped
<1>4. /\ more => /\ walk'.page = walk.page + 1 /\ walk'.todo = {"count", "find"}
                 /\ walk'.gathered = {} /\ ~walk'.over
      /\ ~more => /\ walk'.page = walk.page /\ walk'.todo = {}
                  /\ walk'.gathered = walk.gathered /\ walk'.over
                  /\ walk'.total = walk.total
  BY <1>1, <1>2 DEF Reply, Asked, WalkTyped, AnswerTyped
<1>5. ASSUME NEW r \in Rows
      PROVE  /\ seen[r] \in Nat
             /\ seen'[r] = IF r \in walk.gathered THEN seen[r] + 1 ELSE seen[r]
  BY ReplyShows DEF ShowRows, WalkTyped, AnswerTyped
<1>6. /\ Skip(walk.page) \in Nat /\ SkipToNext(walk.page) \in Nat
      /\ Skip(walk.page) <= SkipToNext(walk.page)
      /\ Skip(walk.page + 1) = SkipToNext(walk.page)
      /\ SkipToNext(walk.page) < walk.total => more
  BY <1>1, PagesFollow, PageSizeAssumption
<1> HIDE DEF more
<1>7. ASSUME NEW r \in past.steady \ past.tied
      PROVE  ListReaches(r)' /\ ListPasses(r)'
  <2>1. ListReaches(r) /\ ListPasses(r) /\ r \in Rows
    BY <1>1 DEF ListsExact, WalkTyped, PastTyped
  <2>2. PICK place : place = Place(Result(table), r)
    OBVIOUS
  <2>3. place = Place(Result(table), r)' /\ place \in Nat
    BY <1>1, <2>1, <2>2, PlaceTyped DEF Place, Precedes
  <2>4. CASE more
    <3>1. Skip(walk'.page) = SkipToNext(walk.page)
      BY <1>4, <1>6, <2>4
    <3>2. ListReaches(r)'
      BY <1>1, <1>3, <1>4, <1>5, <1>6, <2>1, <2>2, <2>3, <2>4, <3>1 DEF ListReaches
    <3>3. ListPasses(r)'
      BY <1>1, <1>3, <1>4, <1>5, <1>6, <2>1, <2>2, <2>3, <2>4, <3>1 DEF ListPasses
    <3> QED
      BY <3>2, <3>3
  <2>5. CASE ~more
    <3>1. SkipToNext(walk'.page) = SkipToNext(walk.page)
      BY <1>4, <2>5
    <3>2. ListReaches(r)'
      <4> SUFFICES ASSUME ~past.left, seen[r] = 0, r \notin walk.gathered
                   PROVE  past'.slipped
        BY <1>3, <1>4, <1>5, <2>1, <2>5 DEF ListReaches
      <4>1. past.slipped
        BY <1>1, <1>6, <2>1, <2>5 DEF ListReaches
      <4> QED
        BY <1>3, <2>5, <4>1, Zenon
    <3>3. ListPasses(r)'
      BY <1>1, <1>3, <1>4, <1>5, <1>6, <2>1, <2>2, <2>3, <2>5, <3>1 DEF ListPasses
    <3> QED
      BY <3>2, <3>3
  <2> QED
    BY <2>4, <2>5
<1>8. walk'.todo # {"find"} /\ ("find" \in walk'.todo => walk'.gathered = {})
  BY <1>4
<1> QED
  BY <1>3, <1>7, <1>8 DEF ListsExact

-----------------------------------------------------------------------------
LEMMA ToComeReads ==
  ASSUME WalkTyped
  PROVE  ToCome \in SUBSET Rows
BY DEF WalkTyped, AnswerTyped, ToCome, Result

\* What an action must not do to the feed's rows, for those shown to stay exact.
LEMMA FeedStays ==
  ASSUME ExactIInv, query.listing.of = "event",
         UNCHANGED <<query, seen>>, walk'.page = walk.page,
         walk'.over = walk.over,
         past.left => past'.left, past.entered => past'.entered,
         ToCome' \in SUBSET Rows, NEW r \in ToCome, r \in Rows,
         table'[r].key = table[r].key,
         ~past'.left => ToCome \subseteq ToCome',
         ~past'.entered => ToCome' \subseteq ToCome,
         \A q \in ToCome : table'[q].key = table[q].key,
         FeedReaches(r) /\ FeedPasses(r)
  PROVE  FeedReaches(r)' /\ FeedPasses(r)'
<1>1. PICK place, later : /\ place = Cardinality({q \in ToCome : Precedes(q, r)})
                          /\ later = Cardinality({q \in ToCome' : Precedes(q, r)'})
  OBVIOUS
<1>2. place = Place(ToCome, r) /\ later = Place(ToCome, r)'
  BY <1>1 DEF Place
<1>3. place \in Nat
  BY <1>2, ToComeReads, PlaceTyped DEF ExactIInv
<1>4. PICK come : come = ToCome'
  OBVIOUS
<1>5. come \in SUBSET Rows /\ later = Cardinality({q \in come : Precedes(q, r)'})
  BY <1>1, <1>4
<1>6. later \in Nat
  BY <1>5, RowsAssumption, FS_Subset, FS_CardinalityType
<1>7. ~past'.left => place <= later
  <2>1. ~past'.left => ToCome \subseteq come
    BY <1>4
  <2> QED
    BY <1>1, <1>5, <2>1, PlacesGrow
<1>8. ~past'.entered => later <= place
  <2>1. ~past'.entered =>
          {q \in come : Precedes(q, r)'} \subseteq {q \in ToCome : Precedes(q, r)}
    BY <1>4 DEF Precedes
  <2>2. ToCome \in SUBSET Rows
    BY ToComeReads DEF ExactIInv
  <2> HIDE DEF ToCome
  <2>3. IsFiniteSet({q \in ToCome : Precedes(q, r)})
    BY <2>2, RowsAssumption, FS_Subset
  <2>4. ~past'.entered =>
          Cardinality({q \in come : Precedes(q, r)'})
            <= Cardinality({q \in ToCome : Precedes(q, r)})
    BY <2>1, <2>3, FS_Subset
  <2> QED
    BY <1>1, <1>5, <2>4
<1>9. /\ Skip(walk.page) \in Nat /\ Skip(walk'.page) = Skip(walk.page)
  BY PagesFollow DEF ExactIInv, WalkTyped, AnswerTyped
<1> HIDE DEF ToCome
<1> QED
  BY <1>2, <1>3, <1>6, <1>7, <1>8, <1>9 DEF FeedReaches, FeedPasses

LEMMA FeedWritten ==
  ASSUME ExactIInv, query.listing.of = "event", NEW rows, NEW handed,
         Write(rows, handed), EventsStay(rows), WalkTyped'
  PROVE  FeedsExact'
<1> USE DEF ExactIInv
<1> DEFINE was == Result(table)
           is == Result(table)'
<1>1. /\ UNCHANGED <<query, walk, seen>> /\ ~walk.over
      /\ past'.cut = past.cut
      /\ past'.steady \subseteq past.steady
      /\ past'.steady \subseteq was \cap is
      /\ \A r \in past'.steady : table'[r].key = table[r].key
  BY WriteMoves
<1>2. ~past'.left => ~past.left /\ was \subseteq is
  BY WriteMoves
<1>3. ~past'.entered => ~past.entered /\ is \subseteq was
  BY WriteMoves
<1>4. /\ \A q \in walk.gathered : table[q] # Absent /\ table[q].status \notin walk.todo
      /\ was \subseteq Rows /\ is \subseteq Rows
      /\ walk.gathered \subseteq Rows
  BY DEF FeedsExact, Result, WalkTyped, AnswerTyped
<1>5. \A q \in was : table[q] # Absent
  BY ShownOpens DEF WalkTyped, Refused
<1>6. \A q \in was \cup walk.gathered :
        /\ table'[q] # Absent
        /\ table'[q].status = table[q].status
        /\ table'[q].key = table[q].key
  BY <1>4, <1>5 DEF EventsStay, Write
<1>7. /\ ToCome = walk.gathered \cup {q \in was : table[q].status \in walk.todo}
      /\ ToCome' = walk.gathered \cup {q \in is : table'[q].status \in walk.todo}
  BY <1>1 DEF ToCome
<1>8. /\ ~past'.left => ToCome \subseteq ToCome'
      /\ ~past'.entered => ToCome' \subseteq ToCome
  BY <1>2, <1>3, <1>6, <1>7
<1>9. ~past'.cut => /\ ~past'.entered => is \subseteq ToCome'
                    /\ past'.steady \subseteq ToCome'
  <2> SUFFICES ASSUME ~past'.cut
               PROVE  /\ ~past'.entered => is \subseteq ToCome'
                      /\ past'.steady \subseteq ToCome'
    OBVIOUS
  <2>1. past.steady \subseteq ToCome /\ (~past.entered => was \subseteq ToCome)
    BY <1>1 DEF FeedsExact
  <2>2. \A q \in ToCome \cap is : q \in ToCome'
    BY <1>6, <1>7
  <2> QED
    BY <1>1, <1>3, <2>1, <2>2
<1>10. ASSUME ~past'.cut, NEW r \in past'.steady
       PROVE  FeedReaches(r)' /\ FeedPasses(r)'
  <2>1. FeedReaches(r) /\ FeedPasses(r) /\ r \in ToCome /\ r \in Rows
    BY <1>1, <1>4, <1>10 DEF FeedsExact
  <2>2. ToCome' \in SUBSET Rows
    BY <1>4, <1>7
  <2>3. \A q \in ToCome : table'[q].key = table[q].key
    BY <1>6, <1>7
  <2> QED
    BY <1>1, <1>2, <1>3, <1>8, <2>1, <2>2, <2>3, FeedStays
<1>11. ~past'.left => walk'.gathered \subseteq is
  BY <1>1, <1>2 DEF FeedsExact
<1>12. /\ \A q \in walk'.gathered : table'[q] # Absent /\ table'[q].status \notin walk'.todo
       /\ walk'.total = Cardinality(walk'.gathered)
       /\ ~query'.listing.paged => walk'.page = 1
  BY <1>1, <1>4, <1>6 DEF FeedsExact
<1> HIDE DEF is, was
<1> QED
  BY <1>9, <1>10, <1>11, <1>12 DEF FeedsExact, is

LEMMA FeedRead ==
  ASSUME ExactIInv, query.listing.of = "event", NEW source, ReadSource(source)
  PROVE  FeedsExact'
<1> USE DEF ExactIInv
<1> DEFINE rows == { r \in Result(table) : table[r].status = source }
<1>1. PICK read \in IF query.listing.paged THEN Newest(rows) ELSE {rows} :
        /\ Executed(source, walk.total + Cardinality(read), walk.gathered \cup read)
        /\ past' = [past EXCEPT !.cut = @ \/ read # rows]
  BY DEF ReadSource
<1>2. read \subseteq rows
  BY DEF Newest
<1>3. /\ source \in walk.todo /\ UNCHANGED seen
      /\ walk.gathered \in SUBSET Rows
      /\ walk.total = Cardinality(walk.gathered)
      /\ read \in SUBSET Rows
  BY <1>2, ResultReads DEF ReadSource, WalkTyped, AnswerTyped, FeedsExact
<1>4. PICK total, all : /\ total = walk.total + Cardinality(read)
                        /\ all = walk.gathered \cup read
  OBVIOUS
<1>5. all \in SUBSET Rows /\ total \in Nat /\ total = Cardinality(all)
  <2>1. /\ IsFiniteSet(walk.gathered) /\ Cardinality(walk.gathered) \in Nat
        /\ IsFiniteSet(read) /\ Cardinality(read) \in Nat
    BY <1>3, RowsAssumption, FS_Subset, FS_CardinalityType
  <2>2. walk.gathered \cap read = {}
    BY <1>2, <1>3 DEF FeedsExact
  <2>3. Cardinality(walk.gathered \cap read) = 0
    BY <2>2, FS_EmptySet
  <2>4. Cardinality(walk.gathered \cup read) =
          Cardinality(walk.gathered) + Cardinality(read)
            - Cardinality(walk.gathered \cap read)
    BY <2>1, FS_Union
  <2> QED
    BY <1>3, <1>4, <2>1, <2>3, <2>4
<1>6. /\ UNCHANGED <<table, query, seen>> /\ walk'.page = walk.page
      /\ walk'.over = walk.over /\ walk'.todo = walk.todo \ {source}
      /\ walk'.total = total /\ walk'.gathered = all
      /\ Result(table)' = Result(table)
  <2>1. Executed(source, total, all)
    BY <1>1, <1>4
  <2> QED
    BY <1>3, <1>5, <2>1, ExecutedTypes
<1>7. /\ past'.left = past.left /\ past'.entered = past.entered
      /\ past'.steady = past.steady
      /\ past'.cut = (past.cut \/ read # rows)
  BY <1>1 DEF WalkTyped, PastTyped
<1>8. \A q \in all : table[q] # Absent /\ table[q].status \notin walk'.todo
  <2>1. \A q \in read : table[q] # Absent /\ table[q].status = source
    BY <1>2, ShownOpens DEF WalkTyped, Refused
  <2> QED
    BY <1>4, <1>6, <2>1 DEF FeedsExact
<1>9. ~past'.cut => ~past.cut /\ ToCome' = ToCome
  <2>1. ~past'.cut => ~past.cut /\ read = rows
    BY <1>7
  <2>2. ToCome = walk.gathered \cup {q \in Result(table) : table[q].status \in walk.todo}
    BY DEF ToCome
  <2>3. ToCome' = all \cup {q \in Result(table) : table[q].status \in walk.todo \ {source}}
    BY <1>6 DEF ToCome
  <2> QED
    BY <1>3, <1>4, <2>1, <2>2, <2>3
<1>10. ~past'.left => all \subseteq Result(table)
  BY <1>2, <1>4, <1>7 DEF FeedsExact
<1>11. ASSUME ~past'.cut, NEW r \in past'.steady
       PROVE  FeedReaches(r)' /\ FeedPasses(r)'
  <2>1. FeedReaches(r) /\ FeedPasses(r) /\ r \in ToCome /\ r \in Rows
    BY <1>7, <1>9, <1>11, ToComeReads DEF FeedsExact
  <2>2. ToCome' \in SUBSET Rows
    BY <1>9, <1>11, ToComeReads
  <2> QED
    BY <1>6, <1>7, <1>9, <1>11, <2>1, <2>2, FeedStays
<1>12. ~past'.cut => /\ ~past'.entered => Result(table)' \subseteq ToCome'
                     /\ past'.steady \subseteq ToCome'
  BY <1>6, <1>7, <1>9 DEF FeedsExact
<1>13. ~query'.listing.paged => walk'.page = 1
  BY <1>6 DEF FeedsExact
<1> QED
  BY <1>5, <1>6, <1>8, <1>10, <1>11, <1>12, <1>13 DEF FeedsExact

LEMMA FeedReplied ==
  ASSUME ExactIInv, query.listing.of = "event", Reply
  PROVE  FeedsExact'
<1> USE DEF ExactIInv
<1> DEFINE more == query.listing.paged /\ walk.page < TotalPages(walk.total)
           now == Result(table)
<1>1. /\ walk.todo = {} /\ ~walk.over
      /\ UNCHANGED <<table, query>> /\ Result(table)' = now
      /\ now \in SUBSET Rows /\ walk.gathered \in SUBSET Rows
      /\ walk.total \in Nat /\ walk.page \in Nat \ {0}
  BY DEF Reply, Result, WalkTyped, AnswerTyped
<1>2. query.listing.stable /\ Statements = query.asks
  BY StatementsOf DEF WalkTyped
<1>3. /\ past'.left = past.left /\ past'.entered = past.entered
      /\ past'.steady = past.steady /\ past'.cut = past.cut
  BY DEF Reply, WalkTyped, PastTyped
<1>4. /\ more => /\ walk'.page = walk.page + 1 /\ walk'.todo = query.asks
                 /\ walk'.gathered = {} /\ ~walk'.over /\ walk'.total = 0
      /\ ~more => /\ walk'.page = walk.page /\ walk'.todo = {}
                  /\ walk'.gathered = walk.gathered /\ walk'.over
                  /\ walk'.total = walk.total
  BY <1>1, <1>2 DEF Reply, Asked, WalkTyped, AnswerTyped
<1>5. ToCome = walk.gathered
  BY <1>1 DEF ToCome
<1>6. /\ more => ToCome' = now
      /\ ~more => ToCome' = walk.gathered
  BY <1>1, <1>4 DEF ToCome, Result
<1>7. PICK shown \in SUBSET walk.gathered :
        /\ ShowRows(shown)
        /\ ~query.listing.paged => shown = walk.gathered
        /\ query.listing.paged =>
             \E rank \in Rankings(walk.gathered) : shown = PageOf(rank, walk.page)
  BY ReplyShows DEF WalkTyped
<1>8. \A r \in Rows : /\ seen[r] \in Nat
                      /\ seen'[r] = IF r \in shown THEN seen[r] + 1 ELSE seen[r]
  BY <1>7 DEF ShowRows, WalkTyped, AnswerTyped
<1>9. /\ Skip(walk.page) \in Nat /\ SkipToNext(walk.page) \in Nat
      /\ SkipToNext(walk.page) = Skip(walk.page) + PageSize
      /\ Skip(walk.page) <= SkipToNext(walk.page)
      /\ Skip(walk.page + 1) = SkipToNext(walk.page)
      /\ Skip(1) = 0
      /\ SkipToNext(walk.page) < walk.total => walk.page < TotalPages(walk.total)
  <2>1. PageSize \in Nat
    BY PageSizeAssumption
  <2>2. PICK page \in Nat \ {0} : page = walk.page
    BY <1>1
  <2> HIDE DEF more, now
  <2> QED
    BY <1>1, <2>1, <2>2, PagesFollow
<1>10. /\ walk.total = Cardinality(walk.gathered)
       /\ ~query.listing.paged => walk.page = 1
       /\ ~past.left => walk.gathered \subseteq now
       /\ ~past.cut => /\ ~past.entered => now \subseteq walk.gathered
                       /\ past.steady \subseteq walk.gathered
  BY <1>5 DEF FeedsExact
<1>11. ASSUME ~past.cut, NEW r \in past.steady
       PROVE  FeedReaches(r)' /\ FeedPasses(r)'
  <2> HIDE DEF more
  <2>1. FeedReaches(r) /\ FeedPasses(r) /\ r \in walk.gathered /\ r \in Rows /\ r \in now
    BY <1>1, <1>10, <1>11 DEF FeedsExact, WalkTyped, PastTyped
  <2>2. PICK place, later : place = Place(walk.gathered, r) /\ later = Place(now, r)
    OBVIOUS
  <2>3. /\ place \in Nat /\ later \in Nat /\ place < walk.total
        /\ ~past.left => place <= later
        /\ ~past.entered => later <= place
    BY <1>1, <1>10, <1>11, <2>1, <2>2, PlaceTyped, PlaceBelow, PlaceInside
  <2>4. /\ place = Place(ToCome, r)
        /\ more => later = Place(ToCome, r)'
    BY <1>1, <1>5, <1>6, <2>2 DEF Place, Precedes
  <2>5. /\ ~past.left /\ seen[r] = 0 => Skip(walk.page) <= place
        /\ ~past.entered => seen[r] <= 1 /\ (seen[r] = 1 => place < Skip(walk.page))
    BY <1>1, <2>1, <2>4 DEF FeedReaches, FeedPasses
  <2>6. CASE ~query.listing.paged
    <3>1. ~more /\ r \in shown /\ Skip(walk.page) = 0
      BY <1>7, <1>9, <1>10, <2>1, <2>6 DEF more
    <3>2. seen'[r] = seen[r] + 1 /\ seen[r] \in Nat /\ walk'.over
      BY <1>4, <1>8, <2>1, <3>1
    <3> QED
      BY <1>3, <2>3, <2>5, <3>1, <3>2 DEF FeedReaches, FeedPasses
  <2>7. CASE query.listing.paged
    <3>1. PICK rank \in Rankings(walk.gathered) : shown = PageOf(rank, walk.page)
      BY <1>7, <2>7
    <3>2. rank[r] = place
      BY <1>1, <1>2, <2>1, <2>2, <3>1, RankIsPlace
    <3>3. r \in shown <=> Skip(walk.page) <= place /\ place < SkipToNext(walk.page)
      BY <1>9, <2>1, <3>1, <3>2 DEF PageOf, Rankings
    <3>4. seen[r] \in Nat /\ seen'[r] = IF r \in shown THEN seen[r] + 1 ELSE seen[r]
      BY <1>8, <2>1
    <3>5. CASE more
      <4>1. Skip(walk'.page) = SkipToNext(walk.page) /\ ~walk'.over
        BY <1>4, <1>9, <3>5
      <4>2. FeedReaches(r)'
        BY <1>3, <1>9, <2>3, <2>4, <2>5, <3>3, <3>4, <3>5, <4>1 DEF FeedReaches
      <4>3. FeedPasses(r)'
        BY <1>3, <1>9, <2>3, <2>4, <2>5, <3>3, <3>4, <3>5, <4>1 DEF FeedPasses
      <4> QED
        BY <4>2, <4>3
    <3>6. CASE ~more
      <4>1. ~(SkipToNext(walk.page) < walk.total) /\ walk'.over
        BY <1>4, <1>9, <2>7, <3>6 DEF more
      <4>2. place < SkipToNext(walk.page)
        BY <1>1, <1>9, <2>3, <4>1
      <4>3. FeedReaches(r)'
        BY <1>3, <2>5, <3>3, <3>4, <4>1, <4>2 DEF FeedReaches
      <4>4. FeedPasses(r)'
        BY <1>3, <1>9, <2>3, <2>5, <3>3, <3>4, <4>1, <4>2 DEF FeedPasses
      <4> QED
        BY <4>3, <4>4
    <3> QED
      BY <3>5, <3>6
  <2> QED
    BY <2>6, <2>7
<1>12. /\ \A q \in walk'.gathered : table'[q] # Absent /\ table'[q].status \notin walk'.todo
       /\ walk'.gathered \subseteq walk.gathered
       /\ walk'.total = Cardinality(walk'.gathered)
       /\ ~query'.listing.paged => walk'.page = 1
  BY <1>1, <1>4, <1>10, FS_EmptySet DEF FeedsExact
<1>13. ~past.cut => /\ ~past.entered => now \subseteq ToCome'
                    /\ past.steady \subseteq ToCome'
  BY <1>6, <1>10 DEF WalkTyped, PastTyped
<1> HIDE DEF now
<1> QED
  BY <1>1, <1>3, <1>10, <1>11, <1>12, <1>13 DEF FeedsExact

-----------------------------------------------------------------------------
LEMMA ExactBegins ==
  ASSUME query \in Walks, RowsTyped, WalkBegins
  PROVE  ExactIInv
<1>1. WalkTyped
  BY WalkBeginsTyped
<1>2. /\ walk = Asked(1) /\ \A r \in Rows : seen[r] = 0
      /\ past.steady = Result(table) /\ Result(table) \in SUBSET Rows
  BY DEF WalkBegins, Result
<1>3. /\ walk.page = 1 /\ walk.todo = Statements /\ walk.total = 0
      /\ walk.gathered = {} /\ ~walk.over /\ Skip(walk.page) = 0
  BY <1>2, PagesFollow DEF Asked
<1>4. ListsExact
  <2> SUFFICES ASSUME query.listing.of # "event"
               PROVE  ListsExact
    BY DEF ListsExact
  <2>1. walk.todo = {"count", "find"}
    BY <1>1, <1>3, StatementsOf DEF WalkTyped
  <2>2. \A r \in past.steady : ListReaches(r) /\ ListPasses(r)
    BY <1>2, <1>3, <2>1, PlaceTyped DEF ListReaches, ListPasses
  <2> QED
    BY <1>3, <2>1, <2>2 DEF ListsExact
<1>5. FeedsExact
  <2> SUFFICES ASSUME query.listing.of = "event"
               PROVE  FeedsExact
    BY DEF FeedsExact
  <2>1. ToCome = Result(table)
    BY <1>1, <1>3, StatementsOf DEF WalkTyped, ToCome, Result
  <2>2. \A r \in past.steady : FeedReaches(r) /\ FeedPasses(r)
    BY <1>2, <1>3, <2>1, PlaceTyped DEF FeedReaches, FeedPasses
  <2> QED
    BY <1>2, <1>3, <2>1, <2>2, FS_EmptySet DEF FeedsExact
<1> QED
  BY <1>1, <1>3, <1>4, <1>5 DEF ExactIInv

LEMMA ExactInductive ==
  ASSUME ExactIInv, [WalkNext]_walkVars, WalkTyped'
  PROVE  ExactIInv'
<1> DEFINE writing == \/ markAllAsRead
                      \/ \E r \in Rows : Create(r) \/ Move(r) \/ HandOver(r) \/ Cleanup(r)
<1>1. walk.todo \subseteq Statements
  BY DEF ExactIInv, WalkTyped, AnswerTyped
<1>2. (walk.over => walk.todo = {})'
  <2>1. CASE writing \/ UNCHANGED walkVars
    BY <2>1, WritesAre DEF ExactIInv, walkVars, Write
  <2>2. CASE Count \/ Find \/ \E source \in EventSources : ReadSource(source)
    <3>1. ASSUME NEW s, NEW total, NEW more, Executed(s, total, more)
          PROVE  walk'.over = walk.over
      BY <3>1 DEF Executed, ExactIInv, WalkTyped, AnswerTyped
    <3>2. walk.todo # {}
      BY <2>2 DEF Count, Find, ReadSource
    <3>3. \E s, total, more : Executed(s, total, more)
      BY <2>2 DEF Count, Find, ReadSource
    <3> QED
      BY <3>1, <3>2, <3>3 DEF ExactIInv
  <2>3. CASE Reply
    <3>1. walk.todo = {} /\ (walk'.over => walk'.todo = walk.todo)
      BY <2>3 DEF Reply, Asked
    <3> QED
      BY <3>1
  <2> QED
    BY <2>1, <2>2, <2>3 DEF WalkNext
<1>3. query' = query
  BY WritesAre DEF ExactIInv, WalkNext, walkVars, Write, Count, Find, Reply,
       ReadSource, Executed
<1>4. CASE UNCHANGED walkVars
  BY <1>4 DEF ExactIInv, walkVars, WalkTyped, ListsExact, FeedsExact, ListReaches,
       ListPasses, FeedReaches, FeedPasses, Place, Precedes, ToCome, Result, Skip,
       SkipToNext
<1>5. CASE query.listing.of # "event"
  <2>1. query'.listing.of # "event"
    BY <1>5, <1>3
  <2>2. ASSUME NEW source, ReadSource(source)
        PROVE  FALSE
    BY <1>1, <1>5, <2>2, StatementsOf DEF ReadSource, ExactIInv, WalkTyped
  <2>3. ListsExact' \/ UNCHANGED walkVars
    BY <1>5, <2>2, WritesAre, ListWritten, ListCounted, ListFound, ListReplied
       DEF WalkNext, ExactIInv
  <2> QED
    BY <1>2, <1>4, <2>1, <2>3 DEF ExactIInv, FeedsExact
<1>6. CASE query.listing.of = "event"
  <2>1. query'.listing.of = "event"
    BY <1>6, <1>3
  <2>2. ~Count /\ ~Find
    BY <1>1, <1>6, StatementsOf DEF Count, Find, ExactIInv, WalkTyped
  <2>3. FeedsExact' \/ UNCHANGED walkVars
    BY <1>6, <2>2, WritesAre, FeedWritten, FeedRead, FeedReplied
       DEF WalkNext, ExactIInv
  <2> QED
    BY <1>2, <1>4, <2>1, <2>3 DEF ExactIInv, ListsExact
<1> QED
  BY <1>5, <1>6

LEMMA ExactInvariance == ReadingSpec => []ExactIInv
<1>1. ReadingInit => ExactIInv
  BY WalkStarts, ExactBegins
<1>2. [ReadingNext]_readingVars => [WalkNext]_walkVars
  BY DEF ReadingNext, readingVars, walkVars
<1>3. WalkTyped' /\ ExactIInv /\ [WalkNext]_walkVars => ExactIInv'
  BY ExactInductive
<1> QED
  BY <1>1, <1>2, <1>3, WalkInvariance, PTL DEF ReadingSpec

\* Who turns all pages has seen every row that was there all the time, once, but
\* for what the property names.
THEOREM WalksExact == ReadingSpec => []WalksAreExact
<1>1. ExactIInv => WalksAreExact
  <2> SUFFICES ASSUME ExactIInv, walk.over, NEW r \in past.steady
               PROVE  /\ seen[r] = 0 =>
                           past.left \/ past.slipped \/ past.cut \/ r \in past.tied
                      /\ seen[r] > 1 => past.entered \/ past.cut \/ r \in past.tied
    BY DEF WalksAreExact
  <2>1. seen[r] \in Nat
    BY DEF ExactIInv, WalkTyped, AnswerTyped, PastTyped, Result
  <2>2. CASE query.listing.of # "event"
    BY <2>1, <2>2 DEF ExactIInv, ListsExact, ListReaches, ListPasses
  <2>3. CASE query.listing.of = "event"
    BY <2>1, <2>3 DEF ExactIInv, FeedsExact, FeedReaches, FeedPasses
  <2> QED
    BY <2>2, <2>3
<1> QED
  BY <1>1, ExactInvariance, PTL

=============================================================================
