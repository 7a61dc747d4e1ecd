------------------------------ MODULE JobQueue ------------------------------
(***************************************************************************)
(* QueueService: the in-memory queue, for the jobs enqueued under one id.  *)
(*                                                                         *)
(* Every accepted addJob makes a new record and puts it in the store under *)
(* the id; an older record stays alive only in the attempts that still     *)
(* hold it.  It also starts a chain of execution: a timer, the attempt the *)
(* timer starts, the timer of its retry, and so on.  A timer knows only    *)
(* the id, so it runs whatever record the store holds when it fires.       *)
(*                                                                         *)
(* Jobs of different ids share nothing but counters.  The processors are   *)
(* external: an attempt succeeds or fails.  One that exceeds 30 seconds    *)
(* fails as far as the queue goes, although its processor is not stopped.  *)
(* Every job name the backend uses has a processor, so the early return    *)
(* for a name without one is never taken.                                  *)
(***************************************************************************)
EXTENDS Naturals, FiniteSets

CONSTANTS
  Jobs,         \* bound: records made under the id, and their chains
  NoJob,        \* the store has no record under the id
  MaxAttempts   \* maxAttempts of a job

ASSUME JobsAssumption == NoJob \notin Jobs /\ IsFiniteSet(Jobs)
ASSUME MaxAttemptsAssumption == MaxAttempts \in Nat \ {0}

VARIABLES
  jobs,      \* the records
  current,   \* the record in the store
  chains     \* the chain of execution each addJob started

vars == <<jobs, current, chains>>

JobStatuses == {"waiting", "active", "completed", "failed", "delayed"}

Added == {j \in Jobs : chains[j].at # "none"}

\* One type invariant, with the most attempts any record can have.
TypeOK ==
  /\ jobs \in [Jobs -> [ status : JobStatuses \cup {"none"},
                         attempts : 0..(MaxAttempts + Cardinality(Jobs) - 1) ]]
  /\ current \in Jobs \cup {NoJob}
  /\ chains \in [Jobs -> [ at  : {"none", "timer", "attempt", "over"},
                           job : Jobs \cup {NoJob} ]]

Init ==
  /\ jobs = [j \in Jobs |-> [ status |-> "none", attempts |-> 0 ]]
  /\ current = NoJob
  /\ chains = [j \in Jobs |-> [ at |-> "none", job |-> NoJob ]]

Settled(j) == jobs[j].status \in {"completed", "failed"}

-----------------------------------------------------------------------------
\* An addJob under an id in use is suppressed unless that job failed for good
\* or awaits its retry or its delay.
NeverSuppressed == TRUE
NotSuppressed ==
  current # NoJob => jobs[current].status \notin {"completed", "active", "waiting"}

\* addJob, with and without a delay.
AddJob(j) ==
  /\ chains[j].at = "none"
  /\ NotSuppressed
  /\ \E first \in {"waiting", "delayed"} :
       jobs' = [jobs EXCEPT ![j] = [ status |-> first, attempts |-> 0 ]]
  /\ current' = j
  /\ chains' = [chains EXCEPT ![j] = [ at |-> "timer", job |-> NoJob ]]

\* processJobInternal up to the await: the record the store holds by now.
AttemptNotCounted(n) == n
CountAttempt(n) == n + 1

Start(k) ==
  /\ chains[k].at = "timer"
  /\ jobs' = [jobs EXCEPT ![current] =
                [ status |-> "active", attempts |-> CountAttempt(@.attempts) ]]
  /\ chains' = [chains EXCEPT ![k] = [ at |-> "attempt", job |-> current ]]
  /\ UNCHANGED current

\* The chain after an attempt that settles its record.
Rearmed == "timer"
Over == "over"

\* ... after the await, the processor having returned.
Succeed(k) ==
  /\ chains[k].at = "attempt"
  /\ jobs' = [jobs EXCEPT ![chains[k].job] =
                [ status |-> "completed", attempts |-> @.attempts ]]
  /\ chains' = [chains EXCEPT ![k] = [ at |-> Over, job |-> NoJob ]]
  /\ UNCHANGED current

\* ... or the processor having thrown, or 30 seconds having passed.
RetriesOnceMore(j) == jobs[j].attempts <= MaxAttempts
MayRetry(j) == jobs[j].attempts < MaxAttempts

NoTimer == "over"
RetryTimer == "timer"

Fail(k) ==
  LET j == chains[k].job
  IN /\ chains[k].at = "attempt"
     /\ jobs' = [jobs EXCEPT ![j] =
                   [ status |-> IF MayRetry(j) THEN "delayed" ELSE "failed",
                     attempts |-> @.attempts ]]
     /\ chains' = [chains EXCEPT ![k] =
                     [ at |-> IF MayRetry(j) THEN RetryTimer ELSE Over,
                       job |-> NoJob ]]
     /\ UNCHANGED current

Next ==
  \/ \E j \in Jobs : AddJob(j)
  \/ \E k \in Jobs : Start(k) \/ Succeed(k) \/ Fail(k)

Spec == Init /\ [][Next]_vars

\* The event loop fires every timer, and the 30 seconds end every attempt.
FairSpec ==
  /\ Spec
  /\ \A k \in Jobs : WF_vars(Start(k)) /\ WF_vars(Succeed(k) \/ Fail(k))

-----------------------------------------------------------------------------
\* The record in the store is never forgotten: while it waits there is a timer
\* that will run it, while it is active an attempt of it is under way, however
\* many chains of older records end in between.
PendingJobsRun ==
  current # NoJob =>
    /\ jobs[current].status \in {"waiting", "delayed"}
         => \E k \in Jobs : chains[k].at = "timer"
    /\ jobs[current].status = "active"
         => \E k \in Jobs : chains[k].at = "attempt" /\ chains[k].job = current

\* A record is attempted no more often than it may be, plus once for every
\* chain left over from a record it replaced.
AttemptsBounded ==
  \A j \in Jobs :
    Added # {} => jobs[j].attempts <= MaxAttempts + Cardinality(Added) - 1

\* A settled job stays settled, unless it replaced a job that awaited its
\* retry: then the retry's timer runs it again, even when it has completed.
SettledJobsStay ==
  [][ \A j \in Jobs :
        Settled(j) /\ jobs'[j] # jobs[j] => Cardinality(Added) > 1 ]_vars

\* Whatever is enqueued under the id, and however often, the last record is
\* completed or dead-lettered in the end and stays so.
JobsSettle == <>[](current # NoJob => Settled(current))

=============================================================================
