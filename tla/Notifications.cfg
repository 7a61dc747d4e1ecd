\* An id enqueued up to three times, three attempts each; an event, or a dispatch
\* that outlived its timeout, beside them.
CONSTANTS
  Jobs = {j1, j2, j3}
  NoJob = NoJob
  MaxAttempts = 3
  Slots = {s1}
SPECIFICATION FairNotificationsSpec
INVARIANT RepeatsOnlyByRacing
PROPERTIES SettledJobsStay JobsSettle
