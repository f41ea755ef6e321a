SPECIFICATION VerificationSpec
CONSTANTS
  Topics = {"admission"}
  VerifyRequests = {r1, r2, r3}
  ApiKeys = {k1}
  IdemKeys = {i1}
  Docs = {d1, d2}
  NoIdemKey = none
  PerMinute = 1
  PerDay = 2
  MaxConcurrent = 1
  MaxEntries = 5
  MinutesPerDay = 3
  LastMinute = 4
  Now = 4
  Stamps = {2}
  Expiries = {1, 2, 4}
  Declared = {0, 1}
  Evidence <- SomeEvidence
  Replies <- SomeReplies
  MaxDss = 2
  NumPages = 2
  Forms = {"none", "ref"}
  Repacking = FALSE
  MaxFieldName = 3
  MaxRevisions = 5
INVARIANTS
  FailuresAreRetryable
CHECK_DEADLOCK FALSE
