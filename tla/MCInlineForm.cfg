SPECIFICATION RevisionsSpec
CONSTANTS
  NumPages = 1
  Forms = {"none", "inline"}
  Repacking = FALSE
  MaxFieldName = 2
  MaxRevisions = 3
INVARIANTS
  FormKeepsItsFields
CHECK_DEADLOCK FALSE
