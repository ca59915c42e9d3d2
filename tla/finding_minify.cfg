SPECIFICATION Spec
CONSTANTS
    NestingLimit = 1000
    Documents <- ShortDocuments
INVARIANTS
    MinifyKeepsTags
\* The text ends.
CHECK_DEADLOCK FALSE
