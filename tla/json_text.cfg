SPECIFICATION Spec
CONSTANTS
    \* Tags of depth 2 and more cannot be parsed.
    NestingLimit = 6
    Documents <- ShortDocuments
INVARIANTS
    TagsSurvive
    CompleteIffReadable
    FirstTagsSurvive
    OnlyLayoutIsRemoved
\* The text ends.
CHECK_DEADLOCK FALSE
