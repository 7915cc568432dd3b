SPECIFICATION Spec
CONSTANTS
    Receivers <- MCReceivers
    OkValues <- MCOkValues
    Faults <- MCFaults
    Submissions <- MCSubmissions
    Frames <- MCFrames
    LineEnds <- MCLineEnds
    EndReasons = {"revoked", "max_age"}
    MaxRevision = 3
    MaxEvents = 2
INVARIANTS
    SameAnswer
    RefusedMeansNotDone
    StreamReadsAlike
CHECK_DEADLOCK FALSE
