SPECIFICATION Spec
CHECK_DEADLOCK FALSE
INVARIANTS
    ChildSeesTheNumbers
    ParentStaysWithTheChild
    KilledOnlyByTheResult
    BothWaitOnlyAfterALostSignal
PROPERTY WaitsOnlyAfterALostSignal
