SPECIFICATION Spec
CONSTANTS
    t1 = t1
    Threads <- OneThread
    Kinds <- AllKinds
    Arguments <- SomeArguments
    Events <- SomeEvents
    MaxCalls = 1
    MaxChanges = 3
INVARIANTS
    StampedInForce
    PayloadReadsAs
    PayloadIsJson
    FragmentMatchesMap
CHECK_DEADLOCK FALSE
