SPECIFICATION LiveSpec
CONSTANTS
    Tasks = {1, 2, 3, 4, 5, 6}
    Actors = {"alice", "bob", "carol"}
    ActorOf <- MCActorOf
    Permitted = {"alice", "bob"}
    Idlers = {"drain"}
    MaxConcurrent = 2
    MaxQueued = 2
    MaxQueuedPerActor = 1
    MaxAttempts = 2
INVARIANTS
    WithinLimits
    WorkConserving
    IdleWaitersHaveAWaker
PROPERTIES
    NoOvertaking
    AcceptedTaskSettles
