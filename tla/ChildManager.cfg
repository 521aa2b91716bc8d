SPECIFICATION FairSpec
CONSTANTS
    Children = {"store", "brain"}
    Strategy <- TwoKinds
    Pids = {1, 2}
    Killers = {1}
    MaxRestarts = 1
    OsFaults = TRUE
INVARIANT OneProcessPerChild
INVARIANT BudgetRespected
CHECK_DEADLOCK FALSE
PROPERTY ExitIsHandled
