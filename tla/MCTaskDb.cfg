SPECIFICATION FairSpec
CONSTANTS
    init = init
    segment = segment
    keccak = keccak
    resolve = resolve
    exec = exec
    prove = prove
    coproc = coproc
    e1 = e1
    e2 = e2
    p1 = p1
    c1 = c1
    Task <- MCTask
    InitTask = init
    Plan <- MCPlan
    Prereqs <- MCPrereqs
    Stream <- MCStream
    StreamOf <- MCStreamOf
    Agent <- MCAgent
    ServedBy <- MCServedBy
    MaxRetries <- MCMaxRetries
    MaxFaults = 2
INVARIANTS
    TypeOK
    PrereqsDoneFirst
    DoneJobIsComplete
    FailedJobHasFailedTask
PROPERTIES
    ResultIsFinal
    TasksFinish
CHECK_DEADLOCK FALSE
