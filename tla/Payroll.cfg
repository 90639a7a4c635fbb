SPECIFICATION PayrollSpec
CONSTANTS
    e1 = e1
    e2 = e2
    t1 = t1
    t2 = t2
    Employees <- TwoEmployees
    BranchStaff <- OneOfThem
    Actors <- Everybody
    Tasks <- TwoTasks
    MaxVersion = 2
    FailingOps <- Computations
INVARIANTS
    TypeOK
    ApprovedContent
    BranchIsolation
    OverrideFollowsPayment
PROPERTIES
    LifecycleSpec
    CorrectionFlagged
