SPECIFICATION Spec
CONSTANTS
    NGpus = 2
    NJobs = 3
    PipeCap = 1
    MaxKills = 1
INVARIANTS
    ReturnLosesNoWork
    NoWorkerForgotten
    HangsOnlyWhen
CHECK_DEADLOCK FALSE
PROPERTIES
    KeepsPromise
    DriverFinishes
