CONSTANTS
    NWorks = 2
    Inputs <- FewQuestions
    N = 1
    Series <- AllSeries
    StepCap = 2
    McK = 2
    MaxResponse = 3
    MaxTeacher = 2
    PerBatch = 3
    NGpus = 2
    NAgents = 2
    SciBench = {"SciBench"}
SPECIFICATION ErsrSpec
CHECK_DEADLOCK FALSE
INVARIANTS EachCaseIsReportedOnce StandaloneAgreesWithTraining LimitsAreKept
