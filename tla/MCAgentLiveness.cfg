SPECIFICATION FairSpec
CONSTANTS
    Server = {"dotnet", "go", "python", "java"}
    t1 = t1
    e1 = e1
    e2 = e2
    e3 = e3
    Task = {t1}
    Exec = {e1, e2, e3}
    Msg <- MCFewRequests
    ArtifactName <- MCArtifactName
    Handlers <- MCHandlers
    WholeTaskCancel <- MCWholeTaskCancel
    EchoesMetadata <- MCEchoesMetadata
    Interruptible <- MCInterruptible
    Overlap = FALSE
PROPERTIES
    Settles
    CancelEffective
    LifecycleSpec
CHECK_DEADLOCK FALSE
