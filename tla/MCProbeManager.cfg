SPECIFICATION FairSpec
CONSTANTS
    k1 = k1
    k2 = k2
    Key = {k1, k2}
    FailureThreshold = 2
    SuccessThreshold = 2
    MaxSamples <- MCMaxSamples
INVARIANTS ProbeTypeOK VerdictEarned ChangeWakes LateProbeCountsOnce
PROPERTY LastingVerdictReported
