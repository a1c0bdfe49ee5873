SPECIFICATION FairSpec
CONSTANTS
    e1 = e1
    e2 = e2
    b1 = b1
    k1 = k1
    k2 = k2
    Events = {e1, e2}
    Buckets = {b1}
    Keys = {k1, k2}
    Kind <- MCKind
    Configs <- MCConfigs
    RuleIds = {"r1", "r2"}
    None = None
    channel_capacity = 1
    max_retries = 2
    Faults = {"log"}
    MaxCrashes = 1
INVARIANTS TypeOK OneRecordPerRule LogIsTruthful
PROPERTIES AcceptedIsHandled FailuresAlerted
