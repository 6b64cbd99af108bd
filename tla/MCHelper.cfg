\* Launches that replace the helper while it is called.
SPECIFICATION FairSpec
CONSTANTS
    MaxLaunches = 3
    Versions = {v1, v2}
    Torn = torn
    MaxCalls = 2
    Asked = {"has", "get", "set", "forget"}
    Keys = {k}
    NoKey = nokey
    None = none
    MaxStarted = 3
    Faults = {"launch", "keychain"}
INVARIANTS HelperIsWhole
PROPERTIES HonestAnswers LaunchRepairs Returns
\* Every process makes one call or one launch, and then stops.
CHECK_DEADLOCK FALSE
