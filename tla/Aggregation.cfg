SPECIFICATION FairSpec
CONSTANTS
    Movies = {1, 2}
    LastDay = 2
    Attempts = 3
    ViewDays = {1, 2}
    MaxViews = 2
    MaxRuns = 2
INVARIANTS
    TypeOK
    RanksFollowCounts
    SuccessCoversItsDays
    StoresAgreeAfterRun
    OpenRunsWereInterrupted
PROPERTIES
    StoresFollowViews
    CallsEnd
