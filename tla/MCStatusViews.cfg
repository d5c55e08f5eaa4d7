SPECIFICATION Spec
CONSTANTS
    Monitors = {1, 2}
    Failures <- MCFailures
    Outcomes <- MCOutcomes
    Widths = {2, 4}
    Retention = 2
    OldResults <- MCOldResults
    MaxLag = 1
    MaxRecorded = 2
    MaxTime = 4
    MaxPoints <- MCMaxPoints
    Day = 4
    OverviewWindow = 2
    SlowFrom = 2
    StaleAfter = 1
INVARIANTS TypeOK RollupsExact EvidenceIsOwn SummariesMatchChecks PagesListEachCheckOnce ViewsAgree OverallNeverHidesFailure
