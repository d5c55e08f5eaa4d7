SPECIFICATION Spec
CONSTANTS
    Failures <- MCFailures
    FailureThresholds <- MCFailureThresholds
    RecoveryThresholds <- MCRecoveryThresholds
    MaxChecks = 6
    MaxTime = 3
    BucketWidths <- MCBucketWidths
    ListLimit = 2
INVARIANTS
    TypeOK VerdictMatchesIncidents StreaksCountLog IncidentsDisjoint
    IncidentsGrounded EventsTellTheStory
    IncidentViewsAgree
