----------------------------- MODULE MCIncidents -----------------------------
(* Model checking of Incidents: two kinds of failure, thresholds that an     *)
(* operator switches between, and as many results as it takes to open,       *)
(* change, resolve and open again.                                           *)
EXTENDS IncidentViews, TLC

MCFailures == {"auth_failed", "connection_issue"}
MCFailureThresholds == {1, 2}
MCRecoveryThresholds == {1, 2}
MCBucketWidths == {2, 3}
==============================================================================
