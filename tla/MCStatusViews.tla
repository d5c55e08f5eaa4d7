----------------------------- MODULE MCStatusViews -----------------------------
EXTENDS StatusViews
MCFailures == {"auth_failed", "api_issue"}
MCOutcomes ==
    {[source |-> "authenticated", state |-> Healthy, duration |-> 1],
     [source |-> "authenticated", state |-> Healthy, duration |-> 2],
     [source |-> "authenticated", state |-> "auth_failed", duration |-> 1],
     [source |-> "authenticated", state |-> "api_issue", duration |-> 2],
     [source |-> "authenticated", state |-> Unknown, duration |-> 1],
     [source |-> "public", state |-> Healthy, duration |-> 1]}
\* The range of the narrow buckets leaves some checks out, that of the wide one is a day.
MCMaxPoints == [w \in Widths |-> IF w = Day THEN 2 ELSE 1]
Old(id, m, state, d, at) == [id |-> id, monitor |-> m, source |-> "authenticated",
                             state |-> state, duration |-> d, at |-> at]
\* Two checks of one bucket and of one second, or none.
MCOldResults == {{}, {Old(1, 1, Healthy, 1, 1), Old(2, 1, "api_issue", 2, 1)}}
===============================================================================
