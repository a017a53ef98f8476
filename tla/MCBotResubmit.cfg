\* Two cycles that overlap, no fault.
CONSTANTS
    Campaigns = {c1}
    Pledges = {p1}
    Polls = {t1, t2}
    Boot = Boot
    NoPledge = NoPledge
    Goal = 1
    MAX_CAMPAIGN_HISTORY_HOPS = 5
    MaxFaults = 0
SPECIFICATION Spec
INVARIANT NoResubmission
