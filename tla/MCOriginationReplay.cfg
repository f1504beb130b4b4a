\* An officer and an applicant, two decisions: the second may be a denial.
SPECIFICATION MCSpec
CONSTANTS
    Officers = {o1}
    Applicants = {a1}
    MaxEvents = 2
    Askers = {t1}
    TTL = 1
    ProbeTime = 0
    NoAsker = none
    Requesters = {r1}
    MaxCalls = 1
    WindowSize = 1
    MaxLate = 0
PROPERTIES
    BoardedReplayIsServed
