\* Two officers and an applicant, two decisions, any back-book application; three threads
\* asking for readiness; three requesters and a window that holds two calls.
SPECIFICATION MCSpec
CONSTANTS
    Officers = {o1, o2}
    Applicants = {a1}
    MaxEvents = 2
    Askers = {t1, t2, t3}
    TTL = 2
    ProbeTime = 1
    NoAsker = none
    Requesters = {r1, r2, r3}
    MaxCalls = 2
    WindowSize = 4
    MaxLate = 2
INVARIANTS
    LoanIsAuthorized
    AcceptedIsWhole
    BurstIsBounded
PROPERTIES
    VerdictIsRecent
SYMMETRY Symmetry
