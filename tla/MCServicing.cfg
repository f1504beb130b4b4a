\* Four requests on one account; three payments on three days, a file of up to two
\* lines, and the window its own range or the middle day.
\* Five days of a log file kept for two.
SPECIFICATION MCSpec
CONSTANTS
    Loans = {l1}
    Requests = {r1, r2, r3, r4}
    Amounts <- ForthAndBack
    Corrections = {7, 10}
    Principal = 10
    LateFee = 5
    Entries <- Posted
    Settlements <- Files
    Windows <- MiddleDay
    DayLength = 2
    Tolerance = 1
    Gap = 1
    Alert = 2
    MaxRows = 3
    Loggers = {g1, g2}
    Retention = 2
    Inherited <- AnyThreeDays
    FirstDay = 2
    LastDay = 6
    NoWriter = none
SYMMETRY Symmetry
INVARIANTS
    BalanceKeepsEveryMovement
    PastDueExactUnlessRaced
    ReportAddsUp
    NothingIsHidden
    KeptForItsTerm
\* Requests are finite and the last one may be answered; a run of the job ends; days are bounded.
CHECK_DEADLOCK FALSE
