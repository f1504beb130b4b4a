\* Four workers on one downstream, and the threshold of the code; volumes at five
\* migrations, one object of each meddled with, and one mistake.
SPECIFICATION MCSpec
CONSTANTS
    Callers = {c1, c2, c3, c4}
    Threshold = 5
    MaxMishaps = 1
INVARIANTS
    OneCallPerCooldown
    ReadyIsSound
    CleanRunConverges
PROPERTIES
    RecoveryIsFound
    ReportsLeadToReady
