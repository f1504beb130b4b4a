SPECIFICATION Spec
CONSTANTS
    Loans = {l1, l2}
    PayKeys = {k1, k2}
    Charges = {x1, x2}
    MaxVisits = 3
    MaxMoves = 1
    Nil = Nil
    Files = {f1, f2}
    RunIds = {r1, r2}
    MaxTurns = 3
    MaxEvents = 3
    NoId = NoId
    Sums = {s1, s2}
    Default = s1
    MaxApps = 2
INVARIANTS
    NoUnmeantCharge
    ScreensAreOfThisVisit
    PanelsAgree
    OneEventPerAttempt
    RefreshComesBack
    OfferShowsItsTerms
SYMMETRY Symmetry
CHECK_DEADLOCK FALSE
