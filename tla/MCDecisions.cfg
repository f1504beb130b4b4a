\* Three requests, keyed or not, with one key, two terms and two fingerprints, or none.
SPECIFICATION Spec
CONSTANTS
    Requests = {r1, r2, r3}
    Keys = {k1}
    Outcomes = {approve, deny}
    Terms = {t1, t2}
    Borrowers = {b1, b2}
    NoKey = NoKey
    NoPrint = NoPrint
    NoOutcome = NoOutcome
    NoRequest = NoRequest
INVARIANTS
    OnePullUnlessLost
PROPERTIES
    ImplementsRecord
SYMMETRY Symmetry
\* Requests are finite and all of them may have been answered.
CHECK_DEADLOCK FALSE
