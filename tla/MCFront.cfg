\* Two requests at a time from one browser, two applications each fresh or of an account;
\* two runs of the assistant, of two model calls each, that may share an Idempotency-Key.
SPECIFICATION MCSpec
CONSTANTS
    Handlers = {h1, h2}
    Browsers = {b1}
    Apps = {a1, a2}
    NoApp = none
    Attempts = 3
    Runs = {r1, r2}
    Keys = {k}
    Outcomes = {approve}
    MaxSteps = 2
    MaxRetries = 1
    Rooms <- MCRooms
    MaxEvents = 2
    NoRun = none
    Givens <- MCGivens
SYMMETRY Symmetry
INVARIANTS
    NobodyStranded
    AnswerIsOfItsRequest
    MarkIsTrue
    MaskedAndWhole
PROPERTIES
    CompensationTakesTheInert
