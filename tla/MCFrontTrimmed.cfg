\* A run of three model calls whose conversation is allowed three tokens.
SPECIFICATION MCSpec
CONSTANTS
    Handlers = {h1}
    Browsers = {b1}
    Apps = {a1}
    NoApp = none
    Attempts = 1
    Runs = {r1}
    Keys = {k}
    Outcomes = {approve}
    MaxSteps = 3
    MaxRetries = 0
    Rooms <- MCRooms
    MaxEvents = 2
    NoRun = none
    Givens <- MCGivens
INVARIANTS
    ResultsArePaired
