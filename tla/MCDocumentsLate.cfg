\* A repair that read the row as a draft, and the review that advances it.
SPECIFICATION MCSpec
CONSTANTS
    Creators = {c1}
    Reviewers = {o1}
    Acceptors = {}
    Events = {e1}
    Approving = {e1}
    Documents = {d1}
    NoEvent = NoEvent
    NoDocument = NoDocument
    Officers = {m1}
    MaxDecisions = 1
    MaxAttempts = 1
    Paths <- MCPaths
    Texts <- MCTexts
    Searches = {s1}
    NoSearch = none
    IndexTTL = 1
    Declarations <- MCDeclarations
    MaxTime = 0
    MaxEdits = 0
    Files <- MCFiles
    Contents <- MCContents
    Setups <- MCSetups
    Legacy <- MCLegacy
    Replies <- MCReplies
    TopScores <- MCTopScores
    MaxRuns = 0
    MaxChanges = 0
PROPERTIES
    LateDocumentReentersReview
SYMMETRY Symmetry
