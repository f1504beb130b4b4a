\* Two creations, two reviews and an acceptance, over any legacy row: one of the
\* application's three decisions denied.  Two officers generate the disclosure of an
\* application that is decided up to three times.  Two searches of a corpus of two
\* files, with one edit; two runs of the harness, with one change.
SPECIFICATION MCSpec
CONSTANTS
    Creators = {c1, c2}
    Reviewers = {o1, o2}
    Acceptors = {a1}
    Events = {e1, e2, e3}
    Approving = {e1, e2}
    Documents = {d1}
    NoEvent = NoEvent
    NoDocument = NoDocument
    Officers = {m1, m2}
    MaxDecisions = 3
    MaxAttempts = 2
    Paths <- MCPaths
    Texts <- MCTexts
    Searches = {s1, s2}
    NoSearch = none
    IndexTTL = 1
    Declarations <- MCDeclarations
    MaxTime = 2
    MaxEdits = 1
    Files <- MCFiles
    Contents <- MCContents
    Setups <- MCSetups
    Legacy <- MCLegacy
    Replies <- MCReplies
    TopScores <- MCTopScores
    MaxRuns = 2
    MaxChanges = 1
INVARIANTS
    RefusedOnlyIfDenied
    AnswerTellsTheRecord
    HitIsVouchedFor
    NothingUnvettedStays
    FiguresAgree
PROPERTIES
    DeliveryIsWhole
    OneDecisionPerOffer
SYMMETRY Symmetry
