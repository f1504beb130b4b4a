\* Three requests contend for one key, with two payment rows between them; one of
\* the amounts is negative.
SPECIFICATION Spec
CONSTANTS
    PaymentIds = {p1, p2}
    Keys = {k1}
    Loans = {l1}
    Amounts <- ChargeAndReversal
    Requests = {r1, r2, r3}
    Principal = 10
    NoKey = NoKey
    NoTerms = NoTerms
    NoPayment = NoPayment
SYMMETRY Symmetry
INVARIANTS
    BalanceIsTheRecord
    NoSecondChargeWhileUnapplied
    ConfirmedIsApplied
    ReplayIsOfSameTerms
PROPERTIES
    ImplementsIntent
\* A system whose requests are all answered may stop.
CHECK_DEADLOCK FALSE
