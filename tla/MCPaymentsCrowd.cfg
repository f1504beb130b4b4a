\* Four requests of one charge on one key, each with a row to claim.
SPECIFICATION CrowdSpec
CONSTANTS
    PaymentIds = {1, 2, 3, 4}
    Keys = {k1}
    Loans = {l1}
    Amounts = {3}
    Requests = {1, 2, 3, 4}
    Principal = 10
    NoKey = NoKey
    NoTerms = NoTerms
    NoPayment = NoPayment
PROPERTIES
    EveryRequestAnswered
\* A system whose requests are all answered may stop.
CHECK_DEADLOCK FALSE
