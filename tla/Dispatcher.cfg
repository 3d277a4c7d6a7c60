SPECIFICATION FairSpec
CONSTANTS
    Requests = {r1, r2, r3, r4}
    Producers = {p1, p2}
    Owner = owner
INVARIANTS
    Accounting
PROPERTIES
    IsMailbox
    EveryRequestSettles
CHECK_DEADLOCK FALSE
