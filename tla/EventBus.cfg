SPECIFICATION Spec
CONSTANTS
    Listeners = {now, later}
    Queued = {later}
    Threads = {t1, t2}
    Nobody = nobody
    MaxPublications = 3
    MaxDepth = 2
SYMMETRY ThreadSymmetry
INVARIANTS
    BooksAgree
    NoCallAfterWait
    NoSelfDeadlock
CHECK_DEADLOCK FALSE
