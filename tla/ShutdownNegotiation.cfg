SPECIFICATION Spec
CONSTANTS
    MaxRequests = 2
    MaxPolicies = 2
    Deliveries = {"immediate", "queued"}
    NativeForce = TRUE
INVARIANTS
    PolicyHasItsSay
PROPERTIES
    OneOutcome
CHECK_DEADLOCK FALSE
