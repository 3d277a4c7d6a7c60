SPECIFICATION FairSpec
CONSTANTS
    MaxRequests = 1
    MaxPolicies = 1
    Deliveries = {"immediate", "queued"}
    NativeForce = FALSE
PROPERTIES
    TicketsSettle
CHECK_DEADLOCK FALSE
