SPECIFICATION Spec
CONSTANTS
    Monitors = {m1, m2}
    BatchSize = 2
    MaxAttempts = 1
    MaxEvents = 3
    MaxResets = 1
    MaxFaults = 0
INVARIANTS DeliveredMeansReceived
