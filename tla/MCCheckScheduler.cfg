SPECIFICATION Spec
CONSTANTS
    MaxId = 2
    Handlers = {h1, h2}
    Workers <- OneWorkerMore
    Limit = 2
    Intervals <- EveryTick
    MaxLag = 1
    Horizon = 2
    MaxEvents = 3
    Counted = {"change", "test", "failure"}
SYMMETRY Symmetry
INVARIANTS TypeOK OneRunPerMonitor BooksMatchRuns CredentialWillBeChecked
PROPERTIES ImplementsCheckSlots
