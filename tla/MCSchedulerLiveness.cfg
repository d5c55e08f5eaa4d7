SPECIFICATION FairSpec
CONSTANTS
    MaxId = 1
    Handlers = {h1}
    Workers <- OneWorkerMore
    Limit = 2
    Intervals <- EveryTick
    MaxLag = 1
    Horizon = 2
    MaxEvents = 3
    Counted = {"change"}
PROPERTIES EnabledMonitorsAreChecked DisabledMonitorsGoQuiet
