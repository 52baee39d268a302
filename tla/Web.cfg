\* Three calls of the page over two loads, batches of one message; two plugins
\* and two listeners of the back button; two helpers on one database file, one
\* of whose opens may follow a kill of the process; any two calls on a table
\* of two columns.
SPECIFICATION WebSpec
CONSTANTS
    MaxCalls = 3
    MaxLoads = 2
    BatchSize = 1
    Plugins = {"statusbar", "sqlite"}
    BackListeners = {"back1", "back2"}
    Helpers = {a, b}
    Version = 3
    MaxOpens = 3
    MaxKills = 1
    Columns = {"x", "y"}
    Values = {1, 2}
    Null = Null
    MaxStatements = 2
    MaxBatches = 1
    Inline = {"p"}
    Ajax = {"a"}
    MaxHistory = 3
INVARIANTS
    WebTypeOK OneResultPerCall
    ReadyMeansReady BackButtonOverride
    VersionIsTrue TableAsAsked HistoryInStep
PROPERTIES InOrder ResultsArrive EveryListenerHears PageChangeEnds
CHECK_DEADLOCK FALSE
