SPECIFICATION PageSpec
CONSTANTS
    Alerts = {"a1", "a2"}
    Preloaders = {"l1"}
    Popups = {"p1", "p2"}
    MaxClosers = 1
    Links = {"link"}
    Inputs = {"in1", "in2"}
    Selects = {"select"}
    NoFast = {"file"}
    RowHeight = 2
    PageHeight = 2
    MaxItems = 4
    MaxOps = 2
    Options = {"o1", "o2"}
    Boxes = {"b1"}
    Texts = {"t"}
    Rows = {"r1"}
    Queries = {"q1", "q2"}
    Today = 24
    FirstDay = 1
    MinDay = 10
    MaxDay = 740
    Chosen = {374}
    Far = 0
    Cells = {1, 10, 42}
    MaxTurns = 2
    Items = {"r1", "r2"}
    LeftItems = {"r2"}
    Nobody = "nobody"
    MaxSwipes = 3
    Types = {"S", "Y"}
    FirstType = "S"
    MaxDate = 2
    MaxOrders = 3
    AnswerSize = 1
    RowsInView = 2
    Distance = 1
    MaxLoads = 4
    MaxPulls = 4
INVARIANTS
    PageTypeOK
    OneDialogAtATime CoveredForAReason TapMeansClick
    RowsShowItems ChoiceShown FormReturns ResultsMatch
    CalendarIsTrue OpenRowIsKnown OrdersWithoutGap PullSettles
CHECK_DEADLOCK FALSE
