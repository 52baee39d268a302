SPECIFICATION HelperFairSpec
CONSTANTS
    Threads = {t1, t2, t3, t4}
    MaxSize = 2
    MaxHeld = 1
    Writers = {}
    NoOne = NoOne
PROPERTY CanBeReleased
