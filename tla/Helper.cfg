\* Four readers that nest for three handles, and a writer: readers that block
\* with the monitor, writers that are kept out and writers that get through.
SPECIFICATION HelperSpec
CONSTANTS
    Threads = {t1, t2, t3, t4}
    MaxSize = 2
    MaxHeld = 2
    Writers = {w1}
    NoOne = NoOne
INVARIANT WaitIsSound
