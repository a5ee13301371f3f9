SPECIFICATION LiveSpec
CONSTANTS
    p1 = p1
    p2 = p2
    b1 = b1
    b2 = b2
    b3 = b3
    b4 = b4
    NoOne = NoOne
    Producers = {p1, p2}
    Batches = {b1, b2, b3, b4}
    Size <- SizeOf
    Settings <- DiskSettings
    attempts_limit = 2
    MaxAddFaults = 0
PROPERTIES WritesEnd
CHECK_DEADLOCK FALSE
