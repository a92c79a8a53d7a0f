CONSTANTS
    h1 = h1
    h2 = h2
    h3 = h3
    t1 = t1
    t2 = t2
    Threads = {t1, t2}
    Handles = {h1, h2, h3}
    Owner <- MCOwner
    NumFrames = 2
    Files = {1}
    MaxPages = 3
    MaxUsage = 2
    Values = {0, 1}
    Zero = 0
    NoPage = NoPage
    NoCall = NoCall
SPECIFICATION Spec
PROPERTIES AppendedZero
