CONSTANTS
    c1 = c1  c2 = c2  k1 = k1  k2 = k2
    plain = plain  hash = hash  hashless = hashless  quote = quote
    Clients = {c1, c2}
    Keys = {k1, k2}
    Values = {hash, quote}
    AsRead <- MCAsRead
    Quoted = {quote}
    InitFiles <- MCInitFiles
    MaxNumOfTransaction = 2
    Ids = {i0, i1, i2, i3}
    InvalidId = i0
    i0 = i0  i1 = i1  i2 = i2  i3 = i3
    TimeOut = 1
    NoTree = NoTree  NoFile = NoFile  NoId = NoId  NoValue = NoValue  Junk = Junk
    MaxTime = 2
    MaxRequests = 5
    MaxRequestsAll = 3
    MaxMishaps = 1
SPECIFICATION MCSpec
SYMMETRY Symmetry
CHECK_DEADLOCK FALSE
INVARIANT ConfigSound
PROPERTIES Isolated RefusedOnlyWhenBusy
