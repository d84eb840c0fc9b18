SPECIFICATION FairSpec
CONSTANTS
    o1 = o1
    o2 = o2
    i1 = i1
    i2 = i2
    i3 = i3
    k1 = k1
    k2 = k2
    k3 = k3
    c1 = c1
    c2 = c2
    c3 = c3
    c4 = c4
    None = None
    Orders = {o1, o2}
    Items = {i1, i2, i3}
    Price <- MCPrice
    OnOrder <- MCOnOrder
    Opening <- MCOpening
    Keys = {k1, k2, k3}
    Calls = {c1, c2, c3}
    Crashes = {c1}
    Requests <- AllOpsRequests
    InitiateResults = {"unknown"}
    QueryResults = {"confirmed"}
PROPERTIES
    EveryCallEnds
