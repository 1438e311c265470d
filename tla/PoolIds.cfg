SPECIFICATION Spec
CONSTANTS
    h1 = h1
    h2 = h2
    l1 = l1
    l2 = l2
    Hosts = {h1, h2}
    HostOrder <- TwoHostsOrder
    Listeners = {l1, l2}
    HostOf <- OwnHostOf
    Workers = {w1, w2}
    Requests = {q1, q2}
    MinWorkers <- NoMinimum
    MaxChildren = 1
    QueueAlloc = 2
    Faults = {}
    Main = Main
    Wild = Wild
    NULL = NULL
SYMMETRY Symmetry
INVARIANTS
    UniqueIds
