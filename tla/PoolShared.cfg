SPECIFICATION Spec
CONSTANTS
    h1 = h1
    h2 = h2
    l1 = l1
    l2 = l2
    Hosts = {h1, h2}
    HostOrder <- TwoHostsOrder
    Listeners = {l1, l2}
    HostOf <- SharedHostOf
    Workers = {w1, w2, w3, w4}
    Requests = {q1, q2}
    MinWorkers <- OneNegative
    MaxChildren = 1
    QueueAlloc = 2
    Faults = {}
    Main = Main
    Wild = Wild
    NULL = NULL
SYMMETRY Symmetry
INVARIANTS
    HostsApart
PROPERTIES
    ImplementsDispatch
