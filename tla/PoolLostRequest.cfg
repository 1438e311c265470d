SPECIFICATION FairSpec
CONSTANTS
    h1 = h1
    h2 = h2
    l1 = l1
    l2 = l2
    Hosts = {h1}
    HostOrder <- OneHostOrder
    Listeners = {l1}
    HostOf <- OneHostOf
    Workers = {w1, w2}
    Requests = {q1}
    MinWorkers <- OneEach
    MaxChildren = 2
    QueueAlloc = 2
    Faults = {"spurious"}
    Main = Main
    Wild = Wild
    NULL = NULL
PROPERTIES
    EventuallyServed
