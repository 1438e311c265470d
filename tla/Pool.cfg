SPECIFICATION FairSpec
CONSTANTS
    h1 = h1
    h2 = h2
    l1 = l1
    l2 = l2
    Hosts = {h1}
    HostOrder <- OneHostOrder
    Listeners = {l1}
    HostOf <- OneHostOf
    Workers = {w1, w2}
    Requests = {q1, q2, q3}
    MinWorkers <- NoMinimum
    MaxChildren = 1
    QueueAlloc = 2
    Faults = {"noworker", "nolist", "nothread", "spurious", "endpoint"}
    Main = Main
    Wild = Wild
    NULL = NULL
INVARIANTS
    TypeOK
    NoLostWakeup
    RefsExact
    ServingHead
    QueueBounded
    NoDangling
PROPERTIES
    ImplementsDispatch
    EventuallySettled
