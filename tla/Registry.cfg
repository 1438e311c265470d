SPECIFICATION Spec
CONSTANTS
    t1 = t1
    t2 = t2
    info = info
    rival = rival
    long = long
    fcgi = fcgi
    dummy = dummy
    Threads = {t1, t2}
    Plugins = {info, rival, long, fcgi}
    KindOf <- MCKindOf
    NameOf <- MCNameOf
    Names <- MCNames
    StoredAs <- MCStoredAs
    Jobs <- MCJobs
    Endpoints = {e1, e2}
    MaxInFlight = 1
    MaxWorkers = 1
    Faults = {"nomemory", "noendpoint", "nothread"}
    NULL = NULL
INVARIANTS
    TypeOK
    RefsExact
    NoDangling
    HostsAsConfigured
PROPERTIES
    BindingStable
