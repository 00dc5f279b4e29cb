SPECIFICATION FairSpec
CONSTANTS
    r1 = r1  t1 = t1  t2 = t2  w1 = w1  w2 = w2  h1 = h1  h2 = h2
    m1 = m1  m2 = m2  m3 = m3
    NoWorker = NoWorker  NoHandler = NoHandler  NoTask = NoTask  NoMsg = NoMsg
    Requests = {r1}
    Tasks = {t1, t2}
    RequestOf <- TwoSources
    KindOf <- AccessOnly
    Workers = {w1, w2}
    Handlers = {h1, h2}
    WorkerOf <- TwoProcesses
    Messages = {m1, m2}
    MsgTask <- OnePerTask
    MaxAttempts = 2
    MaxReceives = 2
    HttpSource = TRUE
    HeartbeatMayFail = FALSE
PROPERTIES
    EveryRequestSettles ImplementsContract
