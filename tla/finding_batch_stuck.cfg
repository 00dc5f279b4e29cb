SPECIFICATION FairSpec
CONSTANTS
    r1 = r1  r2 = r2  s1 = s1  s2 = s2  w1 = w1  b1 = b1  b2 = b2  k1 = k1
    Torn = Torn  NoFile = NoFile  NoWorker = NoWorker  NoBatch = NoBatch
    NoTask = NoTask
    Requests = {r1}
    KindOf <- AccessOnly
    TaskCount = 3
    RequestOf <- OneRequest
    SourceOf <- ThreeSources
    Seeds = {k1}
    Batches = {b1, b2}
    WorkerOf <- DefaultWorker
    BatchSize = 2
    MaxOverruns = 0
    MaxCrashes = 0
PROPERTIES
    SucceededCompletes
