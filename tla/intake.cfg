SPECIFICATION FairSpec
CONSTANTS
    a = a  c1 = c1  c2 = c2  c3 = c3  c4 = c4  w = w  k1 = k1  k2 = k2
    profile = profile  jobs = jobs
    Callers = {c1, c2, c3, c4}
    KeyOf <- Keyed
    CommandOf <- Bodies
    Normal <- Spellings
    MaxRetries = 2
    Tenants = {a}
    Writers = {c1, c2, c3, c4, w}
    TenantOf <- AllForA
    MaxAppends = 1
    NoWriter = NoWriter
    None = None
INVARIANTS
    TypeOK OneRequestPerKey AnswersAgree ChainSound
PROPERTIES
    ImplementsContract EveryCallAnswered
