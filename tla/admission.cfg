SPECIFICATION FairSpec
CONSTANTS
    t1 = t1  t2 = t2  t3 = t3  c1 = c1  c2 = c2  c3 = c3  c4 = c4
    Tasks = {t1, t2, t3}
    Calls = {c1, c2, c3, c4}
    CallTask <- FirstRetried
    Minimum = 1
    Maximum = 2
    Initial = 2
    AdditiveStep = 1
    RatioNum = 13
    RatioDen = 20
    Unset = Unset
INVARIANTS
    WindowTypeOK ExcessIsStray
PROPERTIES
    AdmissionRespectsWindow CapacityReturns
