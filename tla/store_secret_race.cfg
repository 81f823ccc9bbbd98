SPECIFICATION Spec
CONSTANTS
    pA = pA
    pB = pB
    t1 = t1
    t2 = t2
    Absent = Absent
    Procs = {i1, i2}
    Products = {pA}
    Tokens = {t1, t2}
    ProductOf <- OneProduct
    SizeOf <- SameSize
    OldSecret = Absent
    FaultKinds = {}
    MaxCommands = 2
    MaxFaults = 0
PROPERTIES
    SecretPersists
CHECK_DEADLOCK FALSE
