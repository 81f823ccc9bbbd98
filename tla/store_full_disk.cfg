SPECIFICATION Spec
CONSTANTS
    pA = pA
    pB = pB
    t1 = t1
    t2 = t2
    Absent = Absent
    Procs = {i1}
    Products = {pA}
    Tokens = {t1}
    ProductOf <- OneProduct
    SizeOf <- SameSize
    OldSecret = s0
    FaultKinds = {"short write"}
    MaxCommands = 1
    MaxFaults = 1
INVARIANTS
    HeldLicenceVerifies
CHECK_DEADLOCK FALSE
