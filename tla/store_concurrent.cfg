SPECIFICATION SlotSpec
CONSTANTS
    pA = pA
    t1 = t1
    Absent = Absent
    Procs = {i1, i2}
    Products = {pA}
    Tokens = {t1}
    ProductOf <- OneProduct
    SizeOf <- SameSize
    OldSecret = s0
    FaultKinds = {"crash"}
    MaxCommands = 4
    MaxFaults = 1
INVARIANTS
    TypeOK
    HeldLicenceVerifies
    NoResurrection

    
    
    
CHECK_DEADLOCK FALSE
