SPECIFICATION Spec
CONSTANTS
    pA = pA
    pB = pB
    t1 = t1
    t2 = t2
    Absent = Absent
    Procs = {i1}
    Products = {pA, pB}
    Tokens = {t1, t2}
    ProductOf <- TwoProducts
    SizeOf <- SameSize
    OldSecret = Absent
    FaultKinds = {"crash", "short write"}
    MaxCommands = 5
    MaxFaults = 2
INVARIANTS
    NoResurrection
PROPERTIES
    SecretPersists
    DeviceKeyPersists
CHECK_DEADLOCK FALSE
