SPECIFICATION Spec
CONSTANTS
    a = a
    b = b
    v = v
    hw1 = hw1
    hw2 = hw2
    ekA = ekA
    ekB = ekB
    ekV = ekV
    NoEk = NoEk
    NoBlob = NoBlob
    NoKeys = NoKeys
    Vendor = v
    Day = 1
    TokenSize = 420
    Hosts = {a, v}
    Products = {"p", "q"}
    Keystores = {"k"}
    HwIds = {hw1, hw2}
    Backend <- AllTbs
    Ek <- OwnEk
    Flaky = {a, v}
    DayChoices <- Days01
    MaxTime = 1
    MaxPcr = 1
    MaxGens = 2
    MaxRequests = 2
    MaxIssues = 2
INVARIANTS
    LicenseStoreSound
    AssuranceTruthful
    KeystoreNotStranded
    DeviceKeyStable
PROPERTIES
    ActivationSticks
    RotationRevokes
    ImplementsEntitlement
CHECK_DEADLOCK FALSE
