SPECIFICATION Spec
CONSTANTS
    a = a
    b = b
    v = v
    hw1 = hw1
    hw2 = hw2
    ekA = ekA
    ekB = ekB
    ekV = ekV
    NoEk = NoEk
    NoBlob = NoBlob
    NoKeys = NoKeys
    Vendor = v
    Day = 1
    TokenSize = 420
    Hosts = {a, v}
    Products = {"p"}
    Keystores = {"k"}
    HwIds = {hw1}
    Backend <- AllEsapi
    Ek <- OwnEk
    Flaky = {}
    DayChoices <- Days01
    MaxTime = 2
    MaxPcr = 2
    MaxGens = 1
    MaxRequests = 1
    MaxIssues = 1
PROPERTIES
    ActivationSticks
CHECK_DEADLOCK FALSE
