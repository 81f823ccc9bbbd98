SPECIFICATION Spec
CONSTANTS
    a = a
    b = b
    v = v
    hw1 = hw1
    hw2 = hw2
    ekA = ekA
    ekB = ekB
    ekV = ekV
    NoEk = NoEk
    NoBlob = NoBlob
    NoKeys = NoKeys
    Vendor = v
    Day = 1
    TokenSize = 420
    Hosts = {a, b, v}
    Products = {"p"}
    Keystores = {"k"}
    HwIds = {hw1, hw2}
    Backend <- AllTbs
    Ek <- SameEk
    Flaky = {a, b}
    DayChoices <- DaysSigned
    MaxTime = 3
    MaxPcr = 1
    MaxGens = 1
    MaxRequests = 2
    MaxIssues = 1
SYMMETRY Interchangeable
INVARIANTS
    TypeOK
    VerifiedIsEntitled
    ExchangeInv
CHECK_DEADLOCK FALSE
