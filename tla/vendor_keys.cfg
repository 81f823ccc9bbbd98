SPECIFICATION FairSpec
CONSTANTS
    i1 = i1
    i2 = i2
    kPath = kPath
    qPath = qPath
    w1 = w1
    w2 = w2
    NoPass = NoPass
    Absent = Absent
    Procs = {i1, i2}
    Keystores = {kPath}
    Publics = {kPath, qPath}
    Passphrases = {w1}
    Tpms = {FALSE, TRUE}
    FaultKinds = {"crash", "unwritable", "short write"}
    MaxGens = 2
    MaxCommands = 3
    MaxFaults = 1
INVARIANTS
    TypeOK
    PrivateBeforePublic
    StandingPairWhole
    AnsweredUnderAskedKey

    
CHECK_DEADLOCK FALSE
