SPECIFICATION Spec
CONSTANTS
    Values = {"keys.json", "myapp", "verify"}
    GoodConfigs = {"keys.json", "server_pubkeys.json"}
    Numbers <- ReadNumbers
    Fields <- CommaFields
    UIntLimit = 4096
    ByteBase = 16
    CharBase = 8
    MaxText = 3
    Missing = Missing
    Kinds <- AllKinds
    Letters = {0, 9, 15}
    Files <- FileContents
    Structures <- SmbiosStructures
    ServerOptions <- OptionsTyped
    Longest <- Bounds
INVARIANTS
    DefaultConfigLinesWork
    TrailingConfigWorks
    ServerLinesWork
    RequestSurvivesMail
    TokenSurvivesMail
    TornBlobRefused
    
    FirstSystemUuid
CHECK_DEADLOCK FALSE
