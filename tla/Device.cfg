CONSTANTS
    Subjects = {"install", "station", "uplink", "panel"}
    Versions <- MCVersions
    Length <- MCLength
    Catalogued = 2
    Installable = 3
    ReadTimeouts = 3
    Reconnects = 3
    Networks = {a}
    NoNetwork = NoNetwork
    Setters = {http, ble}
    UplinkSetters = {http}
    WeakSamples = 2
    Retries = 1
    BackoffSteps = 1
    MaxEvents = 2
    Panel = TRUE
    StableSamples = 3
    MaxFacts = 1
SPECIFICATION MCSpec
INVARIANTS
    TypesOK
    HandedOverIsOneBody
    WireNeverTorn
    RadioLeftToAccessPoint
PROPERTIES
    InstallEnds
    StationTried
    SeenFrameCleared
    PressIsHeld
    DownloadKeepsUplink
