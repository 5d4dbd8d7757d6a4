SPECIFICATION ServicesSpec
CONSTANTS
    Chosen = {"plan", "kiosk", "bootstrap", "handoff", "tls", "keypad", "update"}
    Saved <- SavedViews
    MonitorAt <- MonitorOf
    Connectors = {11, 12}
    Good = {2}
    MaxRev = 2
    MaxEvents = 3
    BootReleases = {1, 2}
    MaxBootFaults = 3
    MaxRestores = 2
    MaxHandoffFaults = 3
    TlsNames = {"address", "domain"}
    Authorities = {1, 2}
    MaxTlsFaults = 2
    Keypads = {1, 2}
    MaxSettings = 2
    MaxInstallations = 3
    MaxKeypadFaults = 2
    Offers = {1, 2, 3}
    VersionOf <- VersionOfOffer
    MaxUpdateFaults = 3
    Operations = {1, 2}
    Destinations = {1, 2}
    MaxArchives = 2
    MaxBorgFaults = 1
CHECK_DEADLOCK FALSE
INVARIANTS
    KioskSound
    BootSound
    HandoffSound
    TlsUsable
    KeypadsSound
    UpdatesSound
PROPERTY
    ServicesProgress
