SPECIFICATION MCSpec
CONSTANTS
    b1 = b1
    w1 = w1
    h1 = h1
    k1 = k1
    k2 = k2
    NoKey = NoKey
    Links <- MCLinks
    ScriptLinks <- MCScriptLinks
    TerminalLinks <- MCTerminalLinks
    Hosts <- MCHosts
    LinkHost <- MCLinkHost
    Algorithms = {rsa}
    Keys <- MCKeys
    DriverNames <- MCDriverNames
    MaxSessions = 1
    MaxUnpins = 1
    MaxOutput = 3
    MaxInput = 2
    MaxPings = 2
INVARIANTS
    TrustedKeysArePinned
    ArtifactsAreTheirs
    FramesAreWhole
PROPERTIES
    SessionsEnd
    SavedCoversTheSession
