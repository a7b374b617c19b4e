\* One backup of a device whose commands run over an exec channel.
SPECIFICATION Spec
CONSTANTS
    b1 = b1
    w1 = w1
    h1 = h1
    k1 = k1
    k2 = k2
    NoKey = NoKey
    Links <- MCScriptLinks
    ScriptLinks <- MCScriptLinks
    TerminalLinks <- NoLinks
    Hosts <- MCHosts
    LinkHost <- MCLinkHost
    Algorithms = {rsa}
    Keys <- MCKeys
    DriverNames <- ExecDrivers
    MaxSessions = 1
    MaxUnpins = 1
    MaxOutput = 1
    MaxInput = 1
    MaxPings = 1
PROPERTIES
    BackupsTimeOut
