SPECIFICATION Spec
CONSTANTS
    server = server
    custom = custom
    current = current
    old1 = old1
    old2 = old2
    broken = broken
    Tools <- AllTools
    Settings <- TwoSettings
    Servers <- OneServer
    Custom = custom
    Default = Default
    Current = current
    Legacy <- TwoOldNames
    Broken = broken
PROPERTY DiscardsOnlyCopies
PROPERTY OthersKept
PROPERTY StaysConnected
