CONSTANTS
    QuickURLs = {q1}
    ManagedURL = m1
    ExternalURL = e1
    NoURL = NoURL
    Memory = {FALSE}
    MaxOwed = 1
SPECIFICATION FairSpec
INVARIANTS
    ProcessesKept
    SettledOnConfig
PROPERTIES
    URLFollows
    Exits
