CONSTANTS
    Channels = {c1}
    Slots = {s1, s2}
    k1p1 = k1p1
    k1p2 = k1p2
    k1p3 = k1p3
    k1 = k1
    Packets = {k1p1, k1p2, k1p3}
    KeyOf <- MCKeyOf
    MaxLane = 2
    MaxHistory = 2
    MaxReplays = 1
    MaxAttempts = 1
    MaxQueue = 1
    MaxOthers = 1
    NoKey = NoKey
    None = None
SPECIFICATION ChannelSpec
SYMMETRY Symmetric
INVARIANTS
    Accounts
    ReplaysSound
    NoSleep
    LastWord
PROPERTY
    RetiredKept
