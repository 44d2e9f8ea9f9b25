SPECIFICATION FairSpec
CONSTANTS
    MaxFrames = 3
    MaxEvents = 2
    MaxPasses = 1
    ReadSize = 3
    ResizeSize = 2
    Sizes <- SmallSizes
INVARIANT NoTearing
PROPERTY SignalledIsShown
