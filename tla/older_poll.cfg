SPECIFICATION Spec
CONSTANTS
    None = None
    MaxEpoch = 1
    MaxSequence = 2
    ReplayLimit = 1
    ChannelLimit = 1
    Kinds = {"TaskChanged"}
PROPERTY OlderPollKeepsTask
