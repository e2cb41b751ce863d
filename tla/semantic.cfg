SPECIFICATION FairSpec
CONSTANTS
    first = first
    second = second
    channel = channel
    Tasks = {first, second}
    Channels = {channel}
    NoChannel = NoChannel
    Formatter = Formatter
    ChannelOf <- MCChannelOf
    ReadLimit = 2
    FormatLimit = 2
    MaxActions = 2
INVARIANTS
    ActsOnce
    

    
CHECK_DEADLOCK FALSE
