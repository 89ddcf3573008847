\* As many channels as peers, and one descriptor more.
CONSTANTS
    MaxClients = 3
    NChan = 3
    NFds = 4
    Backlog = 2
SPECIFICATION FairSpec
INVARIANTS TypeOK RecvNeverBlocks SocketsOwned ChannelsOwned
PROPERTIES DataIsRead EndIsSeen QueueMoves
