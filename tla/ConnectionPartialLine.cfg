CONSTANTS
    Conversations <- MCConversations
    MinCapacity = 3
    MaxIov = 2
    Addresses = 2
    ConnectPolls = 2
    Fds = {1, 2}

SPECIFICATION Spec

INVARIANTS
    LinesEndWithCR
