CONSTANTS
    t1 = t1  k = k  o = o
    chat = chat  other = other  alice = alice
    Turns = {t1}
    Ticks = {k}
    Operations = {o}
    Impatient = {o}
    Chats = {chat, other}
    ChatOf <- OneChat
    SenderOf <- Senders
    Size <- Lengths
    Nobody = nobody
    Interruptible = {t1}
    MaxStops = 1
CHECK_DEADLOCK FALSE
SPECIFICATION FairSpec
INVARIANTS
    ExclusiveGate
    NothingPending
PROPERTIES
    StateMovesForward
    WorkEnds
