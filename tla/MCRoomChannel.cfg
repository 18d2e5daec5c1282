SPECIFICATION FairSpec
CONSTANTS
    creator = creator
    guest = guest
    host = host
    tab = tab
    Accounts = {creator, guest}
    Creator = creator
    Conns = {host, tab}
    AccountOf <- MCAccountOf
    Capacity = 2
    MaxEvents = 4
INVARIANTS NothingSkipped ReplyAfterItsCause OneFrameOvertime
PROPERTIES DeleteClosesAll ShutdownCloses
CHECK_DEADLOCK FALSE
