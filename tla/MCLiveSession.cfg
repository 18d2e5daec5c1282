SPECIFICATION Spec
CONSTANTS
    MaxLog = 2
    creator = creator
    guest = guest
    outsider = outsider
    host = host
    tab1 = tab1
    tab2 = tab2
    Accounts = {creator, guest, outsider}
    Members = {creator, guest}
    Creator = creator
    Investigators = {1, 2}
    Responses = {"again", "draw"}
    States <- MCStates
    Opened <- MCOpened
    Awaiting <- MCAwaiting
    Accepts <- MCAccepts
    Step <- MCStep
    Draws <- MCDraws
    Conns = {host, tab1, tab2}
    AccountOf <- MCAccountOf
    NoConn = NoConn
    NoSession = NoSession
VIEW Fingerprint
SYMMETRY Symmetry
INVARIANTS ToldIsStored SessionIsStored ReplaySucceeds
PROPERTIES ImplementsLog
