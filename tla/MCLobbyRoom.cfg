SPECIFICATION Spec
CONSTANTS
    creator = creator
    guest = guest
    host = host
    tab1 = tab1
    tab2 = tab2
    Accounts = {creator, guest}
    Creator = creator
    Investigators = {roland, daisy, agnes, other}
    Pool = {roland, daisy, agnes}
    MaxPicks = 2
    NoLead = NoLead
    Conns = {host, tab1, tab2}
    AccountOf <- MCAccountOf
    NoConn = NoConn
    NoOne = NoOne
    Listers = {guest}
VIEW Fingerprint
SYMMETRY Symmetry
INVARIANTS Saved LobbySound
PROPERTIES ImplementsLobby NothingUnlisted
