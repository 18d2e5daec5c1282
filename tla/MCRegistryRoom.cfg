SPECIFICATION Spec
CONSTANTS
    Tasks = {sock, http, del}
    Deleters = {del}
    Creators = {del}
    Droppable = {http, del}
    Entries = {e1, e2, e3}
    Resumes = {TRUE, FALSE}
    MaxGeneration = 2
    NoSlot = NoSlot
    NoTask = NoTask

VIEW Fingerprint
SYMMETRY Symmetry
CHECK_DEADLOCK FALSE
INVARIANTS TypeOK Counted HeldRoomInMap NothingFleetingCached NoStrandedSlot LateGetFindsNoGame
