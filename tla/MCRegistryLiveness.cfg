SPECIFICATION FairSpec
CONSTANTS
    Tasks = {http, del}
    Deleters = {del}
    Creators = {del}
    Droppable = {http}
    Entries = {e1, e2}
    Resumes = {TRUE}
    MaxGeneration = 2
    NoSlot = NoSlot
    NoTask = NoTask
PROPERTIES GetReturns IdleSlotEvicted
