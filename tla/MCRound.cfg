SPECIFICATION FairSpec
CONSTANTS
    lead = lead
    second = second
    Order <- MCOrder
    None = None
    Surges = 2
    Attackers = 2
    Hunters = 1
    interactive_acknowledge = TRUE
INVARIANTS StackInPlace AtRest EndingAtBottom FrameworkAsksTheLiving
PROPERTIES ImplementsSequence EverythingEnds
