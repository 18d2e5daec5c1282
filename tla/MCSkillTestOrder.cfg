SPECIFICATION Spec
CONSTANTS
    agnes = agnes
    wendy = wendy
    overpower = overpower
    overpower2 = overpower2
    opportunist = opportunist
    vicious = vicious
    lucky = lucky
    bat = bat
    dog = dog
    None = None
    Cards = {overpower, overpower2, opportunist, vicious, lucky, bat, dog}
    Order <- InOrder
    Taker = wendy
    Owner <- Owners
    Title <- Titles
    MaxPerTest <- Limits
    Icons <- CommitIcons
    OwnTestOnly = {opportunist}
    Adds <- Added
    Boosts = {vicious}
    Lucky = {lucky}
    Weapon = bat
    Dog = dog
    Abilities = {"AutomaticSuccess"}
    Wendy = {wendy}
    Agnes = {agnes}
    Substitutes = {wendy}
    Base <- Skilled
    Difficulty <- Tested
    Bag <- Tokens
    Hands <- Begun
    FoeHealth = {1}
    Actions = 1
CHECK_DEADLOCK FALSE
INVARIANT EachResultOnce
