SPECIFICATION FairSpec
CONSTANTS
    agnes = agnes
    roland = roland
    wendy = wendy
    crowd = crowd
    acolyte = acolyte
    west = west
    middle = middle
    east = east
    None = None
    Order <- TheOrder
    Foes <- TheFoes
    Adjacent <- InARow
    Hunter <- AllHunt
    Bearer <- TheBearer
    max_health <- Sturdy
    attack <- TheAttack
    Acolytes = {acolyte}
    Agnes = {agnes}
    Roland = {roland}
    Weakness = {roland}
    Boards <- TheBoards
INVARIANTS BoardSound AttackersFair CancelledLandsNothing DealsInFull EffectsWhole
PROPERTIES PhaseEnds
