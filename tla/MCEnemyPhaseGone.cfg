SPECIFICATION Spec
CONSTANTS
    agnes = agnes
    roland = roland
    wendy = wendy
    crowd = crowd
    acolyte = acolyte
    west = west
    middle = middle
    east = east
    None = None
    Order <- TheOrder
    Foes <- TheFoes
    Adjacent <- InARow
    Hunter <- AllHunt
    Bearer <- NoBearer
    max_health <- Frail
    attack <- TheAttack
    Acolytes = {acolyte}
    Agnes = {agnes}
    Roland = {roland}
    Weakness = {roland}
    Boards <- TheBoards
INVARIANT AttackerInPlay
