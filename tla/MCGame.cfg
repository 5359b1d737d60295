CONSTANTS
    red = red
    blue = blue
    Sectors = {1, 2}
    Width <- MCWidth
    Height <- MCHeight
    Obstacles <- MCObstacles
    Objectives <- MCObjectives
    Link <- MCLink
    Factions = {red, blue}
    Elements <- MCElements
    Of <- MCOf
    KindOf <- MCKindOf
    SquadSize = 2
    FullHealth = 1
    Damages = {1}
    K = 1
    Games <- MCGames
    MaxSlips = 1
SPECIFICATION Spec
CHECK_DEADLOCK FALSE
INVARIANTS
    TypeOK
    OrdersObeyed
    TargetsApart
    VerdictStands
PROPERTIES
    FightsHold
    CapturesEarned
