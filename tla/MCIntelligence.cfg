CONSTANTS
    red = red
    blue = blue
    b1 = b1
    hill = hill
    dale = dale
    r1 = r1
    r2 = r2
    Factions = {red, blue}
    Elements = {b1}
    Of <- MCOf
    Cells = {hill, dale}
    Objectives = {hill}
    Limit = 2
    K = 1
    Replicas = {r1, r2}
    Games <- MCGames
SPECIFICATION Spec
SYMMETRY MCSymmetry
CHECK_DEADLOCK FALSE
INVARIANTS
    PictureIsHistory
    IssuedIsCurrent
    TheaterConsistent
