SPECIFICATION Spec
CONSTANTS
    a1 = a1
    a2 = a2
    x = x
    y = y
    Agents = {a1, a2}
    Subjects = {x, y}
    MaxMoves = 4
INVARIANTS
    BoardIsTheFeeds
    ToldOnceInOrder
    ReadyIsTold
PROPERTY AllDelivered
CHECK_DEADLOCK FALSE
