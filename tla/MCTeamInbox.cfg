SPECIFICATION InboxFairSpec
CONSTANTS
    a1 = a1
    a2 = a2
    t1 = t1
    Agents = {a1, a2}
    Team = t1
    PageSize = 2
    MaxSent = 2
    MaxStarts = 2
    MaxChanges = 2
PROPERTIES
    MessagesAreRead
    OnlyHiddenIsSkipped
CHECK_DEADLOCK FALSE
