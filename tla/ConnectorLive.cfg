CONSTANTS
    c1 = c1
    c2 = c2
    Commands = {c1}
    Images = {c1}
    CommandGen <- GenFirst
    MaxGen = 2
    MaxRetained = 2
    Capacity = 1
    Acks = {"sent"}
    MaxCrashes = 1
    MaxDisables = 1
SPECIFICATION FairSpec
PROPERTIES
    CommandsSettle
CHECK_DEADLOCK FALSE
