SPECIFICATION Spec
CONSTANTS
    h1 = h1
    h2 = h2
    h3 = h3
    Host = {h1, h2, h3}
    Port = {1, 2}
    LongText = {h3}
    Answer <- MCAnswer
    MaxLists = 2
INVARIANTS
    WalkInList
    GetIsLastSet
    TextIsCurrent
