SPECIFICATION Spec
CONSTANTS
    w1 = w1  w2 = w2
    Writer = {w1, w2}
    Blank = Blank
    Junk = Junk
    Nothing = Nothing
    MaxEntries = 5
    MaxFailures = 3
SYMMETRY Symmetry
INVARIANTS
    TypeOK
    LossBounded
    WritersInOrder
PROPERTY RecordsKept
