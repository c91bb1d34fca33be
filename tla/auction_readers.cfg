SPECIFICATION Spec
CONSTANTS
    Builders = {b1, b2}
    Parents = {p1}
    Slots = {0, 1, 2}
    Values = {1, 2}
    NoBid = NoBid
    Submitters = {s1}
    Readers = {r1}
    AuctionId = {a1, a2, a3, a4, a5}
    Nil = Nil
PROPERTIES ServedIsBest  
