SPECIFICATION Spec
CONSTANTS
    Builders = {b1, b2}
    Parents = {p1}
    Slots = {2, 4}
    Values = {1, 2}
    NoBid = NoBid
    Submitters = {s1, s2}
    Readers = {}
    AuctionId = {a1, a2, a3, a4, a5}
    Nil = Nil
INVARIANTS WinnersAreBest
 
