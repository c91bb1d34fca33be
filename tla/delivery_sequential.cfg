SPECIFICATION DeliverySpec
CONSTANTS
    Requests = {r1}
    Slots = {0, 1, 2}
    Hashes = {h1, h2}
    ZeroHash = ZeroHash
    PublishBlock = TRUE
SYMMETRY Symmetry
INVARIANTS  SentWasPublished
