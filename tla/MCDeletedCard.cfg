\* An account is deleted, its card number stays.
SPECIFICATION Spec
CONSTANTS
    ann = ann
    bob = bob
    c1 = c1
    c2 = c2
    c3 = c3
    h1 = h1
    h2 = h2
    Nil = Nil
    Members = {ann, bob}
    Holder = ann
    Cards = {c1, c2}
    FirstCard = c1
    Handlers = {h1}
    Requests = {"add", "delete"}
    Choosers = {}
    MaxRequests = 6
    MaxTries = 2
    Faults = FALSE
INVARIANT
    RefusedCardIsLinked
