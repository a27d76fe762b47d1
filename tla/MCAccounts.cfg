\* Two members, three cards, all requests, two at a time, each of which may fail.
SPECIFICATION Spec
CONSTANTS
    ann = ann
    bob = bob
    c1 = c1
    c2 = c2
    c3 = c3
    h1 = h1
    h2 = h2
    Nil = Nil
    Members = {ann, bob}
    Holder = ann
    Cards = {c1, c2, c3}
    FirstCard = c1
    Handlers = {h1, h2}
    Requests = {"add", "delete", "changeDefault", "getBalance", "updatePIN", "pay", "updateAccount", "sendOTP", "confirmOTPForgetPIN", "forgetPIN", "resetTries", "updateUser"}
    Choosers = {bob}
    MaxRequests = 4
    MaxTries = 1
    Faults = TRUE
SYMMETRY Slots
INVARIANTS
    TypeOK
    TriesBounded
    PINAndTriesKept
    CardsApart
    AddIsWhole
    DefaultIsOwn
PROPERTY
    DeletedStays
