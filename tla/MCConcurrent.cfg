\* Two handlers, failures, deletions: all interleavings of up to three requests.
SPECIFICATION Spec
CONSTANTS
    alice = alice
    bob = bob
    a1 = a1
    a2 = a2
    b1 = b1
    h1 = h1
    h2 = h2
    Nil = Nil
    Users = {alice, bob}
    Accounts = {a1, b1}
    Owner <- MCOwner
    Opening = 1
    DefaultCap = 2
    Caps = {2}
    Handlers = {h1, h2}
    Amounts = {1}
    Requests = {"sendMoney", "reqReceiveMoney", "confirmReceive", "rejectReceive", "requestRefund", "approveRefund", "rejectRefund"}
    MaxRequests = 3
    Deletable = {b1}
    SelfPay = FALSE
    Faults = TRUE
SYMMETRY Slots
INVARIANTS
    TypeOK
    NoOverdraft
    ExclusiveIsExact
    RecordedMeansMoved
    StagesInOrder
    MoneyAccounted
