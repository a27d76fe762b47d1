\* alice confirms from either of her two accounts.
SPECIFICATION Spec
CONSTANTS
    alice = alice
    bob = bob
    a1 = a1
    a2 = a2
    b1 = b1
    h1 = h1
    h2 = h2
    Nil = Nil
    Users = {alice, bob}
    Accounts = {a1, a2, b1}
    Owner <- MCOwner
    Opening = 2
    DefaultCap = 1
    Caps = {}
    Handlers = {h1}
    Amounts = {1, 2}
    Requests = {"sendMoney", "reqReceiveMoney", "confirmReceive", "rejectReceive", "requestRefund", "approveRefund", "rejectRefund", "suspiciousTransaction", "changeDefault"}
    MaxRequests = 4
    Deletable = {}
    SelfPay = FALSE
    Faults = FALSE
INVARIANT
    WithinLimit
