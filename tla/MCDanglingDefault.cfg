\* bob may delete the account that is his default one.
SPECIFICATION FairSpec
CONSTANTS
    alice = alice
    bob = bob
    a1 = a1
    a2 = a2
    b1 = b1
    h1 = h1
    h2 = h2
    Nil = Nil
    Users = {alice, bob}
    Accounts = {a1, a2, b1}
    Owner <- MCOwner
    Opening = 1
    DefaultCap = 2
    Caps = {}
    Handlers = {h1}
    Amounts = {1, 2}
    Requests = {"sendMoney", "reqReceiveMoney", "confirmReceive", "rejectReceive", "requestRefund", "approveRefund", "rejectRefund", "suspiciousTransaction", "changeDefault"}
    MaxRequests = 2
    Deletable = {b1}
    SelfPay = FALSE
    Faults = FALSE
PROPERTY
    DebitSettles
