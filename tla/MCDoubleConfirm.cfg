\* Two confirmations of one money request.
SPECIFICATION Spec
CONSTANTS
    alice = alice
    bob = bob
    a1 = a1
    a2 = a2
    b1 = b1
    h1 = h1
    h2 = h2
    Nil = Nil
    Users = {alice, bob}
    Accounts = {a1,b1}
    Owner <- MCOwner
    Opening = 1
    DefaultCap = 2
    Caps = {}
    Handlers = {h1,h2}
    Amounts = {1}
    Requests = {"reqReceiveMoney", "confirmReceive"}
    MaxRequests = 3
    Deletable = {}
    SelfPay = FALSE
    Faults = FALSE
INVARIANT
    PaidOnce
