\* One request at a time, no failures: all sequences of up to four requests.
SPECIFICATION FairSpec
CONSTANTS
    alice = alice
    bob = bob
    a1 = a1
    a2 = a2
    b1 = b1
    h1 = h1
    h2 = h2
    Nil = Nil
    Users = {alice, bob}
    Accounts = {a1, a2, b1}
    Owner <- MCOwner
    Opening = 1
    DefaultCap = 2
    Caps = {}
    Handlers = {h1}
    Amounts = {1, 2}
    Requests = {"sendMoney", "reqReceiveMoney", "confirmReceive", "rejectReceive", "requestRefund", "approveRefund", "rejectRefund", "suspiciousTransaction", "changeDefault"}
    MaxRequests = 4
    Deletable = {}
    SelfPay = FALSE
    Faults = FALSE
INVARIANTS
    MoneyConserved
    NoRepetition
    SoleLimitKept
PROPERTIES
    ImplementsPayments
    DebitSettles
