\* A request that notifies, failures on both sides of its call, two connections.
SPECIFICATION FairSpec
CONSTANTS
    ann = ann
    bob = bob
    root = root
    chief = chief
    h1 = h1
    Nil = Nil
    Customers = {ann, bob}
    AdminList <- MCAdminList
    Handlers = {h1}
    Requests = {"sendMoney", "reqReceiveMoney", "confirmReceive", "rejectReceive", "requestRefund", "approveRefund", "rejectRefund", "exceedLimit", "wrongPIN"}
    Parties <- MCParties
    Named = {ann, root}
    Kept = {ann}
    Claimants = {root}
    Readers = {chief}
    MaxRequests = 1
    MaxSockets = 2
    Faults = TRUE
INVARIANTS
    TypeOK
    OkMeansDone
    NewsInOrder
    PushesArePersonal
    ConnectedIsReached
PROPERTIES
    ImplementsDeliveries
    StoredIsTold
