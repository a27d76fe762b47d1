\* One member, all interleavings of two requests at a time, bans included.
SPECIFICATION Spec
CONSTANTS
    ann = ann
    new = new
    e1 = e1
    e2 = e2
    m1 = m1
    m2 = m2
    h1 = h1
    h2 = h2
    Nil = Nil
    Members = {ann}
    Joined = {ann}
    Emails = {e1, e2}
    Mobiles = {m1}
    HomeEmail <- MCHomeEmail
    HomeMobile <- MCHomeMobile
    Handlers = {h1}
    Requests = {"preLogin", "login", "resendOTP", "changeMail", "confirmUpdateMail"}
    Bodies = {}
    MaxRequests = 6
    MaxTime = 0
    Validity = 1
    Faults = FALSE
INVARIANT
    ConfirmedMeansReached
