\* A member and a newcomer, all requests, two at a time, each of which may fail.
SPECIFICATION Spec
CONSTANTS
    ann = ann
    new = new
    e1 = e1
    e2 = e2
    m1 = m1
    m2 = m2
    h1 = h1
    h2 = h2
    Nil = Nil
    Members = {ann, new}
    Joined = {ann}
    Emails = {e1, e2}
    Mobiles = {m1, m2}
    HomeEmail <- MCHomeEmail
    HomeMobile <- MCHomeMobile
    Handlers = {h1, h2}
    Requests = {"signup", "verifyEmail", "resendOTP", "preLogin", "login", "changeMail", "confirmUpdateMail", "sendForgetPassOTP", "confirmOTPPassword", "forgetPass", "updateUser", "updatePassword", "logout", "bannedUser", "updateUserMicroservice"}
    Bodies <- MCBodies
    MaxRequests = 5
    MaxTime = 1
    Validity = 1
    Faults = TRUE
SYMMETRY Slots
INVARIANTS
    TypeOK
    BanLasts
    CodesAreOneTime
    LoginNeedsCode
    ConfirmedWasMailed
    MobilesApart
