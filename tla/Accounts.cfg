SPECIFICATION Spec
CONSTANTS
    Emails = {e1, e2}
    Clients = {c1, c2}
    Tokens = {t1}
    Nobody = Nobody
    NoToken = NoToken
    Missing = Missing
    LocalEmails = {e1}
    AdminEmails = {}
    VerifyEmail = TRUE
    MaxAttempts = 2
SYMMETRY Symmetry
INVARIANTS TypeOK FirstUserIsAdmin LinksWorkOnce LockoutCounts
PROPERTIES SomeoneAdministers
