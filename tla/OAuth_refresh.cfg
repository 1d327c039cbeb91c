SPECIFICATION Spec
CONSTANTS
    SignIn = {s1}
    Request = {r1, r2, r3}
    MaxTokens = 4
    CacheTTL = 1
PROPERTIES
    SignedOutForCause
    ImplementsSignIns
