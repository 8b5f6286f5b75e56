\* One verifying thread, the issuer registered up to any number of times, dated tokens.
SPECIFICATION Spec
CONSTANTS
    Registrations = {1, 2}
    AudienceOf <- MCAudienceOf
    SignerOf <- MCSignerOf
    Forged = "forged"
    Issuer = "idp"
    Tokens <- MCTokens
    Subjects <- MCSubjects
    Lower <- MCLower
    Digest <- MCDigest
    MaxAge = 1
    Skew = 1
    ClientTtl = 1
    MaxTime = 2
INVARIANTS
    ActsOnOwnSessions
PROPERTIES
    AcceptedIsInForce
    RefusedForCause
