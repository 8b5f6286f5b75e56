\* Either backend, two writers and a lookup, values that are not accepted.
SPECIFICATION Spec
CONSTANTS
    risk = risk
    compliant = compliant
    high = high
    bogus = bogus
    w1 = w1
    w2 = w2
    r1 = r1
    Unset = Unset
    Fields = {risk, compliant}
    Values = {high, bogus}
    Invalid = {bogus}
    Backends = {"memory", "redis"}
    Writers = {w1, w2}
    Readers = {r1}
    Ttl = 2
    MaxTime = 4
    MaxSignals = 3
INVARIANTS
    KeepsUnlessRaced
    ForgottenStaysForgotten
PROPERTY
    RefusedOnlyForPoison
SYMMETRY Symmetry
