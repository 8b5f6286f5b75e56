\* One pod, two key pairs, any contents at first, three writes or kills.
SPECIFICATION FairSpec
CONSTANTS
    Pairs = {"old", "new"}
    MaxChanges = 3
INVARIANTS
    NoDowngrade
    ClientFitsBundle
PROPERTIES
    EventuallyServes
