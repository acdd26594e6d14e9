\* Two clients and the resolver; three domains that share two addresses.
CONSTANTS
    d1 = d1  d2 = d2  d3 = d3  a1 = a1  a2 = a2  c1 = c1  c2 = c2
    Domain = {d1, d2, d3}
    Address = {a1, a2}
    Configured = {d1}
    RecordLife = 1
    MaxTTL = 0
    Client = {c1, c2}
SPECIFICATION ApiSpec
SYMMETRY Sym
INVARIANTS TypeOK ApiTypeOK AnswersAreTrue RefCounts AnnouncedMatches MinimalMessage UpdateNeverHalfDone NewInBatch
PROPERTY TableSpec
