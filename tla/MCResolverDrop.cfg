\* Two domains asked of two servers, every answer delivered in time.
CONSTANTS
    d1 = d1  d2 = d2  s1 = s1  s2 = s2  a1 = a1  a2 = a2
    Domain = {d1, d2}
    Server = {s1, s2}
    Address = {a1, a2}
    OutCap = 2
SPECIFICATION Spec
SYMMETRY Sym
INVARIANT AnswersPublished
CHECK_DEADLOCK FALSE
