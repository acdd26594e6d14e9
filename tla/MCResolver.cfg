\* Two domains asked of two servers, one address, a channel of two slots for
\* up to four answers.
CONSTANTS
    d1 = d1  d2 = d2  s1 = s1  s2 = s2  a1 = a1  a2 = a2
    Domain = {d1, d2}
    Server = {s1, s2}
    Address = {a1}
    OutCap = 2
SPECIFICATION FairSpec
INVARIANTS TypeOK TickerClosesSafely AnswersKept 
PROPERTY RoundEnds
CHECK_DEADLOCK FALSE
