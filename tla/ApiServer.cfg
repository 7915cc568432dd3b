SPECIFICATION Spec
CONSTANTS
    Ids = {t1}
    Labels = {a}
    Callers = {c1, c2}
    Writers = {w1}
    NoOne = NoOne
    Half = Half
    Servers = {p1, p2}
    Streams = {s1}
    streams_per_principal = 1
    Foreign = Foreign
    MaxStarts = 2
INVARIANTS ServesAlone TokensKept OneEventAfterRevocation
PROPERTY RevokedStreamEnds
CHECK_DEADLOCK FALSE
