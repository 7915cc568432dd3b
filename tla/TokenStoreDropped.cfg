SPECIFICATION StoreSpec
CONSTANTS
    Ids = {t1, t2}
    Labels = {a}
    Callers = {c1, c2}
    Writers = {w1, w2}
    NoOne = NoOne
    Half = Half
INVARIANT RevokedForGood
CHECK_DEADLOCK FALSE
