SPECIFICATION Spec
CONSTANTS
    Grants = {g1, g2}
    Plain = {s1}
    CallIds = {c1, c2}
    Answers = {ok1, ok2}
    Listers = {l1}
    Retained = 1
    None = None
SYMMETRY Symmetry
CONSTRAINT TwoCalls
INVARIANTS
    CallsSettledOnce
    ListersWake
CHECK_DEADLOCK FALSE
