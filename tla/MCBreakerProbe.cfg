SPECIFICATION Spec
CONSTANTS
    Callers = {c1, c2}
    Threshold = 2
    Cooldown = 2
    MaxStep = 0
INVARIANT SingleProbe
