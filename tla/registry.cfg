CONSTANTS
    f1 = f1
    f2 = f2
    f3 = f3
    c1 = c1
    c2 = c2
    e1 = e1
    FDs = {f1, f2, f3}
    Callbacks = {c1, c2}
    Events = {e1}
SPECIFICATION Spec
INVARIANTS
    TypeOK
    IndexMatchesVector
    CallbackIffPolled
PROPERTY ImplementsSubscriptions
