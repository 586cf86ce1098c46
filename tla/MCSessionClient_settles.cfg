\* The hang of a refresh that is itself answered 401.
CONSTANTS
    c1 = c1
    c2 = c2
    c3 = c3
    Load = Load
    Me = Me
    Calls <- MCCalls
SPECIFICATION Spec
PROPERTY EveryCallSettles
