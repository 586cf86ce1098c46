\* Every interleaving of the calls, a refresh and a page load.
CONSTANTS
    c1 = c1
    c2 = c2
    c3 = c3
    Load = Load
    Me = Me
    Calls <- MCCalls
SPECIFICATION Spec
INVARIANT OneRefresh
INVARIANT NobodyForgotten
PROPERTY RenewedCallsSettle
