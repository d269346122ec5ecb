SPECIFICATION Spec
INVARIANTS
    CallsReachTheirFunction
