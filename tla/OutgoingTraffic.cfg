SPECIFICATION Spec
CONSTANTS
    Messages <- MCMessages
    Overload <- MCOverload
    ViaFacade <- MCViaFacade
    Empty <- MCEmpty
INVARIANTS
    CallerIsTold
    StreamsCarryEdits
PROPERTIES
    IsAFilter
