SPECIFICATION AuthorizationSpec
CONSTANTS
    T1 = T1
    T2 = T2
    Alice = Alice
    Bob = Bob
    C1 = C1
    C2 = C2
    Token <- MCToken
    Owner <- MCOwner
    Caller <- MCCaller
    Horizon = 2
SYMMETRY Symmetry
INVARIANT
    RemovedStaysRemoved
