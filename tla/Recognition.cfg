CONSTANTS
    Remembered = 4
    Identities = {i1, i2}
    None = None
    K = 2
    SearchK = 3
    Top = 2
    Policies <- ThreePolicies
    MaxChanges = 1
SPECIFICATION Spec
SYMMETRY AnyIdentity
INVARIANTS
    
    RefusedForCause
    
CHECK_DEADLOCK FALSE
