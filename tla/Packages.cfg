CONSTANTS
    p1 = p1
    p2 = p2
    reference = reference
    Package <- Builds
    Key = {reference}
    KeyOf <- OneKey
    WeightsOf <- OtherWeights
    ContractOf <- OneContract
    Installer = {i1, i2}
    None = None
SPECIFICATION Spec
SYMMETRY Interchangeable
INVARIANTS
    
    RegisteredCanRun
