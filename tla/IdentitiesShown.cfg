CONSTANTS
    f1 = f1
    g1 = g1
    one = one
    two = two
    i1 = i1
    i2 = i2
    i3 = i3
    p1 = p1
    p2 = p2
    None = None
    Faces = {f1, g1}
    Sources = {one, two}
    SourceOf <- MCSourceOf
    Identities = {i1, i2, i3}
    People = {p1}
SYMMETRY Symmetric
SPECIFICATION Spec
CHECK_DEADLOCK FALSE
INVARIANT KeptFacesAreShown
