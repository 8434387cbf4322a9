\* imports one at a time, two groups, a bystander
CONSTANTS
    d1 = d1
    d2 = d2
    d3 = d3
    Nobody = Nobody
    f1 = f1
    f2 = f2
    Device = {d1, d2, d3}
    Founder = {d1, d2}
    Editor = {d2}
    MaxVer = 1
    MaxGrant = 1
    File = {f1, f2}
    CanOverlap = FALSE
    TextOrder <- MCTextOrder
    SigOrder <- MCSigOrder
    KeyOrder <- MCKeyOrder
SPECIFICATION Spec
SYMMETRY Symmetry
INVARIANTS OneGroup
PROPERTIES RootPinned
