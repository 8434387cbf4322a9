\* two files, imported at once by one device or not; both devices edit
CONSTANTS
    d1 = d1
    d2 = d2
    d3 = d3
    Nobody = Nobody
    f1 = f1
    f2 = f2
    Device = {d1, d2}
    Founder = {d1}
    Editor = {d1, d2}
    MaxVer = 2
    MaxGrant = 2
    File = {f1, f2}
    CanOverlap = TRUE
    TextOrder <- MCTextOrder
    SigOrder <- MCSigOrder
    KeyOrder <- MCKeyOrder
SPECIFICATION Spec
SYMMETRY Symmetry
INVARIANTS TypeOK SameWritesSameCell
PROPERTIES GrantsOnlyMoveForward
