\* two devices edit the same cell from the same version
CONSTANTS
    d1 = d1
    d2 = d2
    d3 = d3
    Nobody = Nobody
    f1 = f1
    Device = {d1, d2, d3}
    Founder = {d1}
    Editor = {d1, d2}
    MaxVer = 2
    MaxGrant = 1
    File = {f1}
    CanOverlap = FALSE
    TextOrder <- MCTextOrder
    SigOrder <- MCSigOrder
    KeyOrder <- MCKeyOrder
SPECIFICATION Spec
INVARIANTS ExchangeConverges
