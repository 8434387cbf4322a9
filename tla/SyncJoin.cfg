\* a writer is revoked while its cells are still there, files reach a fresh device
CONSTANTS
    d1 = d1
    d2 = d2
    d3 = d3
    Nobody = Nobody
    f1 = f1
    Device = {d1, d2, d3}
    Founder = {d1}
    Editor = {d2}
    MaxVer = 2
    MaxGrant = 2
    File = {f1}
    CanOverlap = FALSE
    TextOrder <- MCTextOrder
    SigOrder <- MCSigOrder
    KeyOrder <- MCKeyOrder
SPECIFICATION Spec
INVARIANTS FreshMachineReconstructs
