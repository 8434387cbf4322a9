\* one call at a time, crashes, one subject, two resources
CONSTANTS
    s1 = s1
    r1 = r1
    r2 = r2
    c1 = c1
    NoOne = NoOne
    Subject = {s1}
    Resource = {r1, r2}
    Default = r1
    Call = {c1}
    MaxVer = 2
    CanCrash = TRUE
SPECIFICATION Spec
SYMMETRY Symmetry
INVARIANTS MembersHoldKeys
