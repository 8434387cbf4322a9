\* two calls in flight, no crash: a grant overlapping a rotation
CONSTANTS
    s1 = s1
    r1 = r1
    c1 = c1
    c2 = c2
    NoOne = NoOne
    Subject = {s1}
    Resource = {r1}
    Default = r1
    Call = {c1, c2}
    MaxVer = 3
    CanCrash = FALSE
SPECIFICATION Spec
SYMMETRY Symmetry
INVARIANTS MembersHoldCurrentKey
