\* one call at a time, no crash: a grant to a subject whose card is unknown
CONSTANTS
    s1 = s1
    s2 = s2
    r1 = r1
    c1 = c1
    NoOne = NoOne
    Subject = {s1, s2}
    Resource = {r1}
    Default = r1
    Call = {c1}
    MaxVer = 4
    CanCrash = FALSE
SPECIFICATION Spec
SYMMETRY Symmetry
INVARIANTS ProvisionedMembersKeepUp
