\* Renames that all succeed, from every registration of f1 and f2 on a, b, c.
CONSTANTS
    f1 = f1
    f2 = f2
    top = top
    a = a
    b = b
    c = c
    None = None
    Filters = {f1, f2}
    Prio <- PrioMC
    Dentries = {top, a, b, c}
    Top = top
    Parent0 <- Parent0MC
    RegDentries = {a, b, c}
    AllocFails = FALSE
    MaxSteps = 0
SPECIFICATION Spec
INVARIANT CacheConsistent
