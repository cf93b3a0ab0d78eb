\* Renames with an allocation failure at any of the first MaxSteps + 1 fallible
\* calls; a rename over two filters makes at most 2 * (1 + 2 * 2) = 10 of them.
CONSTANTS
    f1 = f1
    f2 = f2
    top = top
    a = a
    b = b
    c = c
    None = None
    Filters = {f1, f2}
    Prio <- PrioMC
    Dentries = {top, a, b, c}
    Top = top
    Parent0 <- Parent0MC
    RegDentries = {a, b, c}
    AllocFails = TRUE
    MaxSteps = 10
SPECIFICATION Spec
PROPERTY RenameMovesTowardsResolved
