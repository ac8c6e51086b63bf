CONSTANTS
    Procs = {p1, p2}
    Boot = main
    Names = {a, b}
    NumSlots = 3
    NumFds = 2
    MaxLost = 1
    Overlap = TRUE
    ShareFiles = FALSE
    None = none
    Page = page
SYMMETRY Symmetric
SPECIFICATION Spec
INVARIANT OpenFileKept
