CONSTANTS
    Procs = {p1, p2}
    Boot = main
    Names = {a, b}
    NumSlots = 2
    NumFds = 2
    MaxLost = 2
    Overlap = FALSE
    ShareFiles = FALSE
    None = none
    Page = page
SYMMETRY Symmetric
SPECIFICATION Spec
INVARIANTS
    NoFault
    DescriptorsExact
    CountsExact
    OpenFileKept
