CONSTANTS
    Formats <- Flashes
    Sectors = {1, 2}
    TableLimit = 2
    DirectoryLimit = 1
    Budget = 12
    Addresses = {a, b}
    None = None
SPECIFICATION Spec
SYMMETRY Symmetry
INVARIANTS
    TypeOK
    CopiesIndependent
PROPERTIES
    ModuleAsFound
    AddressKept
