SPECIFICATION SchemaSpec
CONSTANTS
    Openers = {p1, p2, p3}
    NoOne = NoOne
SYMMETRY Interchangeable
INVARIANTS
    CommittedWhole
    OpenersServed
