SPECIFICATION DeclareSpec
CONSTANTS
    Graphs = {g1, g2}
    Names = {n1, n2}
    MaxLists = 6
    MaxPlans = 1
    MaxRefs = 1
SYMMETRY Interchangeable
INVARIANTS
    BindingsScheduled
PROPERTIES
    BindingsFrozen
