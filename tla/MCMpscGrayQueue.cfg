SPECIFICATION Spec
CONSTANTS
    Producers = {p1, p2, p3}
    Units = {u1, u2}
    NoUnit = NoUnit
    Capacity = 2
    MaxPos = 3
SYMMETRY Symmetry
INVARIANTS SlotExclusive Fifo
PROPERTIES FalseOnlyIfFull ImplementsGrayQueue
