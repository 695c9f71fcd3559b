SPECIFICATION SizesSpec
CONSTANTS
    None = None
    HugeSizes <- MCHugeSizes
INVARIANTS SmallestFit UnitFound
