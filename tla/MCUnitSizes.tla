---------------------------- MODULE MCUnitSizes ----------------------------
EXTENDS UnitSizes, TLC

\* Both sides of the first page boundaries of huge units.
MCHugeSizes == 16361 .. 16370 \cup UNION {k * 32768 - 40 .. k * 32768 + 8 : k \in 1 .. 4}

=============================================================================
