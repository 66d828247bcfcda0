CONSTANTS
    Bytes <- MCBytes
    MaxCorrupt = 2
SPECIFICATION BlockSpec
INVARIANTS TablesArePolynomial SameCode BlockCheckExact
