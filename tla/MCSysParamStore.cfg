CONSTANTS
    Values = {v}
    Default = Default
    Zero = Zero
    Junk = Junk
    MaxLosses = 3
SPECIFICATION FairSpec
INVARIANTS FailuresMasked AllOrNothing
PROPERTIES ImplementsCell CallsEnd
