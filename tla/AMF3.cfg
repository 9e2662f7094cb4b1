SPECIFICATION Spec
CONSTANTS
    Heap0 <- MCHeap
    Height <- MCHeight
    Roots <- MCRoots
    Alone <- MCAlone
    Changes <- MCChanges
    Registered <- MCRegistered
    DoubleOf <- MCDoubleOf
    Decimal <- MCDecimal
    AsDouble <- MCAsDouble
    AsLong <- MCAsLong
    Hosts = {"little", "big"}
    MaxLength = 68
    MaxItems = 2
    MaxSteps = 20
    MaxCut = 20
    MaxMore = 150
INVARIANTS
    TypeOK
    RoundTrip
    TablesInStep
    CutIsNoticed
CHECK_DEADLOCK FALSE
