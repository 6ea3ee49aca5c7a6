\* Two libraries that come, go and change, with a line in both; three identifiers,
\* so that pending breakpoints and two entries coexist.
CONSTANTS
    lib1 = lib1
    lib2 = lib2
    v1 = v1
    v2 = v2
    LibFunction = LibFunction
    HeaderLine = HeaderLine
    LibAddress = LibAddress
    Addr <- Libraries
    Program = {}
    Segment = {{lib1}, {lib2}}
    Location = {LibFunction, HeaderLine, LibAddress}
    Site <- Sites
    Absolute = {LibAddress}
    Image = {v1, v2}
    Trap = Trap
    Unmapped = Unmapped
    NoBytes = NoBytes
    MaxId = 4
SPECIFICATION Spec
SYMMETRY Versions
CHECK_DEADLOCK FALSE
INVARIANT TypeOK
INVARIANT Coherent
INVARIANT TrapsOwned
INVARIANT QuitRestores
INVARIANT IdsUnique
INVARIANT PendingUnresolvable
PROPERTY ResolvedHasEntries
PROPERTY ImplementsBreakpointSet
