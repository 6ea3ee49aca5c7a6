SPECIFICATION Spec
CONSTANTS
    File <- MCFile
    Kind <- MCKind
    Bases <- MCBases
    Text = 4
    Copies <- DataOnly
    Name <- MCName
    Symbols <- MCSymbols
    Sources <- MCSources
    Lines <- MCLines
    Request <- MCRequest
    Where <- MCWhere
    Matches <- MCMatches
    Room = 9
INVARIANTS
    TypeOK
    MissingOnlyWhenFull
    RoundTrip
    ResolvesToCode
