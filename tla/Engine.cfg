SPECIFICATION Spec
CONSTANTS
    Games <- MCGames
    LinesOf <- MCLinesOf
    Cells <- MCCells
    NVals <- MCNVals
    Bits <- MCBits
INVARIANTS
    TypeOK
    MatchesMeaning
    GuardsExact
    PointerScoped
