SPECIFICATION Spec
CONSTANTS
    Games <- MCOddGames
    LinesOf <- MCLinesOf
    Cells <- MCCells
    NVals <- MCNVals
    Bits <- MCBits
PROPERTY FloatWritesOneWord
