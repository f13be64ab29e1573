SPECIFICATION Spec
CONSTANTS
    Keys = {"a", "b"}
    BadKey = "+"
    ValTypes = {"i", "s"}
    PathMax = 2
    Texts <- MCTexts
INVARIANT NamesSound
INVARIANT ArraysTrue
INVARIANT HeaderHolds
PROPERTY ParseEnds
CHECK_DEADLOCK FALSE
