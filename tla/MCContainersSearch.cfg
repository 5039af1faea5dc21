SPECIFICATION Spec
CONSTANTS
    Kinds = {"r tree"}
    AnySubscript = FALSE
    AnyPosition = FALSE
    AnyKey = FALSE
    AnyResize = FALSE
    AnyPayload = FALSE
    AnyInsert = FALSE
    AnyCount = FALSE
    AnyReset = FALSE
    AnyPoint = FALSE
    AnyDifference = FALSE
    AnyRead = FALSE
    Absent = Absent
INVARIANT SearchFindsAll
