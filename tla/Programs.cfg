SPECIFICATION FairSpec
CONSTANTS
    LongMax = 15
    Mantissa = 4
    Spacings = {1, 2, 4, 8}
    Greatest = 10
    Failures = {"no_file", "no_SinIntegral", "no_translation", "NULL_symbol"}
INVARIANTS PointersLeadIntoTheLibrary WritesInsideTheMemory NumeralOfTheArgument
PROPERTY CallsReturn
CHECK_DEADLOCK FALSE
