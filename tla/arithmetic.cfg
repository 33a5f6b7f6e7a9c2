CONSTANTS
    Magnitudes = {0, 1, 2, 3, 6, 13, 99, 100}
    Operands <- MCOperands
SPECIFICATION Spec
INVARIANTS
    ArithmeticInv
    SignsCancel
    BoothProduct
    AdderSums
PROPERTIES
    TailFrozen
    IntegerSpec
CHECK_DEADLOCK FALSE
