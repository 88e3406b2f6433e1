CONSTANTS
    Width = 3
    Sum256 <- ToySum256
    Bytes = {0, 9, 10, 15, 16, 255}
SPECIFICATION Spec
INVARIANTS
    StringIsHexOfValue
