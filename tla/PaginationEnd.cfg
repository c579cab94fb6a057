SPECIFICATION Spec
CONSTANTS
    Rows = 2
    PageSize = 1
    Blank = Blank
INVARIANT EndsWhenExhausted
