SPECIFICATION Spec
CONSTANTS
    Rows = 2
    PageSize = 2
    Blank = Blank
PROPERTY SetCursorFetches
