SPECIFICATION Spec
CONSTANTS
    a = a
    b = b
    first = first
    second = second
    Cells = {a, b}
    Fetches = {first, second}
    First = first
    None = None
    Asked = Asked
    MaxVersion = 5
    MaxReads = 1
    MaxLate = 2
    MaxInbox = 1
INVARIANTS
    OpenedTrue
    CurrentIsRight
CONSTRAINT FewMessages
SYMMETRY Symmetry
