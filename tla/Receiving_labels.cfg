\* Two loads of two orders, quantities of three receipts, edits of the box and of
\* the counts, in any order.
SPECIFICATION Spec
CONSTANTS
    A = A
    B = B
    a1 = a1
    a2 = a2
    b1 = b1
    x = x
    y = y
    Order = {A, B}
    Item = {x, y}
    Receipt = {a1, a2, b1}
    NoOrder = NoOrder
    NoReceipt = NoReceipt
    Lines <- LinesOf
    Received <- ReceivedOf
    For <- ForOrder
    TopLines = 2
    MaxCount = 2
    Counts = {0, 1}
    Load = {s1, s2}
    Fetch = {f1}
INVARIANTS
    TypeOK
    LabelsFit
