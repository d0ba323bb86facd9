\* Two harts queue copies and start them.
CONSTANTS
    c1 = c1
    c2 = c2
    Clients = {c1, c2}
    Ops <- Producers
    QSize = 2
    DmaDepth = 1
    Plans <- TwoEach
SPECIFICATION Spec
INVARIANT QueueNotOverrun
CHECK_DEADLOCK FALSE
