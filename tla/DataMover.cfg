\* One driver whose three copies wrap a ring of two tasks, or two harts that
\* queue a copy each, of which one waits.
CONSTANTS
    c1 = c1
    c2 = c2
    Clients = {c1, c2}
    Ops <- OneWaits
    QSize = 2
    DmaDepth = 2
    Plans <- DriverOrBoth
SPECIFICATION FairSpec
INVARIANT NoSleepOverWork
PROPERTIES ImplementsCopyQueue CallsReturn
