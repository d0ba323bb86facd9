\* Two readers, one of them with a delayed start, and a writer, of two channels.
SPECIFICATION Spec
CONSTANTS
    A = A
    B = B
    W = W
    Writers = {W}
    Readers = {A, B}
    Delayed = {B}
    Channels = {0, 1}
    AddressDepth = 1
    DataDepth = 2
    Jobs <- SmallJobs
INVARIANTS DataInOrder AllStored
PROPERTY JobsEnd
