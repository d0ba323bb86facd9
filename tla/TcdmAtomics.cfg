\* Both cores do both; the bus, another cluster, uses the mutex.
SPECIFICATION ClientSpec
CONSTANTS
    Requests <- AllRequests
    Others <- Neighbours
    Transfers <- DmaTransfers
    Ports = {"core0", "core1", "bus", "dma"}
    Rows = {"r0", "r1"}
    Sign = 1
    CoreId <- Ids
    CorePorts = {"core0", "core1"}
    Harts = {"core0", "core1", "bus"}
    Loopers = {"core0", "core1"}
    Lock = "r1"
    Counter = "r0"
INVARIANTS MutualExclusion NoLostIncrement
PROPERTIES ImplementsAtomicMemory SomebodyAcquires NoLivelock
