CONSTANTS
  Vcpu = {v1, v2}
  RxHead = {0, 1}
  TxHead = {2}
  TxLen <- TxLenMC
  Chunk = 1
  MaxFault = 1
SPECIFICATION Spec
SYMMETRY VcpuSymmetry
CONSTRAINT Explored
INVARIANTS NoLostInterrupt ProducerWoken ConsumerNotStuck
PROPERTY ImplementsExchange
