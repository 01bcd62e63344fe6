SPECIFICATION UartSpec
CONSTANTS
  FIFO_MAX_SIZE = 2
  Char = {a, b}
  Nul = a
  Watermark = {1, 2}
  InitWatermark = 2
  Sbsa = TRUE
INVARIANTS RxNotLost ProducerNotStuck
PROPERTIES ImplementsFifo
