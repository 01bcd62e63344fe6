CONSTANTS
  N = 2
  Sgi = {10}
  Ppi = {11}
  Spi = {12}
  Lpi = {14}
  Home <- HomeMC
  Level = {11, 12}
  Hw = {}
  Prio <- PrioMC
  MAX_IRQ = 15
  InitAsleep = {1}
  MaxStimuli = 3
SPECIFICATION Spec
INVARIANTS PendingIsQueued InjectedIsHeld OneListRegister
PROPERTY InjectionStable
CHECK_DEADLOCK FALSE
