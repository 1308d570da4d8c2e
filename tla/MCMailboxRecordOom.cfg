\* The record kzalloc of create fails.
CONSTANTS
  Callers = {c1, c2}
  Irqs <- MCIrqs
  Chans = {h1, h2, h3}
  AllocFails = TRUE
  NoOne = NoOne
  NoChan = NoChan

SPECIFICATION Spec

PROPERTY CallsReturn

CHECK_DEADLOCK FALSE
