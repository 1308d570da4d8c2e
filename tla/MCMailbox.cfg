\* Concurrent create and destroy calls on two interrupt lines.  Creation
\* still fails on ring sizes that are not powers of two; kzalloc does not
\* fail, since a failed record allocation ends in an oops (see
\* MCMailboxRecordOom.cfg).
CONSTANTS
  Callers = {c1, c2}
  Irqs <- MCIrqs
  Chans = {h1, h2, h3}
  AllocFails = FALSE
  NoOne = NoOne
  NoChan = NoChan

SPECIFICATION Spec

INVARIANT RecordPerIrq
INVARIANT IrqMatchesList
INVARIANT ListedHaveRecord
PROPERTY CallsReturn

\* After xdna_mailbox_destroy nothing more happens.
CHECK_DEADLOCK FALSE
