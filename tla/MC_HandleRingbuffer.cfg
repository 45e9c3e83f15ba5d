\* The enclave writes five messages into a ring of three; batches of two.
CONSTANTS
  MaxMessages = 2
  Capacity = 3
  MaxPending = 2
  EnclaveWrites = 5
  Unbounded = Unbounded
SPECIFICATION Spec
\* After a fatal_error_msg the host has thrown out of every() and stops.
CHECK_DEADLOCK FALSE
INVARIANT TypeOK
PROPERTIES
  InboundFlushed
  RingDrained
  ImplementsPump
