\* The enclave never stops writing; batches of one.
CONSTANTS
  MaxMessages = 1
  Capacity = 2
  MaxPending = 1
  EnclaveWrites = Unbounded
  Unbounded = Unbounded
SPECIFICATION Spec
CHECK_DEADLOCK FALSE
PROPERTY InboundFlushed
