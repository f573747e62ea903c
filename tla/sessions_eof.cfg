\* A client opens the register pipe and ends before the broker reads.
CONSTANTS
  Client = {c1}
  Broker = Broker
  Register = Register
  Deleted = Deleted
  NoRequest = NoRequest
  PipeCapacity = 1
SPECIFICATION Spec
PROPERTIES EofHarmless
CHECK_DEADLOCK FALSE
