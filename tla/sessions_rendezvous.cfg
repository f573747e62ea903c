\* One client and the broker, who open its session pipe.
CONSTANTS
  Client = {c1}
  Broker = Broker
  Register = Register
  Deleted = Deleted
  NoRequest = NoRequest
  PipeCapacity = 1
SPECIFICATION Spec
INVARIANTS NotBothWaiting
CHECK_DEADLOCK FALSE
