\* Two clients, started again and again as any kind, and a register pipe that
\* one request fills.  The system stops when everyone waits for someone who
\* died.
CONSTANTS
  Client = {c1, c2}
  Broker = Broker
  Register = Register
  Deleted = Deleted
  NoRequest = NoRequest
  PipeCapacity = 1
SPECIFICATION FairSpec
INVARIANTS TypeOK NoRequestTwice NoStaleErrno CreateMeets PipesRemoved NeverWaitsForReturned
PROPERTIES BrokerEnds
CHECK_DEADLOCK FALSE
