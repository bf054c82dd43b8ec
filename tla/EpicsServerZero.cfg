CONSTANTS
  Clients = {0}
  CommandCount = 2
  Nonce <- NoncesFromZero
  MaxBoots = 0
SPECIFICATION Spec
INVARIANT NoEmptyReply
CHECK_DEADLOCK FALSE
