CONSTANTS
  read = read
  post = post
  put = put
  bare = bare
  Calls <- MCCalls
  Reads <- MCReads
  Bodied <- MCBodied
  MaxRetries = 1
  MaxCalls = 3
SPECIFICATION Spec
INVARIANT TypeOK
INVARIANT QueuedOnce
PROPERTY ImplementsContract
PROPERTY SentSettles
CHECK_DEADLOCK FALSE
