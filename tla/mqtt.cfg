SPECIFICATION FairSpec
CONSTANTS
  Callers = {app, task}
  Starter = app
  Dispatch = task
  None = None
  Ops <- AppAndCallback
  MaxCalls <- TwoAndOne
  QueueSize = 1
  MaxSpont = 1
  Prompts = {TRUE, FALSE}
INVARIANTS EventsInOrder MessageMemory NoConfirmationTwice TrueMeansConfirmed
PROPERTY NothingHangs
