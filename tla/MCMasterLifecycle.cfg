CONSTANTS
  Handles = {0, 1}
  Nics = {n1, n2}
  NoNic = NoNic
  Threads = {t1, t2}
  NoHandle = NoHandle
  Prompt = TRUE
  Tidy = TRUE
SPECIFICATION FairSpec
INVARIANTS StackInv NicExclusive FreeIsQuiet
PROPERTIES OkMeansStopped ShutdownReturns ExitObeyed
