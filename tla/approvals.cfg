SPECIFICATION FairSpec
CONSTANTS
  Requester = {r1, r2, r3, r4}
  r1 = r1
  r2 = r2
  r3 = r3
  r4 = r4
  Asks <- FourAsk
  Module = {"fs", "fetch"}
  Wanted <- FourWant
  Preapproved = {}
  MayLag = TRUE
  MayLeave = TRUE
  NoRequest = NoRequest
INVARIANTS VerdictIsTheUsers OnePromptPerModules
PROPERTIES EveryRequestIsAnswered
CHECK_DEADLOCK FALSE
