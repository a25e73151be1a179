SPECIFICATION LiveSpec
CONSTANTS
  Commands <- MCCommands
  Probes <- MCProbes
  Facts = {"f1", "f2"}
  KlipperFacts = {"f1"}
  DeliverMax = 2
  ResultMax = 2
  RateMax = 1
  GuardMax = 1
  Releases = {1, 2}
  Modes = {"systemd", "exit"}
  MaxEdits = 2
  MaxUpsets = 1
INVARIANTS RunOnce NoResultLost CurrentPrinters 
PROPERTIES Settles
