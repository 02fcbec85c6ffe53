SPECIFICATION Spec
CONSTANTS
  Febs = {1, 2}
  Broadcast = 255
  Configs = {"c1"}
  Requests = {"DAQ_BEG", "DAQ_END", "BIAS_ON", "BIAS_OF", "SETCONF"}
  WIDTH = 1
  Prompt = TRUE
  MaxCopies = 2
INVARIANTS
  ClientsDistinct
  DaqBegun
  BiasSwitched
  
  RateIsOwn
