SPECIFICATION LiveSpec
CONSTANTS
  Febs = {1}
  Broadcast = 255
  Configs = {"c1"}
  Requests = {"DAQ_BEG", "DAQ_END", "BIAS_ON", "BIAS_OF", "SETCONF"}
  WIDTH = 2
  Prompt = FALSE
  MaxCopies = 1
PROPERTY
  RequestAnswered
