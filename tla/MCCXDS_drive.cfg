SPECIFICATION Spec
CONSTANTS
  a = a
  b = b
  Keys <- Both
  Vol <- VolOfTwo
  Drive = TRUE
  Incs <- UpDown
  SetIncs = {1}
  DelUsed = TRUE
  Events = {"commit", "callback", "close", "crash"}
  Width = 4
  MaxRC = 2
  MaxStat = 3
VIEW WithoutReply
PROPERTIES DriftByFailure Counted
CHECK_DEADLOCK FALSE
