SPECIFICATION StopLastSpec
CONSTANTS
  c1 = c1
  c2 = c2
  c3 = c3
  Cmd = {c1, c2, c3}
  Root = {r1}
  Versions = {v1}
  Kinds = {"start", "stop", "restart", "port"}
  Tries = 1
  MaxFaults = 0
PROPERTIES
  CommandsFinish
  InterruptedDaemonDies
  SettlesToOneDaemon
  PidFileHeals
  StopLeavesNothing
