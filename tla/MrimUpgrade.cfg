\* Option -w 2; the executable is replaced once.
SPECIFICATION FairSpec
CONSTANTS
  MaxWorker = 2
  MinWorker = 1
  Modes = {FALSE}
  NoRestart = FALSE
  Spike = 1
  MaxDeath = 0
  MaxBuild = 2
  MaxCommand = 0
PROPERTIES
  UpgradeReaches
