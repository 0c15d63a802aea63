\* Options -w 3 and -d, in adaptive mode one to three workers.
SPECIFICATION FairSpec
CONSTANTS
  MaxWorker = 3
  MinWorker = 1
  Modes = {TRUE, FALSE}
  NoRestart = FALSE
  Spike = 2
  MaxDeath = 1
  MaxBuild = 2
  MaxCommand = 2
INVARIANTS
  StopSticks
  RestartRenews
PROPERTIES
  MinimumSettles
  GrowsUnderLoad
  ShrinksWhenIdle
