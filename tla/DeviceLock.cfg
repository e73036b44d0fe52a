SPECIFICATION FairSpec
CONSTANTS
  trainer = trainer  engine1 = engine1  engine2 = engine2  other = other  alone = alone
  Workers <- MCWorkers
  Devices <- MCDevices
  Uses <- MCUses
  Nobody = Nobody
INVARIANTS OneWorkerPerDevice NothingRaises
PROPERTIES FirstComeFirstServed EveryCallReturns
