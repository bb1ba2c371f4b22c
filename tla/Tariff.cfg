CONSTANTS
  Wh = 3
  MaxStep = 2
  LastBand = 1
  power_brakes <- MCBreaks
  Rates <- MCRates
  Opening = 3
  Amounts = {2}
  MaxEnergy = 10
  MaxBoots = 2
  MaxChanges = 1
SPECIFICATION Spec
INVARIANT TypeOK ChargesBounded LowTariffTells
PROPERTY BalanceAtomic
CHECK_DEADLOCK FALSE
