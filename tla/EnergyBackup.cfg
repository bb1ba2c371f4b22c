SPECIFICATION Spec
CONSTANTS
  KwhThreshold = 2
  FlashEvery = 2
  MaxEnergy = 6
INVARIANTS
  TypeOK
  NeverOverbills
  OrderlyRestoreExact
  LossBounded
  HibernatesSaved
PROPERTY RecoveryIdempotent
