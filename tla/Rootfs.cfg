SPECIFICATION Spec
CONSTANTS
  MaxNames = 3
  MaxBodies = 2
  MaxUsers = 1
  MaxOps = 4
INVARIANTS
  TypeOK
  StartsSelected
  RunningKept
  ChoiceKept
  SettingsComposable
