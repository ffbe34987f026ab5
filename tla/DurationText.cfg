CONSTANTS
  PerUnit <- Radices
  MaxInt = 99
  Printed <- SomeDurations
  Texts <- SomeTexts
SPECIFICATION Spec
INVARIANTS
  TypeOK
  ReadsBack
  ReadsUnits
CHECK_DEADLOCK FALSE
