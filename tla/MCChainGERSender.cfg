CONSTANTS
  MaxReorgs <- MC_MaxReorgs

SPECIFICATION Spec

PROPERTIES
  InjectGERReturns
