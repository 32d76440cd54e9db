CONSTANTS
  NUM_COEFFICIENTS <- MCNumCoefficients
  FIFO_DEPTH <- MCFifoDepth
  Restarts <- MCKey0
  MaxRuns <- MCMaxRuns
  MaxSamples <- MCMaxSamples
SPECIFICATION FairSpec
INVARIANT TypeOK
INVARIANT FilterOutput
PROPERTY ImplementsShiftRegister
