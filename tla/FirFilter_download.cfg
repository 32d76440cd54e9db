CONSTANTS
  NUM_COEFFICIENTS <- MCNumCoefficients
  FIFO_DEPTH <- MCFifoDepth
  Restarts <- MCDownload
  MaxRuns <- MCMaxRuns
  MaxSamples <- MCMaxSamples
SPECIFICATION FairSpec
PROPERTY ReadsEnd
