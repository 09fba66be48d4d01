SPECIFICATION AdaptersSpec
CONSTANTS
  Models = {auto, m1}
  AutoModel = auto
  Deliveries = {d1, d2, d3}
  MaxConcurrency = 3
  None = None
SYMMETRY Symmetry
INVARIANTS ServingHasWeights BusyIsGenerating AloneIsOrderly ShutdownUnloads
