SPECIFICATION PipelineSpec
CONSTANTS
  proc = proc
  sys = sys
  NoDoc = NoDoc
  Source <- TwoMonitors
  ChCap = 2
  Wrap = 7
INVARIANT
  PipelineTypeOK
PROPERTIES
  ImplementsDocStream
  DocsArrive
