CONSTANTS
  Specs <- SomeSpecs
  WireSpecs <- SomeWireSpecs
  MaxId = 9
  None = None
SPECIFICATION Spec
INVARIANTS RenderedIsRead AcceptedIsLaunched
CHECK_DEADLOCK FALSE
