SPECIFICATION Spec
CONSTANTS
  Shapes <- MCShapes
  Limits <- MCLimits
CHECK_DEADLOCK FALSE
INVARIANTS
  StoredIsSubmitted
  RemoteIsLocal
  
  PublishedKeepsRoot
  SizesAreExact
  CapellaBlockIsSSZ
  
