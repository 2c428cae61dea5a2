SPECIFICATION Spec
CONSTANTS
  Key = "default"
  Configured <- TwoConfigured
  Pdfs <- TwoPdfs
  Compositions <- FourCompositions
  Canvases <- ThreeCanvases
  Bindings <- ThreeBindings
  MaxEvents = 2
CONSTRAINT FewModes
INVARIANTS
  ScanPasses
  AckedLoads
  BootsAgain
  OneDevelopmentDocument
  DocumentsHaveAssets
