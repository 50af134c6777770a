SPECIFICATION Spec
CONSTANTS
  c1 = c1
  c2 = c2
  d1 = d1
  d2 = d2
  first_frame = 1
  total_frames = 2
  Clients <- TwoClients
  Dirs <- TwoDirs
  kernel_page_directory = d1
  PD = {0}
  PT = {0, 1}
  Mappings <- TwoMappings
  Residue <- kernel_page
SYMMETRY ClientSymmetry
ACTION_CONSTRAINT AfterFault
INVARIANTS CountExact FramesUnshared Translates StaleOnlyRemapped
