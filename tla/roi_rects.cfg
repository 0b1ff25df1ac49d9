SPECIFICATION Spec
CONSTANTS
  roi1 = roi1
  roi2 = roi2
  Rois <- TwoRois
  Boxes <- SomeBoxes
  Shifts <- Right
  Limit = 2
  Careful = TRUE
SYMMETRY AnyRoi
INVARIANTS Banded KeepsPixels
