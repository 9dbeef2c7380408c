\* Polygons of four corners on a grid of three by three.
SPECIFICATION Spec
CONSTANTS
  Coordinates = {0, 1, 2}
  Corners = 4
INVARIANT SimpleHasNoCrossing
CHECK_DEADLOCK FALSE
