SPECIFICATION Spec
CONSTANTS
  Objects = {o1, o2, o3, o4}
  Blocks = {b1, b2, b3}
  Plain = {"level"}
  Short = {"cafe"}
  Long = {"long", "other"}
SYMMETRY MCSymmetry
INVARIANTS NamesAreRight
