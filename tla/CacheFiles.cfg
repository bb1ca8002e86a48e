SPECIFICATION Spec
INVARIANTS
  Released
  UpIsWhole
