SPECIFICATION Spec
CONSTANTS
  Absent = Absent
  Bad = Bad
  m1 = m1
  m2 = m2
  em = em
  a1 = a1
  padded = padded
  blank = blank
  hash = hash
  pa = pa
  pb = pb
  Trimmed <- MCTrimmed
  Blank = blank
  LocalHash = hash
  Configurations <- MCConfigurations
  Inputs <- MCInputs
  Slots = {1}
  Similar <- MCSimilar
  Wordless = {"x"}
  MaxTime = 2
INVARIANTS ServedAlike ServedFresh StickyFollows StartedResolves
