SPECIFICATION Spec
CONSTANTS
  gui = gui
  cli = cli
  img = img
  snd = snd
  k = k
  Gui = gui
  Others = others
  Processes = {gui, cli}
  Resources = {img, snd}
  KeyFiles = {k}
  Jobs = {1, 2, 3}
  PathSets <- MCPathSets
  Selections <- MCSelections
  MaxChanges = 2
INVARIANTS
  ResultsBelongUnlessOverlapped
  AllOrNothing
  SavedKeysStay
  BusyMeansWork
PROPERTIES
  ExistingFilesStay
