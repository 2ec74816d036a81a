SPECIFICATION PagesSpec
CONSTANTS
  all = all
  failed = failed
  Filters = {all, failed}
  NoFilter = all
  HasJobs <- MCHasJobs
  MaxChanges = 2
  MaxFailures = 1
  path = path
  images = images
  main = main
  old = old
  Inputs <- MCInputs
  IsHf <- MCIsHf
  Revisions = {main, old}
  Main = main
  None = None
INVARIANTS
  SelectionsMatchSource
PROPERTIES
  NeverShowsOlder
  ButtonsRecover
  ComesToShowWhatIsAsked
