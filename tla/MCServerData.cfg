\* Two folders and two overlapping requests about them; two older jars, two
\* requests in all, which may overlap; two
\* overlapping requests about two text files, with two or three new contents.
CONSTANTS
  Names = {n1, n2}
  NoName = noName
  Tasks = {t1, t2}
  NoTask = noTask
  MaxRequests = 2
  MaxWorld = 2
  j1 = j1
  j2 = j2
  v1 = v1
  JarNames = {j1, j2}
  Versions = {v1, v2}
  NoJar = noJar
  Published = v2
  Local = v1
  Bundles = {n1, n2}
  NoBundle = noBundle
  JarRequests = 2
  FileNames = {config, region}
  StoppedOnly = {region}
  Jobs = {n1, n2}
  MaxContent = 3
SPECIFICATION MCSpec
SYMMETRY Interchangeable
CHECK_DEADLOCK FALSE
INVARIANTS
  NoJarIsLost
  AnswersAreTrue
PROPERTIES
  AnswersHold
  FoldersStay
  SwitchIsProtected
  NothingIsLost
  SavesWhatWasReviewed
