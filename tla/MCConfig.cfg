CONSTANTS
  Words = {"maps", "out", "dir", "2"}
  Number <- MCNumber
  Delim = "="
  Comment = "#"
  Space = " "
  Newline = "nl"
  Files <- MCFiles
  NoFile = NoFile
  NumberKeys <- MCKeys
  Junk = {0, 7}
  Edits <- MCEdits
  MaxFileLines = 3
SPECIFICATION Spec
INVARIANTS
  TypeOK
  ContentsAreTheFile
  SettingsComeFromTheFile
  SavedReadsBack
PROPERTIES
  LoadingEnds
