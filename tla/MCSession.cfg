SPECIFICATION SessionSpec
CONSTANTS
  name0 = name0  name1 = name1  name2 = name2  red = red  long = long
  caller = caller  file1 = file1  file2 = file2
  Ids <- ThreeIds
  Players <- TwoPlayers
  Names <- SomeNames
  DefaultName <- SomeDefaults
  Overlong <- TooLong
  Unset = Unset
  Ticks <- TwoTicks
  Streams <- OneStream
  Files <- TwoFiles
  NoStream = NoStream
  MaxReports = 2
INVARIANTS NamesAreFaithful MemoriesAgree StreamsAreAccounted
