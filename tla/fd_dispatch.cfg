\* One process's descriptors over the image of MC_FdDispatch.
CONSTANTS
  FD_ARRAY_LENGTH = 5
  Dentries <- MCDentries
  NumBytes <- MCNumBytes
  NameLength <- MCNameLength
  Names <- MCNames
  NBytes <- MCNBytes
  TermLineLengths = {1, 3}
  MaxPosition = 4
  Commands <- MCCommands
  Programs <- MCPrograms
SPECIFICATION Spec
CONSTRAINT PositionBound
INVARIANTS
  TypeOK
  FileReadsAreSequential
  DirectoryListsEachEntryOnce
  StdioPinned
  ArgsOfOwnCommand
