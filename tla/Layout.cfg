SPECIFICATION Spec
CONSTANTS
  BlockBits = 3
  UnitBits = 2
  WordBits = 8
  DataBits = 16
  SizeField <- MCSizeField
  MultField <- MCMultField
  LenField <- MCLenField
  Registers <- MCRegisters
  EntryLen = 4
  MinFat16 = 3
  MinFat32 = 6
  FatEntryLen <- MCFatEntryLen
  Bits16 = 4
  Formats <- MCFormats
  Second <- MCSecond
  MaxVolumes = 2
  MaxFaults = 1
INVARIANTS
  TypeOK
  SizeKnown
  BlocksInPlace
  OpensWhatIsSound
  BlocksOnCard
