SPECIFICATION Spec
CONSTANTS
  Inventory <- MCInventory
  Durations = {6, 9, 14}
  Periods = {3, 4, 7}
  InitF = 5
  MinSynt = 3
  MaxSegments = 3
  Units <- MCUnits
  Percents = {0, 25, 50, 90, 130, 199, 350}
  Pitches = {5, 8, 10}
  MaxUnits = 3
  N = 9
  InitialST = 4
  LabelFiles = {99, 2, 3}
  Missing = 99
  STs = {3, 5}
  Freqs = {4, 6, 12}
  Times = {1000, 2000}
  Rate = 12
  MaxSynsegs = 3
  WavHdr = TRUE
  BufferSize = 3
  Rates = {1, 2, 4}
  Formats <- MCFormats
  HeaderSize <- MCHeaderSize
  CueSize = 1
  LabelSize = 2
  MaxSamples = 7
  MaxCues = 2
  Addresses = {1, 2}
  Sizes = {0, 1, 2, 5}
  DbSizes = {0, 1, 2}
  InitDiphsBs = 3
  BuffSize = 2
  MaxTexts = 3
  Sessions = {1, 2}
  Master = 0
  Langs = {"slovak", "czech"}
  VoicesOf <- MCVoices
  FallbackOf <- MCFallbacks
  Unset = "unset"
  PermanentOf = {"slovak"}
  Kinds <- MCKinds
  MaxSet = 2
  Programs <- SoundPrograms
  MaxTaken = 3
  Conns = {1, 2, 3, 4, 5}
  Servers = {1, 2}
  MaxWire = 2
  Dialogues <- MCDialogues
INVARIANTS
  InTime
  InStep
  Overlapped
  Sent
  AllDumped
  AsAsked
  Received
  Paired
PROPERTIES
  AllEnd
CHECK_DEADLOCK FALSE
