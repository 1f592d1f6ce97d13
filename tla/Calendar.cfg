CONSTANTS
  None = None
  Unborn = Unborn
  Gone = Gone
  e1 = e1
  MaxDates = 9
  MaxVersion = 2
  MaxSaves = 2
  Ranges <- MCRanges
  Events = {e1}
  Payloads <- MCPayloads
  Rules <- MCRules
  Originals <- MCOriginals
  Times <- MCTimes
SPECIFICATION Spec
INVARIANT TypeOK
INVARIANT SeriesCoherent
INVARIANT RangesShowCalendar
INVARIANT VersionsIdentifyContent
INVARIANT CorpusNeverStale
CHECK_DEADLOCK FALSE
