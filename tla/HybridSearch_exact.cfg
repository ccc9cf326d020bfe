SPECIFICATION Spec
CONSTANTS
  a = a  b = b  unknown = unknown  note = note  doc = doc  other = other
  None = None
  Indexes <- TwoIndexes
  Strangers <- OneStranger
  Entries <- ThreeEntries
  Notes <- OneNote
  Matching <- TwoMatch
  Tables <- ShortTables
  Requests <- ListsOfNames
  Filters <- AllFilters
  MaxSaves = 2
INVARIANTS TypeOK KeywordRanksExact
