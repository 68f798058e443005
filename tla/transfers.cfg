\* A blob of two pieces; one upload of two tries of each kind; two faults.
CONSTANTS
  Pieces = 2
  MaxFaults = 2
  NonceTries = 2
  Retries = 1
  MaxPuts = 1
  MaxEdits = 2
  MaxHead = 1
SPECIFICATION TransferSpec
INVARIANTS
  FileIsTheBlob
  StoredUnderItsHash
PROPERTIES
  ResumedDownloadsArrive
