\* All files of up to four bytes and those of eight bytes "a" and 0xFF; chunks of
\* two bytes, two messages in flight each way.  Any side may be killed.  A transfer
\* ends, or blocks for ever with an unfit file.
CONSTANTS
  Bytes <- MCBytes
  Files <- MCFiles
  ChunkSize = 2
  Block = 2
  Window = 2
SPECIFICATION Spec
INVARIANTS TransferInv NothingInvented
PROPERTIES CopySpec TransferEnds
CHECK_DEADLOCK FALSE
