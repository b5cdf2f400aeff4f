\* The test: one writer.c and one reader.c, no signals, good buffers.
CONSTANTS
  Writers = {w1}
  Readers = {r1}
  max_pipe_size = 2
  Counts = {1, 2}
  MaxWritten = 6
  MaxSignals = 0
  MaxFaults = 0
SPECIFICATION FairSpec
PROPERTY SleepingWriterResumes
CHECK_DEADLOCK FALSE
