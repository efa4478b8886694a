-------------------- MODULE MC_BlockingReaderWriterQueue --------------------
EXTENDS BlockingReaderWriterQueue
====
