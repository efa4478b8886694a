------------------------- MODULE MC_ReaderWriterQueue -------------------------
EXTENDS ReaderWriterQueue
=============================================================================
