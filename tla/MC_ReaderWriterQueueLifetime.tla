------------------- MODULE MC_ReaderWriterQueueLifetime -------------------
EXTENDS ReaderWriterQueueLifetime
====
