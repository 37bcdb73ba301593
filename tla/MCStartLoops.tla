--------------------------- MODULE MCStartLoops ---------------------------
(* Instances of StartLoops for TLC.                                        *)
EXTENDS StartLoops

\* The shape the iceberg-weighted command builds: one reader and one writer
\* distribution, here with more than 1000 readers.
CLIReaders == <<1001>>
CLIWriters == <<2>>

\* Three reader distributions, the last one with 1000 workers.
ManyReaders == <<1, 1, 1000>>
ManyWriters == <<1>>
=============================================================================
