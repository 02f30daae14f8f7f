----------------------------- MODULE MCWalStorage -----------------------------
(* Segments of two lines: the third commit rotates.  Two keys tell apart     *)
(* commits that overlap from commits that do not.                            *)
EXTENDS WalStorage

CONSTANTS r1, r2

\* One reader beside commits, with the cleaning interval set and snapshots that may fail.
OneReader == [readers |-> {r1}, overlap |-> TRUE,
              snapshots |-> FALSE, cleans |-> TRUE, fails |-> TRUE]

\* Readers that load before the first commit, then commits and periodic snapshots.
ReadFirst == [readers |-> {r1, r2}, overlap |-> FALSE,
              snapshots |-> TRUE, cleans |-> FALSE, fails |-> FALSE]

\* The periodic snapshot as the first to load, beside commits.
SnapshotFirst == [readers |-> {}, overlap |-> TRUE,
                  snapshots |-> TRUE, cleans |-> FALSE, fails |-> FALSE]

MCReaders == {r1, r2}
SoundSetups == {OneReader, ReadFirst}
SnapshotFirstOnly == {SnapshotFirst}
=============================================================================
