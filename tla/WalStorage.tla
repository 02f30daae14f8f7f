------------------------------ MODULE WalStorage ------------------------------
(***************************************************************************)
(* The write-ahead log storage of packages/general/src/storage/wal: the    *)
(* driver with its cache, writer, reader, snapshots and cleaner, over the  *)
(* files they leave behind.                                                *)
(*                                                                         *)
(* A commit assigns its number to a set of keys (a deletion is an          *)
(* assignment too, and clearAll one of all keys), so that a store tells    *)
(* for each key which commit it reflects.  The writer's mutex admits one   *)
(* commit at a time.  The process may crash between any two steps; a line  *)
(* is then in the file or not (a line torn by a loss of power is not       *)
(* modelled).  Files change by appending a line, by a rename or by a       *)
(* deletion; compression of rotated segments does not change what is read  *)
(* from them and is left out.                                              *)
(***************************************************************************)
EXTENDS Naturals, Sequences, FiniteSets

CONSTANTS Keys,
          Readers,         \* the callers of get, keys, values and contexts
          Setups,          \* what may happen while the storage is open
          MaxLines,        \* lines of a segment: maxSegmentSize, MAX_SEGMENT_LINES
          MaxCommits, MaxSessions,
          Undefined

\* A setup names the callers that read, and says whether commits may overlap with a load
\* (they do not if the application awaits its first read before it writes), whether the
\* intervals of the two background workers elapse and whether saving a snapshot may fail.
ASSUME SetupsAssumption ==
    /\ Setups \subseteq [readers : SUBSET Readers, overlap : BOOLEAN, snapshots : BOOLEAN,
                         cleans : BOOLEAN, fails : BOOLEAN]
    /\ MaxLines \in Nat \ {0} /\ MaxCommits \in Nat /\ MaxSessions \in Nat
    /\ "worker" \notin Readers

VARIABLES setup, sessions, phase,     \* phase: of the driver
          log,                        \* wal/: the lines of each segment file
          snapshot, head,             \* the two snapshot files
          writer,                     \* WalWriter: segment and offset, if it has a handle
          writing,                    \* the commit whose line is written
          cache, cacheLoading, pendingOps, lastCommitId, lastSnapshotCommitId,
          load,                       \* calls of #loadCache under way
          saving,                     \* the snapshot being saved
          doomed,                     \* WalCleaner: toDelete
          written, acked              \* history: per key the last commit logged, and told

disk == <<log, snapshot, head>>
memory == <<writer, writing, cache, cacheLoading, pendingOps, lastCommitId,
            lastSnapshotCommitId, load, saving, doomed>>
history == <<written, acked>>
vars == <<setup, sessions, phase, disk, memory, history>>

Processes == Readers \cup {"worker"}
Stores == [Keys -> 0 .. MaxCommits]
EmptyStore == [k \in Keys |-> 0]
Ids == [segment : Nat \ {0}, offset : Nat]
Commits == [keys : SUBSET Keys, number : 1 .. MaxCommits]
Snapshots == [id : Ids, data : Stores]
Idle == [at |-> "idle"]

\* What is undefined is none of the values it stands beside.
ASSUME UndefinedAssumption ==
    /\ Undefined \notin Ids /\ Undefined \notin Stores /\ Undefined \notin Snapshots
    /\ Undefined \notin [id : Ids, commit : Commits] /\ Undefined \notin Seq(Commits)
    /\ Undefined \notin Processes

\* The number of commits so far.
Number == CHOOSE n \in 0 .. MaxCommits :
              /\ \E k \in Keys : written[k] = n
              /\ \A k \in Keys : written[k] <= n

-----------------------------------------------------------------------------
(* Commit ids, replay and recovery *)

\* compareCommitIds
After(id, other) == \/ other = Undefined
                    \/ id.segment > other.segment
                    \/ id.segment = other.segment /\ id.offset > other.offset

\* applyCommit
ApplyCommit(store, commit) ==
    [k \in Keys |-> IF k \in commit.keys THEN commit.number ELSE store[k]]

\* WalReader.read: the ids of the lines after a commit, in segments of the given kind.
Lines(after, segments) ==
    {id \in [segment : segments, offset : 0 .. MaxLines - 1] :
        id.offset < Len(log[id.segment]) /\ After(id, after)}

Line(id) == log[id.segment][id.offset + 1]

\* The last line of a set of lines, or the id read before them.
LastOf(ids, before) ==
    IF ids = {} THEN before ELSE CHOOSE id \in ids : \A other \in ids : ~After(other, id)

\* The loop over the lines: the last line that assigns a key decides.
Replay(store, ids) ==
    [k \in Keys |->
        LET touching == {id \in ids : k \in Line(id).keys} IN
        IF touching = {} THEN store[k] ELSE Line(LastOf(touching, Undefined)).number]

\* Slip: the commits that arrived during the load are dropped.
ApplyNone(store, commits) == store

\* The same for commits in a sequence.
ApplyAll(store, commits) ==
    [k \in Keys |->
        LET touching == {i \in DOMAIN commits : k \in commits[i].keys} IN
        IF touching = {} THEN store[k]
        ELSE commits[CHOOSE i \in touching : \A j \in touching : j <= i].number]

\* WalSnapshot.load, with what its callers start from if there is no file.
Loaded(file) == IF file = Undefined THEN [id |-> Undefined, data |-> EmptyStore] ELSE file

\* What #doLoadCache makes of a snapshot file and the log after it, with no commit meanwhile.
Restored(file) == Replay(Loaded(file).data, Lines(Loaded(file).id, DOMAIN log))

-----------------------------------------------------------------------------
(* Commits *)

\* Slip: a reopened segment is taken to be empty.
OpenSegmentUncounted ==
    [segment |-> IF DOMAIN log = {} THEN 1
                 ELSE CHOOSE s \in DOMAIN log : \A other \in DOMAIN log : other <= s,
     offset |-> 0]

\* #openSegment: the writer appends to the last segment if it has room.
OpenSegment ==
    IF DOMAIN log = {} THEN [segment |-> 1, offset |-> 0]
    ELSE LET last == CHOOSE s \in DOMAIN log : \A other \in DOMAIN log : other <= s IN
         IF Len(log[last]) < MaxLines
         THEN [segment |-> last, offset |-> Len(log[last])]
         ELSE [segment |-> last + 1, offset |-> 0]

\* Slip: one line too many fits.
RotatedLate(position) ==
    IF position.offset > MaxLines
    THEN [segment |-> position.segment + 1, offset |-> 0]
    ELSE position

\* #rotate, when the current segment is full.
Rotated(position) ==
    IF position.offset >= MaxLines
    THEN [segment |-> position.segment + 1, offset |-> 0]
    ELSE position

\* WalWriter.write up to the fsync.
Write(keys) ==
    /\ phase = "open"
    /\ writing = Undefined
    /\ setup.overlap \/ \A p \in Processes : load[p] = Idle
    /\ Number < MaxCommits
    /\ LET id == Rotated(IF writer = Undefined THEN OpenSegment ELSE writer)
           commit == [keys |-> keys, number |-> Number + 1] IN
       /\ writer' = id
       /\ writing' = [id |-> id, commit |-> commit]
       /\ log' = [s \in DOMAIN log \cup {id.segment} |->
                    IF s # id.segment THEN log[s]
                    ELSE Append(IF s \in DOMAIN log THEN log[s] ELSE <<>>, commit)]
       /\ written' = ApplyCommit(written, commit)
    /\ UNCHANGED <<setup, sessions, phase, snapshot, head, cache, cacheLoading, pendingOps,
                   lastCommitId, lastSnapshotCommitId, load, saving, doomed, acked>>

\* The rest of write, and the callback of begin().
OnCommit ==
    /\ writing # Undefined
    /\ writer' = [writer EXCEPT !.offset = @ + 1]
    /\ lastCommitId' = writing.id
    /\ cache' = IF cache = Undefined THEN Undefined ELSE ApplyCommit(cache, writing.commit)
    /\ pendingOps' =
          IF cache = Undefined /\ (cacheLoading # Undefined \/ pendingOps # Undefined)
          THEN Append(IF pendingOps = Undefined THEN <<>> ELSE pendingOps, writing.commit)
          ELSE pendingOps
    /\ cacheLoading' = Undefined
    /\ acked' = ApplyCommit(acked, writing.commit)
    /\ writing' = Undefined
    /\ UNCHANGED <<setup, sessions, phase, disk, lastSnapshotCommitId, load, saving, doomed,
                   written>>

-----------------------------------------------------------------------------
(* Loading the cache *)

\* #loadCache with no cache: join the load under way or begin one.
StartLoad(p) ==
    /\ load[p] = Idle
    /\ setup.overlap \/ writing = Undefined
    /\ cache = Undefined
    /\ \/ /\ cacheLoading # Undefined
          /\ load' = [load EXCEPT ![p] = [at |-> "join", of |-> cacheLoading]]
          /\ UNCHANGED cacheLoading
       \/ /\ cacheLoading = Undefined
          /\ load' = [load EXCEPT ![p] = [at |-> "snapshot"]]
          /\ cacheLoading' = p
    /\ UNCHANGED <<setup, sessions, phase, disk, writer, writing, cache, pendingOps,
                   lastCommitId, lastSnapshotCommitId, saving, doomed, history>>

\* A read; once there is a cache it changes nothing.
Get(r) ==
    /\ phase = "open"
    /\ r \in setup.readers
    /\ StartLoad(r)

\* #doLoadCache: the snapshot is read.
LoadSnapshot(p) ==
    /\ load[p].at = "snapshot"
    /\ load' = [load EXCEPT ![p] =
          [at |-> "log", store |-> Loaded(snapshot).data, last |-> Loaded(snapshot).id]]
    /\ lastSnapshotCommitId' =
          IF snapshot = Undefined THEN lastSnapshotCommitId ELSE snapshot.id
    /\ UNCHANGED <<setup, sessions, phase, disk, writer, writing, cache, cacheLoading,
                   pendingOps, lastCommitId, saving, doomed, history>>

\* #doLoadCache: the segments are read.
ReadLog(p) ==
    /\ load[p].at = "log"
    /\ LET ids == Lines(load[p].last, DOMAIN log) IN
       load' = [load EXCEPT ![p] =
          [at |-> "lines", store |-> Replay(load[p].store, ids),
           last |-> LastOf(ids, load[p].last)]]
    /\ UNCHANGED <<setup, sessions, phase, disk, writer, writing, cache, cacheLoading,
                   pendingOps, lastCommitId, lastSnapshotCommitId, saving, doomed, history>>

\* #doLoadCache: the loop over what was read sets #lastCommitId, with no regard to commits
\* that came meanwhile.  Nobody reads the values that the loop's earlier lines give it: a
\* snapshot is taken from a cache only, and there is none while one is loaded.
ApplyLines(p) ==
    /\ load[p].at = "lines"
    /\ load' = [load EXCEPT ![p] =
          [at |-> "finish", store |-> load[p].store, last |-> load[p].last]]
    /\ lastCommitId' = IF load[p].last = Undefined THEN lastCommitId ELSE load[p].last
    /\ UNCHANGED <<setup, sessions, phase, disk, writer, writing, cache, cacheLoading,
                   pendingOps, lastSnapshotCommitId, saving, doomed, history>>

\* The end of #doLoadCache and #loadCache.  Those that joined resume, and a snapshot
\* worker among them takes its snapshot.
FinishLoad(p) ==
    /\ load[p].at = "finish"
    /\ LET store == ApplyAll(load[p].store,
                             IF pendingOps = Undefined THEN <<>> ELSE pendingOps)
           done == {q \in Processes : q = p \/ load[q] = [at |-> "join", of |-> p]} IN
       /\ cache' = store
       /\ load' = [q \in Processes |-> IF q \in done THEN Idle ELSE load[q]]
       /\ saving' = IF "worker" \in done
                    THEN [id |-> lastCommitId, data |-> store] ELSE saving
    /\ pendingOps' = Undefined
    /\ cacheLoading' = Undefined
    /\ UNCHANGED <<setup, sessions, phase, disk, writer, writing, lastCommitId,
                   lastSnapshotCommitId, doomed, history>>

-----------------------------------------------------------------------------
(* Snapshots and cleaning *)

\* #runSnapshot up to the save, by the worker or by close().
RunSnapshot ==
    /\ phase = "closing" \/ (phase = "open" /\ setup.snapshots)
    /\ saving = Undefined
    /\ load["worker"] = Idle
    /\ lastCommitId # Undefined
    /\ \/ StartLoad("worker")
       \/ /\ cache # Undefined
          /\ saving' = [id |-> lastCommitId, data |-> cache]
          /\ UNCHANGED <<setup, sessions, phase, disk, writer, writing, cache, cacheLoading,
                         pendingOps, lastCommitId, lastSnapshotCommitId, load, doomed,
                         history>>

\* After the final snapshot close() cleans, whether or not it was saved.
AfterSnapshot == phase' = IF phase = "closing" THEN "cleaning" ELSE phase

\* WalSnapshot.save renames its file, and #runSnapshot returns.
SaveSnapshot ==
    /\ saving # Undefined
    /\ snapshot' = saving
    /\ lastSnapshotCommitId' = lastCommitId
    /\ saving' = Undefined
    /\ AfterSnapshot
    /\ UNCHANGED <<setup, sessions, log, head, writer, writing, cache, cacheLoading,
                   pendingOps, lastCommitId, load, doomed, history>>

\* #runSnapshot catches the error of save.
SaveFails ==
    /\ setup.fails
    /\ saving # Undefined
    /\ saving' = Undefined
    /\ AfterSnapshot
    /\ UNCHANGED <<setup, sessions, disk, writer, writing, cache, cacheLoading, pendingOps,
                   lastCommitId, lastSnapshotCommitId, load, doomed, history>>

\* Slip: the segment of the snapshot goes too.
RemovableInclusive ==
    IF lastSnapshotCommitId = Undefined THEN {}
    ELSE {s \in DOMAIN log : s <= lastSnapshotCommitId.segment}

\* WalCleaner.run: the segments before the one of the snapshot.
Removable ==
    IF lastSnapshotCommitId = Undefined THEN {}
    ELSE {s \in DOMAIN log : s < lastSnapshotCommitId.segment}

\* Slip: the previous head is forgotten.
BuildHeadSnapshotFromLog ==
    LET ids == Lines(Undefined, Removable) IN
    [id |-> LastOf(ids, Undefined), data |-> Replay(EmptyStore, ids)]

\* #buildHeadSnapshot: the previous head with the commits of the segments to delete.
BuildHeadSnapshot ==
    LET base == Loaded(head)
        ids == Lines(base.id, Removable)
        last == LastOf(ids, base.id) IN
    IF last = Undefined THEN head ELSE [id |-> last, data |-> Replay(base.data, ids)]

\* #runClean and WalCleaner.run up to the first deletion, by the worker or by close().
RunClean ==
    /\ \/ phase = "open" /\ setup.cleans /\ UNCHANGED phase
       \/ phase = "cleaning" /\ phase' = "ending"
    /\ doomed = {}
    /\ Removable # {}
    /\ doomed' = Removable
    /\ head' = BuildHeadSnapshot
    /\ UNCHANGED <<setup, sessions, log, snapshot, writer, writing, cache, cacheLoading,
                   pendingOps, lastCommitId, lastSnapshotCommitId, load, saving, history>>

\* The loop of WalCleaner.run: the oldest segment goes first.
DeleteSegment ==
    /\ doomed # {}
    /\ LET oldest == CHOOSE s \in doomed : \A other \in doomed : s <= other IN
       /\ log' = [s \in DOMAIN log \ {oldest} |-> log[s]]
       /\ doomed' = doomed \ {oldest}
    /\ UNCHANGED <<setup, sessions, phase, snapshot, head, writer, writing, cache,
                   cacheLoading, pendingOps, lastCommitId, lastSnapshotCommitId, load, saving,
                   history>>

-----------------------------------------------------------------------------
(* Sessions *)

Fresh ==
    /\ writer' = Undefined /\ writing' = Undefined
    /\ cache' = Undefined /\ cacheLoading' = Undefined /\ pendingOps' = Undefined
    /\ lastCommitId' = Undefined /\ lastSnapshotCommitId' = Undefined
    /\ load' = [p \in Processes |-> Idle]
    /\ saving' = Undefined
    /\ doomed' = {}

\* initialize(); nothing is read before the first operation needs it.
Initialize ==
    /\ phase = "down"
    /\ sessions < MaxSessions
    /\ phase' = "open"
    /\ sessions' = sessions + 1
    /\ Fresh
    /\ UNCHANGED <<setup, disk, history>>

\* close() after the workers have ended.  Its caller has no operation under way.
BeginClose ==
    /\ phase = "open"
    /\ writing = Undefined /\ saving = Undefined /\ doomed = {}
    /\ \A p \in Processes : load[p] = Idle
    /\ phase' = IF lastCommitId = Undefined THEN "ending" ELSE "closing"
    /\ UNCHANGED <<setup, sessions, disk, memory, history>>

\* The end of close(), the final cleaning done or not needed.
EndClose ==
    /\ \/ phase = "ending" /\ doomed = {}
       \/ phase = "cleaning" /\ Removable = {}
    /\ phase' = "down"
    /\ Fresh
    /\ UNCHANGED <<setup, sessions, disk, history>>

\* The process dies.  A commit whose line is in the file has happened.
Crash ==
    /\ phase # "down"
    /\ phase' = "down"
    /\ Fresh
    /\ acked' = written
    /\ UNCHANGED <<setup, sessions, disk, written>>

Init ==
    /\ setup \in Setups
    /\ sessions = 0
    /\ phase = "down"
    /\ log = <<>>
    /\ snapshot = Undefined /\ head = Undefined
    /\ writer = Undefined /\ writing = Undefined
    /\ cache = Undefined /\ cacheLoading = Undefined /\ pendingOps = Undefined
    /\ lastCommitId = Undefined /\ lastSnapshotCommitId = Undefined
    /\ load = [p \in Processes |-> Idle]
    /\ saving = Undefined
    /\ doomed = {}
    /\ written = EmptyStore /\ acked = EmptyStore

Next ==
    \/ \E keys \in (SUBSET Keys) \ {{}} : Write(keys)
    \/ OnCommit
    \/ \E r \in Readers : Get(r)
    \/ \E p \in Processes : LoadSnapshot(p) \/ ReadLog(p) \/ ApplyLines(p) \/ FinishLoad(p)
    \/ RunSnapshot \/ SaveSnapshot \/ SaveFails
    \/ RunClean \/ DeleteSegment
    \/ Initialize \/ BeginClose \/ EndClose \/ Crash

Spec == Init /\ [][Next]_vars

-----------------------------------------------------------------------------
(* Properties *)

\* Type correctness; a snapshot is saved only by a session that knows a commit.
TypeOK ==
    /\ setup \in Setups
    /\ sessions \in 0 .. MaxSessions
    /\ phase \in {"down", "open", "closing", "cleaning", "ending"}
    /\ DOMAIN log \subseteq Nat \ {0}
    /\ \A s \in DOMAIN log : log[s] \in Seq(Commits) /\ Len(log[s]) <= MaxLines
    /\ snapshot \in Snapshots \cup {Undefined}
    /\ head \in Snapshots \cup {Undefined}
    /\ saving \in Snapshots \cup {Undefined}
    /\ writer \in Ids \cup {Undefined}
    /\ writing \in [id : Ids, commit : Commits] \cup {Undefined}
    /\ cache \in Stores \cup {Undefined}
    /\ cacheLoading \in Processes \cup {Undefined}
    /\ pendingOps \in Seq(Commits) \cup {Undefined}
    /\ lastCommitId \in Ids \cup {Undefined}
    /\ lastSnapshotCommitId \in Ids \cup {Undefined}
    /\ DOMAIN load = Processes
    /\ doomed \subseteq DOMAIN log
    /\ written \in Stores /\ acked \in Stores

\* Restoring loses no acknowledged commit and invents none.
Complete(store) == \A k \in Keys : store[k] \in acked[k] .. written[k]

\* Whenever the process dies, the snapshot on disk and the log that is left restore every
\* acknowledged commit: rotation, snapshots, cleaning and restarts lose none, replay none
\* in the wrong order and skip none because its id is not after the snapshot's.
Durable == Complete(Restored(snapshot))

\* With no commit under way, a cache holds exactly the commits that were acknowledged,
\* those that arrived while it was loaded included ("Writes update the cache
\* incrementally", WalStorageDriver.ts:37).
CacheIsCurrent == cache # Undefined /\ writing = Undefined => cache = acked

\* The head snapshot and the segments that remain are a complete history, also when an
\* earlier cleaning was cut short between the head snapshot and the deletions.
HeadCompletesLog == head # Undefined => Complete(Restored(head))

\* A snapshot never replaces a newer one, although #doLoadCache may set #lastCommitId back
\* to a commit before the ones that arrived during the load.
SnapshotAdvances ==
    [][snapshot # Undefined /\ snapshot' # snapshot => ~After(snapshot.id, snapshot'.id)]_vars
=============================================================================
