----------------------------- MODULE LogRotation -----------------------------
(***************************************************************************)
(* The rolling logger of lumberjack/logger.go: Write appends to the log    *)
(* file or first moves it aside as a backup; a goroutine, the mill, removes *)
(* and compresses backups behind the writers' back; the process may die    *)
(* anywhere and find the directory again as it left it.                    *)
(*                                                                         *)
(* Write holds the logger's mutex from its first line to its last, so one  *)
(* writer stands for all of them.  The mill does not take the mutex: every *)
(* call it makes to the file system is an action.                          *)
(***************************************************************************)
EXTENDS Integers, FiniteSets

CONSTANTS
    MaxSize,     \* the logger's MaxSize, in bytes
    MaxBackups,  \* the logger's MaxBackups; 0 keeps any number
    MaxAge,      \* the logger's MaxAge in ticks of the clock; 0 keeps any age
    Compress,    \* the logger's Compress
    Lengths,     \* the lengths of the records that are written
    Faults,      \* what may go wrong: a subset of FaultKinds
    MaxTime,     \* bound: ticks of the clock
    MaxRecords,  \* bound: records written
    Absent,      \* there is no such file
    Partial      \* a compressed file that is not complete

FaultKinds == {"crash",      \* the process dies and is started again
               "open",       \* the log file cannot be opened
               "stat",       \* the log file is there but cannot be examined
               "rename",     \* the log file cannot be moved aside
               "create",     \* no new log file can be created
               "short",      \* a record is only written in part
               "mill",       \* the mill fails to list, remove or compress
               "collision"}  \* two rotations fall into one millisecond

Times == 0 .. MaxTime

\* A file: the numbers of the records in it, and its size.
File == [recs : SUBSET (1 .. MaxRecords), bytes : Nat]
EmptyFile == [recs |-> {}, bytes |-> 0]

ASSUME LogAssumption ==
    /\ MaxSize \in Nat
    /\ MaxBackups \in Nat
    /\ MaxAge \in Nat
    /\ Compress \in BOOLEAN
    /\ Lengths \subseteq Nat
    /\ MaxTime \in Nat
    /\ MaxRecords \in Nat
    /\ Absent # Partial
    /\ Absent \notin File
    /\ Partial \notin File

VARIABLES
    now,        \* the clock, in milliseconds
    written,    \* the number of records appended so far
    current,    \* the file called Filename
    backup,     \* the backup with a given time in its name
    gz,         \* its compressed form
    \* the writer
    wpc,        \* where Write is
    pending,    \* the length of the record being written
    rotating,   \* openNew was called by rotate
    fileOpen,   \* Logger.file is not nil
    size,       \* Logger.size
    \* the mill
    millCh,     \* Logger.millCh, of capacity one
    mill,       \* where millRun is
    toRemove,   \* millRunOnce's remove
    toCompress, \* millRunOnce's compress
    millErr     \* millRunOnce's err, of its last run

fileVars == <<current, backup, gz>>
writerVars == <<wpc, pending, rotating, fileOpen, size>>
millVars == <<mill, toRemove, toCompress, millErr>>
vars == <<now, written, fileVars, writerVars, millCh, millVars>>

\* Files of the mill: a time and whether the name ends in compressSuffix.
Name == [time : Times, gz : BOOLEAN]

\* compressLogFile is at work on the newest file that is left to compress.
Compressing(t) == t \in toCompress /\ \A u \in toCompress : u <= t

TypeOK ==
    /\ now \in Times
    /\ written \in 0 .. MaxRecords
    /\ current \in File \cup {Absent}
    /\ backup \in [Times -> File \cup {Absent}]
    /\ gz \in [Times -> File \cup {Absent, Partial}]
    /\ wpc \in {"idle", "open", "rename", "create", "truncate", "append"}
    /\ pending \in Nat
    /\ rotating \in BOOLEAN
    /\ fileOpen \in BOOLEAN
    /\ size \in Nat
    /\ millCh \in {"none", "empty", "token"}
    /\ mill \in {"idle", "list", "work", "copy", "unlink"}
    /\ toRemove \subseteq Name
    /\ toCompress \subseteq Times
    /\ millErr \in BOOLEAN
    \* an open file exists, and what the mill means to compress is there
    /\ fileOpen => current # Absent
    /\ wpc = "append" => fileOpen
    /\ \A t \in toCompress : backup[t] # Absent
    /\ mill \in {"copy", "unlink"} => toCompress # {}

\* The server has created its log file before it hands it to the logger.
Init ==
    /\ now = 0
    /\ written = 0
    /\ current = EmptyFile
    /\ backup = [t \in Times |-> Absent]
    /\ gz = [t \in Times |-> Absent]
    /\ wpc = "idle"
    /\ pending = 0
    /\ rotating = FALSE
    /\ fileOpen = FALSE
    /\ size = 0
    /\ millCh = "none"
    /\ mill = "idle"
    /\ toRemove = {}
    /\ toCompress = {}
    /\ millErr = FALSE

-----------------------------------------------------------------------------
(* Write.  (Rotate and Close are for programs that call them: this one does *)
(* not.)                                                                    *)

\* Write returns; its variables are gone.
Return == /\ wpc' = "idle"
          /\ pending' = 0
          /\ rotating' = FALSE

\* Mutated BeginWrite: the length of the record is not counted.
BeginWrite_IgnoresLength(len) ==
    /\ wpc = "idle"
    /\ written < MaxRecords
    /\ len <= MaxSize
    /\ pending' = len
    /\ rotating' = (fileOpen /\ size > MaxSize)
    /\ fileOpen' = (fileOpen /\ ~rotating')
    /\ wpc' = IF ~fileOpen THEN "open" ELSE IF rotating' THEN "rename" ELSE "append"
    /\ UNCHANGED <<now, written, fileVars, size, millCh, millVars>>

\* Write starts; a record longer than MaxSize is refused.  A record that does
\* not fit makes it rotate, which closes the file first.
BeginWrite(len) ==
    /\ wpc = "idle"
    /\ written < MaxRecords
    /\ len <= MaxSize
    /\ pending' = len
    /\ rotating' = (fileOpen /\ size + len > MaxSize)
    /\ fileOpen' = (fileOpen /\ ~rotating')
    /\ wpc' = IF ~fileOpen THEN "open" ELSE IF rotating' THEN "rename" ELSE "append"
    /\ UNCHANGED <<now, written, fileVars, size, millCh, millVars>>

\* openExistingOrNew wakes the mill, then opens the file that is there if the
\* record leaves room in it; otherwise it rotates.
OpenExistingOrNew ==
    /\ wpc = "open"
    /\ millCh' = "token"
    /\ \/ /\ current = Absent
          /\ wpc' = "create"
          /\ UNCHANGED <<rotating, fileOpen, size>>
       \/ /\ current # Absent
          /\ current.bytes + pending >= MaxSize
          /\ wpc' = "rename"
          /\ rotating' = TRUE
          /\ UNCHANGED <<fileOpen, size>>
       \/ /\ current # Absent
          /\ current.bytes + pending < MaxSize
          /\ wpc' = "append"
          /\ fileOpen' = TRUE
          /\ size' = current.bytes
          /\ UNCHANGED rotating
    /\ UNCHANGED <<now, written, fileVars, pending, millVars>>

\* The file cannot be examined: Write fails.  Or it cannot be opened: openNew
\* moves it aside, and nobody wakes the mill again.
OpenFails ==
    /\ wpc = "open"
    /\ "open" \in Faults
    /\ current # Absent
    /\ millCh' = "token"
    /\ \/ Return
       \/ /\ current.bytes + pending < MaxSize
          /\ wpc' = "rename"
          /\ UNCHANGED <<pending, rotating>>
    /\ UNCHANGED <<now, written, fileVars, fileOpen, size, millVars>>

\* openNew moves the file aside; the backup's name holds the time in
\* milliseconds, and a file of that name is replaced.
Rename ==
    /\ wpc = "rename"
    /\ \/ current = Absent /\ UNCHANGED <<current, backup>>
       \/ /\ current # Absent
          /\ "collision" \in Faults \/ (backup[now] = Absent /\ gz[now] = Absent)
          /\ backup' = [backup EXCEPT ![now] = current]
          /\ current' = Absent
    /\ wpc' = "create"
    /\ UNCHANGED <<now, written, gz, pending, rotating, fileOpen, size, millCh, millVars>>

\* The file is there but openNew's osStat fails, whatever the reason: like a file
\* that does not exist, it is not moved aside.  The place "truncate" is that of
\* "create", reached so.
StatFails ==
    /\ wpc = "rename"
    /\ "stat" \in Faults
    /\ current # Absent
    /\ wpc' = "truncate"
    /\ UNCHANGED <<now, written, fileVars, pending, rotating, fileOpen, size, millCh, millVars>>

RenameFails ==
    /\ wpc = "rename"
    /\ "rename" \in Faults
    /\ Return
    /\ UNCHANGED <<now, written, fileVars, fileOpen, size, millCh, millVars>>

\* openNew creates the file, or empties the one that is still there; rotate, which
\* called it, wakes the mill.
Create ==
    /\ wpc \in {"create", "truncate"}
    /\ current' = EmptyFile
    /\ fileOpen' = TRUE
    /\ size' = 0
    /\ millCh' = IF rotating THEN "token" ELSE millCh
    /\ wpc' = "append"
    /\ UNCHANGED <<now, written, backup, gz, pending, rotating, millVars>>

\* chown, of a file that has been moved aside, or OpenFile fails; chown may have
\* created the file.  The mill is not woken although there may be one more backup.
CreateFails ==
    /\ wpc \in {"create", "truncate"}
    /\ "create" \in Faults
    /\ current' = current \/ (current = Absent /\ current' = EmptyFile)
    /\ Return
    /\ UNCHANGED <<now, written, backup, gz, fileOpen, size, millCh, millVars>>

\* The record is appended, in part if the file system is full.
AppendRecord ==
    /\ wpc = "append"
    /\ \E n \in IF "short" \in Faults THEN 1 .. pending ELSE {pending} :
         /\ current' = [recs |-> current.recs \cup {written + 1}, bytes |-> current.bytes + n]
         /\ size' = size + n
    /\ written' = written + 1
    /\ Return
    /\ UNCHANGED <<now, backup, gz, fileOpen, millCh, millVars>>

\* Nothing of the record can be written.
AppendFails ==
    /\ wpc = "append"
    /\ "short" \in Faults
    /\ Return
    /\ UNCHANGED <<now, written, fileVars, fileOpen, size, millCh, millVars>>

-----------------------------------------------------------------------------
(* The mill.                                                               *)

MillReceives ==
    /\ mill = "idle"
    /\ millCh = "token"
    /\ millCh' = "empty"
    /\ mill' = "list"
    /\ UNCHANGED <<now, written, fileVars, writerVars, toRemove, toCompress, millErr>>

\* oldLogFiles.
OldLogFiles == [time : {t \in Times : backup[t] # Absent}, gz : {FALSE}]
               \cup [time : {t \in Times : gz[t] # Absent}, gz : {TRUE}]

\* The times of backups newer than a time, whatever their form.
NewerThan(t) == {u \in Times : u > t /\ (backup[u] # Absent \/ gz[u] # Absent)}

\* A backup and its compressed form count once towards MaxBackups.
Surplus(t) == MaxBackups > 0 /\ Cardinality(NewerThan(t)) >= MaxBackups
TooOld(t) == MaxAge > 0 /\ t < now - MaxAge
Expired(t) == Surplus(t) \/ TooOld(t)

\* Mutated MillLists: the file that reaches MaxBackups is removed, too.
MillLists_OneFewer ==
    /\ mill = "list"
    /\ LET Drop(t) == MaxBackups > 0 /\ Cardinality(NewerThan(t)) >= MaxBackups - 1
       IN /\ toRemove' = {f \in OldLogFiles : Drop(f.time)}
          /\ toCompress' = {f.time : f \in {g \in OldLogFiles : Compress /\ ~g.gz /\ ~Drop(g.time)}}
    /\ mill' = "work"
    /\ millErr' = FALSE
    /\ UNCHANGED <<now, written, fileVars, writerVars, millCh>>

\* Mutated MillLists: what is to be removed is also to be compressed.
MillLists_CompressesAll ==
    /\ mill = "list"
    /\ toRemove' = {f \in OldLogFiles : Expired(f.time)}
    /\ toCompress' = {f.time : f \in {g \in OldLogFiles : Compress /\ ~g.gz}}
    /\ mill' = "work"
    /\ millErr' = FALSE
    /\ UNCHANGED <<now, written, fileVars, writerVars, millCh>>

\* millRunOnce reads the directory and decides what to remove and to compress.
MillLists ==
    /\ mill = "list"
    /\ toRemove' = {f \in OldLogFiles : Expired(f.time)}
    /\ toCompress' =
         {f.time : f \in {g \in OldLogFiles : Compress /\ ~g.gz /\ ~Expired(g.time)}}
    /\ mill' = "work"
    /\ millErr' = FALSE
    /\ UNCHANGED <<now, written, fileVars, writerVars, millCh>>

MillListFails ==
    /\ mill = "list"
    /\ "mill" \in Faults
    /\ mill' = "idle"
    /\ millErr' = TRUE
    /\ UNCHANGED <<now, written, fileVars, writerVars, millCh, toRemove, toCompress>>

\* The files are removed first.  Their order makes no difference.
MillRemoves ==
    /\ mill = "work"
    /\ \E f \in toRemove :
         /\ toRemove' = toRemove \ {f}
         /\ gz' = IF f.gz THEN [gz EXCEPT ![f.time] = Absent] ELSE gz
         /\ backup' = IF f.gz THEN backup ELSE [backup EXCEPT ![f.time] = Absent]
    /\ UNCHANGED <<now, written, current, writerVars, millCh, mill, toCompress, millErr>>

MillRemoveFails ==
    /\ mill = "work"
    /\ "mill" \in Faults
    /\ \E f \in toRemove : toRemove' = toRemove \ {f}
    /\ millErr' = TRUE
    /\ UNCHANGED <<now, written, fileVars, writerVars, millCh, mill, toCompress>>

\* compressLogFile creates the compressed file, or empties the one that an
\* interrupted run has left.
CompressOpens ==
    /\ mill = "work"
    /\ toRemove = {}
    /\ \E t \in Times : Compressing(t) /\ gz' = [gz EXCEPT ![t] = Partial]
    /\ mill' = "copy"
    /\ UNCHANGED <<now, written, current, backup, writerVars, millCh, toRemove, toCompress, millErr>>

\* All of the backup has been copied, and both files are closed.
CompressCopies ==
    /\ mill = "copy"
    /\ \E t \in Times : Compressing(t) /\ gz' = [gz EXCEPT ![t] = backup[t]]
    /\ mill' = "unlink"
    /\ UNCHANGED <<now, written, current, backup, writerVars, millCh, toRemove, toCompress, millErr>>

\* The backup is removed.
CompressUnlinks ==
    /\ mill = "unlink"
    /\ \E t \in Times : /\ Compressing(t)
                        /\ backup' = [backup EXCEPT ![t] = Absent]
                        /\ toCompress' = toCompress \ {t}
    /\ mill' = "work"
    /\ UNCHANGED <<now, written, current, gz, writerVars, millCh, toRemove, millErr>>

\* The compressed file cannot be opened, which may leave it empty.
CompressOpenFails ==
    /\ mill = "work"
    /\ toRemove = {}
    /\ "mill" \in Faults
    /\ \E t \in Times : /\ Compressing(t)
                        /\ \/ gz' = [gz EXCEPT ![t] = Partial]
                           \/ UNCHANGED gz
                        /\ toCompress' = toCompress \ {t}
    /\ millErr' = TRUE
    /\ UNCHANGED <<now, written, current, backup, writerVars, millCh, mill, toRemove>>

\* Compression fails: the compressed file is removed, the backup stays.
CompressFails ==
    /\ mill \in {"copy", "unlink"}
    /\ "mill" \in Faults
    /\ \E t \in Times : /\ Compressing(t)
                        /\ gz' = [gz EXCEPT ![t] = Absent]
                        /\ toCompress' = toCompress \ {t}
    /\ mill' = "work"
    /\ millErr' = TRUE
    /\ UNCHANGED <<now, written, current, backup, writerVars, millCh, toRemove>>

\* Mutated MillEnds: a token sent during the run is thrown away.
MillEnds_DropsToken ==
    /\ mill = "work"
    /\ toRemove = {} /\ toCompress = {}
    /\ mill' = "idle"
    /\ millCh' = "empty"
    /\ UNCHANGED <<now, written, fileVars, writerVars, toRemove, toCompress, millErr>>

MillEnds ==
    /\ mill = "work"
    /\ toRemove = {}
    /\ toCompress = {}
    /\ mill' = "idle"
    /\ UNCHANGED <<now, written, fileVars, writerVars, millCh, toRemove, toCompress, millErr>>

-----------------------------------------------------------------------------
(* The world.                                                              *)

Tick ==
    /\ now < MaxTime
    /\ now' = now + 1
    /\ UNCHANGED <<written, fileVars, writerVars, millCh, millVars>>

\* The process dies; the new one creates the log file if it is missing.
Restart ==
    /\ "crash" \in Faults
    /\ current' = IF current = Absent THEN EmptyFile ELSE current
    /\ wpc' = "idle"
    /\ pending' = 0
    /\ rotating' = FALSE
    /\ fileOpen' = FALSE
    /\ size' = 0
    /\ millCh' = "none"
    /\ mill' = "idle"
    /\ toRemove' = {}
    /\ toCompress' = {}
    /\ millErr' = FALSE
    /\ UNCHANGED <<now, written, backup, gz>>

WriterStep == \/ \E len \in Lengths : BeginWrite(len)
              \/ OpenExistingOrNew \/ OpenFails
              \/ Rename \/ StatFails \/ RenameFails \/ Create \/ CreateFails
              \/ AppendRecord \/ AppendFails

MillStep == \/ MillReceives \/ MillLists \/ MillListFails
            \/ MillRemoves \/ MillRemoveFails \/ CompressOpens \/ CompressCopies \/ CompressUnlinks
            \/ CompressOpenFails \/ CompressFails
            \/ MillEnds

Next == WriterStep \/ MillStep \/ Tick \/ Restart

Spec == Init /\ [][Next]_vars

-----------------------------------------------------------------------------
(* Safety.                                                                 *)

\* The log file never exceeds MaxSize, across restarts, failures and records
\* written in part, and Logger.size is the size of the file that is open.
SizeLimit ==
    /\ current # Absent => current.bytes <= MaxSize
    /\ fileOpen => size = current.bytes

\* What can be read of a backup: a compressed file counts when it is complete.
Content(t) == IF backup[t] # Absent THEN backup[t]
              ELSE IF gz[t] # Partial THEN gz[t] ELSE Absent

\* The log file grows or becomes a backup, unless it could not be examined when it
\* was to be moved aside: then O_TRUNC empties it.
LogFileKept ==
    current # Absent =>
        \/ current' # Absent /\ current.recs \subseteq current'.recs
        \/ Content(now)' = current
        \/ wpc = "truncate" /\ current' = EmptyFile

\* No step loses a record that the logger was told to keep: the log file only
\* grows or becomes a backup (but for LogFileKept's exception), and a backup can
\* always be read, from the file or from its compressed form, until MaxBackups
\* newer ones exist or it is older than MaxAge.  The mill decides on a listing
\* that rotations and crashes may have made stale.
RetainsNewest ==
    [][ /\ LogFileKept
        /\ \A t \in Times : Content(t) # Absent => Content(t)' = Content(t) \/ Expired(t) ]_vars

\* When openNew creates the log file, and could examine the old one, it has moved
\* it aside, so that O_TRUNC has nothing to empty: what its comment says.
MovedBeforeCreated == wpc = "create" => current = Absent

\* The records that a file or a compressed file holds, and those of a backup.
RecordsOf(f) == IF f \in {Absent, Partial} THEN {} ELSE f.recs
Held(t) == RecordsOf(backup[t]) \cup RecordsOf(gz[t])

Precede(old, new) == \A i \in old, j \in new : i < j

\* The log can be read back in the order in which it was written: the backups
\* by the times in their names, whatever their form, and then the log file.  So
\* no record is in two of the files, although the mill rewrites one of them
\* while the writer moves another one to a name that may be taken.
ReadsInOrder ==
    /\ \A t, u \in Times : t < u => Precede(Held(t), Held(u))
    /\ \A t \in Times : Precede(Held(t), RecordsOf(current))
    /\ RecordsOf(current) \subseteq 1 .. written

\* Backups that exceed MaxBackups while the mill sleeps: the one of a rotation
\* in progress or whose new file could not be created, and another one if the
\* log file could not be opened before.
Slack == IF "open" \in Faults THEN 2 ELSE 1

\* The mill misses no rotation, although millCh holds one token and drops the
\* others: when it sleeps and its last run has succeeded, it has nothing left to
\* remove or to compress, but for the latest backups.
MillCaughtUp ==
    mill = "idle" /\ millCh = "empty" /\ ~millErr =>
        /\ MaxBackups > 0 => Cardinality(NewerThan(-1)) <= MaxBackups + Slack
        /\ Compress => Cardinality({t \in Times : backup[t] # Absent}) <= Slack
=============================================================================
