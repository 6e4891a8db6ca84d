-------------------------- MODULE LogRotationProofs --------------------------
(***************************************************************************)
(* What TLAPS proves of LogRotation, for any limits, any lengths and any   *)
(* faults, two rotations in one millisecond included.                      *)
(***************************************************************************)
EXTENDS LogRotation, TLAPS, FiniteSetTheorems, WellFoundedInduction

-----------------------------------------------------------------------------
(* Types.                                                                  *)

\* TypeOK is not inductive: the file is closed before it is moved aside, records
\* are only started below the bound, and the backups that are to be compressed
\* stay in place because one listing does not remove and compress the same file.
IndType ==
    /\ TypeOK
    /\ wpc \in {"open", "rename", "create", "truncate"} => ~fileOpen
    /\ wpc # "idle" => written < MaxRecords
    /\ \A f \in toRemove : ~f.gz => f.time \notin toCompress

\* The writer's steps only add backups.
LEMMA WriterKeepsType ==
  ASSUME IndType, WriterStep
  PROVE  IndType'
<1> USE LogAssumption
<1>1. ASSUME NEW len \in Lengths, BeginWrite(len) PROVE IndType'
  BY <1>1 DEF IndType, TypeOK, BeginWrite, fileVars, millVars
<1>2. CASE OpenExistingOrNew
  <2>1. ~fileOpen /\ written < MaxRecords
    BY <1>2 DEF IndType, OpenExistingOrNew
  <2>2. UNCHANGED <<now, written, fileVars, pending, millVars>> /\ millCh' = "token"
    BY <1>2 DEF OpenExistingOrNew
  <2>3. CASE wpc' \in {"create", "rename"}
    <3>1. UNCHANGED <<fileOpen, size>> /\ rotating' \in BOOLEAN
      BY <1>2, <2>3 DEF OpenExistingOrNew, IndType, TypeOK
    <3> QED
      BY <2>1, <2>2, <2>3, <3>1 DEF IndType, TypeOK, fileVars, millVars
  <2>4. CASE wpc' = "append"
    <3>1. fileOpen' = TRUE /\ size' = current.bytes /\ UNCHANGED rotating /\ current # Absent
      BY <1>2, <2>4 DEF OpenExistingOrNew
    <3>2. size' \in Nat
      BY <3>1 DEF IndType, TypeOK, File
    <3> QED
      BY <2>1, <2>2, <2>4, <3>1, <3>2 DEF IndType, TypeOK, fileVars, millVars
  <2> QED
    BY <1>2, <2>3, <2>4 DEF OpenExistingOrNew
<1>3. CASE OpenFails
  <2>1. /\ UNCHANGED <<now, written, fileVars, fileOpen, size, millVars>> /\ millCh' = "token"
        /\ ~fileOpen /\ written < MaxRecords
    BY <1>3 DEF OpenFails, IndType
  <2>2. CASE Return
    BY <2>1, <2>2 DEF IndType, TypeOK, Return, fileVars, millVars
  <2>3. CASE wpc' = "rename" /\ UNCHANGED <<pending, rotating>>
    BY <2>1, <2>3 DEF IndType, TypeOK, fileVars, millVars
  <2> QED
    BY <1>3, <2>2, <2>3 DEF OpenFails
<1>4. CASE Rename
  <2>1. /\ current' \in File \cup {Absent}
        /\ backup' \in [Times -> File \cup {Absent}]
        /\ \A t \in Times : backup[t] # Absent => backup'[t] # Absent
    BY <1>4 DEF IndType, TypeOK, Rename
  <2>2. ~fileOpen /\ written < MaxRecords
    BY <1>4 DEF IndType, Rename
  <2>3. /\ wpc' = "create"
        /\ UNCHANGED <<now, written, gz, pending, rotating, fileOpen, size, millCh, millVars>>
    BY <1>4 DEF Rename
  <2> QED
    BY <2>1, <2>2, <2>3 DEF IndType, TypeOK, millVars
<1>5. CASE RenameFails
  BY <1>5 DEF IndType, TypeOK, RenameFails, Return, fileVars, millVars
<1>11. CASE StatFails
  BY <1>11 DEF IndType, TypeOK, StatFails, fileVars, millVars
<1>6. EmptyFile \in File /\ EmptyFile # Absent
  BY DEF EmptyFile, File
<1>7. CASE Create
  BY <1>6, <1>7 DEF IndType, TypeOK, Create, millVars
<1>8. CASE CreateFails
  BY <1>6, <1>8 DEF IndType, TypeOK, CreateFails, Return, millVars
<1>9. CASE AppendRecord
  <2>1. PICK n \in Nat :
           /\ current' = [recs |-> current.recs \cup {written + 1}, bytes |-> current.bytes + n]
           /\ size' = size + n
    <3>1. 1 .. pending \subseteq Nat /\ {pending} \subseteq Nat
      BY DEF IndType, TypeOK
    <3>2. (IF "short" \in Faults THEN 1 .. pending ELSE {pending}) \subseteq Nat
      BY <3>1
    <3> QED
      BY <1>9, <3>2 DEF AppendRecord
  <2>2. current \in File
    BY <1>9 DEF AppendRecord, IndType, TypeOK
  <2>3. written' \in 0 .. MaxRecords /\ written + 1 \in 1 .. MaxRecords
    BY <1>9 DEF AppendRecord, IndType, TypeOK
  <2>4. current' \in File /\ current' # Absent
    BY <2>1, <2>2, <2>3 DEF File
  <2>5. size' \in Nat
    BY <2>1 DEF IndType, TypeOK
  <2>6. /\ wpc' = "idle" /\ pending' = 0 /\ rotating' = FALSE
        /\ UNCHANGED <<now, backup, gz, fileOpen, millCh, millVars>>
    BY <1>9 DEF AppendRecord, Return
  <2> QED
    BY <2>3, <2>4, <2>5, <2>6 DEF IndType, TypeOK, millVars
<1>10. CASE AppendFails
  BY <1>10 DEF IndType, TypeOK, AppendFails, Return, fileVars, millVars
<1> QED
  BY <1>1, <1>2, <1>3, <1>4, <1>5, <1>7, <1>8, <1>9, <1>10, <1>11 DEF WriterStep

LEMMA MillKeepsType ==
  ASSUME IndType, MillStep
  PROVE  IndType'
<1> USE LogAssumption
<1>1. CASE MillReceives
  BY <1>1 DEF IndType, TypeOK, MillReceives, fileVars, writerVars
<1>2. CASE MillLists
  <2>1. OldLogFiles \subseteq Name
    BY DEF OldLogFiles, Name
  <2>2. \A f \in OldLogFiles : ~f.gz => backup[f.time] # Absent
    BY DEF OldLogFiles
  <2>3. /\ toRemove' \subseteq Name /\ toCompress' \subseteq Times
        /\ \A t \in toCompress' : backup[t] # Absent /\ ~Expired(t)
        /\ \A f \in toRemove' : Expired(f.time)
    BY <1>2, <2>1, <2>2 DEF MillLists, Name
  <2> QED
    BY <1>2, <2>3 DEF IndType, TypeOK, MillLists, fileVars, writerVars
<1>3. CASE MillListFails
  BY <1>3 DEF IndType, TypeOK, MillListFails, fileVars, writerVars
<1>4. CASE MillRemoves
  <2>1. PICK f \in toRemove :
              /\ toRemove' = toRemove \ {f}
              /\ gz' = IF f.gz THEN [gz EXCEPT ![f.time] = Absent] ELSE gz
              /\ backup' = IF f.gz THEN backup ELSE [backup EXCEPT ![f.time] = Absent]
    BY <1>4 DEF MillRemoves
  <2>2. UNCHANGED <<now, written, current, writerVars, millCh, mill, toCompress, millErr>>
    BY <1>4 DEF MillRemoves
  <2>3. \A t \in toCompress : backup'[t] # Absent
    BY <2>1 DEF IndType, TypeOK
  <2>4. /\ gz' \in [Times -> File \cup {Absent, Partial}]
        /\ backup' \in [Times -> File \cup {Absent}]
    BY <2>1 DEF IndType, TypeOK
  <2> QED
    BY <2>1, <2>2, <2>3, <2>4 DEF IndType, TypeOK, writerVars
<1>5. CASE MillRemoveFails
  BY <1>5 DEF IndType, TypeOK, MillRemoveFails, fileVars, writerVars
<1>6. CASE CompressOpens
  BY <1>6 DEF IndType, TypeOK, CompressOpens, Compressing, writerVars
<1>7. CASE CompressCopies
  BY <1>7 DEF IndType, TypeOK, CompressCopies, Compressing, writerVars
<1>8. CASE CompressUnlinks
  BY <1>8 DEF IndType, TypeOK, CompressUnlinks, Compressing, writerVars
<1>9. CASE CompressOpenFails
  BY <1>9 DEF IndType, TypeOK, CompressOpenFails, Compressing, writerVars
<1>10. CASE CompressFails
  BY <1>10 DEF IndType, TypeOK, CompressFails, Compressing, writerVars
<1>11. CASE MillEnds
  BY <1>11 DEF IndType, TypeOK, MillEnds, fileVars, writerVars
<1> QED
  BY <1>1, <1>2, <1>3, <1>4, <1>5, <1>6, <1>7, <1>8, <1>9, <1>10, <1>11 DEF MillStep

LEMMA IndTypeCorrect == Spec => []IndType
<1> USE LogAssumption
<1>1. Init => IndType
  <2> SUFFICES ASSUME Init PROVE IndType
    OBVIOUS
  <2>1. EmptyFile \in File /\ 0 \in Times /\ 0 \in 0 .. MaxRecords
    BY DEF EmptyFile, File, Times
  <2>2. /\ [t \in Times |-> Absent] \in [Times -> File \cup {Absent}]
        /\ [t \in Times |-> Absent] \in [Times -> File \cup {Absent, Partial}]
    OBVIOUS
  <2> QED
    BY <2>1, <2>2 DEF Init, IndType, TypeOK
<1>2. IndType /\ [Next]_vars => IndType'
  <2> SUFFICES ASSUME IndType, [Next]_vars PROVE IndType'
    OBVIOUS
  <2>1. CASE Tick
    BY <2>1 DEF IndType, TypeOK, Tick, Times, fileVars, writerVars, millVars
  <2>2. CASE Restart
    BY <2>2 DEF IndType, TypeOK, Restart, File, EmptyFile
  <2>3. CASE UNCHANGED vars
    BY <2>3 DEF IndType, TypeOK, vars, fileVars, writerVars, millVars
  <2> QED
    BY <2>1, <2>2, <2>3, WriterKeepsType, MillKeepsType DEF Next
<1> QED
  BY <1>1, <1>2, PTL DEF Spec

\* Types, and the files that the mill means to compress are there when it does,
\* whatever the writer and a crash have done since it listed them.
THEOREM TypeCorrect == Spec => []TypeOK
<1>1. IndType => TypeOK
  BY DEF IndType
<1> QED
  BY <1>1, IndTypeCorrect, PTL

-----------------------------------------------------------------------------
(* The size of the log file.                                               *)

\* A record that is about to be appended fits, and the file that is open has
\* the size that Write counts with.
IndSize ==
    /\ SizeLimit
    /\ pending <= MaxSize
    /\ wpc = "append" => size + pending <= MaxSize

\* The log file never exceeds MaxSize and Logger.size is exact, whatever fails.
THEOREM SizeLimitCorrect == Spec => []SizeLimit
<1> USE LogAssumption
<1>1. Init => IndSize
  BY DEF Init, IndSize, SizeLimit, EmptyFile
<1>2. IndType /\ IndSize /\ [Next]_vars => IndSize'
  <2> SUFFICES ASSUME IndType, IndSize, [Next]_vars PROVE IndSize'
    OBVIOUS
  <2>1. ASSUME NEW len \in Lengths, BeginWrite(len) PROVE IndSize'
    BY <2>1 DEF IndSize, SizeLimit, IndType, TypeOK, BeginWrite, fileVars
  <2>2. CASE OpenExistingOrNew
    BY <2>2 DEF IndSize, SizeLimit, IndType, TypeOK, OpenExistingOrNew, fileVars, File
  <2>3. CASE OpenFails
    BY <2>3 DEF IndSize, SizeLimit, IndType, TypeOK, OpenFails, Return, fileVars
  <2>4. CASE Rename
    BY <2>4 DEF IndSize, SizeLimit, IndType, TypeOK, Rename
  <2>5. CASE RenameFails \/ StatFails
    BY <2>5 DEF IndSize, SizeLimit, IndType, TypeOK, RenameFails, StatFails, Return, fileVars
  <2>6. CASE Create
    BY <2>6 DEF IndSize, SizeLimit, IndType, TypeOK, Create, EmptyFile
  <2>7. CASE CreateFails
    BY <2>7 DEF IndSize, SizeLimit, IndType, TypeOK, CreateFails, Return, EmptyFile
  <2>8. CASE AppendRecord
    BY <2>8 DEF IndSize, SizeLimit, IndType, TypeOK, AppendRecord, Return, File
  <2>9. CASE AppendFails
    BY <2>9 DEF IndSize, SizeLimit, IndType, TypeOK, AppendFails, Return, fileVars
  <2>10. CASE Restart
    BY <2>10 DEF IndSize, SizeLimit, IndType, TypeOK, Restart, EmptyFile
  <2>11. CASE MillStep \/ Tick \/ UNCHANGED vars
    <3>1. UNCHANGED <<current, writerVars>>
      BY <2>11 DEF MillStep, MillReceives, MillLists, MillListFails, MillRemoves,
         MillRemoveFails, CompressOpens, CompressCopies, CompressUnlinks, CompressOpenFails,
         CompressFails, MillEnds, Tick, vars, fileVars, writerVars
    <3> QED
      BY <3>1 DEF IndSize, SizeLimit, writerVars
  <2> QED
    BY <2>1, <2>2, <2>3, <2>4, <2>5, <2>6, <2>7, <2>8, <2>9, <2>10, <2>11
       DEF Next, WriterStep
<1>3. IndSize => SizeLimit
  BY DEF IndSize
<1> QED
  BY <1>1, <1>2, <1>3, IndTypeCorrect, PTL DEF Spec

-----------------------------------------------------------------------------
(* What the logger keeps.                                                  *)

\* The times of which there is a backup in any form.
Present == {u \in Times : backup[u] # Absent \/ gz[u] # Absent}

LEMMA PresentIsFinite ==
  ASSUME NEW S, S \subseteq Times
  PROVE  /\ IsFiniteSet(S) /\ Cardinality(S) \in Nat
         /\ \A T \in SUBSET S : Cardinality(T) <= Cardinality(S) /\ Cardinality(T) \in Nat
<1>1. IsFiniteSet(Times)
  BY LogAssumption, FS_Interval DEF Times
<1>2. IsFiniteSet(S)
  BY <1>1, FS_Subset
<1>3. Cardinality(S) \in Nat
  BY <1>2, FS_CardinalityType
<1>4. ASSUME NEW T \in SUBSET S PROVE Cardinality(T) <= Cardinality(S) /\ Cardinality(T) \in Nat
  BY <1>2, FS_Subset, FS_CardinalityType
<1> QED
  BY <1>2, <1>3, <1>4

\* A backup that has expired stays so while backups are added, time passes, and
\* one other is removed that has expired as well: what makes the older one
\* surplus are the newest, and they are not.
LEMMA ExpiredStays ==
  ASSUME now \in Times, now' \in Times, now <= now', NEW gone \in Times,
         Present \subseteq Present' \cup {gone},
         gone \in Present' \/ Expired(gone),
         NEW t \in Times, Expired(t)
  PROVE  Expired(t)'
<1> USE LogAssumption
<1>1. /\ now \in Nat /\ now' \in Nat /\ now <= now' /\ t \in Nat /\ gone \in Nat
      /\ MaxAge \in Nat /\ MaxBackups \in Nat
  BY DEF Times
<1>2. /\ \A v : NewerThan(v) = {u \in Present : u > v}
      /\ \A v : NewerThan(v)' = {u \in Present' : u > v}
  BY DEF NewerThan, Present
<1>3. Present \subseteq Times /\ Present' \subseteq Times /\ Times \subseteq Nat
  BY DEF Present, Times
<1>4. TooOld(t) => TooOld(t)'
  <2>1. /\ TooOld(t) <=> MaxAge > 0 /\ t < now - MaxAge
        /\ TooOld(t)' <=> MaxAge > 0 /\ t < now' - MaxAge
    BY DEF TooOld
  <2>2. \A a, b, c, d \in Nat : a < b - d /\ b <= c => a < c - d
    OBVIOUS
  <2>3. t < now - MaxAge => t < now' - MaxAge
    BY <1>1, <2>2, Zenon
  <2> QED
    BY <2>1, <2>3
<1>5. ASSUME NEW v \in Times, NewerThan(v) \subseteq NewerThan(t)', Surplus(v) PROVE Surplus(t)'
  <2>1. NewerThan(t)' \subseteq Times
    BY <1>2, <1>3
  <2> DEFINE S == NewerThan(v)
             T == NewerThan(t)'
  <2>2. Cardinality(S) <= Cardinality(T) /\ Cardinality(S) \in Nat /\ Cardinality(T) \in Nat
    <3> HIDE DEF T, S
    <3>1. T \subseteq Times /\ S \in SUBSET T
      BY <2>1, <1>5 DEF T, S
    <3> QED
      BY <3>1, PresentIsFinite
  <2>3. MaxBackups > 0 /\ Cardinality(S) >= MaxBackups
    BY <1>5 DEF Surplus
  <2> HIDE DEF S
  <2>4. Cardinality(T) >= MaxBackups
    <3> HIDE DEF T
    <3> QED
      BY <1>1, <2>2, <2>3
  <2> QED
    BY <2>3, <2>4 DEF Surplus
<1>6. CASE NewerThan(t) \subseteq NewerThan(t)'
  BY <1>4, <1>5, <1>6 DEF Expired
<1>7. CASE ~(NewerThan(t) \subseteq NewerThan(t)')
  <2>1. gone > t /\ Expired(gone)
    BY <1>2, <1>7
  <2>2. CASE TooOld(gone)
    <3>1. TooOld(t)
      BY <1>1, <2>1, <2>2 DEF TooOld
    <3> QED
      BY <1>4, <3>1 DEF Expired
  <2>3. CASE Surplus(gone)
    <3>1. NewerThan(gone) \subseteq NewerThan(t)'
      <4> SUFFICES ASSUME NEW u \in NewerThan(gone) PROVE u \in NewerThan(t)'
        OBVIOUS
      <4>1. u \in Present /\ u > gone /\ u \in Nat
        BY <1>2, <1>3
      <4>2. u \in Present' /\ u > t
        BY <1>1, <2>1, <4>1
      <4> QED
        BY <1>2, <4>2
    <3> QED
      BY <1>5, <2>3, <3>1 DEF Expired
  <2> QED
    BY <2>1, <2>2, <2>3 DEF Expired
<1> QED
  BY <1>6, <1>7

\* The same while nothing is removed.
LEMMA ExpiredKept ==
  ASSUME now \in Times, now' \in Times, now <= now', Present \subseteq Present',
         NEW t \in Times, Expired(t)
  PROVE  Expired(t)'
BY ExpiredStays

\* What the mill means to remove has expired, no log file is there when one is
\* created, unless it could not be examined, and a backup is only removed when its
\* compressed form is complete.
IndRetain ==
    /\ \A f \in toRemove : Expired(f.time)
    /\ MovedBeforeCreated
    /\ mill \in {"copy", "unlink"} => toRemove = {}
    /\ mill = "unlink" => \A t \in Times : Compressing(t) => gz[t] = backup[t]

\* The step of RetainsNewest.
Retained ==
    /\ LogFileKept
    /\ \A t \in Times : Content(t) # Absent => Content(t)' = Content(t) \/ Expired(t)

\* A backup can be read as before, and has not expired before its time, as long
\* as what there is of it is only replaced by the same.
LEMMA SameContent ==
  ASSUME UNCHANGED <<backup, gz>>
  PROVE  Present' = Present /\ \A t : Content(t)' = Content(t)
BY DEF Content, Present

\* The writer's steps only add a backup.
LEMMA WriterRetains ==
  ASSUME IndType, IndRetain, WriterStep, "collision" \notin Faults
  PROVE  IndRetain' /\ Retained
<1> USE LogAssumption
<1>0. /\ now' = now /\ now \in Times /\ UNCHANGED <<gz, millVars>>
      /\ \A f \in toRemove : f.time \in Times
  BY DEF IndType, TypeOK, Name, WriterStep, BeginWrite, OpenExistingOrNew, OpenFails, Rename,
         StatFails, RenameFails, Create, CreateFails, AppendRecord, AppendFails, fileVars
<1>1. now <= now
  BY <1>0 DEF Times
<1>2. CASE Rename
  <2>1. CASE current = Absent
    <3>1. UNCHANGED <<current, backup, gz>>
      BY <1>0, <1>2, <2>1 DEF Rename
    <3>2. \A f \in toRemove : Expired(f.time)'
      BY <1>0, <1>1, <3>1, SameContent, ExpiredKept DEF IndRetain
    <3> QED
      BY <1>0, <1>2, <2>1, <3>1, <3>2, SameContent
         DEF IndRetain, Rename, Retained, LogFileKept, Compressing, MovedBeforeCreated, millVars
  <2>2. CASE current # Absent
    <3>1. /\ backup[now] = Absent /\ gz[now] = Absent
          /\ backup' = [backup EXCEPT ![now] = current] /\ current' = Absent
      BY <1>2, <2>2 DEF Rename
    <3>2. Present \subseteq Present'
      BY <1>0, <3>1 DEF Present, IndType, TypeOK
    <3>3. \A f \in toRemove : Expired(f.time)'
      BY <1>0, <1>1, <3>2, ExpiredKept DEF IndRetain
    <3>4. Content(now)' = current /\ Content(now) = Absent /\ Absent # Partial
      BY <1>0, <2>2, <3>1 DEF Content, IndType, TypeOK
    <3>5. \A t \in Times : Content(t) # Absent => Content(t)' = Content(t)
      BY <1>0, <3>1, <3>4 DEF Content, IndType, TypeOK
    <3>6. \A t \in toCompress : t # now
      BY <3>1 DEF IndType, TypeOK
    <3>7. \A t \in Times : t # now => backup'[t] = backup[t]
      BY <3>1 DEF IndType, TypeOK
    <3>8. mill' = "unlink" => \A t \in Times : Compressing(t)' => gz'[t] = backup'[t]
      BY <1>0, <3>6, <3>7 DEF IndRetain, Compressing, millVars
    <3> QED
      BY <1>0, <1>2, <3>1, <3>3, <3>4, <3>5, <3>8
         DEF IndRetain, Rename, Retained, LogFileKept, MovedBeforeCreated, millVars
  <2> QED
    BY <2>1, <2>2
<1>3. CASE ~Rename
  <2>1. UNCHANGED <<backup, gz>>
    BY <1>0, <1>3 DEF WriterStep, BeginWrite, OpenExistingOrNew, OpenFails, StatFails,
         RenameFails, Create, CreateFails, AppendRecord, AppendFails, fileVars
  <2>2. \A f \in toRemove : Expired(f.time)'
    BY <1>0, <1>1, <2>1, SameContent, ExpiredKept DEF IndRetain
  <2>3. LogFileKept /\ MovedBeforeCreated'
    <3>1. CASE Create
      <4>1. current = Absent \/ wpc = "truncate"
        BY <3>1 DEF IndRetain, MovedBeforeCreated, Create
      <4>2. wpc' = "append" /\ current' = EmptyFile
        BY <3>1 DEF Create
      <4> QED
        BY <4>1, <4>2 DEF LogFileKept, MovedBeforeCreated
    <3>2. CASE StatFails
      BY <3>2 DEF StatFails, LogFileKept, MovedBeforeCreated, fileVars
    <3>3. CASE ~Create /\ ~StatFails
      BY <1>3, <3>3 DEF WriterStep, BeginWrite, OpenExistingOrNew, OpenFails,
         RenameFails, CreateFails, AppendRecord, AppendFails, fileVars, MovedBeforeCreated,
         LogFileKept, IndRetain, Return, EmptyFile, File, IndType, TypeOK
    <3> QED
      BY <3>1, <3>2, <3>3
  <2> QED
    BY <1>0, <2>1, <2>2, <2>3, SameContent DEF IndRetain, Retained, Compressing, millVars
<1> QED
  BY <1>2, <1>3

\* The mill removes backups that have expired, and replaces backups by complete
\* compressed ones.
LEMMA MillRetains ==
  ASSUME IndType, IndRetain, MillStep
  PROVE  IndRetain' /\ Retained
<1> USE LogAssumption
<1>0. /\ now' = now /\ now \in Times /\ now <= now
      /\ UNCHANGED <<now, written, current, writerVars>>
      /\ \A f \in toRemove : f.time \in Times
  <2>1. UNCHANGED <<now, written, current, writerVars>>
    BY DEF MillStep, MillReceives, MillLists, MillListFails, MillRemoves, MillRemoveFails,
         CompressOpens, CompressCopies, CompressUnlinks, CompressOpenFails, CompressFails, MillEnds, fileVars
  <2>2. now \in Times /\ now <= now /\ \A f \in toRemove : f.time \in Times
    BY DEF IndType, TypeOK, Name, Times
  <2> QED
    BY <2>1, <2>2
<1>1. LogFileKept /\ MovedBeforeCreated'
  BY <1>0 DEF LogFileKept, IndRetain, MovedBeforeCreated, writerVars
<1>2. CASE MillReceives \/ MillListFails \/ MillRemoveFails \/ MillEnds
  <2>1. /\ UNCHANGED <<backup, gz, toCompress>> /\ toRemove' \subseteq toRemove
        /\ mill' \in {"idle", "list", "work"}
    BY <1>2 DEF MillReceives, MillListFails, MillRemoveFails, MillEnds, fileVars
  <2>2. \A f \in toRemove : Expired(f.time)'
    BY <1>0, <2>1, SameContent, ExpiredKept DEF IndRetain
  <2> QED
    BY <1>1, <2>1, <2>2, SameContent DEF IndRetain, Retained
<1>3. CASE MillLists
  <2>1. /\ UNCHANGED <<backup, gz>> /\ mill' = "work"
        /\ \A f \in toRemove' : f \in OldLogFiles /\ Expired(f.time)
    BY <1>3 DEF MillLists, fileVars
  <2>2. \A f \in OldLogFiles : f.time \in Times
    BY DEF OldLogFiles
  <2>3. \A f \in toRemove' : Expired(f.time)'
    BY <1>0, <2>1, <2>2, SameContent, ExpiredKept
  <2> QED
    BY <1>1, <2>1, <2>3, SameContent DEF IndRetain, Retained
<1>4. CASE MillRemoves
  <2>1. PICK f \in toRemove :
              /\ toRemove' = toRemove \ {f}
              /\ gz' = IF f.gz THEN [gz EXCEPT ![f.time] = Absent] ELSE gz
              /\ backup' = IF f.gz THEN backup ELSE [backup EXCEPT ![f.time] = Absent]
    BY <1>4 DEF MillRemoves
  <2>2. f.time \in Times /\ Expired(f.time) /\ mill' = "work"
    BY <1>0, <1>4 DEF IndRetain, MillRemoves
  <2>3. \A t \in Times \ {f.time} : backup'[t] = backup[t] /\ gz'[t] = gz[t]
    BY <2>1 DEF IndType, TypeOK
  <2>4. Present \subseteq Present' \cup {f.time}
    BY <2>3 DEF Present
  <2>5. \A g \in toRemove : Expired(g.time)'
    BY <1>0, <2>2, <2>4, ExpiredStays DEF IndRetain
  <2>6. \A t \in Times \ {f.time} : Content(t)' = Content(t)
    BY <2>3 DEF Content
  <2> QED
    BY <1>1, <2>1, <2>2, <2>5, <2>6 DEF IndRetain, Retained
<1>5. CASE CompressOpens \/ CompressCopies \/ CompressUnlinks \/ CompressOpenFails \/ CompressFails
  <2>1. PICK t \in toCompress : Compressing(t)
           /\ \A u \in Times \ {t} : backup'[u] = backup[u] /\ gz'[u] = gz[u]
    <3>1. PICK t \in Times : /\ Compressing(t)
                             /\ \/ UNCHANGED backup
                                \/ backup' = [backup EXCEPT ![t] = Absent]
                             /\ \/ UNCHANGED gz
                                \/ \E v : gz' = [gz EXCEPT ![t] = v]
      BY <1>5 DEF CompressOpens, CompressCopies, CompressUnlinks, CompressOpenFails, CompressFails
    <3> QED
      BY <3>1 DEF IndType, TypeOK, Compressing
  <2>2. t \in Times /\ backup[t] # Absent /\ backup[t] # Partial
    BY <2>1 DEF IndType, TypeOK
  <2>3. \/ backup'[t] = backup[t]
        \/ backup'[t] = Absent /\ gz'[t] = gz[t] /\ gz[t] = backup[t]
    <3>1. CASE CompressUnlinks
      <4>1. PICK u \in Times : Compressing(u) /\ backup' = [backup EXCEPT ![u] = Absent]
        BY <3>1 DEF CompressUnlinks
      <4>2. u = t
        BY <2>1, <4>1 DEF Compressing, Times
      <4>3. gz' = gz /\ gz[t] = backup[t] /\ backup'[t] = Absent
        BY <2>1, <2>2, <3>1, <4>1, <4>2 DEF CompressUnlinks, IndRetain, IndType, TypeOK
      <4> QED
        BY <4>3
    <3> QED
      BY <1>5, <3>1 DEF CompressOpens, CompressCopies, CompressOpenFails, CompressFails
  <2>4. Present' = Present
    BY <2>1, <2>2, <2>3 DEF Present
  <2>5. \A u \in Times : Content(u)' = Content(u)
    BY <2>1, <2>2, <2>3 DEF Content
  <2>6. toRemove' = toRemove /\ (mill' \in {"copy", "unlink"} => toRemove = {})
    BY <1>5 DEF CompressOpens, CompressCopies, CompressUnlinks, CompressOpenFails, CompressFails,
                IndRetain
  <2>7. \A g \in toRemove : Expired(g.time)'
    BY <1>0, <2>4, ExpiredKept DEF IndRetain
  <2>8. mill' = "unlink" => \A u \in Times : Compressing(u)' => gz'[u] = backup'[u]
    <3> SUFFICES ASSUME mill' = "unlink", NEW u \in Times, Compressing(u)' PROVE gz'[u] = backup'[u]
      OBVIOUS
    <3>1. CompressCopies
      BY <1>5 DEF CompressOpens, CompressUnlinks, CompressOpenFails, CompressFails
    <3>2. PICK v \in Times : Compressing(v) /\ gz' = [gz EXCEPT ![v] = backup[v]]
      BY <3>1 DEF CompressCopies
    <3>3. toCompress' = toCompress /\ backup' = backup
      BY <3>1 DEF CompressCopies
    <3>4. u = v
      BY <3>2, <3>3 DEF Compressing, Times
    <3> QED
      BY <3>2, <3>3, <3>4 DEF IndType, TypeOK
  <2> QED
    BY <1>1, <2>5, <2>6, <2>7, <2>8 DEF IndRetain, Retained
<1> QED
  BY <1>2, <1>3, <1>4, <1>5 DEF MillStep

LEMMA NextRetains ==
  ASSUME IndType, IndRetain, [Next]_vars, "collision" \notin Faults
  PROVE  IndRetain' /\ [Retained]_vars
<1> USE LogAssumption
<1>1. now \in Times /\ \A f \in toRemove : f.time \in Times
  BY DEF IndType, TypeOK, Name
<1>2. CASE Tick
  <2>1. /\ now' \in Times /\ now <= now'
        /\ UNCHANGED <<written, fileVars, writerVars, millCh, millVars>>
    BY <1>1, <1>2 DEF Tick, Times
  <2>2. \A f \in toRemove : Expired(f.time)'
    BY <1>1, <2>1, SameContent, ExpiredKept DEF IndRetain, fileVars
  <2> QED
    BY <2>1, <2>2, SameContent
       DEF IndRetain, Retained, LogFileKept, MovedBeforeCreated, Compressing, fileVars,
           writerVars, millVars
<1>3. CASE Restart
  BY <1>3, SameContent
     DEF IndRetain, Retained, LogFileKept, MovedBeforeCreated, Restart, EmptyFile
<1>4. CASE UNCHANGED vars
  <2>1. \A f \in toRemove : Expired(f.time)'
    BY <1>4 DEF IndRetain, Expired, Surplus, TooOld, NewerThan, vars, fileVars
  <2> QED
    BY <1>4, <2>1
       DEF IndRetain, MovedBeforeCreated, Compressing, vars, fileVars, writerVars, millVars
<1> QED
  BY <1>2, <1>3, <1>4, WriterRetains, MillRetains DEF Next

\* No record that the logger was told to keep is lost, for any schedule of the mill,
\* crashes and failures, as long as no two rotations fall into one millisecond: but
\* for the log file that openNew cannot examine, and that O_TRUNC empties.
THEOREM RetainsNewestCorrect ==
  ASSUME "collision" \notin Faults
  PROVE  Spec => RetainsNewest
<1>1. Init => IndRetain
  BY DEF Init, IndRetain, MovedBeforeCreated
<1>2. IndType /\ IndRetain /\ [Next]_vars => IndRetain' /\ [Retained]_vars
  BY NextRetains
<1>3. Spec => [][Retained]_vars
  BY <1>1, <1>2, IndTypeCorrect, PTL DEF Spec
<1>4. RetainsNewest <=> [][Retained]_vars
  BY PTL DEF RetainsNewest, Retained
<1> QED
  BY <1>3, <1>4, PTL

-----------------------------------------------------------------------------
(* What the mill has left to do.                                           *)

\* The backups that the mill's last listing leaves, and those that it leaves
\* uncompressed, with those that have been added since.
Left == {t \in Times : \/ backup[t] # Absent /\ [time |-> t, gz |-> FALSE] \notin toRemove
                       \/ gz[t] # Absent /\ [time |-> t, gz |-> TRUE] \notin toRemove}
Unpacked == {t \in Times : /\ backup[t] # Absent
                           /\ [time |-> t, gz |-> FALSE] \notin toRemove
                           /\ t \notin toCompress}

\* How many may have been added for which nobody has woken the mill, by the place
\* of the writer: when the log file is closed, it is about to be opened, which
\* wakes the mill, and a rotation wakes it at its end.
Due == CASE wpc = "rename" /\ ~rotating -> 0
         [] wpc = "create" /\ rotating -> Slack
         [] wpc \in {"idle", "open"} /\ ~fileOpen -> Slack
         [] OTHER -> Slack - 1

\* The mill is about to list, or will do so again, or has met an error; otherwise
\* what it leaves is within the limits.
WithinLimits ==
    /\ MaxBackups > 0 => Cardinality(Left) <= MaxBackups + Due
    /\ Compress => Cardinality(Unpacked) <= Due

IndMill ==
    /\ mill = "idle" /\ ~millErr => toRemove = {} /\ toCompress = {}
    /\ wpc = "rename" /\ ~rotating => "open" \in Faults
    /\ millCh = "empty" /\ mill # "list" /\ ~millErr => WithinLimits

LEMMA DueBounds ==
  /\ Due \in 0 .. Slack /\ Slack \in {1, 2}
  /\ "open" \in Faults => Slack = 2
BY DEF Due, Slack

LEMMA LeastTime ==
  ASSUME NEW S \in SUBSET Nat, S # {}
  PROVE  \E m \in S : \A n \in S : m <= n
<1> DEFINE R == OpToRel(<, Nat)
<1>1. IsWellFoundedOn(R, Nat)
  BY NatLessThanWellFounded, Zenon
<1>2. PICK m \in S : \A n \in S : <<n, m>> \notin R
  <2> HIDE DEF R
  <2> QED
    BY <1>1, WFMin, Zenon
<1>3. \A a, b \in Nat : b < a => <<b, a>> \in R
  BY DEF OpToRel
<1> HIDE DEF R
<1>4. ASSUME NEW n \in S PROVE m <= n
  <2>1. m \in Nat /\ n \in Nat /\ <<n, m>> \notin R
    BY <1>2
  <2>2. ~(n < m)
    BY <1>3, <2>1, Zenon
  <2> QED
    BY <2>1, <2>2
<1> QED
  BY <1>4

LEMMA OneMore ==
  ASSUME NEW S, S \subseteq Times, NEW T, NEW x, T \subseteq S \cup {x}
  PROVE  /\ Cardinality(S) \in Nat /\ Cardinality(T) \in Nat
         /\ Cardinality(T) <= Cardinality(S) + 1
         /\ T \subseteq S => Cardinality(T) <= Cardinality(S)
<1>1. /\ IsFiniteSet(S) /\ Cardinality(S) \in Nat
      /\ T \subseteq S => Cardinality(T) <= Cardinality(S)
  BY PresentIsFinite
<1>2. /\ IsFiniteSet(S \cup {x})
      /\ Cardinality(S \cup {x}) = Cardinality(S) \/ Cardinality(S \cup {x}) = Cardinality(S) + 1
  BY <1>1, FS_AddElement
<1>3. Cardinality(T) <= Cardinality(S \cup {x}) /\ IsFiniteSet(T)
  BY <1>2, FS_Subset
<1>4. Cardinality(T) \in Nat
  BY <1>3, FS_CardinalityType
<1> QED
  BY <1>1, <1>2, <1>3, <1>4

\* A step that adds no backup keeps the limits if as much may be due as before,
\* one that adds a backup if one more may be.
LEMMA LimitsKept ==
  ASSUME WithinLimits, NEW x,
         Left' \subseteq Left \cup {x}, Unpacked' \subseteq Unpacked \cup {x},
         \/ Due' >= Due + 1
         \/ Due' >= Due /\ Left' \subseteq Left /\ Unpacked' \subseteq Unpacked
  PROVE  WithinLimits'
<1> USE LogAssumption
<1>1. Left \subseteq Times /\ Unpacked \subseteq Times
  BY DEF Left, Unpacked
<1>2. Due \in Nat
  BY DueBounds
<1>3. Due' \in Nat
  BY DEF Due, Slack
<1>4. /\ Cardinality(Left) \in Nat /\ Cardinality(Left') \in Nat
      /\ Cardinality(Left') <= Cardinality(Left) + 1
      /\ Left' \subseteq Left => Cardinality(Left') <= Cardinality(Left)
  BY <1>1, OneMore
<1>5. /\ Cardinality(Unpacked) \in Nat /\ Cardinality(Unpacked') \in Nat
      /\ Cardinality(Unpacked') <= Cardinality(Unpacked) + 1
      /\ Unpacked' \subseteq Unpacked => Cardinality(Unpacked') <= Cardinality(Unpacked)
  BY <1>1, OneMore
<1>6. MaxBackups > 0 => Cardinality(Left') <= MaxBackups + Due'
  BY <1>2, <1>3, <1>4 DEF WithinLimits
<1>7. Compress => Cardinality(Unpacked') <= Due'
  BY <1>2, <1>3, <1>5 DEF WithinLimits
<1> QED
  BY <1>6, <1>7 DEF WithinLimits

\* The writer adds a backup only in a rotation.
LEMMA WriterKeepsLimits ==
  ASSUME IndType, IndMill, WriterStep
  PROVE  IndMill'
<1> USE LogAssumption
<1>0. UNCHANGED millVars /\ gz' = gz
  BY DEF WriterStep, BeginWrite, OpenExistingOrNew, OpenFails, Rename, StatFails, RenameFails,
         Create, CreateFails, AppendRecord, AppendFails, fileVars
<1>1. mill' = "idle" /\ ~millErr' => toRemove' = {} /\ toCompress' = {}
  BY <1>0 DEF IndMill, millVars
<1>2. wpc' = "rename" /\ ~rotating' => "open" \in Faults
  BY DEF IndMill, WriterStep, BeginWrite, OpenExistingOrNew, OpenFails, Rename, StatFails, RenameFails,
         Create, CreateFails, AppendRecord, AppendFails, Return
<1>3. ASSUME millCh' = "empty", mill' # "list", ~millErr' PROVE WithinLimits'
  <2>1. CASE Rename
    <3>1. /\ WithinLimits /\ wpc = "rename" /\ wpc' = "create" /\ ~fileOpen
          /\ UNCHANGED <<rotating, fileOpen, toRemove, toCompress, gz>>
          /\ \A t \in Times : t # now => backup'[t] = backup[t]
      BY <1>0, <1>3, <2>1 DEF Rename, IndMill, IndType, TypeOK, millVars
    <3>2. Left' \subseteq Left \cup {now} /\ Unpacked' \subseteq Unpacked \cup {now}
      BY <3>1 DEF Left, Unpacked
    <3>3. Due' >= Due + 1
      BY <3>1 DEF Due, Slack, IndMill
    <3> QED
      BY <3>1, <3>2, <3>3, LimitsKept
  <2>2. CASE ~Rename
    <3>1. UNCHANGED <<backup, gz, toRemove, toCompress, mill, millErr>>
      BY <1>0, <2>2 DEF WriterStep, BeginWrite, OpenExistingOrNew, OpenFails, StatFails, RenameFails,
         Create, CreateFails, AppendRecord, AppendFails, fileVars, millVars
    <3>2. Left' = Left /\ Unpacked' = Unpacked
      BY <3>1 DEF Left, Unpacked
    <3>3. millCh = "empty" /\ Due' >= Due
      <4>1. ASSUME NEW len \in Lengths, BeginWrite(len) PROVE millCh = "empty" /\ Due' >= Due
        <5>1. /\ wpc = "idle" /\ millCh' = millCh
              /\ rotating' = (fileOpen /\ size + len > MaxSize)
              /\ fileOpen' = (fileOpen /\ ~rotating')
              /\ wpc' = IF ~fileOpen THEN "open" ELSE IF rotating' THEN "rename" ELSE "append"
          BY <4>1 DEF BeginWrite
        <5>2. CASE fileOpen
          <6>1. wpc' \in {"append", "rename"} /\ (wpc' = "rename" => rotating')
            BY <5>1, <5>2
          <6>2. Due' = Slack - 1 /\ Due = Slack - 1
            BY <5>1, <5>2, <6>1 DEF Due, Slack
          <6> QED
            BY <1>3, <5>1, <6>2 DEF Slack
        <5>3. CASE ~fileOpen
          <6>1. wpc' = "open" /\ ~fileOpen'
            BY <5>1, <5>3
          <6>2. Due' = Slack /\ Due = Slack
            BY <5>1, <5>3, <6>1 DEF Due, Slack
          <6> QED
            BY <1>3, <5>1, <6>2 DEF Slack
        <5> QED
          BY <5>2, <5>3
      <4>2. CASE StatFails \/ RenameFails \/ Create \/ CreateFails \/ AppendRecord \/ AppendFails
        BY <1>3, <4>2 DEF StatFails, RenameFails, Create, CreateFails, AppendRecord, AppendFails, Return,
                          Due, Slack, IndType, TypeOK
      <4>3. CASE OpenExistingOrNew \/ OpenFails
        BY <1>3, <4>3 DEF OpenExistingOrNew, OpenFails
      <4> QED
        BY <2>2, <4>1, <4>2, <4>3 DEF WriterStep
    <3>4. WithinLimits
      BY <1>3, <3>1, <3>3 DEF IndMill
    <3> QED
      BY <3>2, <3>3, <3>4, LimitsKept
  <2> QED
    BY <2>1, <2>2
<1> QED
  BY <1>1, <1>2, <1>3 DEF IndMill

\* A listing leaves no more than MaxBackups: those behind the oldest one are newer.
LEMMA ListingLimits ==
  ASSUME IndType, MillLists
  PROVE  WithinLimits'
<1> USE LogAssumption
<1>1. /\ UNCHANGED <<backup, gz>>
      /\ toRemove' = {f \in OldLogFiles : Expired(f.time)}
      /\ toCompress' =
           {f.time : f \in {g \in OldLogFiles : Compress /\ ~g.gz /\ ~Expired(g.time)}}
  BY DEF MillLists, fileVars
<1>2. \A t \in Times : /\ backup[t] # Absent => [time |-> t, gz |-> FALSE] \in OldLogFiles
                       /\ gz[t] # Absent => [time |-> t, gz |-> TRUE] \in OldLogFiles
  BY DEF OldLogFiles
<1>3. \A t \in Left' : t \in Times /\ t \in Present /\ ~Expired(t)
  BY <1>1, <1>2 DEF Left, Present
<1>4. Compress => Unpacked' = {}
  <2> SUFFICES ASSUME Compress, NEW t \in Unpacked' PROVE FALSE
    OBVIOUS
  <2> DEFINE f == [time |-> t, gz |-> FALSE]
  <2>1. t \in Times /\ backup[t] # Absent /\ f \notin toRemove' /\ t \notin toCompress'
    BY <1>1 DEF Unpacked
  <2>2. f \in OldLogFiles /\ ~f.gz /\ f.time = t
    BY <1>2, <2>1
  <2>3. ~Expired(t)
    BY <1>1, <2>1, <2>2
  <2> QED
    BY <1>1, <2>1, <2>2, <2>3
<1>5. Due' \in Nat
  BY DEF Due, Slack
<1>6. ASSUME MaxBackups > 0 PROVE Cardinality(Left') \in Nat /\ Cardinality(Left') <= MaxBackups
  <2>1. CASE Left' = {}
    BY <2>1, FS_EmptySet
  <2>2. CASE Left' # {}
    <3>1. Left' \in SUBSET Nat
      BY <1>3 DEF Times
    <3>2. PICK m \in Left' : \A n \in Left' : m <= n
      BY <2>2, <3>1, LeastTime
    <3>3. Left' \subseteq NewerThan(m) \cup {m}
      <4> SUFFICES ASSUME NEW n \in Left', n # m PROVE n \in NewerThan(m)
        OBVIOUS
      <4>1. n > m
        BY <3>1, <3>2
      <4> QED
        BY <1>3, <4>1 DEF NewerThan, Present
    <3>4. NewerThan(m) \subseteq Times
      BY DEF NewerThan
    <3>5. /\ Cardinality(NewerThan(m)) \in Nat /\ Cardinality(Left') \in Nat
          /\ Cardinality(Left') <= Cardinality(NewerThan(m)) + 1
      BY <3>3, <3>4, OneMore
    <3>6. ~(Cardinality(NewerThan(m)) >= MaxBackups)
      BY <1>3, <1>6 DEF Expired, Surplus
    <3> QED
      BY <3>5, <3>6
  <2> QED
    BY <2>1, <2>2
<1>7. MaxBackups > 0 => Cardinality(Left') <= MaxBackups + Due'
  BY <1>5, <1>6
<1>8. Compress => Cardinality(Unpacked') <= Due'
  BY <1>4, <1>5, FS_EmptySet
<1> QED
  BY <1>7, <1>8 DEF WithinLimits

\* The mill does what its listing says, or remembers an error.
LEMMA MillKeepsLimits ==
  ASSUME IndType, IndMill, MillStep
  PROVE  IndMill'
<1> USE LogAssumption
<1>0. UNCHANGED <<wpc, rotating, fileOpen>>
  BY DEF MillStep, MillReceives, MillLists, MillListFails, MillRemoves, MillRemoveFails,
         CompressOpens, CompressCopies, CompressUnlinks, CompressOpenFails, CompressFails, MillEnds,
         writerVars
<1>1. Due' = Due /\ Due \in Nat /\ (wpc' = "rename" /\ ~rotating' => "open" \in Faults)
  BY <1>0, DueBounds DEF Due, Slack, IndMill
<1>2. CASE MillReceives
  BY <1>1, <1>2 DEF MillReceives, IndMill
<1>3. CASE MillLists
  BY <1>1, <1>3, ListingLimits DEF MillLists, IndMill
<1>4. CASE MillListFails \/ MillRemoveFails \/ CompressOpenFails \/ CompressFails
  <2>1. millErr' = TRUE
    BY <1>4 DEF MillListFails, MillRemoveFails, CompressOpenFails, CompressFails
  <2> QED
    BY <1>1, <2>1 DEF IndMill
<1>5. CASE MillRemoves \/ CompressOpens \/ CompressCopies \/ CompressUnlinks \/ MillEnds
  <2>1. UNCHANGED <<millCh, millErr>> /\ mill # "list" /\ (mill # "idle" => mill' # "list")
        /\ mill' # "list" /\ (mill' = "idle" => toRemove' = {} /\ toCompress' = {})
    BY <1>5 DEF MillRemoves, CompressOpens, CompressCopies, CompressUnlinks, MillEnds
  <2>2. Left' \subseteq Left /\ Unpacked' \subseteq Unpacked
    <3>1. CASE MillRemoves
      <4>1. PICK f \in toRemove :
                  /\ toRemove' = toRemove \ {f}
                  /\ gz' = IF f.gz THEN [gz EXCEPT ![f.time] = Absent] ELSE gz
                  /\ backup' = IF f.gz THEN backup ELSE [backup EXCEPT ![f.time] = Absent]
                  /\ toCompress' = toCompress
        BY <3>1 DEF MillRemoves
      <4>2. f \in Name /\ f.time \in Times /\ f = [time |-> f.time, gz |-> f.gz] /\ f.gz \in BOOLEAN
        BY DEF IndType, TypeOK, Name
      <4>3. CASE f.gz
        <5>1. /\ backup' = backup /\ \A t \in Times : t # f.time => gz'[t] = gz[t]
              /\ gz'[f.time] = Absent
          BY <4>1, <4>2, <4>3 DEF IndType, TypeOK
        <5>2. \A t \in Times : [time |-> t, gz |-> FALSE] # f
          BY <4>3
        <5>3. \A t \in Times : t # f.time => [time |-> t, gz |-> TRUE] # f
          OBVIOUS
        <5> QED
          BY <4>1, <5>1, <5>2, <5>3 DEF Left, Unpacked
      <4>4. CASE ~f.gz
        <5>1. /\ gz' = gz /\ \A t \in Times : t # f.time => backup'[t] = backup[t]
              /\ backup'[f.time] = Absent
          BY <4>1, <4>2, <4>4 DEF IndType, TypeOK
        <5>2. \A t \in Times : [time |-> t, gz |-> TRUE] # f
          BY <4>4
        <5>3. \A t \in Times : t # f.time => [time |-> t, gz |-> FALSE] # f
          OBVIOUS
        <5> QED
          BY <4>1, <5>1, <5>2, <5>3 DEF Left, Unpacked
      <4> QED
        BY <4>3, <4>4
    <3>2. CASE CompressOpens \/ CompressCopies
      <4>1. PICK t \in toCompress : \A u \in Times \ {t} : gz'[u] = gz[u]
        BY <3>2 DEF CompressOpens, CompressCopies, Compressing, IndType, TypeOK
      <4>2. UNCHANGED <<backup, toRemove, toCompress>>
        BY <3>2 DEF CompressOpens, CompressCopies
      <4>3. t \in Left
        BY DEF Left, IndType, TypeOK
      <4> QED
        BY <4>1, <4>2, <4>3 DEF Left, Unpacked
    <3>3. CASE CompressUnlinks
      <4>1. PICK t \in Times : /\ backup' = [backup EXCEPT ![t] = Absent]
                               /\ toCompress' = toCompress \ {t}
        BY <3>3 DEF CompressUnlinks
      <4>2. UNCHANGED <<gz, toRemove>>
        BY <3>3 DEF CompressUnlinks
      <4>3. backup'[t] = Absent /\ \A u \in Times \ {t} : backup'[u] = backup[u]
        BY <4>1 DEF IndType, TypeOK
      <4> QED
        BY <4>1, <4>2, <4>3 DEF Left, Unpacked
    <3>4. CASE MillEnds
      BY <3>4 DEF MillEnds, fileVars, Left, Unpacked
    <3> QED
      BY <1>5, <3>1, <3>2, <3>3, <3>4
  <2>3. ASSUME WithinLimits PROVE WithinLimits'
    BY <1>1, <2>2, <2>3, LimitsKept
  <2> QED
    BY <1>1, <2>1, <2>3 DEF IndMill
<1> QED
  BY <1>2, <1>3, <1>4, <1>5 DEF MillStep

\* The mill misses no rotation although its channel holds one token: when it sleeps
\* and no error was met, at most MaxBackups backups are left and all of them are
\* compressed, but for those of Slack.
THEOREM MillCaughtUpCorrect == Spec => []MillCaughtUp
<1> USE LogAssumption
<1>1. Init => IndMill
  BY DEF Init, IndMill
<1>2. IndType /\ IndMill /\ [Next]_vars => IndMill'
  <2> SUFFICES ASSUME IndType, IndMill, [Next]_vars PROVE IndMill'
    OBVIOUS
  <2>1. CASE Restart
    BY <2>1 DEF Restart, IndMill
  <2>2. CASE Tick \/ UNCHANGED vars
    <3>1. UNCHANGED <<fileVars, writerVars, millCh, millVars>>
      BY <2>2 DEF Tick, vars
    <3>2. Left' = Left /\ Unpacked' = Unpacked /\ Due' = Due
      BY <3>1 DEF Left, Unpacked, Due, Slack, fileVars, writerVars, millVars
    <3> QED
      BY <3>1, <3>2 DEF IndMill, WithinLimits, writerVars, millVars
  <2> QED
    BY <2>1, <2>2, WriterKeepsLimits, MillKeepsLimits DEF Next
<1>3. ASSUME IndType, IndMill PROVE MillCaughtUp
  <2> SUFFICES ASSUME mill = "idle", millCh = "empty", ~millErr
               PROVE  /\ MaxBackups > 0 => Cardinality(NewerThan(-1)) <= MaxBackups + Slack
                      /\ Compress => Cardinality({t \in Times : backup[t] # Absent}) <= Slack
    BY DEF MillCaughtUp
  <2>1. toRemove = {} /\ toCompress = {} /\ WithinLimits
    BY <1>3 DEF IndMill
  <2>2. NewerThan(-1) = Left
    BY <2>1 DEF NewerThan, Left, Times
  <2>3. {t \in Times : backup[t] # Absent} = Unpacked
    BY <2>1 DEF Unpacked
  <2>4. Due \in 0 .. Slack /\ Slack \in {1, 2}
    BY DueBounds
  <2>5. Cardinality(Left) \in Nat /\ Cardinality(Unpacked) \in Nat
    <3>1. Left \subseteq Times /\ Unpacked \subseteq Times
      BY DEF Left, Unpacked
    <3> QED
      BY <3>1, PresentIsFinite
  <2>6. /\ MaxBackups > 0 => Cardinality(Left) <= MaxBackups + Slack
        /\ Compress => Cardinality(Unpacked) <= Slack
    BY <2>1, <2>4, <2>5, SMTT(30) DEF WithinLimits
  <2> QED
    BY <2>2, <2>3, <2>6, Zenon
<1> QED
  BY <1>1, <1>2, <1>3, IndTypeCorrect, PTL DEF Spec

-----------------------------------------------------------------------------
(* The order of the records.                                               *)

\* A backup is written before the log file and not after now: a rotation names
\* the newest one.
IndOrder ==
    /\ ReadsInOrder
    /\ \A t \in Times : Held(t) \subseteq 1 .. written
    /\ \A t \in Times : t > now => Held(t) = {}

LEMMA RecordsAreNumbers ==
  ASSUME IndType
  PROVE  /\ \A t \in Times : Held(t) \subseteq Int
         /\ RecordsOf(current) \subseteq Int
<1> USE LogAssumption DEF File, RecordsOf
<1>1. \A f \in File \cup {Absent, Partial} : RecordsOf(f) \subseteq Int
  OBVIOUS
<1>2. \A t \in Times : Held(t) = RecordsOf(backup[t]) \cup RecordsOf(gz[t])
  BY DEF Held
<1>3. /\ current \in File \cup {Absent}
      /\ backup \in [Times -> File \cup {Absent}]
      /\ gz \in [Times -> File \cup {Absent, Partial}]
  BY DEF IndType, TypeOK
<1> QED
  BY <1>1, <1>2, <1>3

\* The order survives as long as no file gains a record.
LEMMA FewerInOrder ==
  ASSUME IndType, IndOrder,
         now' \in Int, now' >= now, written' \in Int, written' >= written,
         \A t \in Times : Held(t)' \subseteq Held(t),
         RecordsOf(current)' \subseteq RecordsOf(current)
  PROVE  IndOrder'
<1> USE LogAssumption
<1>1. now \in Int /\ written \in Int /\ Times \subseteq Int
  BY DEF IndType, TypeOK, Times
<1>2. \A t, u \in Times : t < u => Precede(Held(t)', Held(u)')
  BY DEF IndOrder, ReadsInOrder, Precede
<1>3. \A t \in Times : Precede(Held(t)', RecordsOf(current)')
  BY DEF IndOrder, ReadsInOrder, Precede
<1>4. RecordsOf(current)' \subseteq 1 .. written'
  BY <1>1 DEF IndOrder, ReadsInOrder
<1>5. \A t \in Times : Held(t)' \subseteq 1 .. written'
  BY <1>1 DEF IndOrder
<1>6. \A t \in Times : t > now' => Held(t)' = {}
  BY <1>1 DEF IndOrder
<1> QED
  BY <1>2, <1>3, <1>4, <1>5, <1>6 DEF IndOrder, ReadsInOrder, Precede

\* The log file becomes the newest backup, whatever had that name.
LEMMA RenameKeepsOrder ==
  ASSUME IndType, IndOrder, Rename, current # Absent
  PROVE  IndOrder'
<1> USE LogAssumption
<1>1. /\ backup' = [backup EXCEPT ![now] = current] /\ current' = Absent
      /\ now' = now /\ written' = written /\ gz' = gz
  BY DEF Rename, fileVars
<1>2. /\ now \in Times /\ written \in Int /\ Times \subseteq Int
      /\ backup \in [Times -> File \cup {Absent}]
  BY DEF IndType, TypeOK, Times
<1>3. RecordsOf(current)' = {}
  BY <1>1 DEF RecordsOf
<1>4. \A t \in Times \ {now} : Held(t)' = Held(t)
  BY <1>1, <1>2 DEF Held, RecordsOf
<1>5. ASSUME NEW t \in Times, t = now PROVE Held(t)' \subseteq Held(t) \cup RecordsOf(current)
  <2>1. backup'[t] = current /\ gz'[t] = gz[t]
    BY <1>1, <1>2, <1>5
  <2> QED
    BY <2>1 DEF Held, RecordsOf
<1>6. \A t, u \in Times : t < u => Precede(Held(t)', Held(u)')
  <2> SUFFICES ASSUME NEW t \in Times, NEW u \in Times, t < u PROVE Precede(Held(t)', Held(u)')
    OBVIOUS
  <2>1. Precede(Held(t), Held(u)) /\ Precede(Held(t), RecordsOf(current))
    BY DEF IndOrder, ReadsInOrder
  <2>2. CASE t # now /\ u # now
    BY <1>4, <2>1, <2>2
  <2>3. CASE u = now
    <3>1. t # now /\ Held(t)' = Held(t)
      BY <1>2, <1>4, <2>3
    <3> QED
      BY <1>5, <2>1, <2>3, <3>1 DEF Precede
  <2>4. CASE t = now
    <3>1. u # now /\ u > now
      BY <1>2, <2>4
    <3>2. Held(u)' = {}
      BY <1>4, <3>1 DEF IndOrder
    <3> QED
      BY <3>2 DEF Precede
  <2> QED
    BY <2>2, <2>3, <2>4
<1>7. \A t \in Times : Held(t)' \subseteq 1 .. written
  <2> SUFFICES ASSUME NEW t \in Times PROVE Held(t)' \subseteq 1 .. written
    OBVIOUS
  <2>1. Held(t) \subseteq 1 .. written /\ RecordsOf(current) \subseteq 1 .. written
    BY DEF IndOrder, ReadsInOrder
  <2>2. CASE t = now
    BY <1>5, <2>1, <2>2
  <2>3. CASE t # now
    BY <1>4, <2>1, <2>3
  <2> QED
    BY <2>2, <2>3
<1>8. \A t \in Times : t > now => Held(t)' = {}
  BY <1>2, <1>4 DEF IndOrder
<1> QED
  BY <1>1, <1>3, <1>6, <1>7, <1>8 DEF IndOrder, ReadsInOrder, Precede

\* The record that is appended is the latest of all.
LEMMA AppendKeepsOrder ==
  ASSUME IndType, IndOrder, AppendRecord
  PROVE  IndOrder'
<1> USE LogAssumption
<1>1. /\ now' = now /\ written' = written + 1 /\ backup' = backup /\ gz' = gz
      /\ \E n : current' = [recs |-> current.recs \cup {written + 1}, bytes |-> current.bytes + n]
  BY DEF AppendRecord
<1>2. now \in Int /\ written \in Nat /\ current \in File /\ current # Absent
  BY DEF IndType, TypeOK, AppendRecord, Times
<1>3. current # Partial
  BY <1>2
<1>4. RecordsOf(current)' \subseteq RecordsOf(current) \cup {written + 1}
  BY <1>1, <1>2, <1>3 DEF RecordsOf
<1>5. \A t \in Times : Held(t)' = Held(t)
  BY <1>1 DEF Held, RecordsOf
<1>6. \A t \in Times : Precede(Held(t), RecordsOf(current)')
  BY <1>2, <1>4 DEF IndOrder, ReadsInOrder, Precede
<1>7. RecordsOf(current)' \subseteq 1 .. written'
  <2>1. RecordsOf(current) \subseteq 1 .. written
    BY DEF IndOrder, ReadsInOrder
  <2>2. 1 .. written \subseteq 1 .. written' /\ written + 1 \in 1 .. written'
    BY <1>1, <1>2
  <2> QED
    BY <1>4, <2>1, <2>2
<1>8. \A t \in Times : Held(t) \subseteq 1 .. written'
  BY <1>1, <1>2 DEF IndOrder
<1> QED
  BY <1>1, <1>5, <1>6, <1>7, <1>8 DEF IndOrder, ReadsInOrder, Precede

\* No call of the mill adds a record to a backup, and it never touches the log.
LEMMA MillKeepsOrder ==
  ASSUME IndType, IndOrder, MillStep
  PROVE  IndOrder'
<1> USE LogAssumption
<1>1. UNCHANGED <<now, written, current>>
  BY DEF MillStep, MillReceives, MillLists, MillListFails, MillRemoves, MillRemoveFails,
         CompressOpens, CompressCopies, CompressUnlinks, CompressOpenFails, CompressFails,
         MillEnds, fileVars
<1>2. \A t \in Times : Held(t)' \subseteq Held(t)
  <2> SUFFICES ASSUME NEW t \in Times PROVE Held(t)' \subseteq Held(t)
    OBVIOUS
  <2>1. /\ backup \in [Times -> File \cup {Absent}]
        /\ gz \in [Times -> File \cup {Absent, Partial}]
    BY DEF IndType, TypeOK
  <2>2. \/ backup'[t] \in {backup[t], Absent} /\ gz'[t] \in {gz[t], Absent, Partial}
        \/ backup'[t] = backup[t] /\ gz'[t] = backup[t]
    <3>1. CASE MillReceives \/ MillLists \/ MillListFails \/ MillRemoveFails \/ MillEnds
      BY <3>1 DEF MillReceives, MillLists, MillListFails, MillRemoveFails, MillEnds, fileVars
    <3>2. CASE MillRemoves
      <4>1. PICK f \in toRemove :
               /\ gz' = IF f.gz THEN [gz EXCEPT ![f.time] = Absent] ELSE gz
               /\ backup' = IF f.gz THEN backup ELSE [backup EXCEPT ![f.time] = Absent]
        BY <3>2 DEF MillRemoves
      <4> QED
        BY <2>1, <4>1
    <3>3. CASE CompressOpens
      BY <2>1, <3>3 DEF CompressOpens
    <3>4. CASE CompressCopies
      BY <2>1, <3>4 DEF CompressCopies
    <3>5. CASE CompressUnlinks
      BY <2>1, <3>5 DEF CompressUnlinks
    <3>6. CASE CompressOpenFails
      BY <2>1, <3>6 DEF CompressOpenFails
    <3>7. CASE CompressFails
      BY <2>1, <3>7 DEF CompressFails
    <3> QED
      BY <3>1, <3>2, <3>3, <3>4, <3>5, <3>6, <3>7 DEF MillStep
  <2> QED
    BY <2>2 DEF Held, RecordsOf
<1>3. RecordsOf(current)' = RecordsOf(current)
  BY <1>1 DEF RecordsOf
<1>4. now \in Int /\ written \in Int
  BY DEF IndType, TypeOK, Times
<1> QED
  BY <1>1, <1>2, <1>3, <1>4, FewerInOrder

LEMMA WriterKeepsOrder ==
  ASSUME IndType, IndOrder, WriterStep
  PROVE  IndOrder'
<1> USE LogAssumption
<1>1. CASE Rename /\ current # Absent
  BY <1>1, RenameKeepsOrder
<1>2. CASE AppendRecord
  BY <1>2, AppendKeepsOrder
<1>3. ASSUME ~(Rename /\ current # Absent), ~AppendRecord PROVE IndOrder'
  <2>1. UNCHANGED <<now, written, backup, gz>> /\ current' \in {current, EmptyFile}
    BY <1>3 DEF WriterStep, BeginWrite, OpenExistingOrNew, OpenFails, Rename, StatFails, RenameFails,
                Create, CreateFails, AppendFails, fileVars
  <2>2. RecordsOf(current)' \subseteq RecordsOf(current)
    BY <2>1 DEF RecordsOf, EmptyFile
  <2>3. \A t \in Times : Held(t)' = Held(t)
    BY <2>1 DEF Held, RecordsOf
  <2>4. now \in Int /\ written \in Int
    BY DEF IndType, TypeOK, Times
  <2> QED
    BY <2>1, <2>2, <2>3, <2>4, FewerInOrder
<1> QED
  BY <1>1, <1>2, <1>3

\* The log can be read back in the order in which it was written, from the
\* backups by the times in their names and then the log file, and no record is
\* in two of them: after crashes, failed or partial writes and renames,
\* rotations in one millisecond, and whatever the mill has got to.
THEOREM ReadsInOrderCorrect == Spec => []ReadsInOrder
<1> USE LogAssumption
<1>1. Init => IndOrder
  <2> SUFFICES ASSUME Init PROVE IndOrder
    OBVIOUS
  <2>1. RecordsOf(current) = {}
    BY DEF Init, RecordsOf, EmptyFile
  <2>2. \A t \in Times : Held(t) = {}
    BY DEF Init, Held, RecordsOf
  <2> QED
    BY <2>1, <2>2 DEF IndOrder, ReadsInOrder, Precede
<1>2. IndType /\ IndOrder /\ [Next]_vars => IndOrder'
  <2> SUFFICES ASSUME IndType, IndOrder, [Next]_vars PROVE IndOrder'
    OBVIOUS
  <2>1. CASE Tick \/ Restart \/ UNCHANGED vars
    <3>1. /\ UNCHANGED <<written, backup, gz>> /\ current' \in {current, EmptyFile}
          /\ now' \in {now, now + 1}
      BY <2>1 DEF Tick, Restart, vars, fileVars
    <3>2. RecordsOf(current)' \subseteq RecordsOf(current)
      BY <3>1 DEF RecordsOf, EmptyFile
    <3>3. \A t \in Times : Held(t)' = Held(t)
      BY <3>1 DEF Held, RecordsOf
    <3>4. now \in Int /\ written \in Int
      BY DEF IndType, TypeOK, Times
    <3> QED
      BY <3>1, <3>2, <3>3, <3>4, FewerInOrder
  <2> QED
    BY <2>1, WriterKeepsOrder, MillKeepsOrder DEF Next
<1>3. IndOrder => ReadsInOrder
  BY DEF IndOrder
<1> QED
  BY <1>1, <1>2, <1>3, IndTypeCorrect, PTL DEF Spec
=============================================================================
