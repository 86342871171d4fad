--------------------------- MODULE ListenerProofs ---------------------------
(* Theorems about Listener, for every set of files and every bound.        *)
EXTENDS Listener, SequenceTheorems, TLAPS

USE BoundAssumption

LEMMA ConstFileType ==
  ASSUME NEW i \in DOMAIN ConstFile
  PROVE  ConstFile[i] \in ConstSet
BY DEF ConstSet

LEMMA LoadOrderType ==
  ASSUME NEW i \in DOMAIN LoadOrder
  PROVE  LoadOrder[i] \in ConstSet
<1> {LoadOrder[j] : j \in DOMAIN LoadOrder} = ConstSet
  BY ConstAssumption
<1> QED
  OBVIOUS

LEMMA QueuedType ==
  ASSUME queue \in Seq(Event), NEW e \in Event
  PROVE  Queued(e) \in Seq(Event)
<1> Overflow \in Event
  BY DEF Overflow, Event
<1> QED
  BY DEF Queued

LEMMA NotifyType ==
  ASSUME TypeOK, NEW f \in File, NEW m, Notify(f, m)
  PROVE  queue' \in Seq(Event) /\ lost' \subseteq File
<1>1. CASE watching /\ m \in Mask
  <2>1. [name |-> f, mask |-> m] \in Event
    BY <1>1 DEF Event, Mask
  <2>2. Queued([name |-> f, mask |-> m]) \in Seq(Event)
    BY <2>1, QueuedType DEF TypeOK
  <2> QED
    BY <1>1, <2>2 DEF Notify, TypeOK
<1> QED
  BY <1>1 DEF Notify, TypeOK

LEMMA SaveType ==
  ASSUME TypeOK, NEW f \in File, NEW c \in Content, Save(f, c)
  PROVE  /\ row' \in [{Table[g] : g \in File} -> Nat]
         /\ saved' \in [File -> Nat]
         /\ unsaved' \subseteq File
<1>1. CASE Saved(f, c)
  <2>1. c \in Nat
    BY <1>1 DEF Saved, Version
  <2> QED
    BY <1>1, <2>1 DEF Saved, TypeOK
<1>2. CASE Unsaved(f, c)
  BY <1>2 DEF Unsaved, TypeOK
<1> QED
  BY <1>1, <1>2 DEF Save

LEMMA DieType == TypeOK /\ Die => TypeOK'
<1> SUFFICES ASSUME TypeOK, Die PROVE TypeOK'
  OBVIOUS
<1>1. << >> \in Seq(Event) /\ Absent \in Content
  BY DEF Content
<1>2. unsaved' \subseteq File
  BY DEF Die, TypeOK, File
<1> QED
  BY <1>1, <1>2 DEF Die, TypeOK, external

LEMMA TypeInit == Init => TypeOK
<1> USE DEF TypeOK, File
<1> SUFFICES ASSUME Init PROVE TypeOK
  OBVIOUS
<1>1. /\ << >> \in Seq(Event)
      /\ Absent \in Content
      /\ 0 \in 0 .. MaxEdit
  BY DEF Content
<1> QED
  BY <1>1 DEF Init

LEMMA TypeNext == TypeOK /\ [Next]_vars => TypeOK'
<1> USE DEF TypeOK, external, kernel, main, timer, db
<1> SUFFICES ASSUME TypeOK, [Next]_vars PROVE TypeOK'
  OBVIOUS
<1>1. ASSUME NEW f \in File, Edit(f) PROVE TypeOK'
  <2>1. edits' \in Version
    BY <1>1 DEF Edit, Version
  <2>2. PICK c, m : c \in Content /\ Change(f, c, m)
    BY <1>1, <2>1 DEF Edit, Content
  <2>3. queue' \in Seq(Event) /\ lost' \subseteq File
    BY <2>2, NotifyType DEF Change
  <2>4. disk' \in [File -> Content]
    BY <2>2 DEF Change
  <2> QED
    BY <1>1, <2>1, <2>3, <2>4 DEF Edit, Version
<1>2. CASE Boot
  BY <1>2 DEF Boot
<1>3. CASE LoadSkip
  BY <1>3 DEF LoadSkip
<1>4. CASE LoadSave
  <2>1. LoadOrder[at] \in File
    BY <1>4, LoadOrderType DEF LoadSave, File
  <2>2. buf' \in Content
    BY <1>4, <2>1 DEF LoadSave
  <2> QED
    BY <1>4, <2>1, <2>2, SaveType DEF LoadSave
<1>5. CASE LoadSet
  <2>1. LoadOrder[at] \in File
    BY <1>5, LoadOrderType DEF LoadSet, File
  <2>2. cache' \in [ConstSet -> Content] /\ lost' \subseteq File
    <3>1. CASE cache' = [cache EXCEPT ![LoadOrder[at]] = buf] /\ UNCHANGED lost
      BY <3>1
    <3>2. CASE UNCHANGED cache /\ lost' = lost \cup {LoadOrder[at]}
      BY <2>1, <3>2
    <3> QED
      BY <1>5, <3>1, <3>2 DEF LoadSet
  <2> QED
    BY <1>5, <2>2 DEF LoadSet
<1>6. CASE StartInotify
  BY <1>6 DEF StartInotify
<1>7. CASE ReadInotifyEvent
  <2> DEFINE n == IF Len(queue) < BatchMax THEN Len(queue) ELSE BatchMax
  <2>1. n \in Nat /\ n <= Len(queue)
    OBVIOUS
  <2>2. SubSeq(queue, 1, n) \in Seq(Event)
    BY <2>1, SubSeqProperties
  <2>3. SubSeq(queue, n + 1, Len(queue)) \in Seq(Event)
    BY <2>1, SubSeqProperties
  <2> QED
    BY <1>7, <2>2, <2>3 DEF ReadInotifyEvent
<1>8. CASE NextEvent
  <2>1. CASE batch = << >>
    BY <1>8, <2>1 DEF NextEvent
  <2>2. CASE batch # << >>
    <3>1. Head(batch) \in Event /\ Tail(batch) \in Seq(Event)
      BY <2>2
    <3>2. cur' \in File \cup {NoFile}
      BY <1>8, <2>2, <3>1 DEF NextEvent, Event
    <3> QED
      BY <1>8, <2>2, <3>1, <3>2 DEF NextEvent
  <2> QED
    BY <2>1, <2>2
<1>9. CASE Open
  BY <1>9 DEF Open
<1>10. CASE ReadFile
  <2>1. buf' \in Content
    BY <1>10 DEF ReadFile, ReadOutcome, Content
  <2> QED
    BY <1>10, <2>1 DEF ReadFile, File
<1>11. CASE CacheFileValue
  <2>1. ref' \in [ConstSet -> {0, 1}]
    BY <1>11 DEF CacheFileValue
  <2>2. cache' \in [ConstSet -> Content] /\ lost' \subseteq File
    <3> DEFINE v == IF buf = Empty THEN Torn ELSE buf
    <3>1. v \in Content
      BY DEF Content
    <3>2. CASE cache' = [cache EXCEPT ![cur] = v] /\ UNCHANGED lost
      BY <3>1, <3>2
    <3>3. CASE UNCHANGED cache /\ lost' = lost \cup {cur}
      BY <1>11, <3>3 DEF CacheFileValue, File
    <3> QED
      BY <1>11, <3>2, <3>3 DEF CacheFileValue
  <2> QED
    BY <1>11, <2>1, <2>2 DEF CacheFileValue
<1>12. CASE SaveIncr
  <2>1. cur \in File
    BY <1>12 DEF SaveIncr, File
  <2> QED
    BY <1>12, <2>1, SaveType DEF SaveIncr
<1>13. ASSUME NEW t \in TimerThread, Expire(t) PROVE TypeOK'
  BY <1>13 DEF Expire
<1>14. ASSUME NEW t \in TimerThread, CacheRoutine(t) PROVE TypeOK'
  <2>1. CASE Lock(t)
    BY <2>1 DEF Lock
  <2>2. CASE ScanClean(t)
    <3>1. idx' \in [TimerThread -> Nat]
      BY <2>2 DEF ScanClean
    <3>2. \A u \in TimerThread : u # t => idx'[u] = idx[u]
      BY <2>2 DEF ScanClean
    <3> QED
      BY <2>2, <3>1, <3>2 DEF ScanClean
  <2>3. CASE Get(t)
    <3>1. cache[Scanned(t)] \in Content
      BY <2>3, ConstFileType DEF Get, Scanned
    <3> QED
      BY <2>3, <3>1 DEF Get
  <2>4. CASE GetNil(t)
    BY <2>4, DieType DEF GetNil
  <2>5. CASE Flush(t)
    <3>1. Scanned(t) \in File
      BY <2>5, ConstFileType DEF Flush, Scanned, File
    <3>2. reply[t] \in Content
      BY DEF TypeOK
    <3>3. Save(Scanned(t), reply[t])
      BY <2>5 DEF Flush
    <3>4. /\ row' \in [{Table[g] : g \in File} -> Nat]
          /\ saved' \in [File -> Nat]
          /\ unsaved' \subseteq File
      BY <3>1, <3>2, <3>3, SaveType
    <3> QED
      BY <2>5, <3>4 DEF Flush
  <2>6. CASE Clear(t)
    <3>1. Absent \in Content
      BY DEF Content
    <3>2. /\ ref' \in [ConstSet -> {0, 1}]
          /\ reply' \in [TimerThread -> Content]
          /\ idx' \in [TimerThread -> Nat]
      <4>1. ref' = [ref EXCEPT ![Scanned(t)] = 0]
        BY <2>6 DEF Clear
      <4>2. reply' = [reply EXCEPT ![t] = Absent]
        BY <2>6 DEF Clear
      <4>3. idx' = [idx EXCEPT ![t] = @ + 1]
        BY <2>6 DEF Clear
      <4>4. ref' \in [ConstSet -> {0, 1}]
        BY <4>1
      <4>5. reply' \in [TimerThread -> Content]
        BY <4>2, <3>1
      <4>6. idx' \in [TimerThread -> Nat]
        BY <4>3
      <4> QED
        BY <4>4, <4>5, <4>6
    <3>3. /\ tpc'[t] = "scan"
          /\ \A u \in TimerThread : u # t => tpc'[u] = tpc[u] /\ idx'[u] = idx[u]
      BY <2>6 DEF Clear
    <3> QED
      BY <2>6, <3>2, <3>3 DEF Clear
  <2>7. CASE Unlock(t)
    BY <2>7 DEF Unlock
  <2> QED
    BY <1>14, <2>1, <2>2, <2>3, <2>4, <2>5, <2>6, <2>7 DEF CacheRoutine
<1>15. CASE Crash
  BY <1>15, DieType DEF Crash
<1>16. CASE UNCHANGED vars
  BY <1>16 DEF vars
<1> QED
  BY <1>1, <1>2, <1>3, <1>4, <1>5, <1>6, <1>7, <1>8, <1>9, <1>10, <1>11, <1>12,
     <1>13, <1>14, <1>15, <1>16 DEF Next, StartListener, ParseRoutine

(* Every reachable state has the types and the control points of TypeOK:   *)
(* in particular parse_routine stores only constant files and saves only   *)
(* incremental ones, and cache_routine stays within const_file.            *)
THEOREM TypeInvariant == Spec => []TypeOK
<1>1. Init => TypeOK
  BY TypeInit
<1>2. TypeOK /\ [Next]_vars => TypeOK'
  BY TypeNext
<1> QED
  BY <1>1, <1>2, PTL DEF Spec

-----------------------------------------------------------------------------
(* The mutex, the flags and the copies.                                    *)

LEMMA CacheInit == Init => CacheInv
<1> SUFFICES ASSUME Init PROVE CacheInv
  OBVIOUS
<1>1. TypeOK
  BY TypeInit
<1>2. MutualExclusion
  BY NameAssumption DEF MutualExclusion, Init
<1>3. FlushIsCurrent
  BY DEF FlushIsCurrent, Init
<1>4. StartUp
  BY DEF StartUp, Init
<1>5. LoadedIsSaved
  BY DEF LoadedIsSaved, Init
<1> QED
  BY <1>1, <1>2, <1>3, <1>4, <1>5 DEF CacheInv

LEMMA DieRest ==
  Die => (MutualExclusion /\ FlushIsCurrent /\ StartUp /\ LoadedIsSaved)'
<1> SUFFICES ASSUME Die
             PROVE  (MutualExclusion /\ FlushIsCurrent /\ StartUp /\ LoadedIsSaved)'
  OBVIOUS
<1>1. /\ lock' = Free /\ watching' = FALSE /\ pc' = "down"
      /\ \A t \in TimerThread : tpc'[t] = "idle"
      /\ \A f \in ConstSet : ref'[f] = 0
  BY DEF Die
<1> QED
  BY <1>1, NameAssumption DEF MutualExclusion, FlushIsCurrent, StartUp, LoadedIsSaved

LEMMA CacheNext == CacheInv /\ [Next]_vars => CacheInv'
<1> USE DEF external, kernel, main, timer, db
<1> SUFFICES ASSUME CacheInv, [Next]_vars PROVE CacheInv'
  OBVIOUS
<1>0. TypeOK /\ TypeOK'
  BY TypeNext DEF CacheInv
<1> DEFINE Rest == (MutualExclusion /\ FlushIsCurrent /\ StartUp /\ LoadedIsSaved)'
<1> SUFFICES Rest
  BY <1>0 DEF CacheInv
<1>1. ASSUME NEW f \in File, Edit(f) PROVE Rest
  BY <1>1 DEF Edit, Change, Notify, CacheInv, MutualExclusion, FlushIsCurrent,
       StartUp, LoadedIsSaved, Scanned
<1>2. CASE Boot
  BY <1>2 DEF Boot, CacheInv, MutualExclusion, FlushIsCurrent, StartUp,
       LoadedIsSaved, Scanned
<1>3. CASE LoadSkip
  BY <1>3 DEF LoadSkip, CacheInv, MutualExclusion, FlushIsCurrent, StartUp,
       LoadedIsSaved, Scanned
<1>4. CASE LoadSave
  <2>1. LoadOrder[at] \in File
    BY <1>4, LoadOrderType DEF LoadSave, File
  <2>2. LoadedIsSaved'
    BY <1>4, <2>1, <1>0 DEF LoadSave, Save, Saved, Unsaved, LoadedIsSaved, TypeOK
  <2>3. UNCHANGED <<watching, ref, lock, timer, cache>>
    BY <1>4 DEF LoadSave
  <2>4. pc = "load" /\ pc' = "set"
    BY <1>4 DEF LoadSave
  <2> QED
    BY <2>2, <2>3, <2>4 DEF CacheInv, MutualExclusion, FlushIsCurrent, StartUp, Scanned
<1>5. CASE LoadSet
  BY <1>5, <1>0 DEF LoadSet, CacheInv, MutualExclusion, FlushIsCurrent, StartUp,
       LoadedIsSaved, Scanned
<1>6. CASE StartInotify
  BY <1>6 DEF StartInotify, CacheInv, MutualExclusion, FlushIsCurrent, StartUp,
       LoadedIsSaved, Scanned
<1>7. CASE ReadInotifyEvent \/ NextEvent \/ Open \/ ReadFile \/ SaveIncr
  <2>1. UNCHANGED <<watching, ref, lock, timer, cache>>
    BY <1>7 DEF ReadInotifyEvent, NextEvent, Open, ReadFile, SaveIncr
  <2>2. {pc, pc'} \cap {"down", "load", "set"} = {}
    BY <1>7 DEF ReadInotifyEvent, NextEvent, Open, ReadFile, SaveIncr
  <2> QED
    BY <2>1, <2>2 DEF CacheInv, MutualExclusion, FlushIsCurrent, StartUp,
         LoadedIsSaved, Scanned
<1>8. CASE CacheFileValue
  <2>1. \A t \in TimerThread : tpc[t] \notin {"scan", "flush", "clear"}
    BY <1>8, NameAssumption DEF CacheFileValue, CacheInv, MutualExclusion
  <2>2. UNCHANGED <<watching, lock, timer>>
    BY <1>8 DEF CacheFileValue
  <2>3. pc = "store" /\ pc' = "next"
    BY <1>8 DEF CacheFileValue
  <2> QED
    BY <2>1, <2>2, <2>3 DEF CacheInv, MutualExclusion, FlushIsCurrent, StartUp,
         LoadedIsSaved
<1>9. ASSUME NEW t \in TimerThread, Expire(t) \/ CacheRoutine(t) PROVE Rest
  <2>1. CASE Expire(t)
    BY <2>1, <1>0 DEF Expire, CacheInv, MutualExclusion, FlushIsCurrent, StartUp,
         LoadedIsSaved, Scanned, TypeOK
  <2>2. CASE Lock(t)
    BY <2>2, <1>0, NameAssumption DEF Lock, CacheInv, MutualExclusion, FlushIsCurrent,
         StartUp, LoadedIsSaved, Scanned, TypeOK
  <2>3. CASE ScanClean(t)
    BY <2>3, <1>0 DEF ScanClean, CacheInv, MutualExclusion, FlushIsCurrent, StartUp,
         LoadedIsSaved, Scanned, TypeOK
  <2>4. CASE Get(t)
    BY <2>4, <1>0 DEF Get, CacheInv, MutualExclusion, FlushIsCurrent, StartUp,
         LoadedIsSaved, Scanned, TypeOK
  <2>5. CASE Flush(t)
    BY <2>5, <1>0 DEF Flush, CacheInv, MutualExclusion, FlushIsCurrent, StartUp,
         LoadedIsSaved, Scanned, TypeOK
  <2>6. CASE Clear(t)
    BY <2>6, <1>0 DEF Clear, CacheInv, MutualExclusion, FlushIsCurrent, StartUp,
         LoadedIsSaved, Scanned, TypeOK
  <2>7. CASE Unlock(t)
    BY <2>7, <1>0, NameAssumption DEF Unlock, CacheInv, MutualExclusion, FlushIsCurrent,
         StartUp, LoadedIsSaved, Scanned, TypeOK
  <2>8. CASE GetNil(t)
    BY <2>8, DieRest DEF GetNil
  <2> QED
    BY <1>9, <2>1, <2>2, <2>3, <2>4, <2>5, <2>6, <2>7, <2>8 DEF CacheRoutine
<1>10. CASE Crash
  BY <1>10, DieRest DEF Crash
<1>11. CASE UNCHANGED vars
  BY <1>11 DEF vars, CacheInv, MutualExclusion, FlushIsCurrent, StartUp,
       LoadedIsSaved, Scanned
<1> QED
  BY <1>1, <1>2, <1>3, <1>4, <1>5, <1>6, <1>7, <1>8, <1>9, <1>10, <1>11
     DEF Next, StartListener, ParseRoutine

(* The mutex is held by at most one thread of the timer, and what that     *)
(* thread flushes is the present copy, in every reachable state.           *)
THEOREM CacheInvariant == Spec => []CacheInv
<1>1. Init => CacheInv
  BY CacheInit
<1>2. CacheInv /\ [Next]_vars => CacheInv'
  BY CacheNext
<1> QED
  BY <1>1, <1>2, PTL DEF Spec
-----------------------------------------------------------------------------
(* Every flag has its copy.                                                *)

LEMMA CopyInit == Init => CopyInv
<1> SUFFICES ASSUME Init PROVE CopyInv
  OBVIOUS
<1>1. DirtyHasCopy
  BY DEF DirtyHasCopy, Init
<1>2. pc \notin {"read", "store"}
  BY DEF Init
<1> QED
  BY CacheInit, <1>1, <1>2 DEF CopyInv

LEMMA CopyNext == CopyInv /\ [Next]_vars => CopyInv'
<1> USE DEF external, kernel, main, timer, db
<1> SUFFICES ASSUME CopyInv, [Next]_vars PROVE CopyInv'
  OBVIOUS
<1>0. CacheInv /\ TypeOK /\ CacheInv'
  BY CacheNext DEF CopyInv, CacheInv
<1> DEFINE Goal == (DirtyHasCopy /\ (pc \in {"read", "store"} => buf # Absent))'
<1> SUFFICES Goal
  BY <1>0 DEF CopyInv
<1>1. ASSUME UNCHANGED <<ref, cache>>, pc' \in {"read", "store"} => buf' # Absent
      PROVE  Goal
  BY <1>1 DEF CopyInv, DirtyHasCopy
<1>2. ASSUME ~watching' PROVE Goal
  BY <1>2, <1>0 DEF CacheInv, StartUp, DirtyHasCopy
<1>3. ASSUME NEW f \in File, Edit(f) PROVE Goal
  BY <1>1, <1>3 DEF Edit, CopyInv
<1>4. CASE Boot \/ LoadSkip \/ LoadSave \/ LoadSet
  BY <1>2, <1>4, <1>0 DEF Boot, LoadSkip, LoadSave, LoadSet, CacheInv, StartUp
<1>5. CASE StartInotify \/ ReadInotifyEvent \/ NextEvent \/ Open \/ SaveIncr
  BY <1>1, <1>5 DEF StartInotify, ReadInotifyEvent, NextEvent, Open, SaveIncr
<1>6. CASE ReadFile
  <2>1. UNCHANGED <<ref, cache>> /\ pc = "read" /\ buf' \in ReadOutcome(buf, disk[cur])
    BY <1>6 DEF ReadFile
  <2>2. buf' # Absent
    BY <2>1, NameAssumption DEF ReadOutcome, CopyInv
  <2> QED
    BY <1>1, <2>1, <2>2
<1>7. CASE CacheFileValue
  <2>1. pc = "store" /\ pc' = "next" /\ ref' = [ref EXCEPT ![cur] = 1] /\ cur \in ConstSet
    BY <1>7, <1>0 DEF CacheFileValue, TypeOK
  <2> DEFINE v == IF buf = Empty THEN Torn ELSE buf
  <2>2. v # Absent
    BY <2>1, NameAssumption DEF CopyInv
  <2>3. "redis" \notin Faults => cache' = [cache EXCEPT ![cur] = v]
    BY <1>7 DEF CacheFileValue
  <2>4. DirtyHasCopy'
    BY <2>1, <2>2, <2>3, <1>0 DEF CopyInv, DirtyHasCopy, TypeOK
  <2> QED
    BY <2>1, <2>4
<1>8. ASSUME NEW t \in TimerThread, Expire(t) \/ CacheRoutine(t) PROVE Goal
  <2>1. CASE Expire(t) \/ Lock(t) \/ ScanClean(t) \/ Get(t) \/ Flush(t) \/ Unlock(t)
    BY <1>1, <2>1 DEF Expire, Lock, ScanClean, Get, Flush, Unlock, CopyInv
  <2>2. CASE Clear(t)
    <3>1. UNCHANGED <<pc, buf, cache>> /\ ref' = [ref EXCEPT ![Scanned(t)] = 0]
      BY <2>2 DEF Clear
    <3>2. \A f \in ConstSet : ref'[f] # 0 => ref[f] # 0
      BY <3>1, <1>0 DEF TypeOK
    <3> QED
      BY <3>1, <3>2 DEF CopyInv, DirtyHasCopy
  <2>3. CASE GetNil(t)
    BY <1>2, <2>3, <1>0 DEF GetNil, Die, CacheInv, StartUp
  <2> QED
    BY <1>8, <2>1, <2>2, <2>3 DEF CacheRoutine
<1>9. CASE Crash
  BY <1>2, <1>9, <1>0 DEF Crash, Die, CacheInv, StartUp
<1>10. CASE UNCHANGED vars
  BY <1>1, <1>10 DEF vars, CopyInv
<1> QED
  BY <1>3, <1>4, <1>5, <1>6, <1>7, <1>8, <1>9, <1>10
     DEF Next, StartListener, ParseRoutine

(* A file marked dirty has a copy in Redis as long as Redis obeys, so that *)
(* cache_to_db_for_index never reads through a NULL reply then.            *)
THEOREM FlushFindsCopy == Spec => []DirtyHasCopy
<1>1. Init => CopyInv
  BY CopyInit
<1>2. CopyInv /\ [Next]_vars => CopyInv'
  BY CopyNext
<1>3. CopyInv => DirtyHasCopy
  BY DEF CopyInv
<1> QED
  BY <1>1, <1>2, <1>3, PTL DEF Spec
-----------------------------------------------------------------------------
(* The cache implements WriteBehind, and a copy that is not marked dirty   *)
(* is in MySQL.                                                            *)

dirty == [f \in ConstSet |-> Dirty(f)]
owed == unsaved \cap ConstSet
savedConst == [f \in ConstSet |-> saved[f]]

(* The four variables of WriteBehind.                                      *)
abstract == <<cache, dirty, savedConst, owed>>

LEMMA DirtyUnchanged ==
  ASSUME UNCHANGED <<ref, tpc, idx>>
  PROVE  UNCHANGED dirty
BY DEF dirty, Dirty, Scanned

LEMMA WriteOfSave ==
  ASSUME TypeOK, NEW f \in ConstSet, NEW c \in Content, Save(f, c)
  PROVE  \/ /\ c \in Version
            /\ savedConst' = [savedConst EXCEPT ![f] = c]
            /\ owed' = owed \ {f}
         \/ /\ owed' = IF c \in Version THEN owed \cup {f} ELSE owed
            /\ savedConst' = savedConst
<1>1. f \in File
  BY DEF File
<1>2. CASE Saved(f, c)
  <2>1. c \in Version /\ saved' = [saved EXCEPT ![f] = c] /\ unsaved' = unsaved \ {f}
    BY <1>2 DEF Saved
  <2>2. savedConst' = [savedConst EXCEPT ![f] = c]
    BY <1>1, <2>1 DEF savedConst, TypeOK, File
  <2>3. owed' = owed \ {f}
    BY <2>1 DEF owed
  <2> QED
    BY <2>1, <2>2, <2>3
<1>3. CASE Unsaved(f, c)
  <2>1. savedConst' = savedConst
    BY <1>3 DEF Unsaved, savedConst
  <2>2. owed' = IF c \in Version THEN owed \cup {f} ELSE owed
    BY <1>3 DEF Unsaved, owed
  <2> QED
    BY <2>1, <2>2
<1> QED
  BY <1>2, <1>3 DEF Save

LEMMA DieLoses == TypeOK /\ Die => WB!Lose
<1> SUFFICES ASSUME TypeOK, Die PROVE WB!Lose
  OBVIOUS
<1>1. UNCHANGED <<cache, saved>> /\ unsaved' = unsaved \cup {f \in ConstSet : Dirty(f)}
  BY DEF Die
<1>2. dirty' = [f \in ConstSet |-> FALSE]
  <2>1. \A f \in ConstSet : ref'[f] = 0
    BY DEF Die
  <2> QED
    BY <2>1, Zenon DEF dirty, Dirty
<1>3. owed' = owed \cup {f \in ConstSet : dirty[f]}
  BY <1>1 DEF owed, dirty
<1>4. savedConst' = savedConst
  BY <1>1 DEF savedConst
<1> QED
  BY <1>1, <1>2, <1>3, <1>4 DEF WB!Lose, dirty, owed, savedConst

LEMMA AbstractStep ==
  CacheInv /\ [Next]_vars => [WB!Next]_(WB!vars)
<1> USE DEF external, kernel, main, timer, db
<1> SUFFICES ASSUME CacheInv, [Next]_vars PROVE WB!Next \/ UNCHANGED abstract
  BY DEF WB!vars, abstract, dirty, savedConst, owed
<1>0. TypeOK
  BY DEF CacheInv
<1> DEFINE Goal == WB!Next \/ UNCHANGED abstract
<1>1. ASSUME UNCHANGED <<ref, tpc, idx, cache, saved, unsaved>> PROVE Goal
  BY <1>1, DirtyUnchanged DEF abstract, savedConst, owed
<1>2. ASSUME NEW f \in File, Edit(f) PROVE Goal
  BY <1>1, <1>2 DEF Edit
<1>3. CASE Boot
  <2>1. ref' = ref
    BY <1>3, <1>0 DEF Boot, CacheInv, StartUp, TypeOK
  <2> QED
    BY <1>1, <1>3, <2>1 DEF Boot
<1>4. CASE LoadSkip \/ StartInotify \/ ReadInotifyEvent \/ NextEvent \/ Open \/ ReadFile
  BY <1>1, <1>4 DEF LoadSkip, StartInotify, ReadInotifyEvent, NextEvent, Open, ReadFile
<1>5. CASE LoadSave
  <2> DEFINE f == LoadOrder[at]
  <2>1. f \in ConstSet /\ f \in File
    BY <1>5, LoadOrderType DEF LoadSave, File
  <2>2. buf' \in Content
    BY <1>5, <1>0, <2>1 DEF LoadSave, TypeOK
  <2>3. Save(f, buf')
    BY <1>5 DEF LoadSave
  <2>4. \/ /\ buf' \in Version
           /\ savedConst' = [savedConst EXCEPT ![f] = buf']
           /\ owed' = owed \ {f}
        \/ /\ owed' = IF buf' \in Version THEN owed \cup {f} ELSE owed
           /\ savedConst' = savedConst
    BY <1>0, <2>1, <2>2, <2>3, WriteOfSave
  <2>5. UNCHANGED <<cache, dirty>>
    BY <1>5, DirtyUnchanged DEF LoadSave
  <2> QED
    BY <2>1, <2>2, <2>4, <2>5
       DEF WB!Next, WB!WriteThrough, WB!Write, dirty, savedConst, owed
<1>6. CASE LoadSet
  <2> DEFINE f == LoadOrder[at]
  <2>1. f \in ConstSet /\ buf \in Content
    BY <1>6, <1>0, LoadOrderType DEF LoadSet, TypeOK
  <2>2. UNCHANGED <<dirty, savedConst, owed>>
    BY <1>6, DirtyUnchanged DEF LoadSet, savedConst, owed
  <2>3. CASE cache' = [cache EXCEPT ![f] = buf]
    <3>1. buf \in Version => savedConst[f] = buf \/ f \in owed
      BY <1>6, <2>1 DEF LoadSet, CacheInv, LoadedIsSaved, savedConst, owed
    <3> QED
      BY <2>1, <2>2, <2>3, <3>1 DEF WB!Next, WB!Fill, dirty, savedConst, owed
  <2>4. CASE UNCHANGED cache
    BY <2>2, <2>4 DEF abstract
  <2> QED
    BY <1>6, <2>3, <2>4 DEF LoadSet
<1>7. CASE CacheFileValue
  <2> DEFINE v == IF buf = Empty THEN Torn ELSE buf
  <2>1. cur \in ConstSet /\ v \in Content
    BY <1>7, <1>0 DEF CacheFileValue, TypeOK, Content
  <2>2. cache' \in {[cache EXCEPT ![cur] = v], cache}
    BY <1>7 DEF CacheFileValue
  <2>3. dirty' = [dirty EXCEPT ![cur] = TRUE]
    <3>1. \A t \in TimerThread : tpc[t] # "clear"
      BY <1>7, NameAssumption DEF CacheFileValue, CacheInv, MutualExclusion
    <3>2. tpc' = tpc /\ ref' = [ref EXCEPT ![cur] = 1]
      BY <1>7 DEF CacheFileValue
    <3>3. \A f \in ConstSet : Dirty(f)' <=> IF f = cur THEN TRUE ELSE Dirty(f)
      BY <1>0, <2>1, <3>1, <3>2 DEF Dirty, TypeOK
    <3> QED
      BY <2>1, <3>3, Zenon DEF dirty, Dirty
  <2>4. UNCHANGED <<savedConst, owed>>
    BY <1>7 DEF CacheFileValue, savedConst, owed
  <2> QED
    BY <2>1, <2>2, <2>3, <2>4 DEF WB!Next, WB!Put, dirty, savedConst, owed
<1>8. CASE SaveIncr
  <2>1. cur \in IncrFile /\ cur \notin ConstSet
    BY <1>8, <1>0, NameAssumption DEF SaveIncr, TypeOK
  <2>2. UNCHANGED <<savedConst, owed>>
    BY <1>8, <1>0, <2>1 DEF SaveIncr, Save, Saved, Unsaved, TypeOK, File, savedConst, owed
  <2> QED
    BY <1>8, <2>2, DirtyUnchanged DEF SaveIncr, abstract
<1>9. ASSUME NEW t \in TimerThread, Expire(t) \/ CacheRoutine(t) PROVE Goal
  <2>1. CASE Expire(t) \/ Lock(t) \/ ScanClean(t) \/ Get(t) \/ Unlock(t)
    <3>1. UNCHANGED <<ref, cache, saved, unsaved>>
      BY <2>1 DEF Expire, Lock, ScanClean, Get, Unlock
    <3>2. \A u \in TimerThread : u # t => tpc'[u] = tpc[u] /\ idx'[u] = idx[u]
      BY <2>1, <1>0 DEF Expire, Lock, ScanClean, Get, Unlock, TypeOK
    <3>3. tpc[t] # "clear" /\ tpc'[t] # "clear"
      BY <2>1, <1>0 DEF Expire, Lock, ScanClean, Get, Unlock, TypeOK
    <3>4. UNCHANGED dirty
      BY <3>1, <3>2, <3>3 DEF dirty, Dirty, Scanned
    <3> QED
      BY <3>1, <3>4 DEF abstract, savedConst, owed
  <2>2. CASE Flush(t)
    <3> DEFINE f == Scanned(t)
    <3>1. f \in ConstSet
      BY <2>2, <1>0, ConstFileType DEF Flush, TypeOK, Scanned
    <3>2. ref[f] # 0 /\ reply[t] = cache[f] /\ \A u \in TimerThread : tpc[u] # "clear"
      BY <2>2 DEF Flush, CacheInv, MutualExclusion, FlushIsCurrent
    <3>3. UNCHANGED <<ref, idx, cache>> /\ tpc' = [tpc EXCEPT ![t] = "clear"]
      BY <2>2 DEF Flush
    <3>4. \A g \in ConstSet : Dirty(g)' <=> IF g = f THEN FALSE ELSE Dirty(g)
      BY <1>0, <3>2, <3>3 DEF Dirty, Scanned, TypeOK
    <3>5. dirty[f] /\ dirty' = [dirty EXCEPT ![f] = FALSE]
      BY <3>1, <3>2, <3>4 DEF dirty, Dirty
    <3>6. cache[f] \in Content /\ Save(f, cache[f])
      BY <2>2, <1>0, <3>1, <3>2 DEF Flush, TypeOK
    <3>7. \/ /\ cache[f] \in Version
             /\ savedConst' = [savedConst EXCEPT ![f] = cache[f]]
             /\ owed' = owed \ {f}
          \/ /\ owed' = IF cache[f] \in Version THEN owed \cup {f} ELSE owed
             /\ savedConst' = savedConst
      BY <1>0, <3>1, <3>6, WriteOfSave
    <3> QED
      BY <3>1, <3>3, <3>5, <3>7 DEF WB!Next, WB!Flush, WB!Write, dirty, savedConst, owed
  <2>3. CASE Clear(t)
    <3> DEFINE f == Scanned(t)
    <3>1. UNCHANGED <<cache, saved, unsaved>>
      BY <2>3 DEF Clear
    <3>2. /\ ref' = [ref EXCEPT ![f] = 0]
          /\ tpc[t] = "clear" /\ tpc'[t] = "scan"
          /\ \A u \in TimerThread : u # t => tpc'[u] = tpc[u] /\ idx'[u] = idx[u]
      BY <2>3, <1>0 DEF Clear, TypeOK
    <3>3. \A g \in ConstSet : Dirty(g)' <=> Dirty(g)
      BY <1>0, <3>2 DEF Dirty, Scanned, TypeOK
    <3>4. UNCHANGED dirty
      BY <3>3, Zenon DEF dirty, Dirty
    <3> QED
      BY <3>1, <3>4 DEF abstract, savedConst, owed
  <2>4. CASE GetNil(t)
    BY <2>4, <1>0, DieLoses DEF GetNil, WB!Next
  <2> QED
    BY <1>9, <2>1, <2>2, <2>3, <2>4 DEF CacheRoutine
<1>10. CASE Crash
  BY <1>10, <1>0, DieLoses DEF Crash, WB!Next
<1>11. CASE UNCHANGED vars
  BY <1>1, <1>11 DEF vars
<1> QED
  BY <1>2, <1>3, <1>4, <1>5, <1>6, <1>7, <1>8, <1>9, <1>10, <1>11
     DEF Next, StartListener, ParseRoutine

LEMMA AbstractInit == Init => WB!Init
<1> SUFFICES ASSUME Init PROVE WB!Init
  OBVIOUS
<1>1. cache \in [ConstSet -> Content \ Version]
  BY NameAssumption DEF Init, Content, Version
<1>2. [f \in ConstSet |-> Dirty(f)] = [f \in ConstSet |-> FALSE]
  <2>1. \A f \in ConstSet : ref[f] = 0
    BY DEF Init
  <2> QED
    BY <2>1, Zenon DEF Dirty
<1>3. [f \in ConstSet |-> saved[f]] = [f \in ConstSet |-> 0]
  BY DEF Init, File
<1>4. unsaved \cap ConstSet = {}
  BY DEF Init
<1> QED
  BY <1>1, <1>2, <1>3, <1>4 DEF WB!Init

(* The main thread and the timer threads, with their mutex, their flags and*)
(* a flush in several steps, behave like a cache whose flush is one atomic *)
(* step, whatever crashes and whatever Redis and MySQL refuse.             *)
THEOREM Refinement == Spec => ImplementsWriteBehind
<1>1. Init => WB!Init
  BY AbstractInit
<1>2. CacheInv /\ [Next]_vars => [WB!Next]_(WB!vars)
  BY AbstractStep
<1> QED
  BY <1>1, <1>2, CacheInvariant, PTL DEF Spec, WB!Spec, ImplementsWriteBehind

-----------------------------------------------------------------------------
(* The order of versions, and what a clean copy stands for.                *)

LEMMA VersionOrderNext ==
  CacheInv /\ VersionOrder /\ [Next]_vars => VersionOrder'
<1> USE DEF external, kernel, main, timer, db, NoYounger
<1> SUFFICES ASSUME CacheInv, VersionOrder, [Next]_vars PROVE VersionOrder'
  OBVIOUS
<1>0. TypeOK /\ TypeOK'
  BY TypeNext DEF CacheInv
<1>1. ASSUME NEW f \in File, Edit(f) PROVE VersionOrder'
  <2>1. PICK c, m : Change(f, c, m) /\ (c \in Version => c = edits')
    <3>1. ~(Empty \in Version) /\ ~(Torn \in Version) /\ ~(Absent \in Version)
      BY NameAssumption DEF Version
    <3> QED
      BY <1>1, <3>1 DEF Edit
  <2>2. edits \in Nat /\ edits' = edits + 1 /\ UNCHANGED <<pc, at, cur, buf, cache>>
    BY <1>1, <1>0 DEF Edit, TypeOK
  <2>3. disk' = [disk EXCEPT ![f] = c]
    BY <2>1 DEF Change
  <2>4. \A g \in File : disk'[g] = disk[g] \/ (disk'[g] \in Version => disk'[g] = edits')
    BY <2>1, <2>3, <1>0 DEF TypeOK
  <2>5. ASSUME NEW v, NEW g \in File, NoYounger(v, g) PROVE NoYounger(v, g)'
    BY <2>2, <2>4, <2>5 DEF Version
  <2>6. \A g \in File : NoYounger(disk[g], g)'
    BY <2>2, <2>3, <2>4 DEF VersionOrder, Version
  <2>7. \A g \in ConstSet : NoYounger(cache[g], g)'
    BY <2>2, <2>5 DEF VersionOrder, File
  <2>8. pc' \in {"read", "store"} => NoYounger(buf, cur)'
    BY <2>2, <2>5, <1>0 DEF VersionOrder, TypeOK, File
  <2>9. pc' = "set" => NoYounger(buf, LoadOrder[at])'
    BY <2>2, <2>5, <1>0, LoadOrderType DEF VersionOrder, TypeOK, File
  <2> QED
    BY <2>6, <2>7, <2>8, <2>9 DEF VersionOrder
<1>2. CASE Boot \/ LoadSkip \/ StartInotify \/ ReadInotifyEvent \/ NextEvent \/ SaveIncr
  BY <1>2 DEF Boot, LoadSkip, StartInotify, ReadInotifyEvent, NextEvent, SaveIncr,
       VersionOrder
<1>3. CASE LoadSave
  <2>1. LoadOrder[at] \in File
    BY <1>3, LoadOrderType DEF LoadSave, File
  <2> QED
    BY <1>3, <2>1 DEF LoadSave, VersionOrder
<1>4. CASE LoadSet
  <2>1. UNCHANGED <<disk, edits>> /\ pc' = "load" /\ pc = "set"
    BY <1>4 DEF LoadSet
  <2>2. \A f \in ConstSet : cache'[f] = cache[f] \/ (f = LoadOrder[at] /\ cache'[f] = buf)
    BY <1>4, <1>0 DEF LoadSet, TypeOK
  <2> QED
    BY <2>1, <2>2 DEF VersionOrder
<1>5. CASE Open
  BY <1>5, <1>0 DEF Open, VersionOrder, TypeOK
<1>6. CASE ReadFile
  <2>1. UNCHANGED <<disk, edits, cache, cur>> /\ pc = "read" /\ pc' # "set"
    BY <1>6 DEF ReadFile
  <2>2. cur \in File /\ NoYounger(buf, cur) /\ NoYounger(disk[cur], cur)
    BY <2>1, <1>0 DEF TypeOK, VersionOrder
  <2>3. buf' = buf \/ buf' = disk[cur] \/ buf' = Torn
    BY <1>6 DEF ReadFile, ReadOutcome
  <2>4. NoYounger(buf, cur)'
    BY <2>1, <2>2, <2>3, NameAssumption DEF Version
  <2> QED
    BY <2>1, <2>4 DEF VersionOrder
<1>7. CASE CacheFileValue
  <2>1. UNCHANGED <<disk, edits>> /\ pc' = "next" /\ pc = "store"
    BY <1>7 DEF CacheFileValue
  <2>2. \A f \in ConstSet :
          cache'[f] = cache[f] \/ cache'[f] = Torn \/ (f = cur /\ cache'[f] = buf)
    BY <1>7, <1>0 DEF CacheFileValue, TypeOK
  <2> QED
    BY <2>1, <2>2, NameAssumption DEF VersionOrder, Version
<1>8. ASSUME NEW t \in TimerThread, Expire(t) \/ CacheRoutine(t) PROVE VersionOrder'
  <2>1. CASE GetNil(t)
    BY <2>1 DEF GetNil, Die, VersionOrder
  <2>2. CASE Expire(t) \/ Lock(t) \/ ScanClean(t) \/ Get(t) \/ Flush(t) \/ Clear(t) \/ Unlock(t)
    BY <2>2 DEF Expire, Lock, ScanClean, Get, Flush, Clear, Unlock, VersionOrder
  <2> QED
    BY <1>8, <2>1, <2>2 DEF CacheRoutine
<1>9. CASE Crash
  BY <1>9 DEF Crash, Die, VersionOrder
<1>10. CASE UNCHANGED vars
  BY <1>10 DEF vars, VersionOrder
<1> QED
  BY <1>1, <1>2, <1>3, <1>4, <1>5, <1>6, <1>7, <1>8, <1>9, <1>10
     DEF Next, StartListener, ParseRoutine

LEMMA SaveConst ==
  ASSUME TypeOK, NEW f \in File, NEW c \in Content, Save(f, c)
  PROVE  /\ \A g \in File : g # f => saved'[g] = saved[g] /\ (g \in unsaved' <=> g \in unsaved)
         /\ c \in Version => f \in unsaved' \/ saved'[f] = c
         /\ c \notin Version => UNCHANGED <<saved, unsaved>>
<1>1. CASE Saved(f, c)
  BY <1>1 DEF Saved, TypeOK
<1>2. CASE Unsaved(f, c)
  BY <1>2 DEF Unsaved
<1> QED
  BY <1>1, <1>2 DEF Save

LEMMA ClearedNext ==
  CacheInv /\ ClearedIsSaved /\ [Next]_vars => ClearedIsSaved'
<1> USE DEF external, kernel, main, timer, db
<1> SUFFICES ASSUME CacheInv, ClearedIsSaved, [Next]_vars,
                    NEW u \in TimerThread, tpc'[u] = "clear",
                    cache'[Scanned(u)'] \in Version
             PROVE  \/ Scanned(u)' \in unsaved'
                    \/ saved'[Scanned(u)'] >= cache'[Scanned(u)']
  BY DEF ClearedIsSaved
<1>0. TypeOK
  BY DEF CacheInv
<1> DEFINE Goal == \/ Scanned(u)' \in unsaved'
                   \/ saved'[Scanned(u)'] >= cache'[Scanned(u)']
<1>1. ASSUME UNCHANGED <<tpc, idx, cache, saved, unsaved>> PROVE Goal
  BY <1>1 DEF ClearedIsSaved, Scanned
<1>2. ASSUME NEW f \in File, Edit(f) PROVE Goal
  BY <1>1, <1>2 DEF Edit
<1>3. CASE Boot \/ LoadSkip \/ StartInotify \/ ReadInotifyEvent \/ NextEvent \/ Open \/ ReadFile
  BY <1>1, <1>3 DEF Boot, LoadSkip, StartInotify, ReadInotifyEvent, NextEvent, Open, ReadFile
<1>4. CASE LoadSave \/ LoadSet
  BY <1>4 DEF LoadSave, LoadSet, CacheInv, StartUp
<1>5. CASE CacheFileValue
  BY <1>5, NameAssumption DEF CacheFileValue, CacheInv, MutualExclusion
<1>6. CASE SaveIncr
  <2>1. cur \in File /\ cur \notin ConstSet /\ buf \in Content
    BY <1>6, <1>0, NameAssumption DEF SaveIncr, TypeOK, File
  <2>2. UNCHANGED <<tpc, idx, cache>> /\ Save(cur, buf)
    BY <1>6 DEF SaveIncr
  <2>3. Scanned(u) \in ConstSet /\ Scanned(u)' = Scanned(u)
    BY <2>2, <1>0, ConstFileType DEF TypeOK, Scanned
  <2>4. /\ saved'[Scanned(u)] = saved[Scanned(u)]
        /\ Scanned(u) \in unsaved' <=> Scanned(u) \in unsaved
    BY <1>0, <2>1, <2>2, <2>3, SaveConst DEF File
  <2> QED
    BY <2>2, <2>3, <2>4 DEF ClearedIsSaved
<1>7. ASSUME NEW t \in TimerThread, Expire(t) \/ CacheRoutine(t) PROVE Goal
  <2>1. CASE Expire(t) \/ Lock(t) \/ ScanClean(t) \/ Get(t) \/ Clear(t) \/ Unlock(t)
    <3>1. u # t /\ tpc'[u] = tpc[u] /\ idx'[u] = idx[u]
      BY <2>1, <1>0 DEF Expire, Lock, ScanClean, Get, Clear, Unlock, TypeOK
    <3>2. UNCHANGED <<cache, saved, unsaved>>
      BY <2>1 DEF Expire, Lock, ScanClean, Get, Clear, Unlock
    <3> QED
      BY <3>1, <3>2 DEF ClearedIsSaved, Scanned
  <2>2. CASE Flush(t)
    <3>1. u = t
      BY <2>2, <1>0 DEF Flush, CacheInv, MutualExclusion, TypeOK
    <3> DEFINE f == Scanned(t)
    <3>2. f \in ConstSet /\ f \in File /\ reply[t] = cache[f] /\ reply[t] \in Content
      BY <2>2, <1>0, ConstFileType DEF Flush, TypeOK, Scanned, CacheInv, FlushIsCurrent, File
    <3>3. UNCHANGED <<idx, cache>> /\ Save(f, reply[t]) /\ f' = f
      BY <2>2 DEF Flush, Scanned
    <3>4. cache[f] \in Version => f \in unsaved' \/ saved'[f] = cache[f]
      BY <1>0, <3>2, <3>3, SaveConst
    <3> QED
      BY <3>1, <3>3, <3>4 DEF Version
  <2>3. CASE GetNil(t)
    BY <2>3 DEF GetNil, Die
  <2> QED
    BY <1>7, <2>1, <2>2, <2>3 DEF CacheRoutine
<1>8. CASE Crash
  BY <1>8 DEF Crash, Die
<1>9. CASE UNCHANGED vars
  BY <1>1, <1>9 DEF vars
<1> QED
  BY <1>2, <1>3, <1>4, <1>5, <1>6, <1>7, <1>8, <1>9
     DEF Next, StartListener, ParseRoutine

LEMMA DieClean ==
  CacheInv /\ CleanMeansSaved /\ ClearedIsSaved /\ Die => CleanMeansSaved'
<1> SUFFICES ASSUME CacheInv, CleanMeansSaved, ClearedIsSaved, Die,
                    NEW f \in ConstSet, f \notin unsaved', cache[f] \in Version
             PROVE  saved[f] >= cache[f]
  BY DEF CleanMeansSaved, Die
<1>1. f \notin unsaved /\ ~Dirty(f)
  BY DEF Die
<1>2. CASE ref[f] = 0
  BY <1>1, <1>2 DEF CleanMeansSaved
<1>3. CASE \E t \in TimerThread : tpc[t] = "clear" /\ Scanned(t) = f
  BY <1>1, <1>3 DEF ClearedIsSaved
<1> QED
  BY <1>1, <1>2, <1>3 DEF Dirty

LEMMA CleanNext == SavedInv /\ [Next]_vars => CleanMeansSaved'
<1> USE DEF external, kernel, main, timer, db
<1> SUFFICES ASSUME SavedInv, [Next]_vars PROVE CleanMeansSaved'
  OBVIOUS
<1>0. TypeOK /\ CacheInv /\ CleanMeansSaved
  BY DEF SavedInv, CacheInv
<1>1. ASSUME UNCHANGED <<ref, cache, saved, unsaved>> PROVE CleanMeansSaved'
  BY <1>0, <1>1 DEF CleanMeansSaved
<1>2. ASSUME NEW f \in File, Edit(f) PROVE CleanMeansSaved'
  BY <1>1, <1>2 DEF Edit
<1>3. CASE Boot
  <2>1. ref' = ref
    BY <1>3, <1>0 DEF Boot, CacheInv, StartUp, TypeOK
  <2> QED
    BY <1>1, <1>3, <2>1 DEF Boot
<1>4. CASE LoadSkip \/ StartInotify \/ ReadInotifyEvent \/ NextEvent \/ Open \/ ReadFile
  BY <1>1, <1>4 DEF LoadSkip, StartInotify, ReadInotifyEvent, NextEvent, Open, ReadFile
<1>5. CASE LoadSave
  <2> DEFINE g == LoadOrder[at]
  <2>1. g \in ConstSet /\ g \in File
    BY <1>5, LoadOrderType DEF LoadSave, File
  <2>2. buf' = disk[g] /\ buf' \in Content /\ Save(g, buf') /\ UNCHANGED <<ref, cache>>
    BY <1>5, <1>0, <2>1 DEF LoadSave, TypeOK
  <2>3. /\ \A f \in File : f # g => saved'[f] = saved[f] /\ (f \in unsaved' <=> f \in unsaved)
        /\ buf' \in Version => g \in unsaved' \/ saved'[g] = buf'
        /\ buf' \notin Version => UNCHANGED <<saved, unsaved>>
    BY <1>0, <2>1, <2>2, SaveConst
  <2>4. CASE buf' \in Version
    <3>1. cache[g] \in Version => cache[g] <= buf'
      BY <2>1, <2>2, <2>4 DEF SavedInv, VersionOrder, NoYounger
    <3> QED
      BY <1>0, <2>1, <2>2, <2>3, <2>4, <3>1 DEF CleanMeansSaved, File, Version
  <2>5. CASE buf' \notin Version
    BY <1>1, <2>2, <2>3, <2>5
  <2> QED
    BY <2>4, <2>5
<1>6. CASE LoadSet
  <2>1. UNCHANGED <<ref, saved, unsaved>>
    BY <1>6 DEF LoadSet
  <2>2. \A f \in ConstSet :
          cache'[f] = cache[f] \/ (f = LoadOrder[at] /\ cache'[f] = buf)
    BY <1>6, <1>0 DEF LoadSet, TypeOK
  <2>3. buf \in Version => LoadOrder[at] \in unsaved \/ saved[LoadOrder[at]] = buf
    BY <1>6, <1>0 DEF LoadSet, CacheInv, LoadedIsSaved
  <2> QED
    BY <1>0, <2>1, <2>2, <2>3 DEF CleanMeansSaved, Version
<1>7. CASE CacheFileValue
  <2>1. UNCHANGED <<saved, unsaved>> /\ ref' = [ref EXCEPT ![cur] = 1] /\ cur \in ConstSet
    BY <1>7, <1>0 DEF CacheFileValue, TypeOK
  <2>2. \A f \in ConstSet : f = cur \/ cache'[f] = cache[f]
    BY <1>7, <1>0 DEF CacheFileValue, TypeOK
  <2> QED
    BY <1>0, <2>1, <2>2 DEF CleanMeansSaved, TypeOK
<1>8. CASE SaveIncr
  <2>1. cur \in File /\ cur \notin ConstSet /\ buf \in Content
    BY <1>8, <1>0, NameAssumption DEF SaveIncr, TypeOK, File
  <2>2. UNCHANGED <<ref, cache>> /\ Save(cur, buf)
    BY <1>8 DEF SaveIncr
  <2>3. \A f \in ConstSet : saved'[f] = saved[f] /\ (f \in unsaved' <=> f \in unsaved)
    BY <1>0, <2>1, <2>2, SaveConst DEF File
  <2> QED
    BY <1>0, <2>2, <2>3 DEF CleanMeansSaved
<1>9. ASSUME NEW t \in TimerThread, Expire(t) \/ CacheRoutine(t) PROVE CleanMeansSaved'
  <2>1. CASE Expire(t) \/ Lock(t) \/ ScanClean(t) \/ Get(t) \/ Unlock(t)
    BY <1>1, <2>1 DEF Expire, Lock, ScanClean, Get, Unlock
  <2>2. CASE Flush(t)
    <3> DEFINE g == Scanned(t)
    <3>1. g \in ConstSet /\ g \in File /\ ref[g] # 0 /\ reply[t] \in Content
      BY <2>2, <1>0, ConstFileType DEF Flush, TypeOK, Scanned, CacheInv, FlushIsCurrent, File
    <3>2. UNCHANGED <<ref, cache>> /\ Save(g, reply[t])
      BY <2>2 DEF Flush
    <3>3. \A f \in File : f # g => saved'[f] = saved[f] /\ (f \in unsaved' <=> f \in unsaved)
      BY <1>0, <3>1, <3>2, SaveConst
    <3> QED
      BY <1>0, <3>1, <3>2, <3>3 DEF CleanMeansSaved, File
  <2>3. CASE Clear(t)
    <3>1. UNCHANGED <<cache, saved, unsaved>> /\ tpc[t] = "clear"
      BY <2>3 DEF Clear
    <3>2. \A f \in ConstSet : f # Scanned(t) => ref'[f] = ref[f]
      BY <2>3, <1>0 DEF Clear, TypeOK
    <3> QED
      BY <1>0, <3>1, <3>2 DEF CleanMeansSaved, SavedInv, ClearedIsSaved
  <2>4. CASE GetNil(t)
    BY <2>4, <1>0, DieClean DEF GetNil, SavedInv
  <2> QED
    BY <1>9, <2>1, <2>2, <2>3, <2>4 DEF CacheRoutine
<1>10. CASE Crash
  BY <1>10, <1>0, DieClean DEF Crash, SavedInv
<1>11. CASE UNCHANGED vars
  BY <1>1, <1>11 DEF vars
<1> QED
  BY <1>2, <1>3, <1>4, <1>5, <1>6, <1>7, <1>8, <1>9, <1>10, <1>11
     DEF Next, StartListener, ParseRoutine

LEMMA SavedInit == Init => SavedInv
<1> SUFFICES ASSUME Init PROVE SavedInv
  OBVIOUS
<1>1. Absent \notin Version
  BY NameAssumption DEF Version
<1>2. VersionOrder
  BY <1>1 DEF VersionOrder, NoYounger, Init
<1>3. ClearedIsSaved
  BY DEF ClearedIsSaved, Init
<1>4. CleanMeansSaved
  BY <1>1 DEF CleanMeansSaved, Init
<1> QED
  BY CacheInit, <1>2, <1>3, <1>4 DEF SavedInv

(* A copy in Redis that is not marked dirty is in MySQL, unless its last   *)
(* write failed or a crash forgot the mark.                                *)
THEOREM CleanIsSaved == Spec => []CleanMeansSaved
<1>1. Init => SavedInv
  BY SavedInit
<1>2. SavedInv /\ [Next]_vars => SavedInv'
  BY CacheNext, VersionOrderNext, ClearedNext, CleanNext DEF SavedInv
<1>3. SavedInv => CleanMeansSaved
  BY DEF SavedInv
<1> QED
  BY <1>1, <1>2, <1>3, PTL DEF Spec
-----------------------------------------------------------------------------
(* Versions in MySQL only grow.                                            *)

LEMMA SavedValue ==
  ASSUME TypeOK, NEW f \in File, NEW c, Save(f, c)
  PROVE  \A g \in File :
           saved'[g] = saved[g] \/ (g = f /\ c \in Version /\ saved'[g] = c)
BY DEF Save, Saved, Unsaved, TypeOK

LEMMA OrderInit == Init => OrderInv
<1> SUFFICES ASSUME Init PROVE OrderInv
  OBVIOUS
<1>1. Absent \notin Version
  BY NameAssumption DEF Version
<1>2. SavedOrder
  BY <1>1 DEF SavedOrder, Init
<1> QED
  BY SavedInit, <1>2 DEF OrderInv, SavedInv

LEMMA OrderNext ==
  ASSUME "redis" \notin Faults
  PROVE  OrderInv /\ [Next]_vars =>
           SavedOrder' /\ \A f \in File : saved'[f] >= saved[f]
<1> USE DEF external, kernel, main, timer, db
<1> DEFINE Goal == SavedOrder' /\ \A f \in File : saved'[f] >= saved[f]
<1> SUFFICES ASSUME OrderInv, [Next]_vars PROVE Goal
  OBVIOUS
<1>0. /\ CacheInv /\ TypeOK /\ VersionOrder /\ SavedOrder
      /\ CacheInv' /\ TypeOK'
      /\ Absent \notin Version /\ Torn \notin Version
      /\ \A v \in Version : v \in Nat /\ v <= v
  BY CacheNext, NameAssumption DEF OrderInv, CacheInv, Version
<1>00. saved \in [File -> Nat] /\ ConstSet \subseteq File
  BY <1>0 DEF TypeOK, File
<1>1. ASSUME UNCHANGED <<disk, edits, cache, ref, saved>>,
             pc' \in {"read", "store", "save"} => UNCHANGED <<pc, buf, cur>>
      PROVE  Goal
  BY <1>0, <1>00, <1>1 DEF SavedOrder, NoYounger
<1>2. ASSUME NEW f \in File, Edit(f) PROVE Goal
  <2>1. PICK c, m : Change(f, c, m) /\ (c \in Version => c = edits')
    BY <1>2, <1>0, NameAssumption DEF Edit, Version
  <2>2. /\ UNCHANGED <<pc, buf, cur, ref, cache, saved>>
        /\ edits' = edits + 1 /\ edits \in Nat
    BY <1>2, <1>0 DEF Edit, TypeOK
  <2>3. \A g \in File : disk'[g] = disk[g] \/ (disk'[g] \in Version => disk'[g] = edits')
    BY <2>1, <1>0 DEF Change, TypeOK
  <2>4. \A g \in File : saved'[g] <= edits' /\ (disk'[g] \in Version => saved'[g] <= disk'[g])
    BY <2>2, <2>3, <1>0, <1>00 DEF SavedOrder
  <2>5. pc' \in {"read", "store", "save"} /\ buf' \in Version =>
          NoYounger(buf, cur)' /\ saved'[cur'] <= buf'
    <3>1. SUFFICES ASSUME pc \in {"read", "store", "save"}, buf \in Version
                   PROVE  NoYounger(buf, cur)' /\ saved[cur] <= buf
      BY <2>2
    <3>2. cur \in File
      BY <3>1, <1>0, <1>00 DEF TypeOK, File
    <3> QED
      BY <3>1, <3>2, <2>2, <2>3, <1>0 DEF SavedOrder, NoYounger
  <2> QED
    BY <2>2, <2>4, <2>5, <1>0, <1>00 DEF SavedOrder
<1>3. CASE Boot \/ LoadSkip \/ StartInotify \/ ReadInotifyEvent \/ NextEvent
  <2>1. UNCHANGED <<disk, edits, cache, saved>> /\ pc' \notin {"read", "store", "save"}
    BY <1>3 DEF Boot, LoadSkip, StartInotify, ReadInotifyEvent, NextEvent
  <2>2. UNCHANGED ref
    <3>1. CASE Boot
      <4>1. /\ pc = "down" /\ ref' = [f \in ConstSet |-> 0] /\ ref \in [ConstSet -> {0, 1}]
            /\ StartUp
        BY <3>1, <1>0 DEF Boot, CacheInv, TypeOK
      <4>2. \A f \in ConstSet : ref[f] = 0
        BY <4>1 DEF StartUp
      <4> QED
        BY <4>1, <4>2
    <3>2. CASE LoadSkip \/ StartInotify
      BY <3>2 DEF LoadSkip, StartInotify
    <3>3. CASE ReadInotifyEvent \/ NextEvent
      BY <3>3 DEF ReadInotifyEvent, NextEvent
    <3> QED
      BY <1>3, <3>1, <3>2, <3>3
  <2> QED
    BY <1>1, <2>1, <2>2
<1>4. CASE LoadSave \/ LoadSet
  <2>1. /\ UNCHANGED <<disk, edits, ref>> /\ pc' \in {"set", "load"}
        /\ \A f \in ConstSet : ref[f] = 0
    BY <1>4, <1>0 DEF LoadSave, LoadSet, CacheInv, StartUp
  <2>2. \A f \in File :
          saved'[f] = saved[f] \/ (disk[f] \in Version /\ saved'[f] = disk[f])
    <3>1. CASE LoadSave
      <4>1. LoadOrder[at] \in File /\ Save(LoadOrder[at], disk[LoadOrder[at]])
        BY <3>1, LoadOrderType DEF LoadSave, File
      <4> QED
        BY <4>1, <1>0, SavedValue
    <3> QED
      BY <1>4, <3>1 DEF LoadSet
  <2>3. \A f \in File : disk[f] \in Version => disk[f] <= edits
    BY <1>0 DEF VersionOrder, NoYounger
  <2>4. \A f \in File :
          /\ saved'[f] <= edits'
          /\ disk'[f] \in Version => saved'[f] <= disk'[f]
          /\ saved'[f] >= saved[f]
    <3>1. SUFFICES ASSUME NEW f \in File
                   PROVE  /\ saved'[f] <= edits
                          /\ disk[f] \in Version => saved'[f] <= disk[f]
                          /\ saved'[f] >= saved[f]
      BY <2>1
    <3>2. saved[f] \in Nat /\ saved[f] <= edits /\ (disk[f] \in Version => saved[f] <= disk[f])
      BY <1>0, <1>00 DEF SavedOrder
    <3> QED
      BY <2>2, <2>3, <3>2, <1>0
  <2> QED
    BY <2>1, <2>4 DEF SavedOrder
<1>5. CASE Open
  <2>1. UNCHANGED <<disk, edits, cache, ref, saved, cur>>
    BY <1>5 DEF Open
  <2>2. cur \in File
    BY <1>5, <1>0 DEF Open, TypeOK
  <2>3. pc' = "next" \/ buf' = disk[cur]
    BY <1>5 DEF Open
  <2>4. NoYounger(disk[cur], cur) /\ (cur \in ConstSet => NoYounger(cache[cur], cur))
    BY <2>2, <1>0 DEF VersionOrder
  <2>5. disk[cur] \in Version => saved[cur] <= disk[cur]
    BY <2>2, <1>0 DEF SavedOrder
  <2> QED
    BY <2>1, <2>3, <2>4, <2>5, <1>0, <1>00 DEF SavedOrder, NoYounger
<1>6. CASE ReadFile
  <2>1. UNCHANGED <<disk, edits, cache, ref, saved, cur>> /\ pc = "read"
    BY <1>6 DEF ReadFile
  <2>2. cur \in File
    BY <2>1, <1>0 DEF TypeOK
  <2>3. buf' = buf \/ buf' = disk[cur] \/ buf' = Torn
    BY <1>6 DEF ReadFile, ReadOutcome
  <2>4. NoYounger(disk[cur], cur) /\ (cur \in ConstSet => NoYounger(cache[cur], cur))
    BY <2>2, <1>0 DEF VersionOrder
  <2>5. disk[cur] \in Version => saved[cur] <= disk[cur]
    BY <2>2, <1>0 DEF SavedOrder
  <2>6. buf \in Version =>
          /\ NoYounger(buf, cur) /\ saved[cur] <= buf
          /\ cur \in ConstSet => (cache[cur] \in Version => cache[cur] <= buf)
    BY <2>1, <1>0 DEF SavedOrder
  <2> QED
    BY <2>1, <2>3, <2>4, <2>5, <2>6, <1>0, <1>00 DEF SavedOrder, NoYounger
<1>7. CASE CacheFileValue
  <2>1. /\ UNCHANGED <<disk, edits, saved>> /\ pc = "store" /\ pc' = "next"
        /\ cur \in ConstSet
    BY <1>7, <1>0 DEF CacheFileValue, TypeOK
  <2>2. \A f \in ConstSet :
          IF f = cur THEN cache'[f] = Torn \/ cache'[f] = buf
          ELSE cache'[f] = cache[f] /\ ref'[f] = ref[f]
    BY <1>7, <1>0 DEF CacheFileValue, TypeOK
  <2>3. buf \in Version => saved[cur] <= buf
    BY <2>1, <1>0 DEF SavedOrder
  <2> QED
    BY <2>1, <2>2, <2>3, <1>0, <1>00 DEF SavedOrder
<1>8. CASE SaveIncr
  <2>1. /\ UNCHANGED <<disk, edits, cache, ref>> /\ pc = "save" /\ pc' = "next"
        /\ Save(cur, buf)
    BY <1>8 DEF SaveIncr
  <2>2. cur \in File /\ cur \notin ConstSet
    BY <2>1, <1>0, NameAssumption DEF TypeOK, File
  <2>3. \A f \in File :
          saved'[f] = saved[f] \/ (f = cur /\ buf \in Version /\ saved'[f] = buf)
    BY <2>1, <2>2, <1>0, SavedValue
  <2>4. buf \in Version => NoYounger(buf, cur) /\ saved[cur] <= buf
    BY <2>1, <1>0 DEF SavedOrder
  <2> QED
    BY <2>1, <2>2, <2>3, <2>4, <1>0, <1>00 DEF SavedOrder, NoYounger
<1>9. ASSUME NEW t \in TimerThread, Expire(t) \/ CacheRoutine(t) PROVE Goal
  <2>1. CASE Expire(t) \/ Lock(t) \/ ScanClean(t) \/ Get(t) \/ Unlock(t)
    BY <1>1, <2>1 DEF Expire, Lock, ScanClean, Get, Unlock
  <2>2. CASE Flush(t)
    <3> DEFINE g == Scanned(t)
    <3>1. g \in ConstSet /\ g \in File /\ ref[g] # 0 /\ reply[t] = cache[g]
      BY <2>2, <1>0, ConstFileType DEF Flush, TypeOK, Scanned, CacheInv, FlushIsCurrent, File
    <3>2. UNCHANGED <<disk, edits, pc, buf, cur, cache, ref>> /\ Save(g, cache[g])
      BY <2>2, <3>1 DEF Flush
    <3>3. \A f \in File :
            saved'[f] = saved[f] \/ (f = g /\ cache[g] \in Version /\ saved'[f] = cache[g])
      BY <3>1, <3>2, <1>0, SavedValue
    <3>4. cache[g] \in Version => saved[g] <= cache[g] /\ NoYounger(cache[g], g)
      BY <3>1, <1>0 DEF SavedOrder, VersionOrder
    <3>5. \A f \in File :
            /\ saved'[f] <= edits
            /\ disk[f] \in Version => saved'[f] <= disk[f]
            /\ saved'[f] >= saved[f]
      BY <3>1, <3>3, <3>4, <1>0, <1>00 DEF SavedOrder, NoYounger
    <3>6. pc \in {"read", "store", "save"} /\ buf \in Version =>
            NoYounger(buf, cur) /\ saved'[cur] <= buf
      <4>1. SUFFICES ASSUME pc \in {"read", "store", "save"}, buf \in Version
                     PROVE  NoYounger(buf, cur) /\ saved'[cur] <= buf
        OBVIOUS
      <4>2. cur \in File /\ (pc = "save" => cur \notin ConstSet)
        BY <4>1, <1>0, NameAssumption DEF TypeOK, File
      <4>3. NoYounger(buf, cur) /\ saved[cur] <= buf
        BY <4>1, <1>0 DEF SavedOrder
      <4>4. cur = g /\ cache[g] \in Version => cache[g] <= buf
        BY <4>1, <4>2, <3>1, <1>0 DEF SavedOrder
      <4> QED
        BY <4>2, <4>3, <4>4, <3>3
    <3>7. \A f \in ConstSet : ref[f] # 0 /\ cache[f] \in Version => saved'[f] <= cache[f]
      <4>1. \A f \in ConstSet : ref[f] # 0 /\ cache[f] \in Version => saved[f] <= cache[f]
        BY <1>0 DEF SavedOrder
      <4> QED
        BY <3>3, <4>1, <1>0, <1>00
    <3>8. SavedOrder'
      BY <3>2, <3>5, <3>6, <3>7, <1>0 DEF SavedOrder, NoYounger
    <3> QED
      BY <3>5, <3>8
  <2>3. CASE Clear(t)
    <3>1. UNCHANGED <<disk, edits, pc, buf, cur, cache, saved>>
      BY <2>3 DEF Clear
    <3>2. \A f \in ConstSet : ref'[f] # 0 => ref[f] # 0
      BY <2>3, <1>0 DEF Clear, TypeOK
    <3> QED
      BY <3>1, <3>2, <1>0, <1>00 DEF SavedOrder, NoYounger
  <2>4. CASE GetNil(t)
    BY <2>4, <1>0, <1>00 DEF GetNil, Die, SavedOrder
  <2> QED
    BY <1>9, <2>1, <2>2, <2>3, <2>4 DEF CacheRoutine
<1>10. CASE Crash
  BY <1>10, <1>0, <1>00 DEF Crash, Die, SavedOrder
<1>11. CASE UNCHANGED vars
  BY <1>1, <1>11 DEF vars
<1> QED
  BY <1>2, <1>3, <1>4, <1>5, <1>6, <1>7, <1>8, <1>9, <1>10, <1>11
     DEF Next, StartListener, ParseRoutine

(* As long as Redis obeys, no step replaces a version of a file in MySQL by*)
(* an older one: not the hourly flush, not an increment, not the loads of  *)
(* start_listener after a crash.                                           *)
THEOREM VersionsGrow ==
  ASSUME "redis" \notin Faults
  PROVE  Spec => SavedNeverRegresses
<1>1. Init => OrderInv
  BY OrderInit
<1>2. OrderInv /\ [Next]_vars => OrderInv'
  BY OrderNext, CacheNext, VersionOrderNext DEF OrderInv
<1>3. OrderInv /\ [Next]_vars => [\A f \in File : saved'[f] >= saved[f]]_vars
  BY OrderNext
<1> QED
  BY <1>1, <1>2, <1>3, PTL DEF Spec, SavedNeverRegresses
=============================================================================
