----------------------------- MODULE WatchProofs ----------------------------
(***************************************************************************)
(* No change of a watched file is missed as long as the kernel loses none, *)
(* and none overtakes another on its way to MySQL as long as every event   *)
(* finds a place in the kernel's queue.                                    *)
(***************************************************************************)
EXTENDS ListenerProofs

LEMMA QueuedKeeps ==
  ASSUME TypeOK, NEW e \in Event, NEW g, Announced(g, queue)
  PROVE  Announced(g, Queued(e))
<1>1. PICK i \in DOMAIN queue : queue[i].name = g
  BY DEF Announced
<1>2. Overflow \in Event
  BY DEF Overflow, Event
<1>3. ASSUME NEW x \in Event PROVE Announced(g, Append(queue, x))
  <2>1. i \in DOMAIN Append(queue, x) /\ Append(queue, x)[i] = queue[i]
    BY <1>1 DEF TypeOK
  <2> QED
    BY <1>1, <2>1 DEF Announced
<1> QED
  BY <1>2, <1>3 DEF Queued

LEMMA TailKeeps ==
  ASSUME NEW b \in Seq(Event), b # << >>, NEW g, Announced(g, b)
  PROVE  Head(b).name = g \/ Announced(g, Tail(b))
<1>1. PICK i \in DOMAIN b : b[i].name = g
  BY DEF Announced
<1>2. CASE i = 1
  BY <1>1, <1>2
<1>3. CASE i # 1
  <2>1. i - 1 \in DOMAIN Tail(b) /\ Tail(b)[i - 1] = b[i]
    BY <1>1, <1>3
  <2> QED
    BY <1>1, <2>1 DEF Announced
<1> QED
  BY <1>2, <1>3

LEMMA SplitKeeps ==
  ASSUME NEW q \in Seq(Event), NEW n \in 0 .. Len(q), NEW g, Announced(g, q)
  PROVE  Announced(g, SubSeq(q, 1, n)) \/ Announced(g, SubSeq(q, n + 1, Len(q)))
<1>1. PICK i \in DOMAIN q : q[i].name = g
  BY DEF Announced
<1>2. CASE i <= n
  <2>1. i \in DOMAIN SubSeq(q, 1, n) /\ SubSeq(q, 1, n)[i] = q[i]
    BY <1>1, <1>2
  <2> QED
    BY <1>1, <2>1 DEF Announced
<1>3. CASE i > n
  <2> DEFINE r == SubSeq(q, n + 1, Len(q))
  <2>1. i - n \in DOMAIN r /\ r[i - n] = q[i]
    BY <1>1, <1>3
  <2> QED
    BY <1>1, <2>1 DEF Announced
<1> QED
  BY <1>1, <1>2, <1>3

-----------------------------------------------------------------------------
(* Both kinds of files in one formula.                                     *)
Done(g) ==
  IF g \in ConstSet THEN cache[g] = disk[g] ELSE g \in unsaved \/ saved[g] = disk[g]

NoMissedChange ==
  \A g \in File \ lost : disk[g] \in Version => Done(g) \/ Pending(g)

LEMMA BothKinds == NoMissedChange <=> NoMissedUpdate /\ NoMissedIncrement
<1>1. File = ConstSet \cup IncrFile /\ ConstSet \cap IncrFile = {}
  BY NameAssumption DEF File
<1>2. \A g \in ConstSet : Done(g) <=> cache[g] = disk[g]
  BY DEF Done
<1>3. \A g \in IncrFile : Done(g) <=> g \in unsaved \/ saved[g] = disk[g]
  BY <1>1 DEF Done
<1> QED
  BY <1>1, <1>2, <1>3 DEF NoMissedChange, NoMissedUpdate, NoMissedIncrement

(* An edit of f disturbs nothing that concerns another file, and is        *)
(* announced unless it makes f one of the lost files.                      *)
LEMMA EditEffect ==
  ASSUME TypeOK, NEW f \in File, Edit(f)
  PROVE  /\ f \in lost' \/ disk'[f] \notin Version \/ Announced(f, queue')
         /\ ~watching => f \in lost'
         /\ \A g \in File : g # f => disk'[g] = disk[g] /\ (g \in lost' <=> g \in lost)
         /\ \A g \in File : Announced(g, queue) => Announced(g, queue')
<1>1. PICK c, m : Change(f, c, m) /\ (m \in Mask \/ c = Absent)
  BY DEF Edit, Mask
<1>2. disk' = [disk EXCEPT ![f] = c] /\ Notify(f, m)
  BY <1>1 DEF Change
<1>3. Absent \notin Version
  BY NameAssumption DEF Version
<1>4. ASSUME NEW g \in File, Announced(g, queue) PROVE Announced(g, queue')
  <2>1. CASE watching /\ m \in Mask
    <3>1. [name |-> f, mask |-> m] \in Event
      BY <2>1 DEF Event, Mask
    <3> QED
      BY <1>2, <1>4, <2>1, <3>1, QueuedKeeps DEF Notify
  <2>2. CASE ~(watching /\ m \in Mask)
    BY <1>2, <1>4, <2>2 DEF Notify
  <2> QED
    BY <2>1, <2>2
<1>5. f \in lost' \/ disk'[f] \notin Version \/ Announced(f, queue')
  BY <1>1, <1>2, <1>3 DEF Notify, TypeOK
<1>6. ~watching => f \in lost'
  BY <1>2 DEF Notify
<1>7. \A g \in File : g # f => disk'[g] = disk[g] /\ (g \in lost' <=> g \in lost)
  BY <1>2 DEF Notify, TypeOK
<1> QED
  BY <1>4, <1>5, <1>6, <1>7

LEMMA BatchNext == TypeOK /\ BatchInUse /\ [Next]_vars => BatchInUse'
BY DEF BatchInUse, Next, vars, external, kernel, main, timer, db, Edit, Change, StartListener,
     Boot, LoadSkip, LoadSave, LoadSet, StartInotify, ReadInotifyEvent, NextEvent,
     ParseRoutine, Open, ReadFile, CacheFileValue, SaveIncr, Expire, CacheRoutine,
     Lock, ScanClean, Get, GetNil, Flush, Clear, Unlock, Crash, Die

LEMMA InHandNext == WatchInv /\ [Next]_vars => InHandIsPresent'
<1> USE DEF external, kernel, main, timer, db
<1> SUFFICES ASSUME WatchInv, [Next]_vars PROVE InHandIsPresent'
  OBVIOUS
<1>0. TypeOK /\ CacheInv /\ InHandIsPresent
  BY DEF WatchInv, CacheInv
<1>1. ASSUME UNCHANGED <<disk, queue, main, lost>> PROVE InHandIsPresent'
  BY <1>0, <1>1 DEF InHandIsPresent
<1>2. ASSUME NEW f \in File, Edit(f) PROVE InHandIsPresent'
  <2>1. UNCHANGED main
    BY <1>2 DEF Edit
  <2>2. /\ f \in lost' \/ disk'[f] \notin Version \/ Announced(f, queue')
        /\ ~watching => f \in lost'
        /\ \A g \in File : g # f => disk'[g] = disk[g] /\ (g \in lost' <=> g \in lost)
        /\ \A g \in File : Announced(g, queue) => Announced(g, queue')
    BY <1>0, <1>2, EditEffect
  <2>3. pc \in {"read", "store", "save"} => cur \in File
    BY <1>0 DEF TypeOK, File
  <2>4. pc = "set" => ~watching /\ LoadOrder[at] \in File
    BY <1>0, LoadOrderType DEF TypeOK, CacheInv, StartUp, File
  <2>5. (pc \in {"read", "store", "save"} /\ cur \notin lost /\ disk[cur] \in Version =>
           buf = disk[cur] \/ Announced(cur, queue))'
    BY <1>0, <2>1, <2>2, <2>3 DEF InHandIsPresent
  <2>6. (pc = "set" /\ LoadOrder[at] \notin lost => buf = disk[LoadOrder[at]])'
    BY <1>0, <2>1, <2>2, <2>4 DEF InHandIsPresent
  <2> QED
    BY <2>5, <2>6 DEF InHandIsPresent
<1>3. CASE Boot \/ LoadSkip \/ LoadSet \/ StartInotify \/ ReadInotifyEvent \/ NextEvent
           \/ CacheFileValue \/ SaveIncr
  <2>1. pc' \in {"load", "wait", "next", "open"}
    BY <1>0, <1>3 DEF Boot, LoadSkip, LoadSet, StartInotify, ReadInotifyEvent, NextEvent,
         CacheFileValue, SaveIncr
  <2> QED
    BY <2>1 DEF InHandIsPresent
<1>4. CASE LoadSave
  BY <1>4 DEF LoadSave, InHandIsPresent
<1>5. CASE Open
  BY <1>5 DEF Open, InHandIsPresent
<1>6. CASE ReadFile
  <2>1. UNCHANGED <<disk, cur, queue, lost>> /\ pc = "read" /\ pc' # "set"
    BY <1>6 DEF ReadFile
  <2>2. buf = disk[cur] => buf' = disk[cur]
    BY <1>6 DEF ReadFile, ReadOutcome
  <2> QED
    BY <1>0, <2>1, <2>2 DEF InHandIsPresent
<1>7. ASSUME NEW t \in TimerThread, Expire(t) \/ CacheRoutine(t) PROVE InHandIsPresent'
  <2>1. CASE GetNil(t)
    BY <2>1 DEF GetNil, Die, InHandIsPresent
  <2>2. CASE Expire(t) \/ Lock(t) \/ ScanClean(t) \/ Get(t) \/ Flush(t) \/ Clear(t) \/ Unlock(t)
    BY <1>1, <2>2 DEF Expire, Lock, ScanClean, Get, Flush, Clear, Unlock
  <2> QED
    BY <1>7, <2>1, <2>2 DEF CacheRoutine
<1>8. CASE Crash
  BY <1>8 DEF Crash, Die, InHandIsPresent
<1>9. CASE UNCHANGED vars
  BY <1>1, <1>9 DEF vars
<1> QED
  BY <1>2, <1>3, <1>4, <1>5, <1>6, <1>7, <1>8, <1>9
     DEF Next, StartListener, ParseRoutine

LEMMA SaveOther ==
  ASSUME TypeOK, NEW f \in File, NEW c \in Content, Save(f, c)
  PROVE  \A g \in File : g # f => saved'[g] = saved[g] /\ (g \in unsaved' <=> g \in unsaved)
BY DEF Save, Saved, Unsaved, TypeOK

LEMMA NoMissedNext == WatchInv /\ [Next]_vars => NoMissedChange'
<1> USE DEF external, kernel, main, timer, db
<1> SUFFICES ASSUME WatchInv, [Next]_vars, NEW g \in File, g \notin lost', disk'[g] \in Version
             PROVE  (Done(g) \/ Pending(g))'
  BY DEF NoMissedChange
<1> DEFINE Goal == (Done(g) \/ Pending(g))'
<1>0. /\ TypeOK /\ CacheInv /\ BatchInUse /\ InHandIsPresent
      /\ g \notin lost /\ disk[g] \in Version => Done(g) \/ Pending(g)
  BY BothKinds DEF WatchInv, CacheInv, NoMissedChange
<1>v. disk'[g] \notin {Absent, Empty, Torn}
  BY NameAssumption DEF Version
<1>1. ASSUME UNCHANGED <<disk, lost, queue, main, cache, saved, unsaved>> PROVE Goal
  BY <1>0, <1>1 DEF Done, Pending, Announced
<1>2. ASSUME NEW f \in File, Edit(f) PROVE Goal
  <2>1. /\ f \in lost' \/ disk'[f] \notin Version \/ Announced(f, queue')
        /\ \A h \in File : h # f => disk'[h] = disk[h] /\ (h \in lost' <=> h \in lost)
        /\ \A h \in File : Announced(h, queue) => Announced(h, queue')
    BY <1>0, <1>2, EditEffect
  <2>2. CASE g = f
    BY <2>1, <2>2 DEF Pending, Announced
  <2>3. CASE g # f
    <3>1. UNCHANGED <<main, cache, saved, unsaved>>
      BY <1>2 DEF Edit
    <3>2. disk'[g] = disk[g] /\ g \notin lost /\ (Done(g) \/ Pending(g))
      BY <1>0, <2>1, <2>3
    <3>3. Announced(g, queue) => Announced(g, queue')
      BY <2>1
    <3> QED
      BY <3>1, <3>2, <3>3 DEF Done, Pending, Announced
  <2> QED
    BY <2>2, <2>3
<1>3. CASE Boot
  BY <1>0, <1>3 DEF Boot, Done, Pending, Announced
<1>4. CASE LoadSkip
  BY <1>0, <1>v, <1>4 DEF LoadSkip, Done, Pending, Announced
<1>5. CASE LoadSave
  <2> DEFINE f == LoadOrder[at]
  <2>1. f \in ConstSet /\ f \in File
    BY <1>5, LoadOrderType DEF LoadSave, File
  <2>2. buf' = disk[f] /\ buf' \in Content /\ Save(f, buf') /\ pc = "load" /\ pc' = "set"
    BY <1>0, <1>5, <2>1 DEF LoadSave, TypeOK
  <2>3. UNCHANGED <<disk, queue, batch, at, cache>> /\ lost' = lost \ {f}
    BY <1>5 DEF LoadSave
  <2>4. CASE g = f
    BY <2>2, <2>3, <2>4 DEF Pending
  <2>5. CASE g # f
    <3>1. saved'[g] = saved[g] /\ (g \in unsaved' <=> g \in unsaved)
      BY <1>0, <2>1, <2>2, <2>5, SaveOther
    <3> QED
      BY <1>0, <2>2, <2>3, <2>5, <3>1 DEF Done, Pending, Announced
  <2> QED
    BY <2>4, <2>5
<1>6. CASE LoadSet
  <2> DEFINE f == LoadOrder[at]
  <2>1. f \in ConstSet
    BY <1>0, <1>6, LoadOrderType DEF LoadSet, TypeOK
  <2>2. UNCHANGED <<disk, queue, batch, saved, unsaved>> /\ pc = "set" /\ lost \subseteq lost'
    BY <1>6 DEF LoadSet
  <2>3. CASE g = f
    <3>1. cache' = [cache EXCEPT ![f] = buf]
      BY <1>6, <2>3 DEF LoadSet
    <3>2. buf = disk[f]
      BY <1>0, <2>2, <2>3 DEF InHandIsPresent
    <3> QED
      BY <1>0, <2>1, <2>2, <2>3, <3>1, <3>2 DEF Done, TypeOK
  <2>4. CASE g # f
    <3>1. g \in ConstSet => cache'[g] = cache[g]
      BY <1>0, <1>6, <2>4 DEF LoadSet, TypeOK
    <3> QED
      BY <1>0, <2>2, <2>4, <3>1 DEF Done, Pending, Announced
  <2> QED
    BY <2>3, <2>4
<1>7. CASE StartInotify
  BY <1>0, <1>7 DEF StartInotify, Done, Pending, Announced
<1>8. CASE ReadInotifyEvent
  <2> DEFINE n == IF Len(queue) < BatchMax THEN Len(queue) ELSE BatchMax
  <2>1. n \in 0 .. Len(queue)
    BY <1>0, BoundAssumption DEF TypeOK
  <2>2. batch' = SubSeq(queue, 1, n) /\ queue' = SubSeq(queue, n + 1, Len(queue))
    BY <1>8 DEF ReadInotifyEvent
  <2>3. UNCHANGED <<disk, lost, cache, saved, unsaved>> /\ pc = "wait" /\ batch = << >>
    BY <1>0, <1>8 DEF ReadInotifyEvent, BatchInUse
  <2>4. ~Announced(g, batch)
    BY <2>3 DEF Announced
  <2>5. Announced(g, queue) => Announced(g, batch') \/ Announced(g, queue')
    BY <1>0, <2>1, <2>2, SplitKeeps DEF TypeOK
  <2>6. Done(g) \/ Announced(g, queue)
    BY <1>0, <2>3, <2>4 DEF Pending
  <2> QED
    BY <2>3, <2>5, <2>6 DEF Done, Pending, Announced
<1>9. CASE NextEvent
  <2>1. UNCHANGED <<disk, lost, queue, cache, saved, unsaved>> /\ pc = "next"
    BY <1>9 DEF NextEvent
  <2>2. Done(g) \/ Announced(g, queue) \/ Announced(g, batch)
    BY <1>0, <2>1 DEF Pending
  <2>3. CASE Done(g) \/ Announced(g, queue)
    BY <2>1, <2>3 DEF Done, Pending, Announced
  <2>4. CASE Announced(g, batch)
    <3>1. batch # << >> /\ batch' = Tail(batch)
      BY <1>9, <2>4 DEF NextEvent, Announced
    <3>2. CASE Announced(g, Tail(batch))
      BY <3>1, <3>2 DEF Pending, Announced
    <3>3. CASE Head(batch).name = g
      <4>1. Head(batch) # Overflow /\ g # NoFile
        BY <3>3, NameAssumption DEF Overflow
      <4>2. cur' = g /\ pc' = "open"
        BY <1>9, <3>1, <3>3, <4>1 DEF NextEvent
      <4> QED
        BY <4>2 DEF Pending
    <3> QED
      BY <1>0, <2>4, <3>1, <3>2, <3>3, TailKeeps DEF TypeOK
  <2> QED
    BY <2>2, <2>3, <2>4
<1>10. CASE Open
  BY <1>0, <1>v, <1>10 DEF Open, Done, Pending, Announced
<1>11. CASE ReadFile
  <2>1. UNCHANGED <<disk, lost, queue, batch, cur, cache, saved, unsaved>> /\ pc = "read"
    BY <1>11 DEF ReadFile
  <2>2. buf = disk[cur] => buf' = disk[cur]
    BY <1>11 DEF ReadFile, ReadOutcome
  <2>3. buf' # Empty => pc' \in {"store", "save"}
    BY <1>11 DEF ReadFile
  <2> QED
    BY <1>0, <1>v, <2>1, <2>2, <2>3 DEF Done, Pending, Announced
<1>12. CASE CacheFileValue
  <2>1. UNCHANGED <<disk, queue, batch, cur, buf, saved, unsaved>> /\ pc = "store"
        /\ lost \subseteq lost' /\ cur \in ConstSet
    BY <1>0, <1>12 DEF CacheFileValue, TypeOK
  <2>2. CASE g = cur
    <3>1. cache' = [cache EXCEPT ![cur] = IF buf = Empty THEN Torn ELSE buf]
      BY <1>12, <2>2 DEF CacheFileValue
    <3>2. buf = disk[cur] \/ Announced(cur, queue)
      BY <1>0, <2>1, <2>2 DEF InHandIsPresent
    <3>3. CASE buf = disk[cur]
      BY <1>0, <1>v, <2>1, <2>2, <3>1, <3>3 DEF Done, TypeOK
    <3>4. CASE Announced(cur, queue)
      BY <2>1, <2>2, <3>4 DEF Pending, Announced
    <3> QED
      BY <3>2, <3>3, <3>4
  <2>3. CASE g # cur
    <3>1. g \in ConstSet => cache'[g] = cache[g]
      BY <1>0, <1>12, <2>3 DEF CacheFileValue, TypeOK
    <3> QED
      BY <1>0, <2>1, <2>3, <3>1 DEF Done, Pending, Announced
  <2> QED
    BY <2>2, <2>3
<1>13. CASE SaveIncr
  <2>1. UNCHANGED <<disk, lost, queue, batch, cur, buf, cache>> /\ pc = "save"
        /\ cur \in IncrFile /\ cur \in File /\ Save(cur, buf) /\ buf \in Content
    BY <1>0, <1>13 DEF SaveIncr, TypeOK, File
  <2>2. CASE g = cur
    <3>1. buf = disk[cur] \/ Announced(cur, queue)
      BY <1>0, <2>1, <2>2 DEF InHandIsPresent
    <3>2. CASE buf = disk[cur]
      <4>1. buf \in Version => cur \in unsaved' \/ saved'[cur] = buf
        BY <1>0, <2>1 DEF Save, Saved, Unsaved, TypeOK
      <4>2. g \notin ConstSet
        BY <2>1, <2>2, NameAssumption
      <4> QED
        BY <2>1, <2>2, <3>2, <4>1, <4>2 DEF Done
    <3>3. CASE Announced(cur, queue)
      BY <2>1, <2>2, <3>3 DEF Pending, Announced
    <3> QED
      BY <3>1, <3>2, <3>3
  <2>3. CASE g # cur
    <3>1. saved'[g] = saved[g] /\ (g \in unsaved' <=> g \in unsaved)
      BY <1>0, <2>1, <2>3, SaveOther
    <3> QED
      BY <1>0, <2>1, <2>3, <3>1 DEF Done, Pending, Announced
  <2> QED
    BY <2>2, <2>3
<1>14. ASSUME NEW t \in TimerThread, Expire(t) \/ CacheRoutine(t) PROVE Goal
  <2>1. CASE Expire(t) \/ Lock(t) \/ ScanClean(t) \/ Get(t) \/ Clear(t) \/ Unlock(t)
    BY <1>1, <2>1 DEF Expire, Lock, ScanClean, Get, Clear, Unlock
  <2>2. CASE Flush(t)
    <3>1. UNCHANGED <<disk, lost, queue, main, cache>> /\ Save(Scanned(t), reply[t])
      BY <2>2 DEF Flush
    <3>2. Scanned(t) \in ConstSet /\ reply[t] \in Content
      BY <1>0, <2>2, ConstFileType DEF Flush, Scanned, TypeOK
    <3>3. g \notin ConstSet => saved'[g] = saved[g] /\ (g \in unsaved' <=> g \in unsaved)
      BY <1>0, <3>1, <3>2, SaveOther DEF File
    <3> QED
      BY <1>0, <3>1, <3>3 DEF Done, Pending, Announced
  <2>3. CASE GetNil(t)
    BY <2>3 DEF GetNil, Die
  <2> QED
    BY <1>14, <2>1, <2>2, <2>3 DEF CacheRoutine
<1>15. CASE Crash
  BY <1>15 DEF Crash, Die
<1>16. CASE UNCHANGED vars
  BY <1>1, <1>16 DEF vars
<1> QED
  BY <1>2, <1>3, <1>4, <1>5, <1>6, <1>7, <1>8, <1>9, <1>10, <1>11, <1>12, <1>13,
     <1>14, <1>15, <1>16 DEF Next, StartListener, ParseRoutine

LEMMA WatchInit == Init => WatchInv
<1> SUFFICES ASSUME Init PROVE WatchInv
  OBVIOUS
<1>1. BatchInUse /\ InHandIsPresent
  BY DEF Init, BatchInUse, InHandIsPresent
<1>2. NoMissedUpdate /\ NoMissedIncrement
  BY DEF Init, NoMissedUpdate, NoMissedIncrement, File
<1> QED
  BY CacheInit, <1>1, <1>2 DEF WatchInv

LEMMA WatchNext == WatchInv /\ [Next]_vars => WatchInv'
<1> SUFFICES ASSUME WatchInv, [Next]_vars PROVE WatchInv'
  OBVIOUS
<1>1. CacheInv' /\ BatchInUse'
  BY CacheNext, BatchNext DEF WatchInv, CacheInv
<1>2. InHandIsPresent'
  BY InHandNext
<1>3. (NoMissedUpdate /\ NoMissedIncrement)'
  <2>1. (NoMissedChange <=> NoMissedUpdate /\ NoMissedIncrement)'
    BY BothKinds, PTL
  <2> QED
    BY <2>1, NoMissedNext
<1> QED
  BY <1>1, <1>2, <1>3 DEF WatchInv

(* However edits, reads, flushes and crashes interleave, a constant file   *)
(* none of whose events was lost is in Redis as it is in the directory, or *)
(* the main thread still has its change before it.                         *)
THEOREM UpdatesAreNotMissed == Spec => []NoMissedUpdate
<1>1. WatchInv => NoMissedUpdate
  BY DEF WatchInv
<1> QED
  BY <1>1, WatchInit, WatchNext, PTL DEF Spec

(* The same for the incremental files and MySQL.                           *)
THEOREM IncrementsAreNotMissed == Spec => []NoMissedIncrement
<1>1. WatchInv => NoMissedIncrement
  BY DEF WatchInv
<1> QED
  BY <1>1, WatchInit, WatchNext, PTL DEF Spec
-----------------------------------------------------------------------------
(* The order of the incremental files, when every event finds a place.     *)

LEMMA AppendKeeps ==
  ASSUME NEW q \in Seq(Event), NEW e \in Event
  PROVE  /\ DOMAIN Append(q, e) = 1 .. Len(q) + 1 /\ DOMAIN q = 1 .. Len(q) /\ Len(q) \in Nat
         /\ \A i \in DOMAIN q : i \in DOMAIN Append(q, e) /\ Append(q, e)[i] = q[i]
         /\ Append(q, e)[Len(q) + 1] = e
         /\ \A g : Announced(g, q) => Announced(g, Append(q, e))
         /\ \A g : \A i \in DOMAIN q : Follows(g, q, i) => Follows(g, Append(q, e), i)
<1>1. /\ DOMAIN Append(q, e) = 1 .. Len(q) + 1 /\ DOMAIN q = 1 .. Len(q) /\ Len(q) \in Nat
      /\ \A i \in DOMAIN q : i \in DOMAIN Append(q, e) /\ Append(q, e)[i] = q[i]
      /\ Append(q, e)[Len(q) + 1] = e
  OBVIOUS
<1> QED
  BY <1>1 DEF Announced, Follows

(* Every edit of f the kernel reports makes f the name of the last event.  *)
LEMMA EditInOrder ==
  ASSUME TypeOK, NothingDropped, MaxEdit <= QueueMax, NEW f \in File, Edit(f)
  PROVE  /\ edits' = edits + 1
         /\ disk'[f] \in Version => disk'[f] = edits + 1
         /\ \A g \in File : g # f => disk'[g] = disk[g] /\ (g \in lost' <=> g \in lost)
         /\ queue' = queue \/ \E e \in Event : e.name = f /\ queue' = Append(queue, e)
         /\ \/ f \in lost' \/ disk'[f] \notin Version
            \/ Len(queue') \in DOMAIN queue' /\ queue'[Len(queue')].name = f
<1>1. PICK c, m : /\ Change(f, c, m) /\ (m \in Mask \/ c = Absent)
                  /\ c \in {Empty, Torn, Absent, edits + 1}
  BY DEF Edit, Mask
<1>2. edits' = edits + 1 /\ edits < MaxEdit
  BY DEF Edit
<1>3. disk' = [disk EXCEPT ![f] = c] /\ Notify(f, m)
  BY <1>1 DEF Change
<1>4. Absent \notin Version /\ Empty \notin Version /\ Torn \notin Version
  BY NameAssumption DEF Version
<1>5. disk'[f] = c /\ (c \in Version => c = edits + 1)
  BY <1>1, <1>3, <1>4 DEF TypeOK
<1>6. \A g \in File : g # f => disk'[g] = disk[g] /\ (g \in lost' <=> g \in lost)
  BY <1>3 DEF TypeOK, Notify
<1>7. CASE watching /\ m \in Mask
  <2> DEFINE e == [name |-> f, mask |-> m]
  <2>1. e \in Event
    BY <1>7 DEF Event, Mask
  <2>2. queue' = Queued(e) /\ queue \in Seq(Event) /\ Len(queue) \in Nat
    BY <1>3, <1>7 DEF Notify, TypeOK
  <2>3. Len(queue) < QueueMax
    BY <1>2, <2>2, BoundAssumption DEF NothingDropped, TypeOK
  <2>4. CASE queue # << >> /\ queue[Len(queue)] = e
    <3>1. queue' = queue /\ Len(queue) \in DOMAIN queue
      BY <2>2, <2>4 DEF Queued
    <3> QED
      BY <1>2, <1>5, <1>6, <2>4, <3>1
  <2>5. CASE ~(queue # << >> /\ queue[Len(queue)] = e)
    <3>1. queue' = Append(queue, e)
      BY <2>2, <2>3, <2>5 DEF Queued
    <3>2. Len(queue') \in DOMAIN queue' /\ queue'[Len(queue')] = e
      BY <2>1, <2>2, <3>1
    <3> QED
      BY <1>2, <1>5, <1>6, <2>1, <3>1, <3>2
  <2> QED
    BY <2>4, <2>5
<1>8. CASE ~watching
  BY <1>2, <1>3, <1>5, <1>6, <1>8 DEF Notify
<1>9. CASE watching /\ m \notin Mask
  BY <1>1, <1>2, <1>3, <1>4, <1>5, <1>6, <1>9 DEF Notify
<1> QED
  BY <1>7, <1>8, <1>9

LEMMA SplitIs ==
  ASSUME NEW q \in Seq(Event), NEW n \in 0 .. Len(q)
  PROVE  LET a == SubSeq(q, 1, n)
             b == SubSeq(q, n + 1, Len(q))
         IN  /\ DOMAIN a = 1 .. n /\ \A i \in 1 .. n : a[i] = q[i]
             /\ DOMAIN b = 1 .. Len(q) - n /\ \A i \in 1 .. Len(q) - n : b[i] = q[n + i]
             /\ Len(b) = Len(q) - n /\ Len(q) \in Nat /\ DOMAIN q = 1 .. Len(q)
OBVIOUS

LEMMA TailIs ==
  ASSUME NEW b \in Seq(Event), b # << >>
  PROVE  /\ Head(b) = b[1] /\ 1 \in DOMAIN b /\ DOMAIN b = 1 .. Len(b) /\ Len(b) \in Nat
         /\ DOMAIN Tail(b) = 1 .. Len(b) - 1
         /\ \A i \in 1 .. Len(b) - 1 : Tail(b)[i] = b[i + 1]
OBVIOUS

LEMMA ReadIs ==
  ASSUME TypeOK, ReadInotifyEvent
  PROVE  /\ \E n \in 0 .. Len(queue) : /\ batch' = SubSeq(queue, 1, n)
                                       /\ queue' = SubSeq(queue, n + 1, Len(queue))
         /\ UNCHANGED <<disk, edits, cur, buf, lost, cache, row, saved, unsaved>>
         /\ pc = "wait" /\ pc' = "next" /\ queue \in Seq(Event)
<1> DEFINE n == IF Len(queue) < BatchMax THEN Len(queue) ELSE BatchMax
<1>1. n \in 0 .. Len(queue)
  BY BoundAssumption DEF TypeOK
<1> QED
  BY <1>1 DEF ReadInotifyEvent, external, db, TypeOK

LEMMA NothingDroppedNext ==
  ASSUME TypeOK, NothingDropped, MaxEdit <= QueueMax, [Next]_vars
  PROVE  NothingDropped'
<1>0. edits \in Nat /\ queue \in Seq(Event) /\ batch \in Seq(Event) /\ Len(queue) \in Nat
  BY DEF TypeOK
<1>1. ASSUME UNCHANGED <<edits, queue, batch>> PROVE NothingDropped'
  BY <1>1 DEF NothingDropped
<1>2. ASSUME NEW f \in File, Edit(f) PROVE NothingDropped'
  <2>1. edits' = edits + 1 /\ batch' = batch
    BY <1>2 DEF Edit, main
  <2>2. CASE queue' = queue
    BY <1>0, <2>1, <2>2 DEF NothingDropped
  <2>3. CASE \E e \in Event : e.name = f /\ queue' = Append(queue, e)
    <3>1. PICK e \in Event : e.name = f /\ queue' = Append(queue, e)
      BY <2>3
    <3>2. Len(queue') = Len(queue) + 1
      BY <1>0, <3>1
    <3>3. \A i \in DOMAIN queue' : queue'[i].name \in File
      BY <1>0, <3>1, AppendKeeps DEF NothingDropped
    <3> QED
      BY <1>0, <2>1, <3>2, <3>3 DEF NothingDropped
  <2> QED
    BY <1>2, <2>2, <2>3, EditInOrder
<1>3. CASE ReadInotifyEvent
  <2>1. PICK n \in 0 .. Len(queue) : /\ batch' = SubSeq(queue, 1, n)
                                     /\ queue' = SubSeq(queue, n + 1, Len(queue))
    BY <1>3, ReadIs
  <2>2. edits' = edits
    BY <1>3, ReadIs
  <2>3. Len(queue') <= edits
    BY <1>0, <2>1, SplitIs DEF NothingDropped
  <2>4. \A i \in DOMAIN queue' : queue'[i].name \in File
    BY <1>0, <2>1, SplitIs DEF NothingDropped
  <2>5. \A i \in DOMAIN batch' : batch'[i].name \in File
    BY <1>0, <2>1, SplitIs DEF NothingDropped
  <2> QED
    BY <2>2, <2>3, <2>4, <2>5 DEF NothingDropped
<1>4. CASE NextEvent
  <2>1. UNCHANGED <<edits, queue>> /\ (batch' = batch \/ (batch # << >> /\ batch' = Tail(batch)))
    BY <1>4 DEF NextEvent, external, kernel
  <2>2. batch # << >> => \A i \in DOMAIN Tail(batch) : Tail(batch)[i].name \in File
    BY <1>0, TailIs DEF NothingDropped
  <2> QED
    BY <2>1, <2>2 DEF NothingDropped
<1>5. ASSUME Die PROVE NothingDropped'
  BY <1>0, <1>5 DEF Die, external, NothingDropped
<1>6. CASE \/ StartListener \/ ParseRoutine
           \/ \E t \in TimerThread : Expire(t) \/ (CacheRoutine(t) /\ ~GetNil(t))
           \/ UNCHANGED vars
  <2>1. UNCHANGED <<edits, queue, batch>>
    BY <1>6 DEF vars, external, kernel, main, StartListener, Boot, LoadSkip, LoadSave, LoadSet,
         StartInotify, ParseRoutine, Open, ReadFile, CacheFileValue, SaveIncr, Expire, CacheRoutine,
         Lock, ScanClean, Get, Flush, Clear, Unlock
  <2> QED
    BY <1>1, <2>1
<1> QED
  BY <1>2, <1>3, <1>4, <1>5, <1>6 DEF Next, Crash, CacheRoutine, GetNil

(* Steps that leave the files of the events alone and take no version in   *)
(* hand.                                                                   *)
LEMMA OrderStays ==
  ASSUME InOrder, UNCHANGED <<disk, queue, batch>>,
         \A g \in IncrFile : g \in lost => g \in lost',
         \/ pc' \notin {"open", "read", "save"}
         \/ UNCHANGED <<pc, cur, buf>>
  PROVE  InOrder'
<1>1. \A g \in IncrFile : \A v : Newer(g, v)' => Newer(g, v)
  BY DEF Newer
<1>2. \A g : Coming(g)' <=> Coming(g)
  BY DEF Coming, Announced
<1> QED
  BY <1>1, <1>2 DEF InOrder, Follows, Announced

LEMMA EditOrder ==
  ASSUME TypeOK, VersionOrder, NothingDropped, InOrder, MaxEdit <= QueueMax,
         NEW f \in File, Edit(f)
  PROVE  InOrder'
<1>0. edits \in Nat /\ queue \in Seq(Event) /\ \A g \in IncrFile : g \in File
  BY DEF TypeOK, File
<1>1. UNCHANGED <<pc, batch, cur, buf>>
  BY DEF Edit, main
<1>2. /\ edits' = edits + 1
      /\ disk'[f] \in Version => disk'[f] = edits + 1
      /\ \A g \in File : g # f => disk'[g] = disk[g] /\ (g \in lost' <=> g \in lost)
      /\ queue' = queue \/ \E e \in Event : e.name = f /\ queue' = Append(queue, e)
      /\ \/ f \in lost' \/ disk'[f] \notin Version
         \/ Len(queue') \in DOMAIN queue' /\ queue'[Len(queue')].name = f
  BY EditInOrder
<1>3. /\ \A g : Announced(g, queue) => Announced(g, queue')
      /\ \A g : \A i \in DOMAIN queue : Follows(g, queue, i) => Follows(g, queue', i)
      /\ \A i \in DOMAIN queue : queue'[i] = queue[i]
      /\ \A i \in DOMAIN queue' : i \in DOMAIN queue \/ queue'[i].name = f
      /\ \A i \in DOMAIN queue' : i <= Len(queue')
  <2>1. CASE queue' = queue
    BY <1>0, <2>1 DEF Announced, Follows
  <2>2. CASE \E e \in Event : e.name = f /\ queue' = Append(queue, e)
    <3>1. PICK e \in Event : e.name = f /\ queue' = Append(queue, e)
      BY <2>2
    <3>2. Len(queue') = Len(queue) + 1
      BY <1>0, <3>1
    <3> QED
      BY <1>0, <3>1, <3>2, AppendKeeps
  <2> QED
    BY <1>2, <2>1, <2>2
<1>4. f \notin lost' /\ disk'[f] \in Version => Announced(f, queue')
  BY <1>2 DEF Announced
(* Nothing is newer than what the edit has made of f.                      *)
<1>5. ASSUME NEW g \in IncrFile, g # f, NEW h \in File, Newer(g, disk[h])'
      PROVE  h # f /\ Newer(g, disk[h])
  <2>1. disk'[g] = disk[g] /\ g \notin lost /\ disk[g] \in Version /\ disk[g] <= edits
    BY <1>0, <1>2, <1>5 DEF Newer, VersionOrder, NoYounger
  <2>2. h # f
    BY <1>0, <1>2, <1>5, <2>1 DEF Newer, Version
  <2> QED
    BY <1>2, <1>5, <2>1, <2>2 DEF Newer
<1>6. ASSUME NEW g \in IncrFile, g # f, NEW v, Newer(g, v)'
      PROVE  Newer(g, v)
  BY <1>0, <1>2, <1>6 DEF Newer
<1>7. \A g : Coming(g) => Coming(g)'
  BY <1>1, <1>3 DEF Coming, Announced
<1>8. pc \in {"open", "read"} => cur \in File
  BY DEF TypeOK
<1> SUFFICES ASSUME NEW g \in IncrFile
             PROVE  /\ \A i \in DOMAIN queue' :
                         Newer(g, disk[queue[i].name])' => Follows(g, queue', i)
                    /\ \A i \in DOMAIN batch :
                         Newer(g, disk[batch[i].name])' => Follows(g, batch, i) \/ Announced(g, queue')
                    /\ pc \in {"open", "read"} /\ Newer(g, disk[cur])' => Coming(g)'
                    /\ pc \in {"read", "save"} /\ Newer(g, buf)' => Coming(g)'
  BY <1>1 DEF InOrder, Follows, Announced
<1>9. CASE g = f
  <2>1. ASSUME NEW v, Newer(g, v)' PROVE Announced(f, queue') /\ Coming(f)'
    BY <1>4, <1>9, <2>1 DEF Newer, Coming, Announced
  <2>2. ASSUME NEW i \in DOMAIN queue', Newer(g, disk[queue[i].name])'
        PROVE  Follows(g, queue', i)
    <3>1. Len(queue') \in DOMAIN queue' /\ queue'[Len(queue')].name = f
      BY <1>2, <1>9, <2>2 DEF Newer
    <3>2. disk'[queue'[i].name] < disk'[f] /\ disk'[f] \in Nat
      BY <1>9, <2>2 DEF Newer, Version
    <3>3. i # Len(queue')
      BY <3>1, <3>2
    <3>4. i < Len(queue')
      BY <1>0, <1>2, <1>3, <3>1, <3>3, AppendKeeps
    <3> QED
      BY <1>9, <3>1, <3>4 DEF Follows
  <2> QED
    BY <1>9, <2>1, <2>2
<1>10. CASE g # f
  <2>1. ASSUME NEW i \in DOMAIN queue', Newer(g, disk[queue[i].name])'
        PROVE  Follows(g, queue', i)
    <3>1. queue'[i].name \in File
      BY <1>0, <1>2, <1>3 DEF NothingDropped
    <3>2. queue'[i].name # f /\ Newer(g, disk[queue'[i].name])
      BY <1>5, <1>10, <2>1, <3>1
    <3>3. i \in DOMAIN queue /\ queue'[i] = queue[i]
      BY <1>3, <3>2
    <3> QED
      BY <1>3, <3>2, <3>3 DEF InOrder
  <2>2. ASSUME NEW i \in DOMAIN batch, Newer(g, disk[batch[i].name])'
        PROVE  Follows(g, batch, i) \/ Announced(g, queue')
    <3>1. Newer(g, disk[batch[i].name])
      BY <1>1, <1>5, <1>10, <2>2 DEF NothingDropped
    <3> QED
      BY <1>3, <3>1 DEF InOrder
  <2>3. pc \in {"open", "read"} /\ Newer(g, disk[cur])' => Coming(g)'
    BY <1>1, <1>5, <1>7, <1>8, <1>10 DEF InOrder
  <2>4. pc \in {"read", "save"} /\ Newer(g, buf)' => Coming(g)'
    BY <1>1, <1>6, <1>7, <1>10 DEF InOrder
  <2> QED
    BY <2>1, <2>2, <2>3, <2>4
<1> QED
  BY <1>9, <1>10

LEMMA ReadOrder ==
  ASSUME TypeOK, BatchInUse, InOrder, ReadInotifyEvent
  PROVE  InOrder'
<1>1. PICK n \in 0 .. Len(queue) : /\ batch' = SubSeq(queue, 1, n)
                                   /\ queue' = SubSeq(queue, n + 1, Len(queue))
  BY ReadIs
<1>2. UNCHANGED <<disk, lost>> /\ pc' = "next" /\ queue \in Seq(Event)
  BY ReadIs
<1>3. /\ DOMAIN batch' = 1 .. n /\ \A i \in 1 .. n : batch'[i] = queue[i]
      /\ DOMAIN queue' = 1 .. Len(queue) - n
      /\ \A i \in 1 .. Len(queue) - n : queue'[i] = queue[n + i]
      /\ Len(queue) \in Nat /\ DOMAIN queue = 1 .. Len(queue)
  BY <1>1, <1>2, SplitIs
<1> SUFFICES ASSUME NEW g \in IncrFile
             PROVE  /\ \A i \in DOMAIN queue' :
                         Newer(g, disk[queue'[i].name]) => Follows(g, queue', i)
                    /\ \A i \in DOMAIN batch' :
                         Newer(g, disk[batch'[i].name]) => Follows(g, batch', i) \/ Announced(g, queue')
  BY <1>2 DEF InOrder, Follows, Announced, Newer
<1>4. ASSUME NEW i \in DOMAIN queue, Newer(g, disk[queue[i].name])
      PROVE  \E j \in DOMAIN queue : i < j /\ queue[j].name = g
  BY <1>4 DEF InOrder, Follows
<1>5. ASSUME NEW i \in DOMAIN queue', Newer(g, disk[queue'[i].name])
      PROVE  Follows(g, queue', i)
  <2>1. n + i \in DOMAIN queue /\ queue'[i] = queue[n + i] /\ i \in Nat
    BY <1>3
  <2>2. PICK j \in DOMAIN queue : n + i < j /\ queue[j].name = g
    BY <1>4, <1>5, <2>1
  <2>3. j - n \in DOMAIN queue' /\ i < j - n /\ n + (j - n) = j
    BY <1>3, <2>1, <2>2
  <2> QED
    BY <1>3, <2>2, <2>3 DEF Follows
<1>6. ASSUME NEW i \in DOMAIN batch', Newer(g, disk[batch'[i].name])
      PROVE  Follows(g, batch', i) \/ Announced(g, queue')
  <2>1. i \in DOMAIN queue /\ batch'[i] = queue[i]
    BY <1>3
  <2>2. PICK j \in DOMAIN queue : i < j /\ queue[j].name = g
    BY <1>4, <1>6, <2>1
  <2>3. CASE j <= n
    BY <1>3, <2>2, <2>3 DEF Follows
  <2>4. CASE j > n
    <3>1. j - n \in DOMAIN queue' /\ n + (j - n) = j
      BY <1>3, <2>2, <2>4
    <3> QED
      BY <1>3, <2>2, <3>1 DEF Announced
  <2> QED
    BY <1>3, <2>3, <2>4
<1> QED
  BY <1>5, <1>6

LEMMA NextEventOrder ==
  ASSUME TypeOK, NothingDropped, InOrder, NextEvent
  PROVE  InOrder'
<1>1. UNCHANGED <<disk, lost, queue>> /\ batch \in Seq(Event)
  BY DEF NextEvent, external, kernel, TypeOK
<1>2. CASE batch = << >>
  <2>1. pc' = "wait" /\ batch' = batch
    BY <1>2 DEF NextEvent
  <2> QED
    BY <1>1, <2>1, OrderStays
<1>3. CASE batch # << >>
  <2>1. batch' = Tail(batch) /\ pc' \in {"next", "open"}
    BY <1>3 DEF NextEvent
  <2>2. /\ Head(batch) = batch[1] /\ 1 \in DOMAIN batch /\ DOMAIN batch = 1 .. Len(batch)
        /\ Len(batch) \in Nat /\ DOMAIN batch' = 1 .. Len(batch) - 1
        /\ \A i \in 1 .. Len(batch) - 1 : batch'[i] = batch[i + 1]
    BY <1>1, <1>3, <2>1, TailIs
  <2>3. Head(batch) # Overflow
    BY <2>2, NameAssumption DEF NothingDropped, Overflow
  <2>4. cur' = batch[1].name
    BY <1>3, <2>2, <2>3 DEF NextEvent
  <2>5. ASSUME NEW g \in IncrFile, NEW i \in DOMAIN batch, Follows(g, batch, i)
        PROVE  Announced(g, batch') /\ (i > 1 => Follows(g, batch', i - 1))
    <3>1. PICK j \in DOMAIN batch : i < j /\ batch[j].name = g
      BY <2>5 DEF Follows
    <3>2. /\ j - 1 \in DOMAIN batch' /\ i - 1 < j - 1 /\ (j - 1) + 1 = j
          /\ batch'[j - 1] = batch[j]
      BY <2>2, <3>1
    <3> QED
      BY <3>1, <3>2 DEF Announced, Follows
  <2>6. ASSUME NEW g \in IncrFile, NEW i \in DOMAIN batch', Newer(g, disk[batch'[i].name])
        PROVE  Follows(g, batch', i) \/ Announced(g, queue)
    <3>1. i + 1 \in DOMAIN batch /\ batch'[i] = batch[i + 1] /\ (i + 1) - 1 = i /\ i + 1 > 1
      BY <2>2
    <3>2. Follows(g, batch, i + 1) \/ Announced(g, queue)
      BY <2>6, <3>1 DEF InOrder
    <3> QED
      BY <2>5, <3>1, <3>2
  <2>7. ASSUME NEW g \in IncrFile, Newer(g, disk[cur'])
        PROVE  Announced(g, batch') \/ Announced(g, queue)
    <3>1. Follows(g, batch, 1) \/ Announced(g, queue)
      BY <2>2, <2>4, <2>7 DEF InOrder
    <3> QED
      BY <2>2, <2>5, <3>1
  <2>8. \A g \in IncrFile :
          \A i \in DOMAIN queue : Newer(g, disk[queue[i].name]) => Follows(g, queue, i)
    BY DEF InOrder
  <2> QED
    BY <1>1, <2>1, <2>6, <2>7, <2>8 DEF InOrder, Follows, Announced, Newer, Coming
<1> QED
  BY <1>2, <1>3

LEMMA InOrderNext ==
  ASSUME CacheInv, VersionOrder, BatchInUse, NothingDropped, InOrder, MaxEdit <= QueueMax, [Next]_vars
  PROVE  InOrder'
<1> USE DEF external, kernel, main, timer, db
<1>0. TypeOK
  BY DEF CacheInv
<1>1. \A g \in IncrFile : g \notin ConstSet /\ g \in File
  BY NameAssumption DEF File
<1>2. CASE \E f \in File : Edit(f)
  BY <1>0, <1>2, EditOrder
<1>3. CASE StartListener
  <2>1. UNCHANGED <<disk, queue, batch>> /\ pc' \notin {"open", "read", "save"}
    BY <1>3 DEF StartListener, Boot, LoadSkip, LoadSave, LoadSet, StartInotify
  <2>2. \A g \in IncrFile : g \in lost => g \in lost'
    BY <1>1, <1>3, LoadOrderType
       DEF StartListener, Boot, LoadSkip, LoadSave, LoadSet, StartInotify
  <2> QED
    BY <2>1, <2>2, OrderStays
<1>4. CASE ReadInotifyEvent \/ NextEvent
  BY <1>0, <1>4, ReadOrder, NextEventOrder
<1>5. CASE Open
  <2>1. UNCHANGED <<disk, queue, batch, cur, lost>> /\ pc = "open" /\ pc' \in {"next", "read"}
        /\ (pc' = "read" => buf' = disk[cur])
    BY <1>5 DEF Open
  <2> QED
    BY <2>1 DEF InOrder, Follows, Announced, Newer, Coming
<1>6. CASE ReadFile
  <2>1. UNCHANGED <<disk, queue, batch, cur, lost>> /\ pc = "read"
        /\ pc' \in {"store", "save", "next"} /\ buf' \in ReadOutcome(buf, disk[cur])
    BY <1>6 DEF ReadFile
  <2>2. buf' \in Version => buf' = buf \/ buf' = disk[cur]
    BY <2>1, NameAssumption DEF ReadOutcome, Version
  <2>3. \A g \in IncrFile : Newer(g, buf') => Coming(g)
    BY <2>1, <2>2 DEF InOrder, Newer
  <2> QED
    BY <2>1, <2>3 DEF InOrder, Follows, Announced, Newer, Coming
<1>7. CASE CacheFileValue \/ SaveIncr
  <2>1. UNCHANGED <<disk, queue, batch>> /\ pc' = "next" /\ lost \subseteq lost'
    BY <1>7 DEF CacheFileValue, SaveIncr
  <2> QED
    BY <2>1, OrderStays
<1>8. ASSUME Die PROVE InOrder'
  BY <1>8 DEF Die, InOrder, Newer
<1>9. CASE UNCHANGED vars \/ \E t \in TimerThread : Expire(t) \/ (CacheRoutine(t) /\ ~GetNil(t))
  <2>1. UNCHANGED <<disk, queue, batch, pc, cur, buf, lost>>
    BY <1>9 DEF vars, Expire, CacheRoutine, Lock, ScanClean, Get, Flush, Clear, Unlock
  <2> QED
    BY <2>1, OrderStays
<1> QED
  BY <1>2, <1>3, <1>4, <1>5, <1>6, <1>7, <1>8, <1>9
     DEF Next, ParseRoutine, Crash, CacheRoutine, GetNil

-----------------------------------------------------------------------------
(* The rows.                                                               *)

(* The table of g holds nothing older than g, or what a constant file left.*)
Newest(g) ==
  \/ row[Table[g]] >= disk[g]
  \/ \E f \in ConstSet : Table[f] = Table[g] /\ row[Table[g]] = saved[f]

LEMMA SaveRow ==
  ASSUME TypeOK, NEW f \in File, NEW c \in Content, Save(f, c), NEW g \in File
  PROVE  /\ \/ c \in Version /\ row'[Table[f]] = c /\ saved'[f] = c
            \/ UNCHANGED <<row, saved>>
         /\ Table[g] # Table[f] => row'[Table[g]] = row[Table[g]]
         /\ g # f => saved'[g] = saved[g] /\ (g \in unsaved' <=> g \in unsaved)
BY DEF Save, Saved, Unsaved, TypeOK

LEMMA ConstSaveKeeps ==
  ASSUME TypeOK, NEW f \in ConstSet, NEW c \in Content, Save(f, c), UNCHANGED disk,
         NEW g \in IncrFile, Newest(g)
  PROVE  Newest(g)' /\ (g \in unsaved' <=> g \in unsaved)
<1>1. f \in File /\ g \in File /\ g # f /\ \A h \in ConstSet : h \in File
  BY NameAssumption DEF File
<1>2. \A h \in File :
        /\ Table[h] # Table[f] => row'[Table[h]] = row[Table[h]]
        /\ h # f => saved'[h] = saved[h] /\ (h \in unsaved' <=> h \in unsaved)
  BY <1>1, SaveRow
<1>3. row'[Table[f]] = saved'[f] \/ UNCHANGED <<row, saved>>
  BY <1>1, SaveRow
<1>4. CASE Table[g] = Table[f]
  BY <1>1, <1>2, <1>3, <1>4 DEF Newest
<1>5. CASE Table[g] # Table[f]
  BY <1>1, <1>2, <1>5 DEF Newest
<1> QED
  BY <1>1, <1>2, <1>4, <1>5

LEMMA IncrSaveKeeps ==
  ASSUME TypeOK, NEW f \in IncrFile, NEW c \in Content, Save(f, c), UNCHANGED disk,
         NEW g \in IncrFile, Newest(g), disk[g] \in Version
  PROVE  Newest(g)' \/ (c \in Version /\ c < disk[g])
<1>1. f \in File /\ g \in File /\ \A h \in ConstSet : h \in File /\ h # f
  BY NameAssumption DEF File
<1>2. \A h \in File :
        /\ Table[h] # Table[f] => row'[Table[h]] = row[Table[h]]
        /\ h # f => saved'[h] = saved[h]
  BY <1>1, SaveRow
<1>3. (c \in Version /\ row'[Table[f]] = c) \/ UNCHANGED <<row, saved>>
  BY <1>1, SaveRow
<1>4. CASE Table[g] = Table[f]
  BY <1>1, <1>2, <1>3, <1>4 DEF Newest, Version
<1>5. CASE Table[g] # Table[f]
  BY <1>1, <1>2, <1>5 DEF Newest
<1> QED
  BY <1>4, <1>5

LEMMA NewestNext ==
  ASSUME WatchInv, NothingDropped, InOrder, NewestOrPending, [Next]_vars
  PROVE  NewestOrPending'
<1> USE DEF external, kernel, main, timer, db
<1>0. /\ TypeOK /\ CacheInv /\ BatchInUse /\ InHandIsPresent
      /\ \A g \in IncrFile : g \in File /\ g \notin ConstSet
  BY NameAssumption DEF WatchInv, CacheInv, File
<1> SUFFICES ASSUME NEW g \in IncrFile, g \notin lost', g \notin unsaved', disk'[g] \in Version
             PROVE  Newest(g)' \/ Pending(g)'
  BY DEF NewestOrPending, Newest
<1> DEFINE Goal == Newest(g)' \/ Pending(g)'
<1>a. g \notin lost /\ g \notin unsaved /\ disk[g] \in Version => Newest(g) \/ Pending(g)
  BY DEF NewestOrPending, Newest
<1>v. disk'[g] \notin {Absent, Empty, Torn}
  BY NameAssumption DEF Version
<1>1. ASSUME UNCHANGED <<disk, lost, queue, main, row, saved, unsaved>> PROVE Goal
  BY <1>a, <1>1 DEF Newest, Pending, Announced
<1>2. ASSUME NEW f \in File, Edit(f) PROVE Goal
  <2>1. /\ f \in lost' \/ disk'[f] \notin Version \/ Announced(f, queue')
        /\ \A h \in File : h # f => disk'[h] = disk[h] /\ (h \in lost' <=> h \in lost)
        /\ \A h \in File : Announced(h, queue) => Announced(h, queue')
    BY <1>0, <1>2, EditEffect
  <2>2. CASE g = f
    BY <2>1, <2>2 DEF Pending, Announced
  <2>3. CASE g # f
    <3>1. UNCHANGED <<main, row, saved, unsaved>>
      BY <1>2 DEF Edit
    <3>2. disk'[g] = disk[g] /\ (Newest(g) \/ Pending(g))
      BY <1>0, <1>a, <2>1, <2>3, <3>1
    <3>3. Announced(g, queue) => Announced(g, queue')
      BY <1>0, <2>1
    <3> QED
      BY <3>1, <3>2, <3>3 DEF Newest, Pending, Announced
  <2> QED
    BY <2>2, <2>3
<1>3. CASE Boot \/ LoadSkip \/ LoadSet \/ StartInotify
  <2>1. UNCHANGED <<disk, queue, batch, cur, row, saved, unsaved>> /\ pc \in {"down", "load", "set"}
    BY <1>3 DEF Boot, LoadSkip, LoadSet, StartInotify
  <2>2. g \notin lost /\ (pc = "set" => LoadOrder[at] # g)
    BY <1>0, <1>3, LoadOrderType DEF Boot, LoadSkip, LoadSet, StartInotify, TypeOK
  <2> QED
    BY <1>a, <2>1, <2>2 DEF Newest, Pending, Announced
<1>4. CASE LoadSave
  <2> DEFINE f == LoadOrder[at]
  <2>1. f \in ConstSet /\ f \in File /\ g # f
    BY <1>0, <1>4, LoadOrderType DEF LoadSave, File
  <2>2. disk[f] \in Content /\ Save(f, disk[f])
    BY <1>0, <1>4, <2>1 DEF LoadSave, TypeOK
  <2>3. UNCHANGED <<disk, queue, batch, at>> /\ g \notin lost /\ pc = "load"
    BY <1>4, <2>1 DEF LoadSave
  <2>4. g \notin unsaved
    BY <1>0, <2>1, <2>2, SaveRow
  <2>5. CASE Newest(g)
    BY <1>0, <2>1, <2>2, <2>3, <2>5, ConstSaveKeeps
  <2>6. CASE Pending(g)
    BY <2>3, <2>6 DEF Pending, Announced
  <2> QED
    BY <1>a, <2>3, <2>4, <2>5, <2>6
<1>5. CASE ReadInotifyEvent
  <2>1. PICK n \in 0 .. Len(queue) : /\ batch' = SubSeq(queue, 1, n)
                                     /\ queue' = SubSeq(queue, n + 1, Len(queue))
    BY <1>0, <1>5, ReadIs
  <2>2. UNCHANGED <<disk, lost, row, saved, unsaved>> /\ pc = "wait" /\ batch = << >>
        /\ queue \in Seq(Event)
    BY <1>0, <1>5, ReadIs DEF BatchInUse
  <2>3. Announced(g, queue) => Announced(g, batch') \/ Announced(g, queue')
    BY <2>1, <2>2, SplitKeeps
  <2>4. Newest(g) \/ Announced(g, queue)
    BY <1>a, <2>2 DEF Pending, Announced
  <2> QED
    BY <2>2, <2>3, <2>4 DEF Newest, Pending, Announced
<1>6. CASE NextEvent
  <2>1. UNCHANGED <<disk, lost, queue, row, saved, unsaved>> /\ pc = "next"
    BY <1>6 DEF NextEvent
  <2>2. CASE Newest(g) \/ Announced(g, queue)
    BY <2>1, <2>2 DEF Newest, Pending, Announced
  <2>3. CASE Announced(g, batch)
    <3>1. batch # << >> /\ batch' = Tail(batch)
      BY <1>6, <2>3 DEF NextEvent, Announced
    <3>2. CASE Announced(g, Tail(batch))
      BY <3>1, <3>2 DEF Pending, Announced
    <3>3. CASE Head(batch).name = g
      <4>1. Head(batch) # Overflow /\ g # NoFile
        BY <1>0, <3>3, NameAssumption DEF Overflow
      <4>2. cur' = g /\ pc' = "open"
        BY <1>6, <3>1, <3>3, <4>1 DEF NextEvent
      <4> QED
        BY <4>2 DEF Pending
    <3> QED
      BY <1>0, <2>3, <3>1, <3>2, <3>3, TailKeeps DEF TypeOK
  <2> QED
    BY <1>a, <2>1, <2>2, <2>3 DEF Pending
<1>7. CASE Open
  BY <1>a, <1>v, <1>7 DEF Open, Newest, Pending, Announced
<1>8. CASE ReadFile
  <2>1. UNCHANGED <<disk, lost, queue, batch, cur, row, saved, unsaved>> /\ pc = "read"
    BY <1>8 DEF ReadFile
  <2>2. buf = disk[cur] => buf' = disk[cur]
    BY <1>8 DEF ReadFile, ReadOutcome
  <2>3. buf' # Empty => pc' \in {"store", "save"}
    BY <1>8 DEF ReadFile
  <2> QED
    BY <1>a, <1>v, <2>1, <2>2, <2>3 DEF Newest, Pending, Announced
<1>9. CASE CacheFileValue
  <2>1. UNCHANGED <<disk, queue, batch, cur, buf, row, saved, unsaved>> /\ pc = "store"
        /\ g \notin lost /\ cur # g
    BY <1>0, <1>9 DEF CacheFileValue, TypeOK
  <2> QED
    BY <1>a, <2>1 DEF Newest, Pending, Announced
<1>10. CASE SaveIncr
  <2>1. UNCHANGED <<disk, lost, queue, batch, cur, buf>> /\ pc = "save"
        /\ cur \in IncrFile /\ Save(cur, buf) /\ buf \in Content
    BY <1>0, <1>10 DEF SaveIncr, TypeOK
  <2>2. CASE Coming(g)
    BY <2>1, <2>2 DEF Coming, Pending, Announced
  <2>3. CASE ~Coming(g) /\ g = cur
    <3>1. buf = disk[cur]
      BY <1>0, <2>1, <2>3 DEF InHandIsPresent, Coming
    <3>2. row'[Table[g]] = disk[g]
      BY <1>0, <2>1, <2>3, <3>1 DEF Save, Saved, Unsaved, TypeOK
    <3> QED
      BY <2>1, <3>2 DEF Newest, Version
  <2>4. CASE ~Coming(g) /\ g # cur
    <3>1. g \notin unsaved
      BY <1>0, <2>1, <2>4, SaveRow
    <3>2. Newest(g)
      BY <1>a, <2>1, <2>4, <3>1 DEF Pending, Coming
    <3>3. ~(buf \in Version /\ buf < disk[g])
      BY <2>1, <2>4 DEF InOrder, Newer
    <3> QED
      BY <1>0, <2>1, <3>2, <3>3, IncrSaveKeeps
  <2> QED
    BY <2>2, <2>3, <2>4
<1>11. ASSUME NEW t \in TimerThread, Flush(t) PROVE Goal
  <2>1. UNCHANGED <<disk, lost, queue, main>> /\ Save(Scanned(t), reply[t])
    BY <1>11 DEF Flush
  <2>2. Scanned(t) \in ConstSet /\ Scanned(t) \in File /\ g # Scanned(t) /\ reply[t] \in Content
    BY <1>0, <1>11, ConstFileType DEF Flush, Scanned, TypeOK, File
  <2>3. g \notin unsaved
    BY <1>0, <2>1, <2>2, SaveRow
  <2>4. CASE Newest(g)
    BY <1>0, <2>1, <2>2, <2>4, ConstSaveKeeps
  <2>5. CASE Pending(g)
    BY <2>1, <2>5 DEF Pending, Announced
  <2> QED
    BY <1>a, <2>1, <2>3, <2>4, <2>5
<1>12. ASSUME Die PROVE Goal
  BY <1>0, <1>12 DEF Die
<1>13. CASE \/ UNCHANGED vars
            \/ \E t \in TimerThread :
                 Expire(t) \/ Lock(t) \/ ScanClean(t) \/ Get(t) \/ Clear(t) \/ Unlock(t)
  BY <1>1, <1>13 DEF vars, Expire, Lock, ScanClean, Get, Clear, Unlock
<1> QED
  BY <1>2, <1>3, <1>4, <1>5, <1>6, <1>7, <1>8, <1>9, <1>10, <1>11, <1>12, <1>13
     DEF Next, StartListener, ParseRoutine, CacheRoutine, Crash, GetNil

(* Once everything is handled and flushed, a table holds nothing older than*)
(* an incremental file handled since the watch was added, but for what the *)
(* flush of a constant file put over it: no event overtakes another, from  *)
(* the kernel's queue to the row, for any number of files and any batches. *)
THEOREM NewestIncrementsWin == Spec => []NewestIncrementWins
<1>1. Init => NewestInv
  <2> SUFFICES ASSUME Init PROVE NewestInv
    OBVIOUS
  <2>1. WatchInv /\ VersionOrder
    BY WatchInit, SavedInit DEF SavedInv
  <2>2. NothingDropped /\ InOrder /\ NewestOrPending
    BY DEF Init, NothingDropped, InOrder, NewestOrPending, File
  <2> QED
    BY <2>1, <2>2 DEF NewestInv
<1>2. NewestInv /\ [Next]_vars => NewestInv'
  <2> SUFFICES ASSUME NewestInv, [Next]_vars PROVE NewestInv'
    OBVIOUS
  <2>1. WatchInv /\ CacheInv /\ TypeOK /\ VersionOrder /\ BatchInUse
    BY DEF NewestInv, WatchInv, CacheInv
  <2>2. WatchInv' /\ VersionOrder'
    BY <2>1, WatchNext, VersionOrderNext
  <2>3. ASSUME MaxEdit <= QueueMax
        PROVE  NothingDropped' /\ InOrder' /\ NewestOrPending'
    BY <2>1, <2>3, NothingDroppedNext, InOrderNext, NewestNext DEF NewestInv
  <2> QED
    BY <2>2, <2>3 DEF NewestInv
<1>3. NewestInv => NewestIncrementWins
  <2> SUFFICES ASSUME NewestInv, MaxEdit <= QueueMax, Idle,
                      NEW g \in IncrFile, g \notin lost, g \notin unsaved, disk[g] \in Version
               PROVE  Newest(g)
    BY DEF NewestIncrementWins, Newest
  <2>1. Newest(g) \/ Pending(g)
    BY DEF NewestInv, NewestOrPending, Newest
  <2>2. pc = "wait" /\ queue = << >> /\ batch = << >>
    BY DEF NewestInv, WatchInv, BatchInUse, Idle
  <2> QED
    BY <2>1, <2>2 DEF Pending, Announced
<1> QED
  BY <1>1, <1>2, <1>3, PTL DEF Spec
=============================================================================
