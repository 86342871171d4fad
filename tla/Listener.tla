------------------------------ MODULE Listener ------------------------------
(***************************************************************************)
(* The listener process: feed files dropped into a watched directory are   *)
(* copied to Redis by the main thread (the "constant" files) or straight   *)
(* to MySQL (the incremental files), and a timer thread writes the copies  *)
(* in Redis back to MySQL once an hour.                                    *)
(*                                                                         *)
(*   feed producer --> directory --> inotify queue --> main thread         *)
(*        main thread --> Redis copy + dirty flag --> timer --> MySQL      *)
(*        main thread --> MySQL                        (incremental files) *)
(*                                                                         *)
(* A file's contents are abstracted to a version, the number of the edit   *)
(* that completed it; a row of MySQL to the version of the file it was     *)
(* last written from.  Redis, MySQL and the directory survive a crash of   *)
(* the process, everything else does not.                                  *)
(***************************************************************************)
EXTENDS Naturals, Sequences

CONSTANTS
  ConstFile,    \* lis->const_file: the constant files, by index
  LoadOrder,    \* the same files, in the order start_listener loads them
  IncrFile,     \* the incremental files, match<n>.json and market<n>.json
  Table,        \* Table[f] is the MySQL table file f is saved to
  TimerThread,  \* notification threads of the timer that may be alive at once
  QueueMax,     \* capacity of the kernel's inotify queue
  BatchMax,     \* events one read() of the inotify descriptor returns at most
  MaxEdit,      \* edits of the directory the feed producer makes at most
  Faults,       \* what may fail: {"redis", "crash"} or a subset of it;
                \* "redis" is an error reply, no reply at all ends in a crash
  NoFile,       \* no name: the name of an overflow event
  Free,         \* the mutex is not held
  Absent,       \* no such file, no such key
  Empty,        \* a file of length zero
  Torn          \* bytes that are not a JSON text: a half-written file

ConstSet == {ConstFile[i] : i \in DOMAIN ConstFile}
File == ConstSet \cup IncrFile
Version == 1 .. MaxEdit
Content == Version \cup {Absent, Empty, Torn}

ASSUME ConstAssumption ==
  /\ ConstFile \in Seq(ConstSet)
  /\ LoadOrder \in Seq(ConstSet)
  /\ \A i, j \in DOMAIN ConstFile : ConstFile[i] = ConstFile[j] => i = j
  /\ ConstSet = {LoadOrder[i] : i \in DOMAIN LoadOrder}

ASSUME BoundAssumption ==
  /\ QueueMax \in Nat \ {0}
  /\ BatchMax \in Nat \ {0}
  /\ MaxEdit \in Nat
  /\ Faults \subseteq {"redis", "crash"}

ASSUME NameAssumption ==
  /\ ConstSet \cap IncrFile = {}
  /\ NoFile \notin File
  /\ Free \notin TimerThread
  /\ Absent \notin Nat /\ Empty \notin Nat /\ Torn \notin Nat
  /\ Absent # Empty /\ Absent # Torn /\ Empty # Torn

VARIABLES
  disk,      \* disk[f]: what the file holds
  edits,     \* edits made so far; the latest version number
  watching,  \* inotify_add_watch has been called
  queue,     \* the kernel's event queue
  pc,        \* where the main thread is
  at,        \* the main thread's position in LoadOrder while it loads
  batch,     \* read_buf: the events read and not yet handled
  cur,       \* the file parse_routine is handling
  buf,       \* what the main thread has read of it
  ref,       \* ref[f]: the dirty flag of a constant file
  lock,      \* who holds mutex_lock
  tpc,       \* where each timer thread is
  idx,       \* idx[t]: index i of cache_routine's loop
  reply,     \* reply[t]: the string redis_get returned
  cache,     \* Redis: the copy of each constant file
  row,       \* MySQL: row[t] is the version table t was last written from
  saved,     \* history: the last version of f written to MySQL
  lost,      \* history: files whose present contents no event announces
  unsaved    \* history: files whose last write to MySQL did not succeed

external == <<disk, edits>>
kernel == <<watching, queue>>
main == <<pc, at, batch, cur, buf>>
timer == <<tpc, idx, reply>>
db == <<row, saved, unsaved>>
vars == <<external, kernel, main, ref, lock, timer, cache, db, lost>>

Event == [name : File \cup {NoFile},
          mask : {"create", "modify", "moved_to", "moved_from", "overflow"}]
Overflow == [name |-> NoFile, mask |-> "overflow"]

(* Variant: renames into the directory are not asked for.                  *)
MaskNoMove == {"create", "modify", "moved_from"}

(* The events start_inotify asks for.  IN_MOVE_SELF concerns the directory,*)
(* not a file; IN_DELETE and IN_CLOSE_WRITE are not asked for.             *)
Mask == {"create", "modify", "moved_to", "moved_from"}

TypeOK ==
  /\ disk \in [File -> Content]
  /\ edits \in 0 .. MaxEdit
  /\ watching \in BOOLEAN
  /\ queue \in Seq(Event)
  /\ pc \in {"down", "load", "set", "wait", "next", "open", "read", "store", "save"}
  /\ at \in Nat
  /\ batch \in Seq(Event)
  /\ cur \in File \cup {NoFile}
  /\ buf \in Content
  /\ ref \in [ConstSet -> {0, 1}]
  /\ lock \in TimerThread \cup {Free}
  /\ tpc \in [TimerThread -> {"idle", "lock", "scan", "flush", "clear"}]
  /\ idx \in [TimerThread -> Nat]
  /\ reply \in [TimerThread -> Content]
  /\ cache \in [ConstSet -> Content]
  /\ row \in [{Table[f] : f \in File} -> Nat]
  /\ saved \in [File -> Nat]
  /\ lost \subseteq File
  /\ unsaved \subseteq File
  /\ pc = "set" => at \in DOMAIN LoadOrder
  /\ pc \in {"open", "read"} => cur \in File
  /\ pc = "store" => cur \in ConstSet
  /\ pc = "save" => cur \in IncrFile
  /\ \A t \in TimerThread :
       tpc[t] \in {"flush", "clear"} => idx[t] \in DOMAIN ConstFile

Init ==
  /\ disk = [f \in File |-> Absent]
  /\ edits = 0
  /\ watching = FALSE
  /\ queue = << >>
  /\ pc = "down"
  /\ at = 1
  /\ batch = << >>
  /\ cur = NoFile
  /\ buf = Absent
  /\ ref = [f \in ConstSet |-> 0]
  /\ lock = Free
  /\ tpc = [t \in TimerThread |-> "idle"]
  /\ idx = [t \in TimerThread |-> 1]
  /\ reply = [t \in TimerThread |-> Absent]
  /\ cache = [f \in ConstSet |-> Absent]
  /\ row = [t \in {Table[f] : f \in File} |-> 0]
  /\ saved = [f \in File |-> 0]
  /\ lost = File
  /\ unsaved = {}

-----------------------------------------------------------------------------
(* The feed producer and the kernel.                                       *)

(* fsnotify queues an event: not when it equals the last one queued, and   *)
(* as a single overflow event when the queue is full.                      *)
Queued(e) ==
  IF queue # << >> /\ queue[Len(queue)] = e THEN queue
  ELSE IF Len(queue) < QueueMax THEN Append(queue, e)
  ELSE IF \E i \in DOMAIN queue : queue[i] = Overflow THEN queue
  ELSE Append(queue, Overflow)

Announced(f, q) == \E i \in DOMAIN q : q[i].name = f

(* A change that happens before the watch is added, or whose event does not *)
(* fit in the queue, is announced by nothing.                              *)
Notify(f, mask) ==
  \/ /\ ~watching
     /\ lost' = lost \cup {f}
     /\ UNCHANGED queue
  \/ /\ watching /\ mask \notin Mask
     /\ UNCHANGED <<queue, lost>>
  \/ /\ watching /\ mask \in Mask
     /\ queue' = Queued([name |-> f, mask |-> mask])
     /\ lost' = IF Announced(f, queue') THEN lost \ {f} ELSE lost \cup {f}

Change(f, content, mask) ==
  /\ disk' = [disk EXCEPT ![f] = content]
  /\ Notify(f, mask)

(* One system call of the feed producer on file f.                         *)
Edit(f) ==
  /\ edits < MaxEdit
  /\ edits' = edits + 1
  /\ \/ disk[f] = Absent /\ Change(f, Empty, "create")
     \/ disk[f] \in Version \cup {Torn} /\ Change(f, Empty, "modify")
     \/ disk[f] = Empty /\ Change(f, Torn, "modify")
     \/ disk[f] \in {Empty, Torn} /\ Change(f, edits', "modify")
     \/ Change(f, edits', "moved_to")
     \/ disk[f] # Absent /\ Change(f, Absent, "moved_from")
     \/ disk[f] # Absent /\ Change(f, Absent, "delete")
  /\ UNCHANGED <<watching, main, ref, lock, timer, cache, db>>

-----------------------------------------------------------------------------
(* Saving to MySQL.  Text that is not JSON is dropped; errors are logged   *)
(* at most, and the callers look at no result.  A write may also be lost   *)
(* because two threads use the one MySQL connection (see HmSession).       *)

Saved(f, content) ==
  /\ content \in Version
  /\ row' = [row EXCEPT ![Table[f]] = content]
  /\ saved' = [saved EXCEPT ![f] = content]
  /\ unsaved' = unsaved \ {f}

Unsaved(f, content) ==
  /\ unsaved' = IF content \in Version THEN unsaved \cup {f} ELSE unsaved
  /\ UNCHANGED <<row, saved>>

Save(f, content) == Saved(f, content) \/ Unsaved(f, content)

-----------------------------------------------------------------------------
(* Start-up, in the main thread.                                           *)

(* new_listener: a fresh listener_t, every reference count zero.           *)
Boot ==
  /\ pc = "down"
  /\ pc' = "load"
  /\ at' = 1
  /\ ref' = [f \in ConstSet |-> 0]
  /\ UNCHANGED <<external, kernel, batch, cur, buf, lock, timer, cache, db, lost>>

(* save_league, save_leaguesfull, save_matchfull or save_marketfull: an    *)
(* absent or empty file is passed over ...                                 *)
LoadSkip ==
  /\ pc = "load" /\ at \in DOMAIN LoadOrder
  /\ disk[LoadOrder[at]] \in {Absent, Empty}
  /\ at' = at + 1
  /\ lost' = lost \ {LoadOrder[at]}
  /\ UNCHANGED <<external, kernel, pc, batch, cur, buf, ref, lock, timer, cache, db>>

(* ... another one is read and saved to MySQL ...  (A change between open  *)
(* and read is like one right before or after: nothing announces it yet.)  *)
LoadSave ==
  /\ pc = "load" /\ at \in DOMAIN LoadOrder
  /\ disk[LoadOrder[at]] \in Version \cup {Torn}
  /\ buf' = disk[LoadOrder[at]]
  /\ Save(LoadOrder[at], buf')
  /\ pc' = "set"
  /\ lost' = lost \ {LoadOrder[at]}
  /\ UNCHANGED <<external, kernel, at, batch, cur, ref, lock, timer, cache>>

(* ... and then put into Redis; a failure is logged.                       *)
LoadSet ==
  /\ pc = "set"
  /\ \/ /\ cache' = [cache EXCEPT ![LoadOrder[at]] = buf]
        /\ UNCHANGED lost
     \/ /\ "redis" \in Faults
        /\ lost' = lost \cup {LoadOrder[at]}
        /\ UNCHANGED cache
  /\ pc' = "load"
  /\ at' = at + 1
  /\ UNCHANGED <<external, kernel, batch, cur, buf, ref, lock, timer, db>>

(* set_cache_interval arms the timer, start_inotify adds the watch.        *)
StartInotify ==
  /\ pc = "load" /\ at \notin DOMAIN LoadOrder
  /\ watching' = TRUE
  /\ pc' = "wait"
  /\ UNCHANGED <<external, queue, at, batch, cur, buf, ref, lock, timer, cache, db, lost>>

-----------------------------------------------------------------------------
(* The main thread's loop.                                                 *)

(* Variant: the first event of what read() returns is handled, no other.   *)
ReadInotifyEventFirst ==
  /\ pc = "wait" /\ queue # << >>
  /\ LET n == IF Len(queue) < BatchMax THEN Len(queue) ELSE BatchMax
     IN /\ batch' = SubSeq(queue, 1, 1)
        /\ queue' = SubSeq(queue, n + 1, Len(queue))
  /\ pc' = "next"
  /\ UNCHANGED <<external, watching, at, cur, buf, ref, lock, timer, cache, db, lost>>

(* read() in read_inotify_event returns what is queued, up to the buffer.  *)
ReadInotifyEvent ==
  /\ pc = "wait" /\ queue # << >>
  /\ LET n == IF Len(queue) < BatchMax THEN Len(queue) ELSE BatchMax
     IN /\ batch' = SubSeq(queue, 1, n)
        /\ queue' = SubSeq(queue, n + 1, Len(queue))
  /\ pc' = "next"
  /\ UNCHANGED <<external, watching, at, cur, buf, ref, lock, timer, cache, db, lost>>

(* Variant: the events of a batch are handled from the last to the first.  *)
NextEventLast ==
  /\ pc = "next"
  /\ \/ /\ batch = << >>
        /\ pc' = "wait"
        /\ UNCHANGED <<batch, cur>>
     \/ /\ batch # << >>
        /\ batch' = SubSeq(batch, 1, Len(batch) - 1)
        /\ cur' \in IF batch[Len(batch)] = Overflow THEN File \cup {NoFile}
                    ELSE {batch[Len(batch)].name}
        /\ pc' = IF cur' = NoFile THEN "next" ELSE "open"
  /\ UNCHANGED <<external, kernel, at, buf, ref, lock, timer, cache, db, lost>>

(* The do-while loop over the batch.  An overflow event carries no name:   *)
(* what follows its header in read_buf is passed to parse_routine, which   *)
(* may be the name an earlier event left there.                            *)
NextEvent ==
  /\ pc = "next"
  /\ \/ /\ batch = << >>
        /\ pc' = "wait"
        /\ UNCHANGED <<batch, cur>>
     \/ /\ batch # << >>
        /\ batch' = Tail(batch)
        /\ cur' \in IF Head(batch) = Overflow THEN File \cup {NoFile}
                    ELSE {Head(batch).name}
        /\ pc' = IF cur' = NoFile THEN "next" ELSE "open"
  /\ UNCHANGED <<external, kernel, at, buf, ref, lock, timer, cache, db, lost>>

(* openat in parse_routine, and the fstat that sizes the buffer.           *)
Open ==
  /\ pc = "open"
  /\ \/ /\ disk[cur] = Absent
        /\ pc' = "next"
        /\ UNCHANGED buf
     \/ /\ disk[cur] # Absent
        /\ pc' = "read"
        /\ buf' = disk[cur]
  /\ UNCHANGED <<external, kernel, at, batch, cur, ref, lock, timer, cache, db, lost>>

(* What read() finds when the file held `opened' at fstat and holds `now': *)
(* the file replaced by a rename still has its old contents, a file        *)
(* rewritten in place may be read whole or cut at the old length.          *)
ReadOutcome(opened, now) ==
  IF opened = now THEN {opened}
  ELSE {opened, Torn} \cup (IF opened = Empty THEN {} ELSE {now} \ {Absent})

(* read() in cache_file_value (constant files) and fread_file (the others, *)
(* where nothing read means nothing done).                                 *)
ReadFile ==
  /\ pc = "read"
  /\ buf' \in ReadOutcome(buf, disk[cur])
  /\ pc' = IF cur \in ConstSet THEN "store"
           ELSE IF buf' = Empty THEN "next" ELSE "save"
  /\ UNCHANGED <<external, kernel, at, batch, cur, ref, lock, timer, cache, db, lost>>

(* Variant: without the mutex.                                             *)
CacheFileValueUnlocked ==
  /\ pc = "store"
  /\ cache' = [cache EXCEPT ![cur] = IF buf = Empty THEN Torn ELSE buf]
  /\ ref' = [ref EXCEPT ![cur] = 1]
  /\ pc' = "next"
  /\ UNCHANGED <<external, kernel, at, batch, cur, buf, lock, timer, db, lost>>

(* Variant: the flag is a count of the updates.                            *)
CacheFileValueCount ==
  /\ pc = "store" /\ lock = Free
  /\ cache' = [cache EXCEPT ![cur] = IF buf = Empty THEN Torn ELSE buf]
  /\ ref' = [ref EXCEPT ![cur] = @ + 1]
  /\ pc' = "next"
  /\ UNCHANGED <<external, kernel, at, batch, cur, buf, lock, timer, db, lost>>

(* Variant: nothing is stored of an empty file, but the flag is set.       *)
CacheFileValueFlagOnly ==
  /\ pc = "store" /\ lock = Free
  /\ cache' = [cache EXCEPT ![cur] = IF buf = Empty THEN @ ELSE buf]
  /\ ref' = [ref EXCEPT ![cur] = 1]
  /\ pc' = "next"
  /\ UNCHANGED <<external, kernel, at, batch, cur, buf, lock, timer, db, lost>>

(* Variant: a file that waits for the timer already is not stored again.   *)
CacheFileValueIfClean ==
  /\ pc = "store" /\ lock = Free
  /\ cache' = IF ref[cur] # 0 THEN cache
              ELSE [cache EXCEPT ![cur] = IF buf = Empty THEN Torn ELSE buf]
  /\ ref' = [ref EXCEPT ![cur] = 1]
  /\ pc' = "next"
  /\ UNCHANGED <<external, kernel, at, batch, cur, buf, lock, timer, db, lost>>

(* The critical section of cache_file_value.  The result of redis_set is   *)
(* not looked at.  Of an empty file, what the stack held is stored.        *)
CacheFileValue ==
  /\ pc = "store" /\ lock = Free
  /\ \/ /\ cache' = [cache EXCEPT ![cur] = IF buf = Empty THEN Torn ELSE buf]
        /\ UNCHANGED lost
     \/ /\ "redis" \in Faults
        /\ lost' = lost \cup {cur}
        /\ UNCHANGED cache
  /\ ref' = [ref EXCEPT ![cur] = 1]
  /\ pc' = "next"
  /\ UNCHANGED <<external, kernel, at, batch, cur, buf, lock, timer, db>>

(* save_match_to_db or save_market_to_db on an incremental file.           *)
SaveIncr ==
  /\ pc = "save"
  /\ Save(cur, buf)
  /\ pc' = "next"
  /\ UNCHANGED <<external, kernel, at, batch, cur, buf, ref, lock, timer, cache, lost>>

-----------------------------------------------------------------------------
(* cache_routine, in a thread of its own at each expiry of the timer, the  *)
(* first of them an hour after start-up.                                   *)

Expire(t) ==
  /\ watching
  /\ tpc[t] = "idle"
  /\ tpc' = [tpc EXCEPT ![t] = "lock"]
  /\ UNCHANGED <<external, kernel, main, ref, lock, idx, reply, cache, db, lost>>

(* Variant: cache_routine does not take the mutex.                         *)
LockNothing(t) ==
  /\ tpc[t] = "lock"
  /\ tpc' = [tpc EXCEPT ![t] = "scan"]
  /\ UNCHANGED <<external, kernel, main, ref, lock, idx, reply, cache, db, lost>>

Lock(t) ==
  /\ tpc[t] = "lock" /\ lock = Free
  /\ lock' = t
  /\ tpc' = [tpc EXCEPT ![t] = "scan"]
  /\ UNCHANGED <<external, kernel, main, ref, idx, reply, cache, db, lost>>

Scanned(t) == ConstFile[idx[t]]

(* Variant: the first clean file ends the loop.                            *)
ScanCleanBreak(t) ==
  /\ tpc[t] = "scan" /\ idx[t] \in DOMAIN ConstFile
  /\ ref[Scanned(t)] = 0
  /\ idx' = [idx EXCEPT ![t] = Len(ConstFile) + 1]
  /\ UNCHANGED <<external, kernel, main, ref, lock, tpc, reply, cache, db, lost>>

ScanClean(t) ==
  /\ tpc[t] = "scan" /\ idx[t] \in DOMAIN ConstFile
  /\ ref[Scanned(t)] = 0
  /\ idx' = [idx EXCEPT ![t] = @ + 1]
  /\ UNCHANGED <<external, kernel, main, ref, lock, tpc, reply, cache, db, lost>>

(* redis_get in cache_to_db_for_index finds the copy.                      *)
Get(t) ==
  /\ tpc[t] = "scan" /\ idx[t] \in DOMAIN ConstFile
  /\ ref[Scanned(t)] # 0 /\ cache[Scanned(t)] # Absent
  /\ reply' = [reply EXCEPT ![t] = cache[Scanned(t)]]
  /\ tpc' = [tpc EXCEPT ![t] = "flush"]
  /\ UNCHANGED <<external, kernel, main, ref, lock, idx, cache, db, lost>>

(* save_league_to_db, save_match_to_db or save_market_to_db.               *)
Flush(t) ==
  /\ tpc[t] = "flush"
  /\ Save(Scanned(t), reply[t])
  /\ tpc' = [tpc EXCEPT ![t] = "clear"]
  /\ UNCHANGED <<external, kernel, main, ref, lock, idx, reply, cache, lost>>

Clear(t) ==
  /\ tpc[t] = "clear"
  /\ ref' = [ref EXCEPT ![Scanned(t)] = 0]
  /\ reply' = [reply EXCEPT ![t] = Absent]
  /\ idx' = [idx EXCEPT ![t] = @ + 1]
  /\ tpc' = [tpc EXCEPT ![t] = "scan"]
  /\ UNCHANGED <<external, kernel, main, lock, cache, db, lost>>

Unlock(t) ==
  /\ tpc[t] = "scan" /\ idx[t] \notin DOMAIN ConstFile
  /\ lock' = Free
  /\ idx' = [idx EXCEPT ![t] = 1]
  /\ tpc' = [tpc EXCEPT ![t] = "idle"]
  /\ UNCHANGED <<external, kernel, main, ref, reply, cache, db, lost>>

-----------------------------------------------------------------------------
(* f waits for the timer: its flag is set, and not by a flush already made.*)
Dirty(f) ==
  /\ ref[f] # 0
  /\ \A t \in TimerThread : ~(tpc[t] = "clear" /\ Scanned(t) = f)

(* The end of the process: its memory, threads, watch and event queue are  *)
(* gone, so no event announces any file and no flag marks a copy dirty.    *)
Die ==
  /\ watching' = FALSE
  /\ queue' = << >>
  /\ pc' = "down"
  /\ at' = 1
  /\ batch' = << >>
  /\ cur' = NoFile
  /\ buf' = Absent
  /\ ref' = [f \in ConstSet |-> 0]
  /\ lock' = Free
  /\ tpc' = [t \in TimerThread |-> "idle"]
  /\ idx' = [t \in TimerThread |-> 1]
  /\ reply' = [t \in TimerThread |-> Absent]
  /\ lost' = File
  /\ unsaved' = unsaved \cup {f \in ConstSet : Dirty(f)}
  /\ UNCHANGED <<external, cache, row, saved>>

Crash == "crash" \in Faults /\ pc # "down" /\ Die

(* redis_get returns NULL for a key that is not there, and for an error,   *)
(* and cache_to_db_for_index reads reply->str of it.                       *)
GetNil(t) ==
  /\ tpc[t] = "scan" /\ idx[t] \in DOMAIN ConstFile
  /\ ref[Scanned(t)] # 0
  /\ cache[Scanned(t)] = Absent \/ "redis" \in Faults
  /\ Die

-----------------------------------------------------------------------------

StartListener == Boot \/ LoadSkip \/ LoadSave \/ LoadSet \/ StartInotify

ParseRoutine == Open \/ ReadFile \/ CacheFileValue \/ SaveIncr

CacheRoutine(t) ==
  \/ Lock(t) \/ ScanClean(t) \/ Get(t) \/ GetNil(t) \/ Flush(t) \/ Clear(t)
  \/ Unlock(t)

Next ==
  \/ \E f \in File : Edit(f)
  \/ StartListener
  \/ ReadInotifyEvent
  \/ NextEvent
  \/ ParseRoutine
  \/ \E t \in TimerThread : Expire(t) \/ CacheRoutine(t)
  \/ Crash

Spec == Init /\ [][Next]_vars

(* Each thread keeps running, and the timer keeps expiring.  The main      *)
(* thread wants the mutex while timer threads take and release it again    *)
(* and again; they do so once an hour, so it gets it in the end.           *)
Fairness ==
  /\ WF_vars(StartListener)
  /\ WF_vars(ReadInotifyEvent \/ NextEvent \/ Open \/ ReadFile \/ SaveIncr)
  /\ SF_vars(CacheFileValue)
  /\ \A t \in TimerThread :
       /\ WF_vars(Expire(t))
       /\ SF_vars(Lock(t))
       /\ WF_vars(CacheRoutine(t))

FairSpec == Spec /\ Fairness

-----------------------------------------------------------------------------
(* Properties.                                                             *)

(* An event for f waits in the kernel or in read_buf, or parse_routine or  *)
(* start_listener holds its present contents and is on its way with them.  *)
Pending(f) ==
  \/ Announced(f, queue)
  \/ Announced(f, batch)
  \/ cur = f /\ pc = "open"
  \/ cur = f /\ pc \in {"read", "store", "save"} /\ buf = disk[f]
  \/ pc = "set" /\ LoadOrder[at] = f /\ buf = disk[f]

(* A change of a watched file is not missed: as long as no event was lost, *)
(* the copy of a constant file in Redis is what the directory holds, or    *)
(* read_inotify_event and parse_routine still have that change before them.*)
NoMissedUpdate ==
  \A f \in ConstSet \ lost :
    disk[f] \in Version => cache[f] = disk[f] \/ Pending(f)

(* The same for an incremental file, which goes straight to MySQL: unless  *)
(* the write failed, the saved version is the present one or is coming.    *)
NoMissedIncrement ==
  \A g \in IncrFile \ (lost \cup unsaved) :
    disk[g] \in Version => saved[g] = disk[g] \/ Pending(g)

(* A copy that is not marked dirty is in MySQL: the mutex makes the clearing*)
(* of the flag and the flush it stands for one step, so an update that     *)
(* arrives while cache_routine flushes the previous one is never taken for *)
(* flushed.  (At start-up a file is saved before its copy is made.)        *)
CleanMeansSaved ==
  \A f \in ConstSet \ unsaved :
    cache[f] \in Version /\ ref[f] = 0 => saved[f] >= cache[f]

(* A dirty flag marks a copy that exists, so that cache_to_db_for_index    *)
(* does not dereference a NULL reply - unless Redis refused the SET, whose *)
(* result cache_file_value does not look at.                               *)
DirtyHasCopy ==
  "redis" \notin Faults => \A f \in ConstSet : ref[f] # 0 => cache[f] # Absent

(* Nothing to do: every event is handled and every dirty copy flushed.     *)
Idle ==
  /\ pc = "wait" /\ queue = << >>
  /\ \A t \in TimerThread : tpc[t] \in {"idle", "lock"}
  /\ \A f \in ConstSet : ref[f] = 0

(* Once idle, a table holds nothing older than an incremental file that    *)
(* was handled, except where the flush of a constant file of the same      *)
(* table put an older version over it.  (Events that do not fit in the     *)
(* queue spoil the order: an earlier event of the file stands for them.)   *)
NewestIncrementWins ==
  MaxEdit <= QueueMax /\ Idle => \A g \in IncrFile \ (lost \cup unsaved) :
            disk[g] \in Version =>
              \/ row[Table[g]] >= disk[g]
              \/ \E f \in ConstSet : Table[f] = Table[g] /\ row[Table[g]] = saved[f]

(* A version of a file in MySQL is never replaced by an older one, not even*)
(* across a crash: start_listener saves a file before it makes the copy the*)
(* timer flushes, and events are handled in order.                         *)
SavedNeverRegresses ==
  [][\A f \in File : saved'[f] >= saved[f]]_vars

(* When the feed producer stops, the copies settle on the directory.       *)
EventuallyCached ==
  \A f \in ConstSet :
    <>[](f \in lost \/ disk[f] \notin Version \/ cache[f] = disk[f])

(* A dirty copy is flushed in the end: no thread keeps the mutex, and the  *)
(* loop of cache_routine reaches every constant file.                      *)
DirtyEventuallyFlushed ==
  \A f \in ConstSet : ref[f] # 0 ~> ref[f] = 0

(* The constant files' cache does what WriteBehind promises: flush and     *)
(* clearing of the flag look like one step to everyone, and what is        *)
(* flushed is the copy of that moment.                                     *)
WB == INSTANCE WriteBehind WITH
        Key <- ConstSet,
        dirty <- [f \in ConstSet |-> Dirty(f)],
        saved <- [f \in ConstSet |-> saved[f]],
        owed <- unsaved \cap ConstSet

ImplementsWriteBehind == WB!Spec

-----------------------------------------------------------------------------
(* What makes the properties above inductive.                              *)

(* Whoever scans the flags holds the mutex, and nobody else does.          *)
MutualExclusion ==
  \A t \in TimerThread : tpc[t] \in {"scan", "flush", "clear"} <=> lock = t

(* What a thread of the timer flushes is the present copy of a file that   *)
(* is still marked: nothing is stored between redis_get and ref = 0.       *)
FlushIsCurrent ==
  \A t \in TimerThread :
    tpc[t] \in {"flush", "clear"} =>
      ref[Scanned(t)] # 0 /\ reply[t] = cache[Scanned(t)]

(* Until the watch is added the timer is not running and nothing is marked.*)
StartUp ==
  /\ watching <=> pc \notin {"down", "load", "set"}
  /\ ~watching => /\ \A t \in TimerThread : tpc[t] = "idle"
                  /\ \A f \in ConstSet : ref[f] = 0

(* What start_listener is about to copy it has saved, or tried to.         *)
LoadedIsSaved ==
  pc = "set" /\ buf \in Version =>
    LoadOrder[at] \in unsaved \/ saved[LoadOrder[at]] = buf

CacheInv ==
  TypeOK /\ MutualExclusion /\ FlushIsCurrent /\ StartUp /\ LoadedIsSaved

(* v is not younger than the present contents of f.                        *)
NoYounger(v, f) ==
  v \in Version => v <= edits /\ (disk[f] \in Version => v <= disk[f])

(* Versions only get older on their way from the directory to Redis.       *)
VersionOrder ==
  /\ \A f \in File : NoYounger(disk[f], f)
  /\ \A f \in ConstSet : NoYounger(cache[f], f)
  /\ pc \in {"read", "store"} => NoYounger(buf, cur)
  /\ pc = "set" => NoYounger(buf, LoadOrder[at])

(* A flag about to be cleared belongs to a copy that is saved.             *)
ClearedIsSaved ==
  \A t \in TimerThread :
    tpc[t] = "clear" /\ cache[Scanned(t)] \in Version =>
      Scanned(t) \in unsaved \/ saved[Scanned(t)] >= cache[Scanned(t)]

SavedInv == CacheInv /\ VersionOrder /\ ClearedIsSaved /\ CleanMeansSaved

(* What the main thread holds of a file is the present contents, unless    *)
(* the event of a later change is still to be read from the kernel.        *)
InHandIsPresent ==
  /\ pc \in {"read", "store", "save"} /\ cur \notin lost /\ disk[cur] \in Version =>
       buf = disk[cur] \/ Announced(cur, queue)
  /\ pc = "set" /\ LoadOrder[at] \notin lost => buf = disk[LoadOrder[at]]

BatchInUse == pc \in {"down", "load", "set", "wait"} => batch = << >>

(* A flag marks a copy that exists, because only what was read is stored.  *)
CopyInv ==
  CacheInv /\ DirtyHasCopy /\ (pc \in {"read", "store"} => buf # Absent)

(* What is on its way to MySQL is not older than what is there.            *)
SavedOrder ==
  /\ \A f \in File : saved[f] <= edits /\ (disk[f] \in Version => saved[f] <= disk[f])
  /\ pc \in {"read", "store", "save"} /\ buf \in Version =>
       NoYounger(buf, cur) /\ saved[cur] <= buf
  /\ pc \in {"read", "store"} /\ buf \in Version /\ cur \in ConstSet =>
       (cache[cur] \in Version => cache[cur] <= buf)
  /\ \A f \in ConstSet : ref[f] # 0 /\ cache[f] \in Version => saved[f] <= cache[f]

(* Inductive as long as Redis obeys: a copy it refuses to replace is older *)
(* than what start_listener saved, and would be flushed over it.           *)
OrderInv == CacheInv /\ VersionOrder /\ SavedOrder

WatchInv ==
  CacheInv /\ BatchInUse /\ InHandIsPresent /\ NoMissedUpdate /\ NoMissedIncrement

(* What keeps the order when the queue never fills up: every event has its *)
(* place, and no version of an incremental file overtakes a newer one of   *)
(* another file without the other's event coming later.                    *)
NothingDropped ==
  /\ Len(queue) <= edits
  /\ \A i \in DOMAIN queue : queue[i].name \in File
  /\ \A i \in DOMAIN batch : batch[i].name \in File

Newer(g, v) == g \notin lost /\ disk[g] \in Version /\ v \in Version /\ v < disk[g]
Follows(g, q, i) == \E j \in DOMAIN q : i < j /\ q[j].name = g
Coming(g) == Announced(g, batch) \/ Announced(g, queue)

InOrder ==
  \A g \in IncrFile :
    /\ \A i \in DOMAIN queue : Newer(g, disk[queue[i].name]) => Follows(g, queue, i)
    /\ \A i \in DOMAIN batch :
         Newer(g, disk[batch[i].name]) => Follows(g, batch, i) \/ Announced(g, queue)
    /\ pc \in {"open", "read"} /\ Newer(g, disk[cur]) => Coming(g)
    /\ pc \in {"read", "save"} /\ Newer(g, buf) => Coming(g)

NewestOrPending ==
  \A g \in IncrFile \ (lost \cup unsaved) :
    disk[g] \in Version =>
      \/ row[Table[g]] >= disk[g]
      \/ \E f \in ConstSet : Table[f] = Table[g] /\ row[Table[g]] = saved[f]
      \/ Pending(g)

NewestInv ==
  /\ WatchInv /\ VersionOrder
  /\ MaxEdit <= QueueMax => NothingDropped /\ InOrder /\ NewestOrPending
=============================================================================
