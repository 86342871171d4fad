# listener in TLA+

`listener` is a process of two kinds of threads. A feed producer (not part of
the repository) drops JSON files into `/home/www/`. The **main thread** waits on
inotify. Four *constant* files (`league.json`, `leaguesfull.json`,
`matchfull.json`, `marketfull.json`) are always rewritten whole: it copies them to
Redis and marks the copy dirty. *Incremental* files (`match<n>.json`,
`market<n>.json`) are saved straight to MySQL. Once an hour the **timer** starts a
thread that writes the dirty copies from Redis to MySQL.

    feed producer --> directory --> inotify queue --> main thread
                                                        |        \
                                       Redis copy + dirty flag    \  (incremental files)
                                                        |          \
                                                   timer thread --> MySQL

The modules state what this arrangement and the libraries below it (MySQL client, JSON)
guarantee, TLC checks it on small instances, and TLAPS proves the central part for
instances of every size.

## Inventory

| component | state | operations | interacts with | hard about it |
|---|---|---|---|---|
| Watcher, `lis_notify.c`, `lis_read.c` | inotify descriptor, `read_buf` | `start_inotify`, `read_inotify_event`, `parse_routine`, `read_file`, `fread_file` | the kernel's queue, the cache, record saving | events coalesce, overflow and outrun the file; a file changes between `fstat` and `read` |
| Cache, `lis_cache.c` | the copies in Redis, `const_file[i]->ref`, `mutex_lock` | `redis_set`, `redis_get`, `cache_file_value`, `cache_to_db_for_index` | main thread and timer | flag and copy must change together; results that are not looked at |
| Flush timer, `lis_interval.c` | loop index | `set_cache_interval`, `cache_routine` | cache, record saving | threads of two expiries at once; an update during a flush |
| Start-up and life, `lis_start.c`, `lis.c`, `lis_exit.c`, `main.c` | `listener_t` | `new_listener`, `start_listener`, `exit_cleanup` | all | crash and restart; changes before the watch is added |
| Record saving, `lis_match.c`, `lis_market.c`, `lis_league.c` | rows of MySQL | find, create, update, update or create | `himysql_t`, JSON library | failures in the middle of a file; saving the same again; records of an unexpected shape |
| MySQL client, `himysql.c` | one `himysql_t`: statement, result, row | `himysql`, `himysql_fetch_row`, `himysql_free_result` | both threads | no lock in synchronous mode; stale results |
| its thread mode | list of statements, pipe, `running` | `hm_list_add_tail`, `hm_exec_list`, `hm_list_del_head`, `himysql_fini` | callers, consumer thread | list limit, two mutexes and a pipe that blocks, shutdown while the server is away |
| its statement buffer | `sql`, `len`, `buf_size` | `hm_expand_buf`, `hm_cat_*`, `hm_format_sql` | the server | unsigned arithmetic at the end of the buffer, a `va_list` used twice |
| JSON library, `cJSON.c` | parse buffer, tree, print buffer | `cJSON_Parse`, `cJSON_GetObjectItemCaseSensitive`, `cJSON_PrintUnformatted`, `cJSON_Delete` | record saving | texts cut anywhere, nesting, memory that runs out half way, lengths counted later |
| Daemon, `lis_daemon.c` | lock file, session | `daemonize` | other starts on the machine | a start that overlaps another, a death between lock and write |
| Hash map, `hashmap.c` | table | put, get, remove, rehash | nothing calls it | |
| Log, configuration, tests | | | | output, constants, no assertions |

What makes them correct:

* watcher: a change that is announced reaches Redis, or MySQL for an incremental
  file, or is still on its way; events are handled all, in order;
* cache and timer: a copy that is not dirty is in MySQL; flush and clearing of the
  flag look atomic; a dirty flag marks a copy that exists; every dirty copy is
  flushed in the end;
* start-up: MySQL never goes back to an older version of a file, restarts included;
* record saving: no number is inserted twice, a file whose statements succeeded is
  saved whole, a failure does not stop the rest;
* client: a lookup answers what is in the table; the connection stays usable;
* thread mode: an outbox - first in, first out, nothing forgotten, every call and
  `himysql_fini` come back;
* buffer: no write passes its end, what is sent was written by this call;
* JSON: what is accepted is JSON, what is printed is what was parsed, nothing is read
  or written outside a buffer, nothing is freed twice or left behind but in the cases the
  properties name;
* daemon: the lock file names the owner of the lock, no daemon gets a terminal.

## Modules

| module | what it is |
|---|---|
| `Listener` | watcher, cache, timer, start-up and crash in one state machine |
| `WriteBehind` | abstract specification of the cache: put, atomic flush, write-through at start-up, loss of the marks |
| `HmSession` | files saved record by record through the shared `himysql_t`, one step per call of the MySQL library |
| `HmQueue` | the client's thread mode: list, mutexes, pipe, consumer thread, shutdown |
| `Outbox` | abstract specification of the thread mode |
| `SqlBuffer` | the statement buffer in the arithmetic of `size_t` |
| `JsonGrammar` | what a JSON text is: the grammar, and a reader with a stack that accepts the same texts |
| `Json` | parsing a feed file, the walk over its tree, printing the odds, deleting the tree |
| `Daemon` | `daemonize` and its lock file, for several starts |
| `ListenerProofs`, `WatchProofs`, `HmSessionProofs`, `HmQueueProofs`, `SqlBufferProofs`, `JsonGrammarProofs`, `JsonProofs`, `DaemonProofs` | the theorems (TLAPS) |
| `MCListener`, `MCHmSession`, `MCHmQueue`, `MCJson` | constants for TLC; `SqlBuffer` and `Daemon` need numbers and names only |

How they fit: `Listener` takes the saving of a file for one step that may fail.
`HmSession` opens this step up into statements, `Json` into the walk over the text,
and `SqlBuffer` shows how one statement gets into `hm->sql`. `HmQueue` is the other
way a statement can leave `hm->sql`: the mode `HM_USE_THREAD`, which the library offers
and the program itself does not switch on.

Operators commented *Variant* are slips one could make in the code. Put in place of
the definition below it, each makes a property fail, which shows what the property
guards against. They are part of no specification.

### Listener

| state | in the code |
|---|---|
| `disk`, `edits` | the directory; a file holds a version (number of the edit that completed it), nothing, or bytes that do not parse |
| `watching`, `queue` | the watch and the kernel's queue, which merges an event equal to the last and ends in a nameless overflow event |
| `pc`, `at`, `batch`, `cur`, `buf` | main thread: place, position in the loads of `start_listener`, `read_buf`, the file in hand and what was read of it |
| `ref`, `lock`, `cache` | `const_file[i]->ref`, `mutex_lock`, Redis |
| `tpc`, `idx`, `reply` | each timer thread: place, `i`, the reply of `GET` |
| `row`, `saved` | MySQL: version a table was last written from, last version of each file written |
| `lost`, `unsaved` | history: files whose present contents no event announces; files whose last write failed |

One action per step that another thread or the producer can observe:
`Edit` (producer and kernel); `Boot`, `LoadSkip`, `LoadSave`, `LoadSet`,
`StartInotify` (start); `ReadInotifyEvent`, `NextEvent`, `Open`, `ReadFile`,
`CacheFileValue`, `SaveIncr` (main loop); `Expire`, `Lock`, `ScanClean`, `Get`,
`GetNil`, `Flush`, `Clear`, `Unlock` (timer); `Crash`. `CacheFileValue` is one step
because it is the critical section. `Open` stands for `openat` and `fstat`,
`ReadFile` for `read`: what it finds is `ReadOutcome`. `LoadSave` joins open, fstat
and read: before the watch nothing can tell a change in between from one right
before or after. A whole save to MySQL is one step that may succeed or not
(`Save`).

Simplifications: `const_file_size` is the number of constant files (the code never
initialises it); the buffers the code fills without a terminating zero are followed by
bytes that a JSON parser ignores after a complete text; files of other names are
ignored by `parse_routine` and not modelled; the directory itself is not moved.

### WriteBehind

`Listener` maps to it with `dirty[f]` = flag set and no thread between the flush of
`f` and the clearing of its flag, `owed` = `unsaved`. The flush then takes place at
`Flush`, and `Clear` is a stutter, which is right only under the mutex.

### HmSession

`sql`, `unread`, `result`, `row` are the `himysql_t` and the connection's pending
result; `rows` and `version` the tables; `item`, `part`, `op`, `fresh`, `step` each
thread's place in `save_*_to_db`. `Format` is `hm_format_sql`, `Query` is
`mysql_real_query` in `hm_exec`, `FreeResult` and `StoreResult` the rest of `hm_sql`,
`FetchRow` is `himysql_fetch_row`, `TestRow` the callers' `hm->row == NULL`.
`NextPart` is the loop over tournaments of `update_or_create_league_for_mysql`,
`GiveUp` the error returns. A match or market is a record without parts. A failing
statement may have been executed or not: automatic reconnection is on. A thread
between two of these steps leaves the `himysql_t` to the other; two threads *inside*
one call of the client library are undefined and not modelled.

### HmQueue and Outbox

| state | in the code |
|---|---|
| `mine`, `via`, `cpc` | a caller's statement, whether it called `himysql` or `himysql_query`, its place |
| `lock`, `sql` | `hm->lock`, the text in `hm->sql` |
| `listlock`, `nodes`, `len`, `size` | `list->lock`, the linked nodes, `list->len`, `list->size` |
| `pipe`, `running` | bytes in the pipe, `hm->running` |
| `wpc`, `sleep` | the thread's place, the argument of `hm_exec_list` |
| `fpc` | where `himysql_fini` is |
| `accepted`, `executed`, `reported` | history: appended to the list, executed by the server, handed to `fail_cb` |

`AddLink` and `AddCount` are two steps because the thread reads `len` and `head` without
`list->lock`. `ExecLost` is `HM_LOST`: the statement stays at the head, executed or not.
`Wake` and `FiniWake` are the blocking `write` to the pipe.

To `Outbox` the list maps as it is, except that a statement has left once its answer is
there, before `hm_list_del_head` unlinks it (`IF wpc = "del" THEN Tail(nodes)`), and the
outbox is open while `running`. Executing the same statement twice in a row is not
told apart from once: that is what repeating after a lost connection means.

### SqlBuffer

`size` and `len` are `hm->buf_size` and `hm->len`, `newSize` the variable of
`hm_expand_buf`, `todo` the pieces the present directive still appends: a plain
character, `%s` (quote, escaped text, quote), `%b` (`unhex('`, hex digits, `')`), or a
printf conversion. Of the text there are only lengths. Subtraction is that of `size_t`
(`Minus`, modulo `Word`). `PrintCut` is the attempt of `hm_cat_vprintf` that filled the
buffer; the attempt after `Realloc` formats from a used `va_list`, so its length is
any. `filled` and `end` are history: how far the text is without a gap, and one past
the last byte ever written.

### Json

A text is a sequence of tokens, drawn when it is first looked at (`Look`), so every text
is explored and none twice. A string is one token: what happens inside one, escapes
and UTF-16, is data. `frames` is the recursion of `parse_array`, `parse_object`,
`print_array` and `print_object`. `items` are the nodes with type and parent in the
order of their making, `live` the ones not freed; `Deleted(i)` is what
`cJSON_Delete(i)` frees, siblings after it included. `SkipOver` and `SkipDone` are
`buffer_skip_whitespace`; `Put` and `Count` are a piece written at the offset and
`update_offset`. `cJSON_Parse` accepts a text with anything behind the value, and so does
the model.

When a text is accepted `feed` says whose it is, and the walk over `todo` follows the
function for it. `NoId` and `HasId` are the lookup of "Id" in all three: one that is
neither number nor string is remembered in `unfit`, and deleted by `parse_league_json` alone.
Which member is called what is data, so any may be.

| action | code |
|---|---|
| `SaveFields` | a match, or a league without tournaments: `parse_match_json`, `parse_league_json` |
| `SaveTournaments` | a league with them (`tours`): the array and a structure for each are allocated and used as they come; the array is never freed |
| `SaveMarket` | `parse_market_json` to the printing of the odds; the copy of the name is allocated and used as it comes |
| `Printed` | the end of `print`: the buffer has been given to `realloc` before it is known whether there is a smaller one |
| `CopyOdds` | `parse_market_json` behind the printing: the copy of the odds is allocated and used as it comes |
| `FreeMarket` | `free_market`, on every way out of `update_or_create_market_for_mysql` |
| `Overwritten` | what a string too long for its field (`Copied`) did to the memory behind it ends the process; it need not |
| `LookUpInArray`, `DeleteAll` | `strcmp` of a name that is NULL; `cJSON_Delete(json)` |

`heap` is what these allocate beside the tree: "name" and "odds" of the market in hand, a
"buffer" that `print` lost, the "tournaments" of leagues. `mishaps` records what went wrong:
a `malloc` of the library ("library") or of a record's own ("record"), the last `realloc`
of `print` ("shrink"), a string that was too long ("long"). Freeing an item twice, a NULL
name compared, and a NULL pointer written to lead to `aborted`.

### Daemon

`pc`, `pid`, `leader` are the process a start has come to; `owner` and `file` the record
lock and the contents of `LOCK_FILE`. The lock belongs to a process: it ends with its
owner and a child does not inherit it. A start that finds the lock held closes the file
and returns 0 (`Locked`), as the owner does: `daemonize` keeps no second instance
from running, it only keeps its number out of the file. The call in `start_listener` is
commented out.

## Runs

| run | instance | shows |
|---|---|---|
| `listener_faults` | 1 constant, 1 incremental file, 2 timer threads, queue 2, batch 2, 3 edits, Redis errors and crashes | `TypeOK`, `NoMissedUpdate`, `NoMissedIncrement`, `CleanMeansSaved` |
| `listener_crash` | 1 constant and 2 incremental files of one table, 2 timer threads, queue 3, crashes only | `DirtyHasCopy`, `NewestIncrementWins`, `SavedNeverRegresses`, `ImplementsWriteBehind` |
| `listener_live` | 2 constant files loaded in another order than they are scanned, 2 timer threads, queue 1 | `EventuallyCached`, `DirtyEventuallyFlushed` |
| `session_one` | 1 thread; a league twice with 2 and 3 tournaments, a match between; any subset of it in MySQL before; statements fail | `TypeOK`, `FindIsRight`, `NoDuplicate`, `SavedWhole`, `Finishes` |
| `session_two` | 2 threads, matches beside a league, statements and results fail | `ConnectionReady`, `Finishes` |
| `session_stale` | 1 thread, one result cannot be stored | `FindIsRight` is violated |
| `session_race` | 2 threads, nothing fails | `FindIsRight` is violated |
| `hm_queue` | 2 callers, 3 calls, one statement refused, `list_max` 2, a pipe of 2 bytes, allocations and connections that fail | `TypeOK`, `SizeIsTotal`, `WithinLimit`, `OnlyOnce`, `NothingForgotten`, `ImplementsOutbox`, `CallsReturn`, `EverySettled`, `FiniReturns` |
| `sql_buffer` | buffer of 4 bytes growing to 48, pieces to 7, statements past 24 bytes, `size_t` modulo 400 | `TypeOK`, `NoOverrun`, `SentIsWritten`, `FormatEnds` |
| `json` | every text to 8 tokens, and every continuation of a record, of a league's tournaments and of an object of odds; each saved as a league, a market and a match; every `malloc` may fail, every string be too long; nesting limit 3, print buffer of 6 bytes | `TypeOK`, `ReadsInside`, `AcceptsJson`, `OddsAreText`, `PrintFits`, `OnlyKnownLeaks`, `AbortsOn`, `SavingEnds` |
| `json_delete` | the same texts, no failing `malloc` | `DeletesSubentities` is violated |
| `daemon` | 3 starts, 10 process numbers, failing calls, deaths anywhere | `OwnerNamed`, `NoTerminal` |

Bounds.

* `Listener` (`MaxEdit`, `QueueMax`, `BatchMax`). An edit is one system call of the
  producer, so three are enough to create and fill a file in place (create, half, whole)
  or to rename three versions over each other, before, during and after start-up; with
  a queue of 2 events overflow, merging and batches of two all occur; with two timer
  threads one flushes while the other waits and the main thread wants the mutex.
  `listener_crash` has a queue that holds every edit, because a dropped event may spoil
  the order of two files, and `NewestIncrementWins` says so. `listener_live` leaves crashes
  out: they would excuse every file by putting it in `lost`. In all `listener_*` runs a
  save to MySQL may fail at any time, whatever `Faults` is. `EventuallyCached` allows for
  a file to end in `lost` (overflow or the gap before the watch): the code does not rescan
  the directory.
* `HmSession` (`MaxRows`): two rows of one number are a duplicate already.
* `HmQueue` (`MaxCalls`, `ListMax`, `PipeMax`): with three calls of different lengths the
  list is empty, at its limit and over it (one long statement alone), a caller blocks at
  the full pipe while it holds `hm->lock`, and a refused statement stands in front of
  others.
* `SqlBuffer` (`InitSize`, `MemMax`, `ArgMax`, `LenMax`, `Word`): the buffer grows three
  times and then fails, in each growth by one doubling or more, from every distance to
  its end. `Word` exceeds 8 `MemMax`, as 2^64 exceeds what `realloc` gives.
* `Json` (`TextMax`, `Beginning`, `RareMax`, `NestLimit`, `BufInit`, `StrMax`, `Fault`): eight
  tokens hold containers in containers to the limit and past it, closed wrongly or not
  at all; the given beginnings reach records with an Id and odds, tournaments with
  members, and arrays inside tournaments. White space, words and huge numbers, which change one function each,
  occur once in a text. The print buffer grows while a value of the given sizes is
  printed.
* `Daemon` (`PidMax`): a start takes three numbers, so all three starts can run through,
  and one can come again after its death.

No `listener_*` run stops: an armed timer always expires again. The other runs do not
check for deadlock because their systems may stop - files saved, connection closed,
text saved, statement lengths or process numbers used up; that they stop where they
should is what `Finishes`, `CallsReturn`, `FiniReturns`, `FormatEnds` and `SavingEnds` say.

Fairness.

* `Listener`: weak for the main thread and each timer thread: threads are scheduled.
  Strong for `CacheFileValue` and `Lock`: the mutex becomes free again and again and is
  held a moment of each hour, so a waiting thread gets it. The timer expires for ever.
  The producer is not fair; its edits are bounded.
* `HmSession`: each thread goes on while it can (the client library returns from each
  call).
* `HmQueue`: strong for each caller and the thread, who wait for mutexes and for room in
  the pipe; strong for `ExecAnswered`, because the server does not stay away for ever.
  Without the last `himysql_fini` may not return: the thread repeats the head of the
  list and looks at `running` no more. `FiniReturns` asks for room in the pipe: with a
  full pipe the thread may end before `himysql_fini` has written its byte, which then
  waits for ever.
* `SqlBuffer`: the thread in `himysql()` runs, and every format has an end (`Send`).
* `Json`: the thread that saves the file runs.
* `Daemon` states nothing about progress.

### What the three violated runs show

`find_market_for_mysql` documents its result as -1 for an error, 0 for no record, 1
for a record (`src/libs/lis_market.c:25`). `session_stale`: `mysql_store_result`
fails, `hm_sql` returns `HM_OK` with `hm->result` NULL, `himysql_fetch_row` returns
an error nobody looks at and leaves `hm->row` as the lookup before left it.
`session_race`: the main thread saves an incremental file through the connection the
timer thread is using, because `mutex_lock` covers only `redis_set` and `ref`; no
call fails, and a lookup answers for the other thread's statement.

`cJSON_Delete` is documented to "delete a cJSON entity and all subentities"
(`src/inc/cJSON.h:154`). `json_delete`: it follows `item->next` as well, so deleting a
league's unusable Id, as `parse_league_json` does, frees the members behind it, which
`cJSON_Delete(json)` frees again later.

## Proofs

The constants are constrained by the named assumptions of each module: names differ
(files, threads, nothing, free mutexes), bounds are naturals, file indices are distinct
and the load order names the same files, a buffer starts with at least two bytes and
`size_t` is much larger than memory, a text given to `Json` has not ended. No size is
bounded: the theorems hold for any number of files, threads, statements, starts, any
queue, buffer and text.

| theorem | statement |
|---|---|
| `ListenerProofs!TypeInvariant` | `Spec => []TypeOK` |
| `ListenerProofs!CacheInvariant` | `Spec => []CacheInv` |
| `ListenerProofs!FlushFindsCopy` | `Spec => []DirtyHasCopy` |
| `ListenerProofs!Refinement` | `Spec => ImplementsWriteBehind` |
| `ListenerProofs!CleanIsSaved` | `Spec => []CleanMeansSaved` |
| `ListenerProofs!VersionsGrow` | `Spec => SavedNeverRegresses`, for a Redis that obeys |
| `WatchProofs!UpdatesAreNotMissed` | `Spec => []NoMissedUpdate` |
| `WatchProofs!IncrementsAreNotMissed` | `Spec => []NoMissedIncrement` |
| `WatchProofs!NewestIncrementsWin` | `Spec => []NewestIncrementWins` |
| `HmSessionProofs!SessionTypes` | `Spec => []TypeOK` |
| `HmSessionProofs!ConnectionFree` | `Spec => []ConnectionReady` |
| `HmSessionProofs!LookupIsRight` | `Spec => []FindIsRight`, for one thread whose results can be stored |
| `HmSessionProofs!SavedIsWhole` | `Spec => []SavedWhole`, for the same |
| `HmSessionProofs!NumbersAreUnique` | `Spec => []NoDuplicate`, for the same and jobs with `PartsAreOwn` |
| `HmQueueProofs!QueueInvariant`, `QueueTypes` | `Spec => []QueueInv`, `[]TypeOK` |
| `HmQueueProofs!SizeIsSum` | `Spec => []SizeIsTotal` |
| `HmQueueProofs!LimitHolds` | `Spec => []WithinLimit` |
| `HmQueueProofs!StatementsAreOwn` | `Spec => []OnlyOnce` |
| `HmQueueProofs!NoneForgotten` | `Spec => []NothingForgotten` |
| `HmQueueProofs!QueueRefinement` | `Spec => ImplementsOutbox` |
| `SqlBufferProofs!BufferInvariant`, `BufferTypes` | `Spec => []BufferInv`, `[]TypeOK` |
| `SqlBufferProofs!NeverOverrun` | `Spec => []NoOverrun` |
| `SqlBufferProofs!SentWhole` | `Spec => []SentIsWritten` |
| `JsonProofs!ParserStaysInside` | `Spec => []ReadsInside` |
| `JsonProofs!PrinterStaysInside` | `Spec => []PrintFits` |
| `JsonProofs!JsonTypes` | `Spec => []TypeOK` |
| `JsonProofs!LeaksAreKnown` | `Spec => []OnlyKnownLeaks` |
| `JsonProofs!AbortsAreKnown` | `Spec => []AbortsOn` |
| `JsonProofs!OddsAreParsed` | `Spec => []OddsAreText` |
| `JsonProofs!ParserTellsJson` | `Spec => []AcceptsJson` |
| `JsonGrammarProofs!JsonTextIsRead` | a text of 1 to `TextMax` tokens is in `JsonText` exactly when the reader ends done and was never too deep |
| `JsonGrammarProofs!RefusedIsNone` | a text the reader goes wrong at, before it is done, is no JSON text, begins none, and has none in front |
| `DaemonProofs!DaemonInvariant` | `Spec => []DaemonInv` |
| `DaemonProofs!LockNamesOwner` | `Spec => []OwnerNamed` |
| `DaemonProofs!NeverTerminal` | `Spec => []NoTerminal` |

**Listener.** `TypeOK` is inductive once it says what `pc` implies for `cur` and `at`.
`CacheInv` adds `MutualExclusion` (who scans holds the mutex), `FlushIsCurrent` (what a
thread is flushing is still the present copy: `CacheFileValue` needs the mutex), `StartUp`
(nothing is dirty and no timer runs before the watch, so `LoadSet`, which takes no
mutex, disturbs no flush) and `LoadedIsSaved`. It is the invariant under which every step
is a step of `WriteBehind` or a stutter. `CopyInv` adds that only what was read is stored.

`CleanMeansSaved` is not inductive: it needs that a saved version is not overtaken by
an older copy. `SavedInv` adds `VersionOrder` (versions only get older on their way
from the directory to Redis) and `ClearedIsSaved`. `SavedNeverRegresses` needs the other
direction, `SavedOrder`: what is on its way to MySQL is not older than what is there. It
fails if Redis refuses a SET: the old copy stays behind a newer saved version, the flag
is set anyway, and the flush goes back. Hence the assumption.

`NoMissedUpdate` needs `InHandIsPresent`: what the main thread has read of a file is
its present contents unless a later event is already queued, which is why a file
that changes while it is read is read again. `WatchInv` adds that and `BatchInUse`;
the lemmas on `Queued`, `Tail` and `SubSeq` say that no step of the queue drops a
name. Both kinds of file are proved together (`NoMissedChange`).

`NewestIncrementWins` is about two files of one table: the row must not keep the older
one. `InOrder` says why it does not: wherever the older contents are (an event in the
queue, one in the batch, the file in hand, what was read of it), an event of the newer
file follows them. `NothingDropped` is the property's own condition made inductive:
with room for every edit, no event of overflow is in the queue. Flushes and restarts
write the row too, hence `WatchProofs` builds on `ListenerProofs`. The property excepts
what a flush of a constant file put there (`ConstSaveKeeps`).

**HmSession.** `SessionInv` says that a thread is at a record and part that exist, and that
what `Query` sends is a statement. For one thread `LookupInv` adds `Carried`: how the
answer travels from the server through `unread` and `result` to `row`. The two violated
runs show that neither of the theorem's assumptions can be left out. On right lookups
rest the other two: `SavedWhole` by `UpdatesFind` (an update finds a row to change, and
sends the version that is saved) and `WrittenSoFar` (of the record in hand, what was
passed without a failure is there); `NoDuplicate` by `InsertsNew` and `FreshIsNew`: the
tournaments of a league just inserted are inserted without a lookup, so they must be new
themselves. That no lookup can guarantee; `PartsAreOwn` says it of the feed: a
tournament is listed once and in one league. The same league may come any number of times.
Again a failed statement may have been executed.

**HmQueue.** `QueueInv` adds `Owned` (who holds which mutex, and that `len` is one behind
between linking and counting), `Served` (the thread that has seen a length finds a
head; the list is empty when it ends), `OwnStatement` (a call that has not appended its
text still has it for itself) and `LimitKept` (the limit, with the node that is not
counted yet). `SizeIsTotal` needs `Counted`, the sum with the node that is linked and not
counted, and what appending and `Tail` do to a sum (`AppendTotal`, `TailTotal`). `Total` is a
recursive function; its equation and the induction are proved from least counterexamples
(`NatSetInduction`, `AddsUpExists`), because no prover takes the library's induction.

**SqlBuffer.** `RoomKept`: two bytes stay free behind the text, so the unsigned
`buf_size - len - 2` never wraps; `Growing`: `hm_expand_buf` at least doubles and does not
overflow.

**Json.** `ReadInv`: the zero is the last token, and where the parser may step back the
offset is not zero. `PrintInv` only needs that `ensure` gives room for what was asked
behind the offset (`EnsureRoom`), because every piece asks for no less than it writes.
`TreeInv` is about the items: `ParserInv` (as long as nothing has failed every item is live
and `depth` counts the frames; the outermost frame is the root, so what is left when it
gives up is the root alone), `WalkInv` (what has been visited could be looked into; every
item is live unless `parse_league_json` has met an Id it cannot use, and that Id is not
live any more) and `HeapInv` (what is allocated beside the tree are the strings the record
in hand needs at this point and what is lost already). Each container frees what was made
after it (`Fail`), which is why the proof needs no induction over the tree.

`OnlyKnownLeaks` says what is left allocated when a file is refused or saved, and between two
records: exactly the buffer, if and only if the last `realloc` of `print` has failed, and
exactly the tournaments, if and only if there was a league that had some. `AbortsOn` says
where the process ends, in both directions: a file that is saved to its end has no
record and no tournament that is an array with elements, and as a league file no Id that
is neither number nor string, and no `malloc` of a record has failed; a file that is not
has one of these, or a string longer than its field. Such a string only may end the
process. So the library survives each of its own failing `malloc`s, and the callers survive
none of theirs. What an abort leaves behind is the operating system's.

`OddsAreText` joins the two halves of the library over a tree of any depth, again without an
induction over it: `LayoutInv` says of each item only what is next to it in the text.
`Begun`: between its elder sibling's end (or its parent's bracket) and its first token there
is nothing but a comma (or nothing), and in an object a name and a colon; `Closed`: behind
the last child of a container there is only its closing bracket; `Complete`: both. While
the parser runs (`Laid`) that holds of every item but the open frames and the one just
made, and `Here` says what has been read since; when `cJSON_Parse` accepts, it holds of
all. The printer walks the same items, and `Written` says that what it has written, with
what it has still to write before the next item, is the text up to there. So each step
of either only adds one stretch to another (`SpelledStep`, `SpelledJoin`). `OddsInv` is the
three invariants together; TLC finds it true on the instance of `json`, too.

`AcceptsJson` compares a parser that goes through the text once with a grammar, so the
proof has two halves, and a reader stands between them (`Step` in `JsonGrammar`): the
kinds of the containers it is in, and what it expects next.

* The reader is the grammar (`JsonGrammarProofs`). That a derived value takes the reader
  from `value` to where a value ends, inside any containers, is an induction over the
  length of the text along the grammar's equations. For the way back the text is cut where
  the reader first leaves the container that the first token opened, and between two
  members where it is at a comma of that container. `Nesting`, which counts brackets,
  is the height of the stack on every text the reader does not refuse. All inductions are
  over sets of numbers (`NatSetInduction`), as for `Total`.
* The parser is the reader (`ReaderInv`). As long as nothing has failed, the reader, run
  over what the parser has left behind it (`Taken`: without white space and mark), is in
  the containers of `frames` and expects what the parser's place stands for (`Awaited`).
  Where the parser gives up for another reason than memory the next token leaves the
  reader stuck or too deep (`Refused`), and so no text that goes on from there is JSON.

`ReaderInv` is inductive together with `TreeInv` and `LayoutInv`, which say where the
parser is in the text; TLC finds it true on the instance of `json`, too. `TextMax` bounds
the grammar, not the parser: the theorem holds for every value of it. The half about
rejected texts has no such condition, because a text of any length that is refused is
none of the grammar's.

**Daemon.** `Numbered`: no two processes have a number; `Owned`: who truncates or writes
holds the lock; `Leads`: who leads a session is between `setsid` and the second fork.

Only model-checked is everything about liveness (`EventuallyCached`,
`DirtyEventuallyFlushed`, `Finishes`, `CallsReturn`, `EverySettled`, `FiniReturns`,
`FormatEnds`, `SavingEnds`), which the prover does not reach. Every invariant, action
property and refinement of a passing run is a theorem.

## Not modelled

* **Hash map**: nothing calls it, and no state of the program depends on it.
* **JSON, the rest**: `cJSON_Utils.c`, building and changing trees, formatted printing,
  `cJSON_Minify`, `cJSON_Compare`: called by nothing.
* **Data**: the fields copied from a JSON record into a row (an Id of a tournament that is
  neither number nor string stays as `malloc` found it), the bytes of strings and what a
  too long one overwrites, log lines.
* **Failing starts**: they end before anything is shared; among them `create_log_dir`, which
  reports failure when `mkdir` succeeded, and `const_file_size`, which is never set. Of the
  thread mode, `pthread_create`, whose failure is a positive number that is not looked for.
* **Resources**: descriptors (empty files are never closed) and the stack that holds the
  records of a file.
* **Log, configuration, tests**: output, constants, drivers without assertions.
* **`exit_cleanup`**: it runs when the start fails, an hour before the timer's first thread.

What would come next: a fault for `read` in `Listener` (a directory of a feed file's name
makes `read_file` repeat for ever) with a weaker `EventuallyCached`.
