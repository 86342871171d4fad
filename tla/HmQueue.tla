------------------------------ MODULE HmQueue -------------------------------
(***************************************************************************)
(* The MySQL client in its thread mode (HM_USE_THREAD): himysql() and      *)
(* himysql_query() append statements to a list with a limit, one thread of *)
(* the client sends them to the server, and himysql_fini() drains the list *)
(* before it returns.  Two mutexes: hm->lock, which only himysql() takes,  *)
(* and list->lock, without which the thread reads list->len and list->head.*)
(*                                                                         *)
(* A statement is the number of the call that brought it.  Whether a       *)
(* callback is set (himysql_set_fail_cb) is left out: "reported" means     *)
(* that it is called if there is one.                                      *)
(***************************************************************************)
EXTENDS Integers, Sequences

CONSTANTS
  Caller,    \* threads of the application
  MaxCalls,  \* calls of himysql() and himysql_query() made at most
  Size,      \* Size[s]: the length of statement s
  Invalid,   \* statements the server answers with an error of their own
  ListMax,   \* hm->list_max, set before the first call
  PipeMax,   \* bytes the pipe holds
  Fault,     \* what may fail: a subset of {"malloc", "lost"}
  Free,      \* a mutex nobody holds
  None       \* no statement

Statement == 1 .. MaxCalls

ASSUME SizeAssumption ==
  /\ MaxCalls \in Nat
  /\ Size \in [Statement -> Nat]
  /\ ListMax \in Nat
  /\ PipeMax \in Nat \ {0}

ASSUME NameAssumption ==
  /\ Invalid \subseteq Statement
  /\ Free \notin Caller
  /\ None \notin Statement

VARIABLES
  calls,     \* calls made so far
  mine,      \* mine[c]: the statement of c's call
  via,       \* via[c]: which of the two functions c called
  cpc,       \* cpc[c]: where c is in it
  lock,      \* hm->lock
  sql,       \* hm->sql
  listlock,  \* list->lock
  nodes,     \* the nodes from list->head on
  len,       \* list->len
  size,      \* list->size
  pipe,      \* bytes in the pipe
  running,   \* hm->running
  wpc,       \* where the thread of the client is
  sleep,     \* its argument of hm_exec_list
  fpc,       \* where himysql_fini is
  accepted,  \* history: statements appended, in order
  executed,  \* history: what the server executed, in order (see Logged)
  reported   \* history: statements fail_cb was called for

list == <<listlock, nodes, len, size>>
caller == <<calls, mine, via, cpc, lock, sql>>
worker == <<wpc, sleep>>
history == <<accepted, executed, reported>>
vars == <<caller, list, pipe, running, worker, fpc, history>>

TypeOK ==
  /\ calls \in 0 .. MaxCalls
  /\ mine \in [Caller -> Statement \cup {None}]
  /\ via \in [Caller -> {"himysql", "himysql_query"}]
  /\ cpc \in [Caller -> {"idle", "lock", "format", "add", "count", "wake", "unlock"}]
  /\ lock \in Caller \cup {Free}
  /\ sql \in Statement \cup {None}
  /\ listlock \in Caller \cup {Free}
  /\ nodes \in Seq(Statement)
  /\ len \in Nat
  /\ size \in Int
  /\ pipe \in 0 .. PipeMax
  /\ running \in BOOLEAN
  /\ wpc \in {"loop", "select", "list", "exec", "del", "done"}
  /\ sleep \in BOOLEAN
  /\ fpc \in {"open", "wake", "join", "closed"}
  /\ accepted \in Seq(Statement)
  /\ executed \in Seq(Statement)
  /\ reported \subseteq Statement

(* himysql_init: a connection, an empty list, a pipe, a thread.            *)
Init ==
  /\ calls = 0
  /\ mine = [c \in Caller |-> None]
  /\ via = [c \in Caller |-> "himysql"]
  /\ cpc = [c \in Caller |-> "idle"]
  /\ lock = Free
  /\ sql = None
  /\ listlock = Free
  /\ nodes = << >>
  /\ len = 0
  /\ size = 0
  /\ pipe = 0
  /\ running = TRUE
  /\ wpc = "loop"
  /\ sleep = TRUE
  /\ fpc = "open"
  /\ accepted = << >>
  /\ executed = << >>
  /\ reported = {}

-----------------------------------------------------------------------------
(* The callers.                                                            *)

Goto(c, l) == cpc' = [cpc EXCEPT ![c] = l]

(* himysql() takes hm->lock, himysql_query() does not.  Nobody calls either*)
(* once himysql_fini has been called.                                      *)
Call(c) ==
  /\ cpc[c] = "idle" /\ fpc = "open" /\ calls < MaxCalls
  /\ calls' = calls + 1
  /\ mine' = [mine EXCEPT ![c] = calls']
  /\ \/ via' = [via EXCEPT ![c] = "himysql"] /\ Goto(c, "lock")
     \/ via' = [via EXCEPT ![c] = "himysql_query"] /\ Goto(c, "add")
  /\ UNCHANGED <<lock, sql, list, pipe, running, worker, fpc, history>>

(* Variant: himysql() does not lock.                                       *)
EnterUnlocked(c) ==
  /\ cpc[c] = "lock"
  /\ lock' = c
  /\ Goto(c, "format")
  /\ UNCHANGED <<calls, mine, via, sql, list, pipe, running, worker, fpc, history>>

Enter(c) ==
  /\ cpc[c] = "lock" /\ lock = Free
  /\ lock' = c
  /\ Goto(c, "format")
  /\ UNCHANGED <<calls, mine, via, sql, list, pipe, running, worker, fpc, history>>

(* hm_format_sql into the buffer all callers share.                        *)
Format(c) ==
  /\ cpc[c] = "format"
  /\ sql' = mine[c]
  /\ Goto(c, "add")
  /\ UNCHANGED <<calls, mine, via, lock, list, pipe, running, worker, fpc, history>>

Text(c) == IF via[c] = "himysql" THEN sql ELSE mine[c]

Return(c) == Goto(c, IF via[c] = "himysql" THEN "unlock" ELSE "idle")

(* Variant: the statement itself is not counted against the limit.         *)
FitsBefore(s) == len = 0 \/ size <= ListMax

(* One statement may be longer than the limit, alone in the list.          *)
Fits(s) == len = 0 \/ size + Size[s] <= ListMax

(* hm_list_add_tail refuses: HM_ERROR, and the thread is not woken.        *)
AddRefused(c) ==
  /\ cpc[c] = "add" /\ listlock = Free
  /\ ~Fits(Text(c)) \/ "malloc" \in Fault
  /\ Return(c)
  /\ UNCHANGED <<calls, mine, via, lock, sql, list, pipe, running, worker, fpc, history>>

(* list_add_tail links the node ...                                        *)
AddLink(c) ==
  /\ cpc[c] = "add" /\ listlock = Free
  /\ Fits(Text(c))
  /\ listlock' = c
  /\ nodes' = IF len = 0 THEN <<Text(c)>> ELSE Append(nodes, Text(c))
  /\ accepted' = Append(accepted, Text(c))
  /\ Goto(c, "count")
  /\ UNCHANGED <<calls, mine, via, lock, sql, len, size, pipe, running, worker, fpc,
                 executed, reported>>

(* ... and counts it then: the thread, which reads both without the lock,  *)
(* sees a length only after the node.                                      *)
AddCount(c) ==
  /\ cpc[c] = "count"
  /\ len' = len + 1
  /\ size' = size + Size[nodes[Len(nodes)]]
  /\ listlock' = Free
  /\ Goto(c, "wake")
  /\ UNCHANGED <<calls, mine, via, lock, sql, nodes, pipe, running, worker, fpc, history>>

(* One byte into the pipe, which blocks while it is full.                  *)
Wake(c) ==
  /\ cpc[c] = "wake" /\ pipe < PipeMax
  /\ pipe' = pipe + 1
  /\ Return(c)
  /\ UNCHANGED <<calls, mine, via, lock, sql, list, running, worker, fpc, history>>

Leave(c) ==
  /\ cpc[c] = "unlock"
  /\ lock' = Free
  /\ Goto(c, "idle")
  /\ UNCHANGED <<calls, mine, via, sql, list, pipe, running, worker, fpc, history>>

-----------------------------------------------------------------------------
(* hm_thread_routine.                                                      *)

(* Variant: when running is cleared the thread just ends.                  *)
LoopNoDrain ==
  /\ wpc = "loop"
  /\ wpc' = IF running THEN "select" ELSE "done"
  /\ sleep' = running
  /\ UNCHANGED <<caller, list, pipe, running, fpc, history>>

(* while (hm->running) hm_thread_loop(hm); hm_exec_list(hm, 0);            *)
Loop ==
  /\ wpc = "loop"
  /\ wpc' = IF running THEN "select" ELSE "list"
  /\ sleep' = running
  /\ UNCHANGED <<caller, list, pipe, running, fpc, history>>

(* Variant: the byte stays in the pipe.                                    *)
SelectNoRead ==
  /\ wpc = "select"
  /\ wpc' = "list"
  /\ UNCHANGED <<caller, list, pipe, running, sleep, fpc, history>>

(* select() waits for a byte or 100 ms; one byte is read.                  *)
Select ==
  /\ wpc = "select"
  /\ pipe' = IF pipe > 0 THEN pipe - 1 ELSE 0
  /\ wpc' = "list"
  /\ UNCHANGED <<caller, list, running, sleep, fpc, history>>

(* while (list->len) in hm_exec_list, read without the lock.               *)
List ==
  /\ wpc = "list"
  /\ wpc' = IF len # 0 THEN "exec" ELSE IF sleep THEN "loop" ELSE "done"
  /\ UNCHANGED <<caller, list, pipe, running, sleep, fpc, history>>

(* Repetitions of one statement are not told apart.                        *)
Logged(s) == IF executed # << >> /\ executed[Len(executed)] = s
             THEN executed ELSE Append(executed, s)

(* Variant: a statement the server refuses is tried again.                 *)
ExecAnsweredRetry ==
  /\ wpc = "exec"
  /\ IF Head(nodes) \in Invalid
     THEN /\ reported' = reported \cup {Head(nodes)}
          /\ wpc' = "list"
          /\ UNCHANGED executed
     ELSE /\ executed' = Logged(Head(nodes))
          /\ wpc' = "del"
          /\ UNCHANGED reported
  /\ UNCHANGED <<caller, list, pipe, running, sleep, fpc, accepted>>

(* The server answers hm_exec: the statement is executed and its result    *)
(* taken and freed, or fail_cb is called.                                  *)
ExecAnswered ==
  /\ wpc = "exec"
  /\ IF Head(nodes) \in Invalid
     THEN reported' = reported \cup {Head(nodes)} /\ UNCHANGED executed
     ELSE executed' = Logged(Head(nodes)) /\ UNCHANGED reported
  /\ wpc' = "del"
  /\ UNCHANGED <<caller, list, pipe, running, sleep, fpc, accepted>>

(* Variant: a statement is dropped when the connection is lost.            *)
ExecLostDrop ==
  /\ wpc = "exec" /\ "lost" \in Fault
  /\ reported' = reported \cup {Head(nodes)}
  /\ wpc' = "del"
  /\ UNCHANGED <<caller, list, pipe, running, sleep, fpc, accepted, executed>>

(* HM_LOST: the server may have executed the statement.  It is tried again *)
(* after 100 ms, without a look at hm->running; in the last pass it is     *)
(* reported and given up.                                                  *)
ExecLost ==
  /\ wpc = "exec" /\ "lost" \in Fault
  /\ \/ UNCHANGED executed
     \/ /\ Head(nodes) \notin Invalid
        /\ executed' = Logged(Head(nodes))
  /\ IF sleep
     THEN wpc' = "list" /\ UNCHANGED reported
     ELSE wpc' = "del" /\ reported' = reported \cup {Head(nodes)}
  /\ UNCHANGED <<caller, list, pipe, running, sleep, fpc, accepted>>

(* Variant: the length is counted down, the size is not.                   *)
DelHeadSizeKept ==
  /\ wpc = "del" /\ listlock = Free
  /\ nodes' = Tail(nodes)
  /\ len' = len - 1
  /\ wpc' = "list"
  /\ UNCHANGED <<caller, listlock, size, pipe, running, sleep, fpc, history>>

(* Variant: both functions count the length down.                          *)
DelHeadTwice ==
  /\ wpc = "del" /\ listlock = Free
  /\ nodes' = Tail(nodes)
  /\ len' = len - 2
  /\ size' = size - Size[Head(nodes)]
  /\ wpc' = "list"
  /\ UNCHANGED <<caller, listlock, pipe, running, sleep, fpc, history>>

(* hm_list_del_head.                                                       *)
DelHead ==
  /\ wpc = "del" /\ listlock = Free
  /\ nodes' = Tail(nodes)
  /\ len' = len - 1
  /\ size' = size - Size[Head(nodes)]
  /\ wpc' = "list"
  /\ UNCHANGED <<caller, listlock, pipe, running, sleep, fpc, history>>

-----------------------------------------------------------------------------
(* himysql_fini.                                                           *)

(* Variant: the thread is not told.                                        *)
FiniStopForgotten ==
  /\ fpc = "open" /\ \A c \in Caller : cpc[c] = "idle"
  /\ fpc' = "wake"
  /\ UNCHANGED <<caller, list, pipe, running, worker, history>>

(* Called when no other call is under way: it frees the himysql_t.         *)
FiniStop ==
  /\ fpc = "open" /\ \A c \in Caller : cpc[c] = "idle"
  /\ running' = FALSE
  /\ fpc' = "wake"
  /\ UNCHANGED <<caller, list, pipe, worker, history>>

FiniWake ==
  /\ fpc = "wake" /\ pipe < PipeMax
  /\ pipe' = pipe + 1
  /\ fpc' = "join"
  /\ UNCHANGED <<caller, list, running, worker, history>>

(* pthread_join, hm_fini.                                                  *)
FiniJoin ==
  /\ fpc = "join" /\ wpc = "done"
  /\ fpc' = "closed"
  /\ UNCHANGED <<caller, list, pipe, running, worker, history>>

-----------------------------------------------------------------------------

Himysql(c) ==
  \/ Enter(c) \/ Format(c) \/ AddRefused(c) \/ AddLink(c) \/ AddCount(c)
  \/ Wake(c) \/ Leave(c)

ThreadRoutine ==
  Loop \/ Select \/ List \/ ExecAnswered \/ ExecLost \/ DelHead

Fini == FiniStop \/ FiniWake \/ FiniJoin

Next ==
  \/ \E c \in Caller : Call(c) \/ Himysql(c)
  \/ ThreadRoutine
  \/ Fini

Spec == Init /\ [][Next]_vars

(* A thread that can go on again and again does: whoever waits for a mutex *)
(* or for room in the pipe is not passed over for ever.  The server does   *)
(* not stay away for ever.                                                 *)
Fairness ==
  /\ \A c \in Caller : SF_vars(Himysql(c))
  /\ SF_vars(ThreadRoutine)
  /\ SF_vars(ExecAnswered)
  /\ WF_vars(FiniWake \/ FiniJoin)

FairSpec == Spec /\ Fairness

-----------------------------------------------------------------------------
(* Properties.                                                             *)

Elements(s) == {s[i] : i \in DOMAIN s}

(* The length of all statements of s together.                             *)
Total(s) ==
  LET sum[k \in 0 .. Len(s)] == IF k = 0 THEN 0 ELSE sum[k - 1] + Size[s[k]]
  IN sum[Len(s)]

(* list->len and list->size are what the list holds whenever nobody works  *)
(* on it: the limit is tested against them, and the thread goes by the     *)
(* length when it takes the head.                                          *)
SizeIsTotal ==
  listlock = Free =>
    /\ len = Len(nodes)
    /\ size = Total(nodes)

(* The list stays within list_max, but for one statement alone in it.      *)
WithinLimit == listlock = Free => size <= ListMax \/ len <= 1

(* Every call brings its own statement: two callers of himysql() never     *)
(* send what one of them wrote over the other's in hm->sql.                *)
OnlyOnce == \A i, j \in DOMAIN accepted : accepted[i] = accepted[j] => i = j

(* An accepted statement is in the list until the server executed it or it *)
(* was reported, and when himysql_fini returns the list is empty.          *)
NothingForgotten ==
  /\ Elements(accepted) \subseteq Elements(nodes) \cup Elements(executed) \cup reported
  /\ fpc = "closed" => nodes = << >>

(* The list with its two mutexes, the pipe and the thread is an outbox:    *)
(* first in, first out; nothing dropped before himysql_fini because the    *)
(* connection broke.  A statement has left once its answer is there.       *)
OB == INSTANCE Outbox WITH
        queue <- IF wpc = "del" THEN Tail(nodes) ELSE nodes,
        open <- running

ImplementsOutbox == OB!Spec

(* A call returns in the end, although it waits for two mutexes and for    *)
(* room in the pipe, one of them while it holds the other.                 *)
CallsReturn == \A c \in Caller : cpc[c] # "idle" ~> cpc[c] = "idle"

(* As long as the server comes back every accepted statement is executed   *)
(* or reported: one that the server refuses does not hold up the others.   *)
EverySettled ==
  \A s \in Statement :
    s \in Elements(accepted) ~> s \in Elements(executed) \cup reported

(* And himysql_fini returns, if it finds room for its byte in the pipe.    *)
(* With a full pipe it may not: the thread sees running cleared, drains the*)
(* list and ends without reading another byte, and write() blocks for ever.*)
FiniReturns == fpc = "wake" /\ pipe < PipeMax ~> fpc = "closed"
-----------------------------------------------------------------------------
(* What makes the properties above inductive.                              *)

(* Who is between linking and counting a node holds list->lock, and the    *)
(* length is one behind then; whoever holds hm->lock is in himysql().      *)
Owned ==
  /\ \A c \in Caller : listlock = c <=> cpc[c] = "count"
  /\ Len(nodes) = IF listlock = Free THEN len ELSE len + 1
  /\ \A c \in Caller :
       lock = c <=> /\ cpc[c] \in {"format", "add", "count", "wake", "unlock"}
                    /\ via[c] = "himysql"
  /\ \A c \in Caller : cpc[c] \in {"lock", "format", "unlock"} => via[c] = "himysql"

(* The thread has found a head, and finds none when it ends: nobody calls  *)
(* any more by then.                                                       *)
Served ==
  /\ wpc \in {"exec", "del"} => len > 0
  /\ wpc = "del" => Head(nodes) \in Elements(executed) \cup reported
  /\ ~running => fpc # "open"
  /\ fpc # "open" => \A c \in Caller : cpc[c] = "idle"
  /\ ~sleep => ~running
  /\ wpc = "done" => ~sleep /\ nodes = << >>
  /\ fpc = "closed" => wpc = "done"

(* A call that has not appended its statement yet still has it for itself. *)
Unsent(c) == cpc[c] \in {"lock", "format", "add"}

OwnStatement ==
  /\ Elements(accepted) \subseteq 1 .. calls
  /\ \A c \in Caller :
       Unsent(c) => mine[c] \in 1 .. calls /\ mine[c] \notin Elements(accepted)
  /\ \A c, d \in Caller : Unsent(c) /\ Unsent(d) /\ mine[c] = mine[d] => c = d
  /\ \A c \in Caller : cpc[c] = "add" /\ via[c] = "himysql" => sql = mine[c]

(* WithinLimit, with the node that is not counted yet.                     *)
LimitKept ==
  IF listlock = Free THEN size <= ListMax \/ len <= 1
  ELSE size + Size[nodes[Len(nodes)]] <= ListMax \/ len = 0

(* The inductive invariant.                                                *)
QueueInv ==
  TypeOK /\ Owned /\ Served /\ OwnStatement /\ LimitKept /\ OnlyOnce /\ NothingForgotten

(* SizeIsTotal, with the node that is not counted yet.                     *)
Counted ==
  Total(nodes) = IF listlock = Free THEN size ELSE size + Size[nodes[Len(nodes)]]

SizeInv == QueueInv /\ Counted
=============================================================================
