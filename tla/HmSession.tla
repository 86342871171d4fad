----------------------------- MODULE HmSession ------------------------------
(***************************************************************************)
(* Saving records to MySQL through himysql_t in its synchronous mode: look *)
(* a record up by number, then insert or update it; a league first, then   *)
(* its tournaments.                                                        *)
(*                                                                         *)
(* All threads share one himysql_t, hence one statement buffer, one        *)
(* connection, one result and one row, and nothing locks them.  Each call  *)
(* of the client library and each access to the himysql_t is one step (two *)
(* threads inside one library call may do worse than what is modelled).    *)
(*                                                                         *)
(* The schema is not part of the source: nothing here keeps a number from  *)
(* being inserted twice, which is why the program looks it up first.       *)
(***************************************************************************)
EXTENDS Integers, Sequences, FiniteSets

CONSTANTS
  Thread,   \* the main thread and the threads of the timer
  Number,   \* numbers of matches, markets, leagues and tournaments
  Job,      \* Job[t]: the records t saves, each with the numbers of its parts
  MaxRows,  \* more rows of one number than this are not told apart
  Fault,    \* what may fail: a subset of {"query", "result"}
  None      \* NULL: no result

(* What the parsers keep of a record; one without an Id they pass over.    *)
Record == [number : Number, version : Nat \ {0}, parts : Seq(Number)]

ASSUME JobAssumption == Job \in [Thread -> Seq(Record)]
ASSUME FaultAssumption == Fault \subseteq {"query", "result"}
ASSUME NoneAssumption == None \notin Nat
ASSUME RowsAssumption == MaxRows \in Nat \ {0, 1}

VARIABLES
  sql,      \* hm->sql: the statement in the buffer
  unread,   \* rows of a result set the connection has not handed over, or None
  result,   \* hm->result: rows not fetched yet, or None
  row,      \* hm->row: is it a row (TRUE) or NULL
  rows,     \* rows[n]: how many rows MySQL has of number n
  version,  \* version[n]: the version last written to them
  item,     \* item[t]: index in Job[t] of the record being saved
  part,     \* part[t]: index of the part being saved, 0 for the record itself
  op,       \* op[t]: the statement t is working on
  fresh,    \* fresh[t]: the record was inserted, not updated
  step,     \* step[t]: where t is in himysql() or after it
  failed    \* history: records <<t, i>> one of whose statements failed

server == <<rows, version>>
hm == <<sql, unread, result, row>>
control == <<item, part, op, fresh, step>>
vars == <<server, hm, control, failed>>

Op == {"select", "insert", "update"}
Statement == [op : Op, number : Number, version : Nat]

TypeOK ==
  /\ sql \in Statement \cup {None}
  /\ unread \in 0 .. MaxRows \cup {None}
  /\ result \in 0 .. MaxRows \cup {None}
  /\ row \in BOOLEAN
  /\ rows \in [Number -> 0 .. MaxRows]
  /\ version \in [Number -> Nat]
  /\ item \in [Thread -> Nat \ {0}]
  /\ part \in [Thread -> Nat]
  /\ op \in [Thread -> Op]
  /\ fresh \in [Thread -> BOOLEAN]
  /\ step \in [Thread -> {"format", "query", "free", "store", "fetch", "test", "done"}]
  /\ failed \subseteq Thread \X Nat

(* MySQL may hold what was saved before: a tournament never without its    *)
(* league, which is written first.                                         *)
PartsHaveRecord ==
  \A t \in Thread : \A i \in DOMAIN Job[t] :
    rows[Job[t][i].number] = 0 =>
      \A j \in DOMAIN Job[t][i].parts : rows[Job[t][i].parts[j]] = 0

Init ==
  /\ sql = None
  /\ unread = None
  /\ result = None
  /\ row = FALSE
  /\ rows \in [Number -> {0, 1}]
  /\ PartsHaveRecord
  /\ version = [n \in Number |-> 0]
  /\ item = [t \in Thread |-> 1]
  /\ part = [t \in Thread |-> 0]
  /\ op = [t \in Thread |-> "select"]
  /\ fresh = [t \in Thread |-> FALSE]
  /\ step = [t \in Thread |-> IF Job[t] = << >> THEN "done" ELSE "format"]
  /\ failed = {}

Current(t) == Job[t][item[t]]

(* The number of the record, or of the part of it, that is being saved.    *)
Subject(t) == IF part[t] = 0 THEN Current(t).number ELSE Current(t).parts[part[t]]

-----------------------------------------------------------------------------
(* Which statement comes next.                                             *)

Begin(t, i, p, o) ==
  /\ item' = [item EXCEPT ![t] = i]
  /\ part' = [part EXCEPT ![t] = p]
  /\ op' = [op EXCEPT ![t] = o]
  /\ step' = [step EXCEPT ![t] = IF i > Len(Job[t]) THEN "done" ELSE "format"]

(* The loop over the records of a file.                                    *)
NextItem(t) == Begin(t, item[t] + 1, 0, "select")

(* Variant: the last tournament is forgotten.                              *)
NextPartButLast(t) ==
  IF part[t] + 1 < Len(Current(t).parts)
  THEN Begin(t, item[t], part[t] + 1, IF fresh[t] THEN "insert" ELSE "select")
  ELSE NextItem(t)

(* Variant: tournaments are inserted without looking.                      *)
NextPartBlind(t) ==
  IF part[t] < Len(Current(t).parts)
  THEN Begin(t, item[t], part[t] + 1, "insert")
  ELSE NextItem(t)

(* The loops over league_tournament: the tournaments of a league that was  *)
(* just inserted are inserted, the others looked up.                       *)
NextPart(t) ==
  IF part[t] < Len(Current(t).parts)
  THEN Begin(t, item[t], part[t] + 1, IF fresh[t] THEN "insert" ELSE "select")
  ELSE NextItem(t)

(* Variant: a tournament is tried again until it succeeds.                 *)
GiveUpRetry(t) ==
  /\ failed' = failed \cup {<<t, item[t]>>}
  /\ IF part[t] = 0 THEN NextItem(t) ELSE Begin(t, item[t], part[t], op[t])

(* himysql() did not return HM_OK: the record is given up, together with   *)
(* its parts; a part is given up alone.                                    *)
GiveUp(t) ==
  /\ failed' = failed \cup {<<t, item[t]>>}
  /\ IF part[t] = 0 THEN NextItem(t) ELSE NextPart(t)

-----------------------------------------------------------------------------
(* himysql().                                                              *)

(* hm_format_sql *)
Format(t) ==
  /\ step[t] = "format"
  /\ sql' = [op |-> op[t], number |-> Subject(t), version |-> Current(t).version]
  /\ step' = [step EXCEPT ![t] = "query"]
  /\ UNCHANGED <<server, unread, result, row, item, part, op, fresh, failed>>

More(n) == IF n < MaxRows THEN n + 1 ELSE n

(* The server executes the statement.                                      *)
Execute(s) ==
  /\ rows' = IF s.op = "insert" THEN [rows EXCEPT ![s.number] = More(@)] ELSE rows
  /\ version' = IF s.op # "select" /\ rows'[s.number] > 0
                THEN [version EXCEPT ![s.number] = s.version] ELSE version

(* mysql_real_query, in hm_exec: the statement is executed; or refused,    *)
(* because the previous result set was not read; or an error is reported,  *)
(* after the statement was executed or before.                             *)
Query(t) ==
  /\ step[t] = "query"
  /\ \/ /\ unread = None
        /\ Execute(sql)
        /\ unread' = IF sql.op = "select" THEN rows[sql.number] ELSE None
        /\ step' = [step EXCEPT ![t] = "free"]
        /\ UNCHANGED <<item, part, op, failed>>
     \/ /\ unread # None
        /\ GiveUp(t)
        /\ UNCHANGED <<server, unread>>
     \/ /\ "query" \in Fault /\ unread = None
        /\ Execute(sql) \/ UNCHANGED server
        /\ GiveUp(t)
        /\ UNCHANGED unread
  /\ UNCHANGED <<sql, result, row, fresh>>

(* himysql_free_result leaves hm->row as it is.                            *)
FreeResult(t) ==
  /\ step[t] = "free"
  /\ result' = None
  /\ step' = [step EXCEPT ![t] = "store"]
  /\ UNCHANGED <<server, sql, unread, row, item, part, op, fresh, failed>>

(* Variant: a result set that could not be stored stays on the connection. *)
StoreResultOrLeave(t) ==
  /\ step[t] = "store"
  /\ result' \in {unread} \cup (IF "result" \in Fault THEN {None} ELSE {})
  /\ unread' = IF result' = None THEN unread ELSE None
  /\ IF op[t] = "select"
     THEN step' = [step EXCEPT ![t] = "fetch"] /\ UNCHANGED <<item, part, op>>
     ELSE NextPart(t)
  /\ UNCHANGED <<server, sql, row, fresh, failed>>

(* mysql_store_result in hm_sql; NULL after an insert or an update, and    *)
(* when it fails, which hm_sql does not tell apart.                        *)
StoreResult(t) ==
  /\ step[t] = "store"
  /\ result' \in {unread} \cup (IF "result" \in Fault THEN {None} ELSE {})
  /\ unread' = None
  /\ IF op[t] = "select"
     THEN step' = [step EXCEPT ![t] = "fetch"] /\ UNCHANGED <<item, part, op>>
     ELSE NextPart(t)
  /\ UNCHANGED <<server, sql, row, fresh, failed>>

(* Variant: the end of the result is not looked for.                       *)
FetchRowPastEnd(t) ==
  /\ step[t] = "fetch"
  /\ IF result = None
     THEN UNCHANGED <<result, row>>
     ELSE row' = TRUE /\ result' = result - 1
  /\ step' = [step EXCEPT ![t] = "test"]
  /\ UNCHANGED <<server, sql, unread, item, part, op, fresh, failed>>

(* Variant: hm->row is not set when there is no row.                       *)
FetchRowIfAny(t) ==
  /\ step[t] = "fetch"
  /\ IF result \in {None, 0}
     THEN UNCHANGED <<result, row>>
     ELSE row' = TRUE /\ result' = result - 1
  /\ step' = [step EXCEPT ![t] = "test"]
  /\ UNCHANGED <<server, sql, unread, item, part, op, fresh, failed>>

(* himysql_fetch_row; without a result it leaves hm->row as it is.         *)
FetchRow(t) ==
  /\ step[t] = "fetch"
  /\ IF result = None
     THEN UNCHANGED <<result, row>>
     ELSE /\ row' = (result > 0)
          /\ result' = IF result > 0 THEN result - 1 ELSE 0
  /\ step' = [step EXCEPT ![t] = "test"]
  /\ UNCHANGED <<server, sql, unread, item, part, op, fresh, failed>>

(* The callers compare hm->row with NULL, not looking at what              *)
(* himysql_fetch_row returned.                                             *)
TestRow(t) ==
  /\ step[t] = "test"
  /\ op' = [op EXCEPT ![t] = IF row THEN "update" ELSE "insert"]
  /\ fresh' = IF part[t] = 0 THEN [fresh EXCEPT ![t] = ~row] ELSE fresh
  /\ step' = [step EXCEPT ![t] = "format"]
  /\ UNCHANGED <<server, hm, item, part, failed>>

Save(t) ==
  \/ Format(t) \/ Query(t) \/ FreeResult(t) \/ StoreResult(t) \/ FetchRow(t)
  \/ TestRow(t)

Next == \E t \in Thread : Save(t)

Spec == Init /\ [][Next]_vars

(* A thread that can go on does.                                           *)
FairSpec == Spec /\ \A t \in Thread : WF_vars(Save(t))

-----------------------------------------------------------------------------
(* Properties.                                                             *)

(* What a lookup reports is so: a row when MySQL has the number, no row    *)
(* when it has not.                                                        *)
FindIsRight ==
  \A t \in Thread : step[t] = "test" => (row <=> rows[Subject(t)] > 0)

(* No number gets a second row, whichever statements fail and whichever    *)
(* records are saved again.                                                *)
NoDuplicate == \A n \in Number : rows[n] <= 1

(* Between statements no result set waits on the connection, so that the   *)
(* next statement is not refused - even when threads take each other's     *)
(* results and some cannot be stored: hm_sql stores a result after every   *)
(* statement that was executed, not only after a SELECT of its own.        *)
ConnectionReady ==
  (\A t \in Thread : step[t] \notin {"free", "store"}) => unread = None

Covers(t, i) == {Job[t][i].number} \cup {Job[t][i].parts[j] : j \in DOMAIN Job[t][i].parts}

(* A record none of whose statements failed is in MySQL with all its parts,*)
(* in the version that was saved, until a later record has the same number.*)
SavedWhole ==
  \A t \in Thread : \A i \in 1 .. item[t] - 1 :
    <<t, i>> \notin failed =>
      \A n \in Covers(t, i) :
        \/ rows[n] > 0 /\ version[n] = Job[t][i].version
        \/ \E j \in i + 1 .. Len(Job[t]) : j <= item[t] /\ n \in Covers(t, j)

(* Every file gets to its end: a failed statement is not tried again.      *)
Finishes == \A t \in Thread : <>(step[t] = "done")

-----------------------------------------------------------------------------
(* What makes them inductive.                                              *)

(* A thread that is not done is at a record, and at a part the record has. *)
Placed ==
  \A t \in Thread :
    step[t] # "done" => item[t] <= Len(Job[t]) /\ part[t] <= Len(Current(t).parts)

Formatted == \A t \in Thread : step[t] = "query" => sql \in Statement

SessionInv == TypeOK /\ Placed /\ Formatted /\ ConnectionReady

(* How the answer to a lookup gets from the server to hm->row when nobody  *)
(* else uses the himysql_t and every result can be stored.                 *)
Carried ==
  \A t \in Thread :
    /\ step[t] = "query" => sql.op = op[t] /\ sql.number = Subject(t)
    /\ step[t] \in {"free", "store"} =>
         unread = IF op[t] = "select" THEN rows[Subject(t)] ELSE None
    /\ step[t] = "fetch" => result = rows[Subject(t)]

LookupInv == SessionInv /\ Carried /\ FindIsRight

(* What is updated is there, and in the version that is saved.             *)
UpdatesFind ==
  \A t \in Thread :
    /\ step[t] \in {"format", "query"} /\ op[t] = "update" => rows[Subject(t)] > 0
    /\ step[t] = "query" => sql.version = Current(t).version

(* The number of a record (p = 0) or of its part p, and the last of them   *)
(* that is written.                                                        *)
Nth(t, p) == IF p = 0 THEN Current(t).number ELSE Current(t).parts[p]
LastWritten(t) ==
  IF step[t] \in {"free", "store"} /\ op[t] # "select" THEN part[t] ELSE part[t] - 1

WrittenSoFar ==
  \A t \in Thread :
    step[t] # "done" /\ <<t, item[t]>> \notin failed =>
      \A p \in 0 .. LastWritten(t) :
        rows[Nth(t, p)] > 0 /\ version[Nth(t, p)] = Current(t).version

WholeInv == LookupInv /\ UpdatesFind /\ WrittenSoFar /\ SavedWhole

(* What the feed must guarantee: a tournament is listed once, in one       *)
(* league, and is itself no match, market or league (their tables differ). *)
PartsAreOwn ==
  \A t, s \in Thread : \A i \in DOMAIN Job[t], k \in DOMAIN Job[s] :
    \A j \in DOMAIN Job[t][i].parts :
      /\ Job[t][i].parts[j] # Job[s][k].number
      /\ \A l \in DOMAIN Job[s][k].parts :
           Job[t][i].parts[j] = Job[s][k].parts[l] =>
             /\ Job[t][i].number = Job[s][k].number
             /\ t = s /\ i = k => j = l

(* What is inserted is new.  The tournaments still to come of a league     *)
(* that was just inserted are, too; a tournament follows its league.       *)
InsertsNew ==
  \A t \in Thread :
    step[t] \in {"format", "query"} /\ op[t] = "insert" => rows[Subject(t)] = 0

FreshIsNew ==
  \A t \in Thread : step[t] # "done" =>
    /\ part[t] = 0 /\ op[t] # "select" => (fresh[t] <=> op[t] = "insert")
    /\ fresh[t] /\ (part[t] > 0 \/ op[t] = "insert") =>
         \A j \in part[t] + 1 .. Len(Current(t).parts) : rows[Current(t).parts[j]] = 0
    /\ part[t] > 0 \/ (step[t] \in {"free", "store"} /\ op[t] # "select") =>
         rows[Current(t).number] > 0

SingleInv ==
  LookupInv /\ UpdatesFind /\ InsertsNew /\ FreshIsNew /\ PartsHaveRecord /\ NoDuplicate
=============================================================================
