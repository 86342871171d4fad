-------------------------- MODULE HmSessionProofs --------------------------
(***************************************************************************)
(* That the connection is always free for the next statement, with any     *)
(* number of threads and any faults; and, when one thread has the himysql_t*)
(* for itself and every result can be stored, that a lookup is right, that *)
(* what is saved is saved whole, and that nothing is inserted twice.       *)
(***************************************************************************)
EXTENDS HmSession, TLAPS

USE NoneAssumption, RowsAssumption, FaultAssumption

(* The records a thread saves, and where it is among them.                 *)
LEMMA JobShape ==
  /\ \A t \in Thread : Len(Job[t]) \in Nat
  /\ \A t \in Thread : \A i \in 1 .. Len(Job[t]) :
       /\ Job[t][i].number \in Number
       /\ Job[t][i].version \in Nat
       /\ Len(Job[t][i].parts) \in Nat
       /\ \A j \in 1 .. Len(Job[t][i].parts) : Job[t][i].parts[j] \in Number
<1>1. ASSUME NEW t \in Thread
      PROVE  Job[t] \in Seq(Record)
  BY JobAssumption
<1>2. ASSUME NEW t \in Thread, NEW i \in 1 .. Len(Job[t])
      PROVE  Job[t][i] \in Record
  BY <1>1
<1>3. ASSUME NEW r \in Record
      PROVE  /\ r.number \in Number /\ r.version \in Nat /\ Len(r.parts) \in Nat
             /\ \A j \in 1 .. Len(r.parts) : r.parts[j] \in Number
  BY DEF Record
<1>. QED  BY <1>1, <1>2, <1>3

Controlled ==
  /\ item \in [Thread -> Nat \ {0}]
  /\ part \in [Thread -> Nat]
  /\ op \in [Thread -> Op]
  /\ step \in [Thread -> {"format", "query", "free", "store", "fetch", "test", "done"}]
  /\ Placed

LEMMA BeginControlled ==
  ASSUME Controlled, NEW t \in Thread, NEW i \in Nat \ {0}, NEW p \in Nat, NEW o \in Op,
         i <= Len(Job[t]) => p <= Len(Job[t][i].parts),
         Begin(t, i, p, o)
  PROVE  Controlled' /\ \A s \in Thread \ {t} : step'[s] = step[s]
BY JobShape DEF Controlled, Begin, Placed, Current

LEMMA NextItemControlled ==
  ASSUME Controlled, NEW t \in Thread, NextItem(t)
  PROVE  Controlled' /\ \A s \in Thread \ {t} : step'[s] = step[s]
<1>1. item[t] + 1 \in Nat \ {0} /\ "select" \in Op
  BY DEF Controlled, Op
<1>2. ASSUME item[t] + 1 <= Len(Job[t])
      PROVE  0 <= Len(Job[t][item[t] + 1].parts)
  <2>1. Len(Job[t][item[t] + 1].parts) \in Nat
    BY <1>1, <1>2, JobShape
  <2>. QED  BY <2>1
<1>3. Begin(t, item[t] + 1, 0, "select")
  BY DEF NextItem
<1>. QED  BY <1>1, <1>2, <1>3, BeginControlled

LEMMA NextPartControlled ==
  ASSUME Controlled, NEW t \in Thread, NextPart(t)
  PROVE  Controlled' /\ \A s \in Thread \ {t} : step'[s] = step[s]
<1>1. CASE part[t] < Len(Current(t).parts)
  <2>1. PICK o \in Op : Begin(t, item[t], part[t] + 1, o)
    BY <1>1 DEF NextPart, Op
  <2>2. item[t] \in Nat \ {0} /\ part[t] + 1 \in Nat
    BY DEF Controlled
  <2>3. item[t] <= Len(Job[t]) => part[t] + 1 <= Len(Job[t][item[t]].parts)
    BY <1>1, <2>2, JobShape DEF Controlled, Current
  <2>. QED  BY <2>1, <2>2, <2>3, BeginControlled
<1>2. CASE ~(part[t] < Len(Current(t).parts))
  BY <1>2, NextItemControlled DEF NextPart
<1>. QED  BY <1>1, <1>2

LEMMA GiveUpControlled ==
  ASSUME Controlled, NEW t \in Thread, GiveUp(t)
  PROVE  Controlled' /\ \A s \in Thread \ {t} : step'[s] = step[s]
BY NextItemControlled, NextPartControlled DEF GiveUp

(* No thread is sent back into the middle of himysql().                    *)
LEMMA BeginStep ==
  ASSUME Controlled, NEW t \in Thread,
         NextItem(t) \/ NextPart(t) \/ GiveUp(t)
  PROVE  step'[t] \in {"format", "done"}
<1>1. ASSUME NEW i, NEW p, NEW o, Begin(t, i, p, o)
      PROVE  step'[t] \in {"format", "done"}
  BY <1>1 DEF Begin, Controlled
<1>. QED  BY <1>1 DEF NextItem, NextPart, GiveUp

LEMMA SubjectInNumber ==
  ASSUME TypeOK, Placed, NEW t \in Thread, step[t] # "done"
  PROVE  Subject(t) \in Number /\ Current(t).version \in Nat
<1>1. item[t] \in 1 .. Len(Job[t]) /\ part[t] \in 0 .. Len(Job[t][item[t]].parts)
  BY JobShape DEF TypeOK, Placed, Current
<1>2. part[t] # 0 => part[t] \in 1 .. Len(Job[t][item[t]].parts)
  BY <1>1, JobShape
<1>. QED  BY <1>1, <1>2, JobShape DEF Subject, Current

LEMMA ExecuteTypes ==
  ASSUME TypeOK, NEW s \in Statement, Execute(s)
  PROVE  rows' \in [Number -> 0 .. MaxRows] /\ version' \in [Number -> Nat]
<1>1. \A n \in 0 .. MaxRows : More(n) \in 0 .. MaxRows
  BY DEF More
<1>2. s.number \in Number /\ s.version \in Nat
  BY DEF Statement
<1>. QED  BY <1>1, <1>2 DEF TypeOK, Execute

-----------------------------------------------------------------------------

LEMMA SessionInit == Init => SessionInv
<1>. SUFFICES ASSUME Init PROVE SessionInv
  OBVIOUS
<1>1. TypeOK
  <2>1. rows \in [Number -> 0 .. MaxRows]
    BY DEF Init
  <2>2. step \in [Thread -> {"format", "query", "free", "store", "fetch", "test", "done"}]
    BY DEF Init
  <2>3. row \in BOOLEAN /\ fresh \in [Thread -> BOOLEAN]
    BY DEF Init
  <2>. QED  BY <2>1, <2>2, <2>3 DEF Init, TypeOK, Op
<1>2. Placed
  <2>. SUFFICES ASSUME NEW t \in Thread, step[t] # "done"
       PROVE  item[t] <= Len(Job[t]) /\ part[t] <= Len(Current(t).parts)
    BY DEF Placed
  <2>1. Job[t] \in Seq(Record) /\ Job[t] # << >>
    BY JobAssumption DEF Init
  <2>2. 1 <= Len(Job[t])
    BY <2>1
  <2>. QED  BY <2>2, JobShape DEF Init, Current
<1>3. Formatted /\ ConnectionReady
  BY DEF Init, Formatted, ConnectionReady
<1>. QED  BY <1>1, <1>2, <1>3 DEF SessionInv

LEMMA TypedIsControlled == TypeOK /\ Placed => Controlled
BY DEF TypeOK, Controlled

LEMMA SaveInv ==
  ASSUME SessionInv, NEW t \in Thread, Save(t)
  PROVE  SessionInv'
<1> USE DEF SessionInv
<1>0. Controlled
  BY TypedIsControlled
<1>1. CASE Format(t)
  <2>1. [op |-> op[t], number |-> Subject(t), version |-> Current(t).version] \in Statement
    BY <1>1, SubjectInNumber DEF Format, Statement, TypeOK
  <2>2. TypeOK'
    BY <1>1, <2>1 DEF Format, TypeOK, server
  <2>3. Placed' /\ ConnectionReady'
    BY <1>1 DEF Format, TypeOK, Placed, Current, ConnectionReady
  <2>. QED  BY <1>1, <2>1, <2>2, <2>3 DEF Format, Formatted
<1>2. CASE Query(t)
  <2>1. sql \in Statement
    BY <1>2 DEF Query, Formatted, TypeOK
  <2>2. Execute(sql) \/ UNCHANGED server
    BY <1>2 DEF Query
  <2>3. rows' \in [Number -> 0 .. MaxRows] /\ version' \in [Number -> Nat]
    BY <2>1, <2>2, ExecuteTypes DEF server, TypeOK
  <2>4. unread' \in 0 .. MaxRows \cup {None}
    BY <1>2, <2>1 DEF Query, TypeOK, Statement
  <2>5. CASE GiveUp(t) /\ UNCHANGED unread
    <3>1. Controlled' /\ step'[t] \in {"format", "done"}
          /\ \A s \in Thread \ {t} : step'[s] = step[s]
      BY <1>0, <2>5, GiveUpControlled, BeginStep
    <3>2. item[t] \in Nat /\ failed' = failed \cup {<<t, item[t]>>}
      BY <2>5 DEF GiveUp, TypeOK
    <3>3. TypeOK'
      BY <1>2, <2>3, <2>4, <3>1, <3>2 DEF Query, TypeOK, Controlled
    <3>4. Formatted'
      BY <1>2, <3>1 DEF Query, Formatted
    <3>5. ConnectionReady'
      BY <1>2, <2>5, <3>1 DEF Query, ConnectionReady
    <3>. QED  BY <3>1, <3>3, <3>4, <3>5 DEF Controlled
  <2>6. CASE /\ step' = [step EXCEPT ![t] = "free"]
             /\ UNCHANGED <<item, part, op, failed>>
    <3>1. TypeOK'
      BY <1>2, <2>3, <2>4, <2>6 DEF Query, TypeOK
    <3>. QED  BY <1>2, <2>6, <3>1 DEF Query, TypeOK, Placed, Current, Formatted, ConnectionReady
  <2>. QED  BY <1>2, <2>5, <2>6 DEF Query
<1>3. CASE FreeResult(t)
  BY <1>3 DEF FreeResult, TypeOK, Placed, Current, Formatted, ConnectionReady, server
<1>4. CASE StoreResult(t)
  <2>1. CASE op[t] = "select"
    BY <1>4, <2>1 DEF StoreResult, TypeOK, Placed, Current, Formatted, ConnectionReady, server
  <2>2. CASE op[t] # "select"
    <3>1. NextPart(t)
      BY <1>4, <2>2 DEF StoreResult
    <3>2. Controlled' /\ step'[t] \in {"format", "done"}
          /\ \A s \in Thread \ {t} : step'[s] = step[s]
      BY <1>0, <3>1, NextPartControlled, BeginStep
    <3>3. TypeOK'
      BY <1>4, <3>2 DEF StoreResult, TypeOK, Controlled, server
    <3>4. Formatted' /\ ConnectionReady'
      BY <1>4, <3>2 DEF StoreResult, Formatted, ConnectionReady
    <3>. QED  BY <3>2, <3>3, <3>4 DEF Controlled
  <2>. QED  BY <2>1, <2>2
<1>5. CASE FetchRow(t)
  <2>1. result' \in 0 .. MaxRows \cup {None}
    BY <1>5 DEF FetchRow, TypeOK
  <2>2. row' \in BOOLEAN
    <3>1. result # None => result \in Nat
      BY DEF TypeOK
    <3>2. result # None => (result > 0) \in BOOLEAN
      BY <3>1
    <3>3. row' = row \/ (result # None /\ row' = (result > 0))
      BY <1>5, Zenon DEF FetchRow
    <3>. QED  BY <3>2, <3>3, Zenon DEF TypeOK
  <2>3. step' \in [Thread -> {"format", "query", "free", "store", "fetch", "test", "done"}]
    BY <1>5 DEF FetchRow, TypeOK
  <2>4. TypeOK'
    BY <1>5, <2>1, <2>2, <2>3 DEF FetchRow, TypeOK, server
  <2>. QED  BY <1>5, <2>4 DEF FetchRow, TypeOK, Placed, Current, Formatted, ConnectionReady
<1>6. CASE TestRow(t)
  <2>1. TypeOK'
    BY <1>6 DEF TestRow, TypeOK, server, hm, Op
  <2>. QED  BY <1>6, <2>1 DEF TestRow, TypeOK, Placed, Current, Formatted, ConnectionReady, hm
<1>. QED  BY <1>1, <1>2, <1>3, <1>4, <1>5, <1>6 DEF Save

LEMMA SessionNext == SessionInv /\ [Next]_vars => SessionInv'
<1>1. SessionInv /\ UNCHANGED vars => SessionInv'
  BY DEF vars, server, hm, control, SessionInv, TypeOK, Placed, Current, Formatted,
         ConnectionReady
<1>. QED  BY <1>1, SaveInv DEF Next

(* Type correctness: every thread stays within its job, for any jobs.      *)
THEOREM SessionTypes == Spec => []TypeOK
<1>1. SessionInv => TypeOK  BY DEF SessionInv
<1>. QED  BY <1>1, SessionInit, SessionNext, PTL DEF Spec

(* No result set waits on the connection between statements, however many  *)
(* threads take each other's results and whatever fails.                   *)
THEOREM ConnectionFree == Spec => []ConnectionReady
<1>1. SessionInv => ConnectionReady  BY DEF SessionInv
<1>. QED  BY <1>1, SessionInit, SessionNext, PTL DEF Spec

-----------------------------------------------------------------------------
(* One thread alone, and every result can be stored.                       *)

LEMMA SaveLookup ==
  ASSUME NEW t, Thread = {t}, "result" \notin Fault, LookupInv, Save(t)
  PROVE  Carried' /\ FindIsRight'
<1> USE DEF LookupInv, SessionInv
<1>0. Controlled /\ t \in Thread
  BY TypedIsControlled
<1>1. ASSUME step'[t] \in {"format", "done"}
      PROVE  Carried' /\ FindIsRight'
  BY <1>1 DEF Carried, FindIsRight
<1>2. CASE Format(t)
  <2>1. step'[t] = "query" /\ sql'.op = op[t] /\ sql'.number = Subject(t)
    BY <1>0, <1>2 DEF Format, Controlled
  <2>2. op' = op /\ Subject(t)' = Subject(t)
    BY <1>2 DEF Format, Subject, Current
  <2>. QED  BY <2>1, <2>2 DEF Carried, FindIsRight
<1>3. CASE Query(t)
  <2>1. CASE GiveUp(t)
    BY <1>0, <1>1, <2>1, BeginStep
  <2>2. CASE /\ Execute(sql)
             /\ unread' = IF sql.op = "select" THEN rows[sql.number] ELSE None
             /\ step' = [step EXCEPT ![t] = "free"]
             /\ UNCHANGED <<item, part, op, failed>>
    <3>1. step'[t] = "free" /\ op' = op /\ Subject(t)' = Subject(t)
      BY <1>0, <2>2 DEF Controlled, Subject, Current
    <3>2. sql.op = op[t] /\ sql.number = Subject(t)
      BY <1>3, <1>0 DEF Query, Carried
    <3>3. sql.op = "select" => rows' = rows
      BY <2>2 DEF Execute
    <3>. QED  BY <2>2, <3>1, <3>2, <3>3 DEF Carried, FindIsRight
  <2>. QED  BY <1>3, <2>1, <2>2 DEF Query
<1>4. CASE FreeResult(t)
  <2>1. step'[t] = "store" /\ step[t] = "free"
    BY <1>0, <1>4 DEF FreeResult, Controlled
  <2>2. /\ unread' = unread /\ op' = op /\ rows' = rows
        /\ Subject(t)' = Subject(t)
    BY <1>4 DEF FreeResult, Subject, Current, server
  <2>. QED  BY <1>0, <2>1, <2>2 DEF Carried, FindIsRight
<1>5. CASE StoreResult(t)
  <2>1. CASE op[t] = "select"
    <3>1. step'[t] = "fetch" /\ step[t] = "store" /\ result' = unread
      BY <1>0, <1>5, <2>1 DEF StoreResult, Controlled
    <3>2. rows' = rows /\ Subject(t)' = Subject(t)
      BY <1>5, <2>1 DEF StoreResult, Subject, Current, server
    <3>. QED  BY <1>0, <2>1, <3>1, <3>2 DEF Carried, FindIsRight
  <2>2. CASE op[t] # "select"
    <3>1. NextPart(t)
      BY <1>5, <2>2 DEF StoreResult
    <3>. QED  BY <1>0, <1>1, <3>1, BeginStep
  <2>. QED  BY <2>1, <2>2
<1>6. CASE FetchRow(t)
  <2>1. step'[t] = "test" /\ step[t] = "fetch" /\ rows' = rows /\ Subject(t)' = Subject(t)
    BY <1>0, <1>6 DEF FetchRow, Controlled, Subject, Current, server
  <2>2. result = rows[Subject(t)]
    BY <1>0, <2>1 DEF Carried
  <2>3. rows[Subject(t)] \in Nat
    BY <1>0, <2>1, SubjectInNumber DEF TypeOK
  <2>4. result # None
    BY <2>2, <2>3
  <2>5. row' = (result > 0)
    BY <1>6, <2>4, Zenon DEF FetchRow
  <2>6. row' <=> rows'[Subject(t)'] > 0
    BY <2>1, <2>2, <2>5, Zenon
  <2>. QED  BY <2>1, <2>6 DEF Carried, FindIsRight
<1>7. CASE TestRow(t)
  <2>1. step'[t] = "format"
    BY <1>0, <1>7 DEF TestRow, Controlled
  <2>. QED  BY <1>1, <2>1
<1>. QED  BY <1>2, <1>3, <1>4, <1>5, <1>6, <1>7 DEF Save

(* A thread that has the himysql_t for itself, and whose results can all   *)
(* be stored, is told of a record exactly when MySQL has it, whichever     *)
(* statements fail: what the two violated runs take away one at a time.    *)
THEOREM LookupIsRight ==
  ASSUME NEW t, Thread = {t}, "result" \notin Fault
  PROVE  Spec => []FindIsRight
<1>1. Init => LookupInv
  BY SessionInit DEF Init, LookupInv, Carried, FindIsRight
<1>2. LookupInv /\ [Next]_vars => LookupInv'
  <2>. SUFFICES ASSUME LookupInv, [Next]_vars PROVE LookupInv'
    OBVIOUS
  <2>1. SessionInv'
    BY SessionNext DEF LookupInv
  <2>2. CASE UNCHANGED vars
    <3>1. Carried' /\ FindIsRight'
      BY <2>2 DEF vars, server, hm, control, LookupInv, Carried, FindIsRight, Subject, Current
    <3>. QED  BY <2>1, <3>1 DEF LookupInv
  <2>3. CASE Save(t)
    BY <2>1, <2>3, SaveLookup DEF LookupInv
  <2>. QED  BY <2>2, <2>3 DEF Next
<1>3. LookupInv => FindIsRight
  BY DEF LookupInv
<1>. QED  BY <1>1, <1>2, <1>3, PTL DEF Spec
-----------------------------------------------------------------------------
(* What one statement does to the rows.                                    *)

LEMMA ExecuteEffect ==
  ASSUME TypeOK, NEW s \in Statement, Execute(s)
  PROVE  /\ s.op = "select" => UNCHANGED server
         /\ s.op = "update" => rows' = rows
         /\ s.op = "insert" => rows'[s.number] > 0
         /\ s.op = "insert" /\ rows[s.number] = 0 => rows'[s.number] = 1
         /\ s.op # "select" /\ rows'[s.number] > 0 => version'[s.number] = s.version
         /\ \A n \in Number : rows[n] > 0 => rows'[n] > 0
         /\ \A n \in Number : n # s.number => rows'[n] = rows[n] /\ version'[n] = version[n]
<1>1. s.op \in Op /\ s.number \in Number /\ s.version \in Nat
  BY DEF Statement
<1>2. rows \in [Number -> 0 .. MaxRows] /\ version \in [Number -> Nat]
  BY DEF TypeOK
<1>3. \A n \in 0 .. MaxRows : More(n) > 0 /\ (n = 0 => More(n) = 1)
  BY DEF More
<1>4. s.op = "insert" => rows'[s.number] = More(rows[s.number])
  BY <1>1, <1>2 DEF Execute
<1>5. \A n \in Number : n # s.number => rows'[n] = rows[n] /\ version'[n] = version[n]
  BY <1>1, <1>2 DEF Execute
<1>6. s.op # "insert" => rows' = rows
  BY DEF Execute
<1>7. s.op # "select" /\ rows'[s.number] > 0 => version'[s.number] = s.version
  BY <1>1, <1>2 DEF Execute
<1>8. s.op = "insert" => rows'[s.number] > 0
  BY <1>1, <1>2, <1>3, <1>4
<1>9. \A n \in Number : rows[n] > 0 => rows'[n] > 0
  BY <1>5, <1>6, <1>8
<1>10. s.op = "select" => UNCHANGED server
  BY DEF Execute, server
<1>11. s.op = "insert" /\ rows[s.number] = 0 => rows'[s.number] = 1
  BY <1>3, <1>4
<1>. QED  BY <1>1, <1>5, <1>6, <1>7, <1>8, <1>9, <1>10, <1>11

(* Where a thread that is not done is.                                     *)
LEMMA Position ==
  ASSUME SessionInv, NEW t \in Thread, step[t] # "done"
  PROVE  /\ item[t] \in 1 .. Len(Job[t]) /\ Len(Job[t]) \in Nat
         /\ Current(t) = Job[t][item[t]]
         /\ Len(Current(t).parts) \in Nat /\ DOMAIN Current(t).parts = 1 .. Len(Current(t).parts)
         /\ part[t] \in 0 .. Len(Current(t).parts)
         /\ \A p \in 0 .. Len(Current(t).parts) : Nth(t, p) \in Number
         /\ Subject(t) = Nth(t, part[t])
         /\ Covers(t, item[t]) = {Nth(t, p) : p \in 0 .. Len(Current(t).parts)}
<1>1. Len(Job[t]) \in Nat /\ item[t] \in 1 .. Len(Job[t])
  BY JobShape DEF SessionInv, TypeOK, Placed
<1>2. Current(t) = Job[t][item[t]]
  BY DEF Current
<1>3. Current(t) \in Record
  BY <1>1, <1>2, JobAssumption
<1>4. Current(t).number \in Number /\ Current(t).parts \in Seq(Number)
  BY <1>3 DEF Record
<1>5. Len(Current(t).parts) \in Nat /\ DOMAIN Current(t).parts = 1 .. Len(Current(t).parts)
  BY <1>4
<1>6. part[t] \in 0 .. Len(Current(t).parts)
  BY <1>5 DEF SessionInv, TypeOK, Placed
<1>7. \A p \in 0 .. Len(Current(t).parts) : Nth(t, p) \in Number
  BY <1>4, <1>5 DEF Nth
<1>8. Subject(t) = Nth(t, part[t])
  BY DEF Subject, Nth
<1>9. Covers(t, item[t]) = {Nth(t, p) : p \in 0 .. Len(Current(t).parts)}
  <2>1. ASSUME NEW n \in Covers(t, item[t])
        PROVE  \E p \in 0 .. Len(Current(t).parts) : n = Nth(t, p)
    <3>1. CASE n = Current(t).number
      BY <1>5, <3>1 DEF Nth
    <3>2. CASE n # Current(t).number
      <4>1. PICK j \in 1 .. Len(Current(t).parts) : n = Current(t).parts[j]
        BY <1>2, <1>5, <2>1, <3>2 DEF Covers
      <4>. QED  BY <1>5, <4>1 DEF Nth
    <3>. QED  BY <3>1, <3>2
  <2>2. ASSUME NEW p \in 0 .. Len(Current(t).parts)
        PROVE  Nth(t, p) \in Covers(t, item[t])
    <3>1. p # 0 => p \in 1 .. Len(Current(t).parts)
      BY <1>5
    <3>. QED  BY <1>2, <1>5, <3>1 DEF Nth, Covers
  <2>. QED  BY <2>1, <2>2
<1>. QED  BY <1>1, <1>2, <1>5, <1>6, <1>7, <1>8, <1>9

(* Where it goes from there.                                               *)
LEMMA NextItemIs ==
  ASSUME Controlled, NEW t \in Thread, NextItem(t)
  PROVE  /\ item'[t] = item[t] + 1 /\ part'[t] = 0 /\ op'[t] = "select"
         /\ step'[t] \in {"format", "done"}
BY DEF Controlled, NextItem, Begin

LEMMA NextPartIs ==
  ASSUME Controlled, NEW t \in Thread, NextPart(t), step[t] # "done"
  PROVE  \/ NextItem(t) /\ part[t] >= Len(Current(t).parts)
         \/ /\ part[t] < Len(Current(t).parts)
            /\ item'[t] = item[t] /\ part'[t] = part[t] + 1
            /\ op'[t] = IF fresh[t] THEN "insert" ELSE "select"
            /\ step'[t] \in {"format", "done"}
<1>1. item[t] \in 1 .. Len(Job[t])
  BY JobShape DEF Controlled, Placed
<1>2. Len(Current(t).parts) \in Nat /\ part[t] \in Nat
  BY <1>1, JobShape DEF Controlled, Current
<1>3. CASE part[t] < Len(Current(t).parts)
  BY <1>3 DEF Controlled, NextPart, Begin
<1>4. CASE ~(part[t] < Len(Current(t).parts))
  BY <1>2, <1>4 DEF NextPart
<1>. QED  BY <1>3, <1>4

LEMMA GiveUpIs ==
  ASSUME Controlled, NEW t \in Thread, GiveUp(t)
  PROVE  /\ failed' = failed \cup {<<t, item[t]>>}
         /\ NextItem(t) \/ (NextPart(t) /\ part[t] > 0)
BY DEF GiveUp, Controlled

(* No thread goes on to an update without looking the number up.           *)
LEMMA BeginOp ==
  ASSUME Controlled, NEW t \in Thread, step[t] # "done",
         NextItem(t) \/ NextPart(t) \/ GiveUp(t)
  PROVE  op'[t] # "update" /\ step'[t] \in {"format", "done"}
<1>1. NextItem(t) => op'[t] # "update"
  BY NextItemIs
<1>2. NextPart(t) => op'[t] # "update"
  BY <1>1, NextPartIs
<1>. QED  BY <1>1, <1>2, GiveUpIs, BeginStep

LEMMA QueryIs ==
  ASSUME SessionInv, Carried, NEW t \in Thread, Query(t)
  PROVE  /\ step[t] = "query"
         /\ sql \in Statement /\ sql.op = op[t] /\ sql.number = Subject(t)
         /\ UNCHANGED <<sql, fresh>>
         /\ \/ /\ Execute(sql)
               /\ step' = [step EXCEPT ![t] = "free"]
               /\ UNCHANGED <<item, part, op, failed>>
            \/ GiveUp(t) /\ (Execute(sql) \/ UNCHANGED server)
BY DEF Query, SessionInv, Formatted, Carried

LEMMA StoreIs ==
  ASSUME NEW t \in Thread, StoreResult(t)
  PROVE  /\ step[t] = "store" /\ UNCHANGED <<server, fresh, failed>>
         /\ \/ /\ op[t] = "select" /\ step' = [step EXCEPT ![t] = "fetch"]
               /\ UNCHANGED <<item, part, op>>
            \/ op[t] # "select" /\ NextPart(t)
BY DEF StoreResult

(* The other steps stay where they are and write nothing.                  *)
LEMMA QuietStep ==
  ASSUME Controlled, NEW t \in Thread, Format(t) \/ FreeResult(t) \/ FetchRow(t)
  PROVE  /\ UNCHANGED <<server, item, part, op, fresh, failed>>
         /\ \/ Format(t) /\ step[t] = "format" /\ step'[t] = "query"
            \/ step[t] = "free" /\ step'[t] = "store"
            \/ step[t] = "fetch" /\ step'[t] = "test"
BY DEF Controlled, Format, FreeResult, FetchRow

LEMMA UpdatesFindStep ==
  ASSUME NEW t, Thread = {t}, LookupInv, UpdatesFind, Save(t)
  PROVE  UpdatesFind'
<1>0. t \in Thread /\ SessionInv /\ Carried /\ TypeOK /\ FindIsRight /\ Controlled
  BY TypedIsControlled DEF LookupInv, SessionInv
<1>1. ASSUME step'[t] \in {"free", "store", "fetch", "test", "done"}
      PROVE  UpdatesFind'
  BY <1>1 DEF UpdatesFind
<1>2. ASSUME op'[t] # "update", step'[t] \in {"format", "done"}
      PROVE  UpdatesFind'
  BY <1>2 DEF UpdatesFind
<1>3. CASE Format(t)
  <2>1. /\ UNCHANGED <<server, item, part, op>> /\ step[t] = "format" /\ step'[t] = "query"
        /\ sql'.version = Current(t).version
    BY <1>0, <1>3 DEF Format, Controlled
  <2>2. rows' = rows /\ Subject(t)' = Subject(t) /\ Current(t)' = Current(t)
    BY <2>1 DEF Subject, Current, server
  <2>. QED  BY <1>0, <2>1, <2>2 DEF UpdatesFind
<1>4. CASE FreeResult(t) \/ FetchRow(t)
  <2>1. step'[t] \in {"store", "test"}
    BY <1>0, <1>4 DEF FreeResult, FetchRow, Controlled
  <2>. QED  BY <1>1, <2>1
<1>5. CASE Query(t)
  <2>1. CASE GiveUp(t)
    BY <1>0, <1>2, <1>5, <2>1, BeginOp, QueryIs
  <2>2. CASE step' = [step EXCEPT ![t] = "free"]
    BY <1>0, <1>1, <2>2 DEF Controlled
  <2>. QED  BY <1>0, <1>5, <2>1, <2>2, QueryIs
<1>6. CASE StoreResult(t)
  <2>1. CASE NextPart(t)
    BY <1>0, <1>2, <1>6, <2>1, BeginOp, StoreIs
  <2>2. CASE step' = [step EXCEPT ![t] = "fetch"]
    BY <1>0, <1>1, <2>2 DEF Controlled
  <2>. QED  BY <1>0, <1>6, <2>1, <2>2, StoreIs
<1>7. CASE TestRow(t)
  <2>1. /\ UNCHANGED <<server, item, part>> /\ step[t] = "test" /\ step'[t] = "format"
        /\ op'[t] = (IF row THEN "update" ELSE "insert")
    BY <1>0, <1>7 DEF TestRow, Controlled
  <2>2. rows' = rows /\ Subject(t)' = Subject(t)
    BY <2>1 DEF Subject, Current, server
  <2>3. row <=> rows[Subject(t)] > 0
    BY <1>0, <2>1 DEF FindIsRight
  <2>. QED  BY <1>0, <2>1, <2>2, <2>3 DEF UpdatesFind
<1>. QED  BY <1>3, <1>4, <1>5, <1>6, <1>7 DEF Save

(* What stands in MySQL for a number when another statement was executed.  *)
LEMMA ExecuteKeeps ==
  ASSUME TypeOK, NEW s \in Statement, Execute(s), NEW n \in Number, rows[n] > 0
  PROVE  /\ rows'[n] > 0
         /\ \/ rows'[n] = rows[n] /\ version'[n] = version[n]
            \/ n = s.number /\ s.op # "select" /\ version'[n] = s.version
<1>1. s.number \in Number
  BY DEF Statement
<1>2. CASE n # s.number
  BY <1>2, ExecuteEffect
<1>3. CASE n = s.number /\ s.op = "select"
  BY <1>3, ExecuteEffect DEF server
<1>4. CASE n = s.number /\ s.op # "select"
  BY <1>4, ExecuteEffect
<1>. QED  BY <1>2, <1>3, <1>4

LEMMA WrittenStep ==
  ASSUME NEW t, Thread = {t}, LookupInv, UpdatesFind, WrittenSoFar, Save(t)
  PROVE  WrittenSoFar'
<1>0. t \in Thread /\ SessionInv /\ Carried /\ TypeOK /\ Controlled
  BY TypedIsControlled DEF LookupInv, SessionInv
<1>1. step[t] # "done"
  BY <1>0 DEF Save, Format, Query, FreeResult, StoreResult, FetchRow, TestRow
<1>2. part[t] \in Nat /\ part[t] <= Len(Current(t).parts) /\ item[t] \in Nat
  BY <1>0, <1>1, Position
<1>3. ASSUME item'[t] = item[t], step'[t] # "done", <<t, item[t]>> \notin failed', failed \subseteq failed',
             UNCHANGED server, LastWritten(t)' = LastWritten(t)
      PROVE  WrittenSoFar'
  <2>1. \A p : Nth(t, p)' = Nth(t, p) /\ Current(t)' = Current(t)
    BY <1>3 DEF Nth, Current
  <2>2. rows' = rows /\ version' = version
    BY <1>3 DEF server
  <2>. QED  BY <1>0, <1>1, <1>3, <2>1, <2>2 DEF WrittenSoFar
<1>4. ASSUME step'[t] = "done" \/ <<t, item'[t]>> \in failed'
      PROVE  WrittenSoFar'
  BY <1>4 DEF WrittenSoFar
<1>5. ASSUME NextItem(t)
      PROVE  WrittenSoFar'
  <2>1. part'[t] = 0 /\ op'[t] = "select"
    BY <1>0, <1>5, NextItemIs
  <2>2. LastWritten(t)' = -1
    BY <2>1 DEF LastWritten
  <2>. QED  BY <2>2 DEF WrittenSoFar
<1>6. CASE Format(t) \/ FreeResult(t) \/ FetchRow(t)
  <2>1. item' = item /\ part' = part /\ op' = op /\ failed' = failed /\ UNCHANGED server
    BY <1>0, <1>6, QuietStep
  <2>2. LastWritten(t)' = LastWritten(t)
    BY <1>0, <1>6, QuietStep DEF LastWritten
  <2>. QED  BY <1>3, <1>4, <2>1, <2>2
<1>7. CASE TestRow(t)
  <2>1. /\ item' = item /\ part' = part /\ failed' = failed /\ UNCHANGED server
        /\ step[t] = "test" /\ step'[t] = "format"
    BY <1>0, <1>7 DEF TestRow, Controlled
  <2>2. LastWritten(t)' = LastWritten(t)
    BY <2>1 DEF LastWritten
  <2>. QED  BY <1>3, <1>4, <2>1, <2>2
<1>8. CASE Query(t)
  <2>1. CASE GiveUp(t)
    <3>1. failed' = failed \cup {<<t, item[t]>>} /\ (NextItem(t) \/ NextPart(t))
      BY <1>0, <2>1, GiveUpIs
    <3>2. NextItem(t) \/ item'[t] = item[t]
      BY <1>0, <1>1, <3>1, NextPartIs
    <3>. QED  BY <1>4, <1>5, <3>1, <3>2
  <2>2. CASE /\ Execute(sql)
             /\ step' = [step EXCEPT ![t] = "free"]
             /\ UNCHANGED <<item, part, op, failed>>
    <3>1. step[t] = "query" /\ sql \in Statement /\ sql.op = op[t] /\ sql.number = Subject(t)
      BY <1>0, <1>8, QueryIs
    <3>2. step'[t] = "free" /\ \A p : Nth(t, p)' = Nth(t, p) /\ Current(t)' = Current(t)
      BY <1>0, <2>2 DEF Nth, Current, Controlled
    <3>3. CASE op[t] = "select"
      <4>1. UNCHANGED server
        BY <1>0, <2>2, <3>1, <3>3, ExecuteEffect
      <4>2. LastWritten(t)' = LastWritten(t)
        BY <2>2, <3>1, <3>2, <3>3 DEF LastWritten
      <4>. QED  BY <1>3, <1>4, <2>2, <4>1, <4>2
    <3>4. CASE op[t] # "select"
      <4>1. LastWritten(t)' = part[t] /\ LastWritten(t) = part[t] - 1
        BY <2>2, <3>1, <3>2, <3>4 DEF LastWritten
      <4>2. Subject(t) = Nth(t, part[t]) /\ Subject(t) \in Number
        BY <1>0, <1>1, <1>2, Position, SubjectInNumber DEF SessionInv
      <4>3. sql.version = Current(t).version /\ (op[t] = "update" => rows[Subject(t)] > 0)
        BY <1>0, <3>1 DEF UpdatesFind
      <4>4. op[t] \in {"insert", "update"}
        BY <1>0, <3>4 DEF TypeOK, Op
      <4>5. rows'[Subject(t)] > 0
        BY <1>0, <2>2, <3>1, <4>2, <4>3, <4>4, ExecuteEffect
      <4>6. version'[Subject(t)] = Current(t).version
        BY <1>0, <2>2, <3>1, <3>4, <4>2, <4>3, <4>5, ExecuteEffect
      <4>7. ASSUME NEW p \in 0 .. part[t], <<t, item[t]>> \notin failed
            PROVE  rows'[Nth(t, p)] > 0 /\ version'[Nth(t, p)] = Current(t).version
        <5>1. CASE p = part[t]
          BY <4>2, <4>5, <4>6, <5>1
        <5>2. CASE p # part[t]
          <6>1. p \in 0 .. LastWritten(t)
            BY <1>2, <4>1, <5>2
          <6>2. rows[Nth(t, p)] > 0 /\ version[Nth(t, p)] = Current(t).version
            BY <1>0, <1>1, <4>7, <6>1 DEF WrittenSoFar
          <6>3. Nth(t, p) \in Number
            BY <1>0, <1>1, <1>2, Position
          <6>. QED  BY <1>0, <2>2, <3>1, <4>3, <6>2, <6>3, ExecuteKeeps
        <5>. QED  BY <5>1, <5>2
      <4>. QED  BY <2>2, <3>2, <4>1, <4>7 DEF WrittenSoFar
    <3>. QED  BY <3>3, <3>4
  <2>. QED  BY <1>0, <1>8, <2>1, <2>2, QueryIs
<1>9. CASE StoreResult(t)
  <2>1. step[t] = "store" /\ UNCHANGED server /\ failed' = failed
    BY <1>0, <1>9, StoreIs
  <2>2. CASE op[t] = "select" /\ step' = [step EXCEPT ![t] = "fetch"] /\ UNCHANGED <<item, part, op>>
    <3>1. LastWritten(t)' = LastWritten(t)
      BY <2>1, <2>2 DEF LastWritten
    <3>. QED  BY <1>3, <1>4, <2>1, <2>2, <3>1
  <2>3. CASE op[t] # "select" /\ NextPart(t)
    <3>1. CASE /\ item'[t] = item[t] /\ part'[t] = part[t] + 1
               /\ step'[t] \in {"format", "done"}
      <4>1. LastWritten(t)' = LastWritten(t)
        BY <1>2, <2>1, <2>3, <3>1 DEF LastWritten
      <4>. QED  BY <1>3, <1>4, <2>1, <3>1, <4>1
    <3>. QED  BY <1>0, <1>1, <1>5, <2>3, <3>1, NextPartIs
  <2>. QED  BY <1>0, <1>9, <2>2, <2>3, StoreIs
<1>. QED  BY <1>6, <1>7, <1>8, <1>9 DEF Save

LEMMA SavedWholeStep ==
  ASSUME NEW t, Thread = {t}, LookupInv, WrittenSoFar, SavedWhole, Save(t)
  PROVE  SavedWhole'
<1>0. t \in Thread /\ SessionInv /\ Carried /\ TypeOK /\ Controlled
  BY TypedIsControlled DEF LookupInv, SessionInv
<1>1. step[t] # "done"
  BY <1>0 DEF Save, Format, Query, FreeResult, StoreResult, FetchRow, TestRow
<1>2. item[t] \in 1 .. Len(Job[t]) /\ Len(Job[t]) \in Nat
      /\ Covers(t, item[t]) = {Nth(t, p) : p \in 0 .. Len(Current(t).parts)}
      /\ Subject(t) \in Covers(t, item[t])
  BY <1>0, <1>1, Position
<1>3. \/ UNCHANGED server
      \/ Execute(sql) /\ sql \in Statement /\ sql.number = Subject(t)
  BY <1>0, QuietStep, QueryIs, StoreIs DEF Save, TestRow
<1>4. failed \subseteq failed' /\ item'[t] \in Nat
  BY <1>0, QuietStep, QueryIs, StoreIs, GiveUpIs, BeginStep, NextPartControlled, GiveUpControlled
     DEF Save, TestRow, Controlled
<1>5. \/ item'[t] = item[t]
      \/ item'[t] = item[t] + 1 /\ <<t, item[t]>> \in failed'
      \/ /\ item'[t] = item[t] + 1 /\ UNCHANGED server
         /\ part[t] = Len(Current(t).parts) /\ LastWritten(t) = part[t]
  <2>1. CASE Format(t) \/ FreeResult(t) \/ FetchRow(t) \/ TestRow(t)
    BY <1>0, <2>1, QuietStep DEF TestRow
  <2>2. CASE Query(t)
    <3>1. CASE GiveUp(t)
      BY <1>0, <1>1, <3>1, GiveUpIs, NextPartIs, NextItemIs
    <3>. QED  BY <1>0, <2>2, <3>1, QueryIs
  <2>3. CASE StoreResult(t)
    <3>1. CASE UNCHANGED <<item, part, op>>
      BY <3>1
    <3>2. CASE op[t] # "select" /\ NextPart(t)
      <4>1. UNCHANGED server /\ LastWritten(t) = part[t]
        BY <1>0, <2>3, <3>2, StoreIs DEF LastWritten
      <4>2. part[t] \in 0 .. Len(Current(t).parts) /\ Len(Current(t).parts) \in Nat
        BY <1>0, <1>1, Position
      <4>. QED  BY <1>0, <1>1, <3>2, <4>1, <4>2, NextPartIs, NextItemIs
    <3>. QED  BY <1>0, <2>3, <3>1, <3>2, StoreIs
  <2>. QED  BY <2>1, <2>2, <2>3 DEF Save
<1>6. item'[t] \in {item[t], item[t] + 1} /\ item[t] \in Nat /\ item[t] <= Len(Job[t])
  BY <1>2, <1>5
<1> DEFINE Done(i, n) ==
      \/ rows[n] > 0 /\ version[n] = Job[t][i].version
      \/ \E j \in i + 1 .. Len(Job[t]) : j <= item[t] /\ n \in Covers(t, j)
<1>7. ASSUME NEW i \in 1 .. item[t] - 1, <<t, i>> \notin failed, NEW n \in Covers(t, i)
      PROVE  Done(i, n)'
  <2>0. Done(i, n)
    BY <1>0, <1>7 DEF SavedWhole
  <2>1. CASE \E j \in i + 1 .. Len(Job[t]) : j <= item[t] /\ n \in Covers(t, j)
    <3>1. PICK j \in i + 1 .. Len(Job[t]) : j <= item[t] /\ n \in Covers(t, j)
      BY <2>1
    <3>2. j <= item'[t]
      BY <1>2, <1>6, <3>1
    <3>. QED  BY <3>1, <3>2 DEF Covers
  <2>2. CASE rows[n] > 0 /\ version[n] = Job[t][i].version
    <3>1. CASE UNCHANGED server
      BY <2>2, <3>1 DEF server
    <3>2. CASE Execute(sql) /\ sql \in Statement /\ n # Subject(t)
      <4>1. i \in 1 .. Len(Job[t])
        BY <1>2, <1>6
      <4>2. n \in Number
        BY <1>7, <4>1, JobShape DEF Covers
      <4>3. rows'[n] = rows[n] /\ version'[n] = version[n]
        BY <1>0, <1>3, <3>2, <4>2, ExecuteEffect DEF server
      <4>. QED  BY <2>2, <4>3
    <3>3. CASE n = Subject(t)
      <4>1. item[t] \in i + 1 .. Len(Job[t]) /\ item[t] <= item'[t]
        BY <1>2, <1>6
      <4>2. n \in Covers(t, item[t])
        BY <1>2, <3>3
      <4>. QED  BY <4>1, <4>2 DEF Covers
    <3>. QED  BY <1>3, <3>1, <3>2, <3>3
  <2>. QED  BY <2>0, <2>1, <2>2
<1>8. ASSUME NEW i \in Nat, i = item[t], item'[t] = item[t] + 1, <<t, i>> \notin failed',
             NEW n \in Covers(t, i)
      PROVE  Done(i, n)'
  <2>1. UNCHANGED server /\ LastWritten(t) = Len(Current(t).parts)
    BY <1>5, <1>6, <1>8
  <2>2. PICK p \in 0 .. Len(Current(t).parts) : n = Nth(t, p)
    BY <1>2, <1>8
  <2>3. rows[n] > 0 /\ version[n] = Current(t).version
    BY <1>0, <1>1, <1>4, <1>8, <2>1, <2>2 DEF WrittenSoFar
  <2>4. rows' = rows /\ version' = version
    BY <2>1 DEF server
  <2>. QED  BY <1>8, <2>3, <2>4 DEF Current
<1>. SUFFICES ASSUME NEW i \in 1 .. item'[t] - 1, <<t, i>> \notin failed', NEW n \in Covers(t, i)
     PROVE  Done(i, n)'
  BY <1>0 DEF SavedWhole, Covers
<1>9. CASE i < item[t]
  <2>1. i \in 1 .. item[t] - 1 /\ <<t, i>> \notin failed
    BY <1>4, <1>6, <1>9
  <2>. QED  BY <1>7, <2>1
<1>10. CASE ~(i < item[t])
  <2>1. i = item[t] /\ item'[t] = item[t] + 1
    BY <1>6, <1>10
  <2>. QED  BY <1>8, <2>1
<1>. QED  BY <1>9, <1>10

LEMMA LookupStep ==
  ASSUME NEW t, Thread = {t}, "result" \notin Fault, LookupInv, Save(t)
  PROVE  LookupInv'
<1>1. SessionInv'
  BY SessionNext DEF LookupInv, Next
<1>. QED  BY <1>1, SaveLookup DEF LookupInv

(* A record none of whose statements failed is in MySQL, whole and in the  *)
(* version that was saved, whatever happened to the records around it: the *)
(* parts of any number of records, some numbers in several of them.        *)
THEOREM SavedIsWhole ==
  ASSUME NEW t, Thread = {t}, "result" \notin Fault
  PROVE  Spec => []SavedWhole
<1>1. Init => WholeInv
  <2>. SUFFICES ASSUME Init PROVE WholeInv
    OBVIOUS
  <2>1. LookupInv
    BY SessionInit DEF Init, LookupInv, Carried, FindIsRight
  <2>2. UpdatesFind /\ SavedWhole
    BY DEF Init, UpdatesFind, SavedWhole
  <2>3. LastWritten(t) = -1
    BY DEF Init, LastWritten
  <2>. QED  BY <2>1, <2>2, <2>3 DEF WholeInv, WrittenSoFar
<1>2. WholeInv /\ [Next]_vars => WholeInv'
  <2>. SUFFICES ASSUME WholeInv, [Next]_vars PROVE WholeInv'
    OBVIOUS
  <2>1. CASE UNCHANGED vars
    <3>1. SessionInv' /\ Carried' /\ FindIsRight' /\ UpdatesFind'
      BY <2>1, SessionNext DEF vars, server, hm, control, WholeInv, LookupInv, Carried, FindIsRight,
         UpdatesFind, Subject, Current
    <3>2. WrittenSoFar'
      BY <2>1 DEF vars, server, hm, control, WholeInv, WrittenSoFar, LastWritten, Nth, Current
    <3>3. SavedWhole'
      BY <2>1 DEF vars, server, hm, control, WholeInv, SavedWhole, Covers
    <3>. QED  BY <3>1, <3>2, <3>3 DEF WholeInv, LookupInv
  <2>2. CASE Save(t)
    BY <2>2, LookupStep, UpdatesFindStep, WrittenStep, SavedWholeStep DEF WholeInv
  <2>. QED  BY <2>1, <2>2 DEF Next
<1>3. WholeInv => SavedWhole
  BY DEF WholeInv
<1>. QED  BY <1>1, <1>2, <1>3, PTL DEF Spec
-----------------------------------------------------------------------------
(* Nothing is inserted twice.                                              *)

(* A step inserts at most one row, of a number that had none.              *)
LEMMA InsertedWas ==
  ASSUME NEW t, Thread = {t}, LookupInv, InsertsNew, Save(t), NEW n \in Number
  PROVE  \/ rows'[n] = rows[n]
         \/ /\ step[t] = "query" /\ op[t] = "insert" /\ n = Subject(t)
            /\ rows[n] = 0 /\ rows'[n] = 1
<1>0. t \in Thread /\ SessionInv /\ Carried /\ TypeOK /\ Controlled
  BY TypedIsControlled DEF LookupInv, SessionInv
<1>1. CASE UNCHANGED server
  BY <1>1 DEF server
<1>2. CASE /\ step[t] = "query" /\ Execute(sql) /\ sql \in Statement
           /\ sql.op = op[t] /\ sql.number = Subject(t)
  <2>1. n = Subject(t) /\ op[t] = "insert" => rows[n] = 0
    BY <1>0, <1>2 DEF InsertsNew
  <2>2. op[t] \in {"select", "update", "insert"}
    BY <1>0 DEF TypeOK, Op
  <2>3. op[t] # "insert" => rows' = rows
    BY <1>0, <1>2, <2>2, ExecuteEffect DEF server
  <2>. QED  BY <1>0, <1>2, <2>1, <2>3, ExecuteEffect
<1>. QED  BY <1>0, <1>1, <1>2, QuietStep, QueryIs, StoreIs DEF Save, TestRow

(* The numbers of the record at hand and of its parts.                     *)
LEMMA OwnNumbers ==
  ASSUME PartsAreOwn, SessionInv, NEW t \in Thread, step[t] # "done",
         NEW j \in part[t] + 1 .. Len(Current(t).parts)
  PROVE  /\ j \in DOMAIN Current(t).parts
         /\ Current(t).parts[j] \in Number /\ Current(t).number \in Number
         /\ Current(t).parts[j] # Subject(t)
<1>1. /\ item[t] \in DOMAIN Job[t] /\ Current(t) = Job[t][item[t]]
      /\ j \in DOMAIN Current(t).parts
      /\ part[t] # 0 => part[t] \in DOMAIN Current(t).parts /\ part[t] # j
  BY Position, JobAssumption
<1>2. Nth(t, j) \in Number /\ Nth(t, 0) \in Number /\ j # 0
  BY Position
<1>3. Current(t).parts[j] # Current(t).number
  BY <1>1 DEF PartsAreOwn
<1>4. part[t] # 0 => Current(t).parts[j] # Current(t).parts[part[t]]
  BY <1>1 DEF PartsAreOwn
<1>. QED  BY <1>1, <1>2, <1>3, <1>4 DEF Subject, Nth

LEMMA RecordFirstStep ==
  ASSUME NEW t, Thread = {t}, LookupInv, InsertsNew, FreshIsNew, PartsHaveRecord, PartsAreOwn, Save(t)
  PROVE  PartsHaveRecord'
<1>0. t \in Thread /\ SessionInv
  BY DEF LookupInv
<1>. SUFFICES ASSUME NEW i \in DOMAIN Job[t], rows'[Job[t][i].number] = 0,
                     NEW j \in DOMAIN Job[t][i].parts
              PROVE  rows'[Job[t][i].parts[j]] = 0
  BY <1>0 DEF PartsHaveRecord
<1> DEFINE record == Job[t][i].number
           own == Job[t][i].parts[j]
<1>1. record \in Number /\ own \in Number
  <2>1. Job[t][i] \in Record
    BY <1>0, JobAssumption
  <2>. QED  BY <2>1 DEF Record
<1>2. rows[record] = 0
  BY <1>0, <1>1, InsertedWas
<1>3. rows[own] = 0
  BY <1>0, <1>2 DEF PartsHaveRecord
<1>4. ASSUME rows'[own] # rows[own]
      PROVE  FALSE
  <2>1. step[t] = "query" /\ own = Subject(t)
    BY <1>1, <1>4, InsertedWas
  <2>2. item[t] \in DOMAIN Job[t] /\ Current(t) = Job[t][item[t]]
        /\ (part[t] # 0 => part[t] \in DOMAIN Current(t).parts /\ part[t] > 0)
    BY <1>0, <2>1, Position, JobAssumption
  <2>3. own # Current(t).number
    BY <1>0, <2>2 DEF PartsAreOwn
  <2>4. part[t] # 0 /\ own = Current(t).parts[part[t]]
    BY <2>1, <2>3 DEF Subject
  <2>5. record = Current(t).number
    BY <1>0, <2>2, <2>4 DEF PartsAreOwn
  <2>6. rows[Current(t).number] > 0
    BY <1>0, <2>1, <2>2, <2>4 DEF FreshIsNew
  <2>. QED  BY <1>2, <2>5, <2>6
<1>. QED  BY <1>3, <1>4

(* The parts still to come of a record that was just inserted are new.     *)
LEMMA StillNew ==
  ASSUME NEW t, Thread = {t}, LookupInv, InsertsNew, FreshIsNew, PartsAreOwn, Save(t),
         fresh[t], part[t] > 0 \/ op[t] = "insert",
         NEW j \in part[t] + 1 .. Len(Current(t).parts)
  PROVE  rows'[Current(t).parts[j]] = 0
<1>0. t \in Thread /\ SessionInv
  BY DEF LookupInv
<1>1. step[t] # "done"
  BY <1>0 DEF Save, Format, Query, FreeResult, StoreResult, FetchRow, TestRow
<1>2. rows[Current(t).parts[j]] = 0
  BY <1>0, <1>1 DEF FreshIsNew
<1>3. Current(t).parts[j] \in Number /\ Current(t).parts[j] # Subject(t)
  BY <1>0, <1>1, OwnNumbers
<1>. QED  BY <1>2, <1>3, InsertedWas

(* What a step leaves for the record at hand, when it stays at hand.       *)
LEMMA RecordStays ==
  ASSUME NEW t, Thread = {t}, LookupInv, InsertsNew, FreshIsNew, Save(t),
         part[t] > 0 \/ (step[t] \in {"free", "store"} /\ op[t] # "select")
  PROVE  rows'[Current(t).number] > 0
<1>0. t \in Thread /\ SessionInv
  BY DEF LookupInv
<1>1. step[t] # "done"
  BY <1>0 DEF Save, Format, Query, FreeResult, StoreResult, FetchRow, TestRow
<1>2. rows[Current(t).number] > 0
  BY <1>0, <1>1 DEF FreshIsNew
<1>3. Current(t).number \in Number
  <2>1. Nth(t, 0) \in Number
    BY <1>0, <1>1, Position
  <2>. QED  BY <2>1 DEF Nth
<1>. QED  BY <1>2, <1>3, InsertedWas

LEMMA InsertsNewStep ==
  ASSUME NEW t, Thread = {t}, LookupInv, InsertsNew, FreshIsNew, PartsAreOwn, Save(t)
  PROVE  InsertsNew'
<1>0. t \in Thread /\ SessionInv /\ Carried /\ TypeOK /\ FindIsRight /\ Controlled
  BY TypedIsControlled DEF LookupInv, SessionInv
<1>1. step[t] # "done"
  BY <1>0 DEF Save, Format, Query, FreeResult, StoreResult, FetchRow, TestRow
<1>2. ASSUME step'[t] \notin {"format", "query"} \/ op'[t] # "insert"
      PROVE  InsertsNew'
  BY <1>2 DEF InsertsNew
<1>3. ASSUME NextItem(t) PROVE InsertsNew'
  BY <1>0, <1>2, <1>3, NextItemIs
<1>4. ASSUME NextPart(t), part[t] > 0 \/ (step[t] = "store" /\ op[t] # "select")
      PROVE  InsertsNew'
  <2>1. CASE /\ part[t] < Len(Current(t).parts) /\ fresh[t]
             /\ item'[t] = item[t] /\ part'[t] = part[t] + 1
    <3>1. part[t] + 1 \in part[t] + 1 .. Len(Current(t).parts) /\ part'[t] # 0
      BY <1>0, <1>1, <2>1, Position
    <3>2. Subject(t)' = Current(t).parts[part[t] + 1]
      BY <2>1, <3>1 DEF Subject, Current
    <3>3. part[t] \in Nat
      BY <1>0 DEF TypeOK
    <3>4. part[t] > 0 \/ op[t] = "insert"
      BY <1>0, <1>1, <1>4, <2>1, <3>3 DEF FreshIsNew
    <3>5. rows'[Current(t).parts[part[t] + 1]] = 0
      BY <2>1, <3>1, <3>4, StillNew
    <3>. QED  BY <3>2, <3>5 DEF InsertsNew
  <2>2. CASE op'[t] = "select"
    BY <1>2, <2>2
  <2>. QED  BY <1>0, <1>1, <1>3, <1>4, <2>1, <2>2, NextPartIs
<1>5. CASE Format(t) \/ FreeResult(t) \/ FetchRow(t)
  <2>1. /\ UNCHANGED <<server, item, part, op>>
        /\ step[t] = "format" \/ step'[t] \in {"store", "test"}
    BY <1>0, <1>5, QuietStep
  <2>2. Subject(t)' = Subject(t) /\ rows' = rows
    BY <2>1 DEF Subject, Current, server
  <2>. QED  BY <1>0, <1>2, <2>1, <2>2 DEF InsertsNew
<1>6. CASE Query(t)
  <2>1. CASE GiveUp(t)
    BY <1>0, <1>3, <1>4, <2>1, GiveUpIs
  <2>2. CASE step' = [step EXCEPT ![t] = "free"]
    BY <1>0, <1>2, <2>2 DEF Controlled
  <2>. QED  BY <1>0, <1>6, <2>1, <2>2, QueryIs
<1>7. CASE StoreResult(t)
  <2>1. CASE step' = [step EXCEPT ![t] = "fetch"]
    BY <1>0, <1>2, <2>1 DEF Controlled
  <2>. QED  BY <1>0, <1>4, <1>7, <2>1, StoreIs
<1>8. CASE TestRow(t)
  <2>1. /\ UNCHANGED <<server, item, part>> /\ step[t] = "test"
        /\ op'[t] = (IF row THEN "update" ELSE "insert")
    BY <1>0, <1>8 DEF TestRow, Controlled
  <2>2. rows' = rows /\ Subject(t)' = Subject(t)
    BY <2>1 DEF Subject, Current, server
  <2>3. row <=> rows[Subject(t)] > 0
    BY <1>0, <2>1 DEF FindIsRight
  <2>4. rows[Subject(t)] \in Nat
    BY <1>0, <1>1, SubjectInNumber DEF TypeOK, SessionInv
  <2>. QED  BY <1>0, <2>1, <2>2, <2>3, <2>4 DEF InsertsNew
<1>. QED  BY <1>5, <1>6, <1>7, <1>8 DEF Save

LEMMA FreshIsNewStep ==
  ASSUME NEW t, Thread = {t}, LookupInv, UpdatesFind, InsertsNew, FreshIsNew,
         PartsHaveRecord, PartsAreOwn, Save(t)
  PROVE  FreshIsNew'
<1>0. t \in Thread /\ SessionInv /\ Carried /\ TypeOK /\ FindIsRight /\ Controlled
  BY TypedIsControlled DEF LookupInv, SessionInv
<1>1. step[t] # "done"
  BY <1>0 DEF Save, Format, Query, FreeResult, StoreResult, FetchRow, TestRow
<1>2. part[t] \in Nat /\ op[t] \in {"select", "insert", "update"}
  BY <1>0 DEF TypeOK, Op
<1>3. ASSUME part'[t] = 0, op'[t] = "select"
      PROVE  FreshIsNew'
  BY <1>3 DEF FreshIsNew
<1>4. ASSUME NextItem(t) PROVE FreshIsNew'
  BY <1>0, <1>3, <1>4, NextItemIs
<1>5. ASSUME NextPart(t), part[t] > 0 \/ (step[t] = "store" /\ op[t] # "select"), fresh' = fresh
      PROVE  FreshIsNew'
  <2>1. CASE /\ part[t] < Len(Current(t).parts)
             /\ item'[t] = item[t] /\ part'[t] = part[t] + 1
    <3>1. Current(t)' = Current(t) /\ part'[t] # 0 /\ part'[t] > 0
      BY <1>2, <2>1 DEF Current
    <3>2. rows'[Current(t).number] > 0
      BY <1>5, RecordStays
    <3>3. ASSUME fresh[t], NEW j \in part'[t] + 1 .. Len(Current(t).parts)
          PROVE  rows'[Current(t).parts[j]] = 0
      <4>1. j \in part[t] + 1 .. Len(Current(t).parts)
        BY <1>0, <1>1, <1>2, <2>1, Position
      <4>2. part[t] > 0 \/ op[t] = "insert"
        BY <1>0, <1>1, <1>2, <1>5, <3>3 DEF FreshIsNew
      <4>. QED  BY <3>3, <4>1, <4>2, StillNew
    <3>. QED  BY <1>5, <3>1, <3>2, <3>3 DEF FreshIsNew
  <2>. QED  BY <1>0, <1>1, <1>4, <1>5, <2>1, NextPartIs
<1>6. CASE Format(t) \/ FreeResult(t) \/ FetchRow(t)
  <2>1. /\ UNCHANGED <<server, item, part, op, fresh>>
        /\ step'[t] \in {"free", "store"} => step[t] \in {"free", "store"}
    BY <1>0, <1>6, QuietStep
  <2>2. Current(t)' = Current(t) /\ rows' = rows
    BY <2>1 DEF Current, server
  <2>. QED  BY <1>0, <1>1, <2>1, <2>2 DEF FreshIsNew
<1>7. CASE Query(t)
  <2>0. /\ step[t] = "query" /\ sql \in Statement /\ sql.op = op[t] /\ sql.number = Subject(t)
        /\ fresh' = fresh
    BY <1>0, <1>7, QueryIs
  <2>1. CASE GiveUp(t)
    BY <1>0, <1>4, <1>5, <2>0, <2>1, GiveUpIs
  <2>2. CASE /\ Execute(sql) /\ step' = [step EXCEPT ![t] = "free"]
             /\ UNCHANGED <<item, part, op, failed>>
    <3>1. Current(t)' = Current(t) /\ step'[t] = "free"
      BY <1>0, <2>2 DEF Current, Controlled
    <3>2. ASSUME part[t] > 0 \/ op[t] # "select"
          PROVE  rows'[Current(t).number] > 0
      <4>1. CASE part[t] > 0
        BY <4>1, RecordStays
      <4>2. CASE part[t] = 0
        <5>1. Subject(t) = Current(t).number /\ Subject(t) \in Number
          BY <1>0, <1>1, <4>2, SubjectInNumber DEF Subject, SessionInv
        <5>2. op[t] = "insert" => rows'[Subject(t)] > 0
          BY <1>0, <2>0, <2>2, ExecuteEffect
        <5>3. op[t] = "update" => rows[Subject(t)] > 0 /\ rows' = rows
          BY <1>0, <2>0, <2>2, ExecuteEffect DEF UpdatesFind
        <5>. QED  BY <1>2, <3>2, <4>2, <5>1, <5>2, <5>3
      <4>. QED  BY <1>2, <4>1, <4>2
    <3>3. ASSUME fresh[t], part[t] > 0 \/ op[t] = "insert",
                 NEW j \in part[t] + 1 .. Len(Current(t).parts)
          PROVE  rows'[Current(t).parts[j]] = 0
      BY <3>3, StillNew
    <3>4. part[t] = 0 /\ op[t] # "select" => (fresh[t] <=> op[t] = "insert")
      BY <1>0, <1>1 DEF FreshIsNew
    <3>. QED  BY <1>0, <2>0, <2>2, <3>1, <3>2, <3>3, <3>4 DEF FreshIsNew
  <2>. QED  BY <1>0, <1>7, <2>1, <2>2, QueryIs
<1>8. CASE StoreResult(t)
  <2>1. CASE UNCHANGED <<item, part, op>> /\ step' = [step EXCEPT ![t] = "fetch"]
    <3>1. Current(t)' = Current(t) /\ step'[t] = "fetch" /\ rows' = rows /\ fresh' = fresh
      BY <1>0, <1>8, <2>1, StoreIs DEF Current, Controlled, server
    <3>. QED  BY <1>0, <1>1, <2>1, <3>1 DEF FreshIsNew
  <2>. QED  BY <1>0, <1>5, <1>8, <2>1, StoreIs
<1>9. CASE TestRow(t)
  <2>1. /\ UNCHANGED <<server, item, part>> /\ step[t] = "test" /\ step'[t] = "format"
        /\ op'[t] = (IF row THEN "update" ELSE "insert")
        /\ fresh'[t] = IF part[t] = 0 THEN ~row ELSE fresh[t]
    BY <1>0, <1>9 DEF TestRow, Controlled, TypeOK
  <2>2. Current(t)' = Current(t) /\ rows' = rows
    BY <2>1 DEF Current, server
  <2>3. part[t] = 0 /\ op'[t] # "select" => (fresh'[t] <=> op'[t] = "insert")
    BY <2>1
  <2>4. ASSUME fresh'[t], NEW j \in part[t] + 1 .. Len(Current(t).parts)
        PROVE  rows[Current(t).parts[j]] = 0
    <3>1. CASE part[t] = 0
      <4>1. rows[Subject(t)] = 0
        <5>1. row <=> rows[Subject(t)] > 0
          BY <1>0, <2>1 DEF FindIsRight
        <5>2. rows[Subject(t)] \in Nat
          BY <1>0, <1>1, SubjectInNumber DEF TypeOK, SessionInv
        <5>3. ~row
          BY <2>1, <2>4, <3>1
        <5>. QED  BY <5>1, <5>2, <5>3
      <4>2. /\ item[t] \in DOMAIN Job[t] /\ Current(t) = Job[t][item[t]]
            /\ j \in DOMAIN Current(t).parts
        BY <1>0, <1>1, <3>1, Position, JobAssumption
      <4>3. rows[Job[t][item[t]].number] = 0
        BY <3>1, <4>1, <4>2 DEF Subject
      <4>. QED  BY <1>0, <4>2, <4>3 DEF PartsHaveRecord
    <3>2. CASE part[t] # 0
      <4>1. fresh[t] /\ part[t] > 0
        BY <1>2, <2>1, <2>4, <3>2
      <4>. QED  BY <1>0, <1>1, <4>1 DEF FreshIsNew
    <3>. QED  BY <3>1, <3>2
  <2>5. part[t] > 0 => rows[Current(t).number] > 0
    BY <1>0, <1>1 DEF FreshIsNew
  <2>6. part' = part /\ Len(Current(t)'.parts) = Len(Current(t).parts)
    BY <2>1, <2>2
  <2>. QED  BY <1>0, <2>1, <2>2, <2>3, <2>4, <2>5, <2>6 DEF FreshIsNew
<1>. QED  BY <1>6, <1>7, <1>8, <1>9 DEF Save

LEMMA NoDuplicateStep ==
  ASSUME NEW t, Thread = {t}, LookupInv, InsertsNew, NoDuplicate, Save(t)
  PROVE  NoDuplicate'
BY InsertedWas DEF NoDuplicate

(* No number gets a second row, whichever statements fail and however      *)
(* often a record is saved again, although a tournament is not looked up   *)
(* when its league is new: this takes what the feed must guarantee, that a *)
(* tournament is listed once and in one league.                            *)
THEOREM NumbersAreUnique ==
  ASSUME NEW t, Thread = {t}, "result" \notin Fault, PartsAreOwn
  PROVE  Spec => []NoDuplicate
<1>1. Init => SingleInv
  <2>. SUFFICES ASSUME Init PROVE SingleInv
    OBVIOUS
  <2>1. LookupInv /\ PartsHaveRecord
    BY SessionInit DEF Init, LookupInv, Carried, FindIsRight
  <2>2. UpdatesFind /\ InsertsNew
    BY DEF Init, UpdatesFind, InsertsNew
  <2>3. FreshIsNew
    BY DEF Init, FreshIsNew
  <2>4. NoDuplicate
    BY DEF Init, NoDuplicate
  <2>. QED  BY <2>1, <2>2, <2>3, <2>4 DEF SingleInv
<1>2. SingleInv /\ [Next]_vars => SingleInv'
  <2>. SUFFICES ASSUME SingleInv, [Next]_vars PROVE SingleInv'
    OBVIOUS
  <2>1. CASE UNCHANGED vars
    <3>1. SessionInv' /\ Carried' /\ FindIsRight'
      BY <2>1, SessionNext DEF vars, server, hm, control, SingleInv, LookupInv, Carried,
         FindIsRight, Subject, Current
    <3>2. UpdatesFind' /\ InsertsNew'
      BY <2>1 DEF vars, server, hm, control, SingleInv, UpdatesFind, InsertsNew, Subject, Current
    <3>3. FreshIsNew' /\ PartsHaveRecord' /\ NoDuplicate'
      BY <2>1 DEF vars, server, hm, control, SingleInv, FreshIsNew, PartsHaveRecord, NoDuplicate,
         Current
    <3>. QED  BY <3>1, <3>2, <3>3 DEF SingleInv, LookupInv
  <2>2. CASE Save(t)
    BY <2>2, LookupStep, UpdatesFindStep, InsertsNewStep, FreshIsNewStep, RecordFirstStep,
       NoDuplicateStep DEF SingleInv
  <2>. QED  BY <2>1, <2>2 DEF Next
<1>3. SingleInv => NoDuplicate
  BY DEF SingleInv
<1>. QED  BY <1>1, <1>2, <1>3, PTL DEF Spec
=============================================================================
