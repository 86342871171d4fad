--------------------------- MODULE HmQueueProofs ----------------------------
(* The client's thread mode for any number of callers, statements of any   *)
(* size, any limit and pipe: its list is sound, no statement is forgotten  *)
(* or sent twice over, and it implements the outbox.                       *)
EXTENDS HmQueue, WellFoundedInduction, TLAPS

-----------------------------------------------------------------------------
(* Sequences and their elements.                                           *)

LEMMA AppendElements ==
  ASSUME NEW S, NEW s \in Seq(S), NEW x \in S
  PROVE  /\ Append(s, x) \in Seq(S)
         /\ Elements(Append(s, x)) = Elements(s) \cup {x}
<1> DEFINE r == Append(s, x)
<1>1. r \in Seq(S) /\ DOMAIN r = 1 .. Len(s) + 1 /\ DOMAIN s = 1 .. Len(s) /\ Len(s) \in Nat
  OBVIOUS
<1>2. (\A i \in 1 .. Len(s) : r[i] = s[i]) /\ r[Len(s) + 1] = x
  OBVIOUS
<1>3. \A e : (\E i \in DOMAIN r : r[i] = e) <=> (\E i \in DOMAIN s : s[i] = e) \/ e = x
  <2> TAKE e
  <2>1. ASSUME NEW i \in DOMAIN s, s[i] = e PROVE \E j \in DOMAIN r : r[j] = e
    <3>1. i \in DOMAIN r /\ r[i] = e
      BY <1>1, <1>2, <2>1
    <3> QED
      BY <3>1
  <2>2. ASSUME e = x PROVE \E j \in DOMAIN r : r[j] = e
    <3>1. Len(s) + 1 \in DOMAIN r
      BY <1>1
    <3> QED
      BY <1>2, <2>2, <3>1
  <2>3. ASSUME NEW i \in DOMAIN r, r[i] = e PROVE (\E j \in DOMAIN s : s[j] = e) \/ e = x
    <3>1. i \in DOMAIN s \/ i = Len(s) + 1
      BY <1>1
    <3> QED
      BY <1>1, <1>2, <2>3, <3>1
  <2> QED
    BY <2>1, <2>2, <2>3
<1> QED
  BY <1>1, <1>3 DEF Elements

LEMMA TailElements ==
  ASSUME NEW S, NEW s \in Seq(S), s # << >>
  PROVE  /\ Tail(s) \in Seq(S) /\ Head(s) \in S
         /\ Len(Tail(s)) = Len(s) - 1 /\ Len(s) > 0
         /\ Elements(s) = {Head(s)} \cup Elements(Tail(s))
<1> DEFINE r == Tail(s)
<1>1. /\ r \in Seq(S) /\ Len(s) \in Nat \ {0} /\ Len(r) = Len(s) - 1
      /\ DOMAIN s = 1 .. Len(s) /\ DOMAIN r = 1 .. Len(s) - 1
      /\ Head(s) = s[1] /\ Head(s) \in S
  OBVIOUS
<1>2. \A i \in DOMAIN r : r[i] = s[i + 1]
  OBVIOUS
<1>3. \A e : (\E i \in DOMAIN s : s[i] = e) <=> e = Head(s) \/ (\E i \in DOMAIN r : r[i] = e)
  <2> TAKE e
  <2>1. ASSUME NEW i \in DOMAIN s, s[i] = e
        PROVE  e = Head(s) \/ (\E j \in DOMAIN r : r[j] = e)
    <3>1. CASE i = 1
      BY <1>1, <2>1, <3>1
    <3>2. CASE i # 1
      <4>1. i - 1 \in DOMAIN r /\ r[i - 1] = e
        BY <1>1, <1>2, <2>1, <3>2
      <4> QED
        BY <4>1
    <3> QED
      BY <3>1, <3>2
  <2>2. ASSUME NEW j \in DOMAIN r, r[j] = e PROVE \E i \in DOMAIN s : s[i] = e
    <3>1. j + 1 \in DOMAIN s /\ s[j + 1] = e
      BY <1>1, <1>2, <2>2
    <3> QED
      BY <3>1
  <2>3. ASSUME e = Head(s) PROVE \E i \in DOMAIN s : s[i] = e
    <3>1. 1 \in DOMAIN s
      BY <1>1
    <3> QED
      BY <1>1, <2>3, <3>1
  <2> QED
    BY <2>1, <2>2, <2>3
<1>4. \A e : e \in Elements(s) <=> e \in {Head(s)} \cup Elements(r)
  BY <1>3 DEF Elements
<1>5. Elements(s) = {Head(s)} \cup Elements(r)
  BY ONLY <1>4
<1> QED
  BY <1>1, <1>5

LEMMA LoggedElements ==
  ASSUME TypeOK, NEW s \in Statement
  PROVE  /\ Logged(s) \in Seq(Statement)
         /\ Elements(Logged(s)) = Elements(executed) \cup {s}
<1>1. executed \in Seq(Statement)
  BY DEF TypeOK
<1>2. CASE executed # << >> /\ executed[Len(executed)] = s
  <2>1. Len(executed) \in DOMAIN executed
    BY <1>1, <1>2
  <2>2. s \in Elements(executed)
    BY <1>2, <2>1 DEF Elements
  <2> QED
    BY <1>1, <1>2, <2>2 DEF Logged
<1>3. CASE ~(executed # << >> /\ executed[Len(executed)] = s)
  BY <1>1, <1>3, AppendElements DEF Logged
<1> QED
  BY <1>2, <1>3

-----------------------------------------------------------------------------
(* Sums.  Induction over the natural numbers, for a set: below the least   *)
(* number that is not in it there is one that is.                          *)

LEMMA NatSetInduction ==
  ASSUME NEW T, 0 \in T, \A n \in Nat : n \in T => n + 1 \in T
  PROVE  Nat \subseteq T
<1> DEFINE U == Nat \ T
<1> SUFFICES ASSUME U # {} PROVE FALSE
  OBVIOUS
<1>1. IsWellFoundedOn(OpToRel(<, Nat), Nat)
  BY NatLessThanWellFounded
<1>2. PICK m \in U : \A k \in U : ~(<<k, m>> \in OpToRel(<, Nat))
  <2>1. U \subseteq Nat
    OBVIOUS
  <2> QED
    BY <1>1, <2>1, WFMin
<1>3. \A k \in U : ~(k < m)
  BY <1>2 DEF OpToRel
<1>4. m - 1 \in Nat /\ m - 1 \notin U
  BY <1>3
<1> QED
  BY <1>4

(* f adds up the lengths of the statements of s.                           *)
AddsUp(f, s) ==
  /\ f \in [0 .. Len(s) -> Int]
  /\ f[0] = 0
  /\ \A k \in 1 .. Len(s) : f[k] = f[k - 1] + Size[s[k]]

LEMMA AddsUpExists ==
  ASSUME NEW s \in Seq(Statement)
  PROVE  \E f : AddsUp(f, s)
<1> DEFINE Upto(n) ==
      \E f \in [0 .. n -> Int] :
        f[0] = 0 /\ \A k \in 1 .. n : k <= Len(s) => f[k] = f[k - 1] + Size[s[k]]
           T == {n \in Nat : Upto(n)}
<1>1. 0 \in T
  <2> DEFINE z == [k \in 0 .. 0 |-> 0]
  <2>1. z \in [0 .. 0 -> Int] /\ z[0] = 0
    OBVIOUS
  <2>2. \A k \in 1 .. 0 : k <= Len(s) => z[k] = z[k - 1] + Size[s[k]]
    OBVIOUS
  <2> HIDE DEF z
  <2>3. Upto(0)
    BY <2>1, <2>2
  <2> QED
    BY <2>3
<1>2. ASSUME NEW n \in Nat, n \in T PROVE n + 1 \in T
  <2>1. PICK f \in [0 .. n -> Int] :
          f[0] = 0 /\ \A k \in 1 .. n : k <= Len(s) => f[k] = f[k - 1] + Size[s[k]]
    BY <1>2
  <2> DEFINE v == IF n + 1 <= Len(s) THEN f[n] + Size[s[n + 1]] ELSE 0
             g == [k \in 0 .. n + 1 |-> IF k = n + 1 THEN v ELSE f[k]]
  <2>2. v \in Int
    <3>1. n + 1 <= Len(s) => Size[s[n + 1]] \in Nat
      BY SizeAssumption
    <3> QED
      BY <2>1, <3>1
  <2>3. g \in [0 .. n + 1 -> Int]
    BY <2>1, <2>2
  <2>4. g[0] = 0 /\ \A k \in 1 .. n + 1 : k <= Len(s) => g[k] = g[k - 1] + Size[s[k]]
    BY <2>1
  <2>5. Upto(n + 1)
    BY <2>3, <2>4
  <2> HIDE DEF Upto
  <2> QED
    BY <2>5
<1>3. Len(s) \in T
  <2> HIDE DEF T
  <2> QED
    BY <1>1, <1>2, NatSetInduction
<1> QED
  BY <1>3 DEF AddsUp

(* There is one such f, and its last value is the total.                   *)
LEMMA TotalAddsUp ==
  ASSUME NEW s \in Seq(Statement), NEW f, AddsUp(f, s)
  PROVE  Total(s) = f[Len(s)]
<1> DEFINE g == CHOOSE h : h = [k \in 0 .. Len(s) |-> IF k = 0 THEN 0 ELSE h[k - 1] + Size[s[k]]]
<1>1. Total(s) = g[Len(s)]
  BY DEF Total
<1>2. f = [k \in 0 .. Len(s) |-> IF k = 0 THEN 0 ELSE f[k - 1] + Size[s[k]]]
  <2> DEFINE e == [k \in 0 .. Len(s) |-> IF k = 0 THEN 0 ELSE f[k - 1] + Size[s[k]]]
  <2>1. DOMAIN e = 0 .. Len(s) /\ DOMAIN f = 0 .. Len(s) /\ Len(s) \in Nat
    BY DEF AddsUp
  <2>2. \A k \in 0 .. Len(s) : e[k] = f[k]
    BY DEF AddsUp
  <2>3. f = [k \in 0 .. Len(s) |-> f[k]]
    BY DEF AddsUp
  <2>4. e = [k \in 0 .. Len(s) |-> f[k]]
    BY <2>2
  <2> QED
    BY <2>3, <2>4
<1>3. g = [k \in 0 .. Len(s) |-> IF k = 0 THEN 0 ELSE g[k - 1] + Size[s[k]]]
  BY <1>2, Zenon
<1> HIDE DEF g
<1> DEFINE T == {n \in Nat : n <= Len(s) => g[n] = f[n]}
<1>4. 0 \in T
  BY <1>3 DEF AddsUp
<1>5. ASSUME NEW n \in Nat, n \in T PROVE n + 1 \in T
  BY <1>3, <1>5 DEF AddsUp
<1>6. Len(s) \in T
  <2> HIDE DEF T
  <2> QED
    BY <1>4, <1>5, NatSetInduction
<1> QED
  BY <1>1, <1>6

(* What appending adds and unlinking the head takes away.                  *)
LEMMA AppendTotal ==
  ASSUME NEW s \in Seq(Statement), NEW x \in Statement
  PROVE  Total(Append(s, x)) = Total(s) + Size[x]
<1> DEFINE r == Append(s, x)
<1>1. PICK f : AddsUp(f, s)
  BY AddsUpExists
<1> DEFINE g == [k \in 0 .. Len(s) + 1 |-> IF k = Len(s) + 1 THEN f[Len(s)] + Size[x] ELSE f[k]]
<1>2. /\ r \in Seq(Statement) /\ Len(r) = Len(s) + 1 /\ Len(s) \in Nat
      /\ r[Len(s) + 1] = x /\ \A k \in 1 .. Len(s) : r[k] = s[k]
  OBVIOUS
<1>3. AddsUp(g, r)
  <2>1. Size[x] \in Nat /\ f[Len(s)] \in Int
    BY <1>1, SizeAssumption DEF AddsUp
  <2>2. g \in [0 .. Len(r) -> Int] /\ g[0] = 0
    BY <1>1, <1>2, <2>1 DEF AddsUp
  <2>3. ASSUME NEW k \in 1 .. Len(r) PROVE g[k] = g[k - 1] + Size[r[k]]
    <3>1. CASE k = Len(s) + 1
      BY <1>2, <3>1
    <3>2. CASE k # Len(s) + 1
      <4>1. k \in 1 .. Len(s) /\ k - 1 \in 0 .. Len(s)
        BY <1>2, <3>2
      <4>2. g[k] = f[k] /\ g[k - 1] = f[k - 1] /\ r[k] = s[k]
        BY <1>2, <4>1
      <4> QED
        BY <1>1, <4>1, <4>2 DEF AddsUp
    <3> QED
      BY <3>1, <3>2
  <2> QED
    BY <2>2, <2>3 DEF AddsUp
<1>4. Total(s) = f[Len(s)] /\ Total(r) = g[Len(r)]
  BY <1>1, <1>2, <1>3, TotalAddsUp
<1> QED
  BY <1>2, <1>4

LEMMA TailTotal ==
  ASSUME NEW s \in Seq(Statement), s # << >>
  PROVE  Total(Tail(s)) = Total(s) - Size[Head(s)]
<1> DEFINE r == Tail(s)
<1>1. PICK f : AddsUp(f, s)
  BY AddsUpExists
<1> DEFINE g == [k \in 0 .. Len(s) - 1 |-> f[k + 1] - Size[Head(s)]]
<1>2. /\ r \in Seq(Statement) /\ Len(r) = Len(s) - 1 /\ Len(s) \in Nat \ {0}
      /\ Head(s) = s[1] /\ s[1] \in Statement
      /\ \A k \in 1 .. Len(r) : r[k] = s[k + 1]
  OBVIOUS
<1>3. AddsUp(g, r)
  <2>1. Size[Head(s)] \in Nat /\ \A k \in 0 .. Len(s) : f[k] \in Int
    BY <1>1, <1>2, SizeAssumption DEF AddsUp
  <2>2. g \in [0 .. Len(r) -> Int]
    BY <1>2, <2>1
  <2>3. f[1] = Size[Head(s)]
    BY <1>1, <1>2, <2>1 DEF AddsUp
  <2>4. g[0] = 0
    BY <1>2, <2>1, <2>3
  <2>5. ASSUME NEW k \in 1 .. Len(r) PROVE g[k] = g[k - 1] + Size[r[k]]
    <3>1. k + 1 \in 1 .. Len(s) /\ k \in 0 .. Len(s) - 1 /\ k - 1 \in 0 .. Len(s) - 1
      BY <1>2
    <3>2. f[k + 1] = f[k] + Size[s[k + 1]]
      BY <1>1, <3>1 DEF AddsUp
    <3>3. g[k] = f[k + 1] - Size[Head(s)] /\ g[k - 1] = f[k] - Size[Head(s)]
      BY <3>1
    <3>4. s[k + 1] \in Statement /\ Size[s[k + 1]] \in Nat
      BY <3>1, SizeAssumption
    <3> QED
      BY <1>2, <2>1, <3>1, <3>2, <3>3, <3>4
  <2> QED
    BY <2>2, <2>4, <2>5 DEF AddsUp
<1>4. Total(s) = f[Len(s)] /\ Total(r) = g[Len(r)]
  BY <1>1, <1>2, <1>3, TotalAddsUp
<1> QED
  BY <1>1, <1>2, <1>4

-----------------------------------------------------------------------------
(* The invariant holds initially and is preserved, part by part.           *)

LEMMA InitInv == Init => QueueInv
<1> SUFFICES ASSUME Init PROVE QueueInv
  OBVIOUS
<1> USE SizeAssumption, NameAssumption DEF Init
<1>1. TypeOK
  BY DEF TypeOK, Statement
<1>2. Owned /\ Served /\ LimitKept
  BY DEF Owned, Served, LimitKept
<1>3. Elements(accepted) = {}
  BY DEF Elements
<1>4. OwnStatement /\ OnlyOnce /\ NothingForgotten
  BY <1>3 DEF OwnStatement, Unsent, OnlyOnce, NothingForgotten
<1> QED
  BY <1>1, <1>2, <1>4 DEF QueueInv

(* What a call appends is its own statement.                               *)
LEMMA OwnText ==
  ASSUME QueueInv, NEW c \in Caller, cpc[c] = "add"
  PROVE  Text(c) = mine[c] /\ mine[c] \in Statement
<1>1. mine[c] \in 1 .. calls /\ calls \in 0 .. MaxCalls
  BY DEF QueueInv, OwnStatement, Unsent, TypeOK
<1>2. mine[c] \in Statement
  BY <1>1, SizeAssumption DEF Statement
<1> QED
  BY <1>2 DEF QueueInv, OwnStatement, Text

(* The node the holder of list->lock has linked, and the head the thread   *)
(* has found.                                                              *)
LEMMA LastNode ==
  ASSUME QueueInv, NEW c \in Caller, cpc[c] = "count"
  PROVE  /\ listlock = c /\ listlock # Free /\ Len(nodes) = len + 1
         /\ nodes[Len(nodes)] \in Statement /\ Size[nodes[Len(nodes)]] \in Nat
<1>1. listlock = c /\ Len(nodes) = len + 1 /\ len \in Nat /\ nodes \in Seq(Statement)
  BY NameAssumption DEF QueueInv, Owned, TypeOK
<1> QED
  BY <1>1, SizeAssumption, NameAssumption

LEMMA FoundHead ==
  ASSUME QueueInv, wpc \in {"exec", "del"}
  PROVE  /\ nodes # << >> /\ Head(nodes) \in Statement /\ Size[Head(nodes)] \in Nat
         /\ Tail(nodes) \in Seq(Statement) /\ Len(Tail(nodes)) = Len(nodes) - 1
         /\ Elements(nodes) = {Head(nodes)} \cup Elements(Tail(nodes))
<1>1. nodes \in Seq(Statement) /\ Len(nodes) > 0
  BY DEF QueueInv, TypeOK, Owned, Served
<1>2. nodes # << >>
  BY <1>1
<1> QED
  BY <1>1, <1>2, TailElements, SizeAssumption

LEMMA TypeStep == QueueInv /\ [Next]_vars => TypeOK'
<1> SUFFICES ASSUME QueueInv, [Next]_vars PROVE TypeOK'
  OBVIOUS
<1> USE SizeAssumption, NameAssumption DEF list, caller, worker, history, Goto
<1>0. TypeOK
  BY DEF QueueInv
<1>1. ASSUME NEW c \in Caller, Call(c) PROVE TypeOK'
  <2>1. calls' \in 0 .. MaxCalls /\ calls' \in Statement
    BY <1>0, <1>1 DEF Call, TypeOK, Statement
  <2>2. mine' \in [Caller -> Statement \cup {None}]
    BY <1>0, <1>1, <2>1 DEF Call, TypeOK
  <2>3. /\ via' \in [Caller -> {"himysql", "himysql_query"}]
        /\ cpc' \in [Caller -> {"idle", "lock", "format", "add", "count", "wake", "unlock"}]
    BY <1>0, <1>1 DEF Call, TypeOK
  <2>4. UNCHANGED <<lock, sql, list, pipe, running, worker, fpc, history>>
    BY <1>1 DEF Call
  <2> QED
    BY <1>0, <2>1, <2>2, <2>3, <2>4 DEF TypeOK
<1>2. ASSUME NEW c \in Caller, Enter(c) \/ Format(c) \/ Leave(c) PROVE TypeOK'
  <2>1. CASE Enter(c)
    BY <1>0, <2>1 DEF Enter, TypeOK
  <2>2. CASE Format(c)
    BY <1>0, <2>2 DEF Format, TypeOK
  <2>3. CASE Leave(c)
    BY <1>0, <2>3 DEF Leave, TypeOK
  <2> QED
    BY <1>2, <2>1, <2>2, <2>3
<1>3. ASSUME NEW c \in Caller, AddRefused(c) PROVE TypeOK'
  BY <1>0, <1>3 DEF AddRefused, Return, TypeOK
<1>4. ASSUME NEW c \in Caller, AddLink(c) PROVE TypeOK'
  <2>1. Text(c) \in Statement
    BY <1>4, OwnText DEF AddLink
  <2>2. nodes' \in Seq(Statement) /\ accepted' \in Seq(Statement)
    BY <1>0, <1>4, <2>1 DEF AddLink, TypeOK
  <2> QED
    BY <1>0, <1>4, <2>2 DEF AddLink, TypeOK
<1>5. ASSUME NEW c \in Caller, AddCount(c) PROVE TypeOK'
  <2>1. len' \in Nat /\ size' \in Int
    BY <1>0, <1>5, LastNode DEF AddCount, TypeOK
  <2>2. cpc' \in [Caller -> {"idle", "lock", "format", "add", "count", "wake", "unlock"}]
    BY <1>0, <1>5 DEF AddCount, TypeOK
  <2>3. listlock' \in Caller \cup {Free}
    BY <1>5 DEF AddCount
  <2>4. UNCHANGED <<calls, mine, via, lock, sql, nodes, pipe, running, worker, fpc, history>>
    BY <1>5 DEF AddCount
  <2> QED
    BY <1>0, <2>1, <2>2, <2>3, <2>4 DEF TypeOK
<1>6. ASSUME NEW c \in Caller, Wake(c) PROVE TypeOK'
  <2>1. pipe' \in 0 .. PipeMax
    BY <1>0, <1>6 DEF Wake, TypeOK
  <2>2. cpc' \in [Caller -> {"idle", "lock", "format", "add", "count", "wake", "unlock"}]
    BY <1>0, <1>6 DEF Wake, Return, TypeOK
  <2>3. UNCHANGED <<calls, mine, via, lock, sql, list, running, worker, fpc, history>>
    BY <1>6 DEF Wake
  <2> QED
    BY <1>0, <2>1, <2>2, <2>3 DEF TypeOK
<1>7. CASE Loop \/ Select \/ List
  BY <1>0, <1>7 DEF Loop, Select, List, TypeOK
<1>8. CASE ExecAnswered
  BY <1>0, <1>8, FoundHead, LoggedElements DEF ExecAnswered, TypeOK
<1>9. CASE ExecLost
  BY <1>0, <1>9, FoundHead, LoggedElements DEF ExecLost, TypeOK
<1>10. CASE DelHead
  <2>1. len - 1 \in Nat
    BY <1>0, <1>10 DEF DelHead, QueueInv, Served, TypeOK
  <2> QED
    BY <1>0, <1>10, <2>1, FoundHead DEF DelHead, TypeOK
<1>11. CASE Fini
  <2>1. pipe' \in 0 .. PipeMax
    BY <1>0, <1>11 DEF Fini, FiniStop, FiniWake, FiniJoin, TypeOK
  <2> QED
    BY <1>0, <1>11, <2>1 DEF Fini, FiniStop, FiniWake, FiniJoin, TypeOK
<1>12. CASE UNCHANGED vars
  BY <1>0, <1>12 DEF vars, TypeOK
<1> QED
  BY <1>1, <1>2, <1>3, <1>4, <1>5, <1>6, <1>7, <1>8, <1>9, <1>10, <1>11, <1>12
     DEF Next, Himysql, ThreadRoutine

LEMMA OwnedStep == QueueInv /\ [Next]_vars => Owned'
<1> SUFFICES ASSUME QueueInv, [Next]_vars PROVE Owned'
  OBVIOUS
<1> USE NameAssumption DEF list, caller, worker, history, Goto
<1>0. TypeOK /\ Owned
  BY DEF QueueInv
<1>1. ASSUME NEW c \in Caller, Call(c) PROVE Owned'
  <2>1. cpc[c] = "idle" /\ UNCHANGED <<lock, listlock, nodes, len>>
    BY <1>1 DEF Call
  <2>2. \A d \in Caller : d # c => cpc'[d] = cpc[d] /\ via'[d] = via[d]
    BY <1>0, <1>1 DEF Call, TypeOK
  <2>3. \/ cpc'[c] = "lock" /\ via'[c] = "himysql"
        \/ cpc'[c] = "add" /\ via'[c] = "himysql_query"
    BY <1>0, <1>1 DEF Call, TypeOK
  <2>4. listlock # c /\ lock # c
    BY <1>0, <2>1 DEF Owned
  <2> QED
    BY <1>0, <2>1, <2>2, <2>3, <2>4 DEF Owned
<1>2. ASSUME NEW c \in Caller, Enter(c) \/ Format(c) \/ Leave(c) PROVE Owned'
  <2>1. CASE Enter(c)
    BY <1>0, <2>1 DEF Enter, TypeOK, Owned
  <2>2. CASE Format(c)
    BY <1>0, <2>2 DEF Format, TypeOK, Owned
  <2>3. CASE Leave(c)
    BY <1>0, <2>3 DEF Leave, TypeOK, Owned
  <2> QED
    BY <1>2, <2>1, <2>2, <2>3
<1>3. ASSUME NEW c \in Caller, AddRefused(c) PROVE Owned'
  BY <1>0, <1>3 DEF AddRefused, Return, TypeOK, Owned
<1>4. ASSUME NEW c \in Caller, AddLink(c) PROVE Owned'
  <2>1. Text(c) \in Statement
    BY <1>4, OwnText DEF AddLink
  <2>2. Len(nodes') = len + 1
    BY <1>0, <1>4, <2>1 DEF AddLink, TypeOK, Owned
  <2> QED
    BY <1>0, <1>4, <2>2 DEF AddLink, TypeOK, Owned
<1>5. ASSUME NEW c \in Caller, AddCount(c) PROVE Owned'
  BY <1>0, <1>5 DEF AddCount, TypeOK, Owned
<1>6. ASSUME NEW c \in Caller, Wake(c) PROVE Owned'
  BY <1>0, <1>6 DEF Wake, Return, TypeOK, Owned
<1>7. CASE Loop \/ Select \/ List \/ ExecAnswered \/ ExecLost
  BY <1>0, <1>7 DEF Loop, Select, List, ExecAnswered, ExecLost, Owned
<1>8. CASE DelHead
  <2>1. Len(nodes') = len'
    BY <1>0, <1>8, FoundHead DEF DelHead, Owned
  <2> QED
    BY <1>0, <1>8, <2>1 DEF DelHead, Owned
<1>9. CASE Fini
  BY <1>0, <1>9 DEF Fini, FiniStop, FiniWake, FiniJoin, Owned
<1>10. CASE UNCHANGED vars
  BY <1>0, <1>10 DEF vars, Owned
<1> QED
  BY <1>1, <1>2, <1>3, <1>4, <1>5, <1>6, <1>7, <1>8, <1>9, <1>10
     DEF Next, Himysql, ThreadRoutine

LEMMA ServedStep == QueueInv /\ [Next]_vars => Served'
<1> SUFFICES ASSUME QueueInv, [Next]_vars PROVE Served'
  OBVIOUS
<1> USE NameAssumption DEF list, caller, worker, history, Goto
<1>0. TypeOK /\ Owned /\ Served
  BY DEF QueueInv
<1>1. ASSUME NEW c \in Caller, Call(c) PROVE Served'
  BY <1>0, <1>1 DEF Call, TypeOK, Served
<1>2. ASSUME NEW c \in Caller, Enter(c) \/ Format(c) \/ Leave(c) PROVE Served'
  BY <1>0, <1>2 DEF Enter, Format, Leave, TypeOK, Served
<1>3. ASSUME NEW c \in Caller, AddRefused(c) PROVE Served'
  BY <1>0, <1>3 DEF AddRefused, Return, TypeOK, Served
<1>4. ASSUME NEW c \in Caller, AddLink(c) PROVE Served'
  <2>1. Text(c) \in Statement
    BY <1>4, OwnText DEF AddLink
  <2>2. ASSUME wpc = "del" PROVE Head(nodes') = Head(nodes)
    <3>1. nodes # << >> /\ len # 0
      BY <1>0, <2>2, FoundHead DEF Served
    <3>2. nodes' = Append(nodes, Text(c)) /\ nodes \in Seq(Statement)
      BY <1>0, <1>4, <3>1 DEF AddLink, TypeOK
    <3> QED
      BY <2>1, <3>1, <3>2
  <2>3. fpc = "open" /\ wpc # "done" /\ running
    BY <1>0, <1>4 DEF AddLink, Served, TypeOK
  <2> QED
    BY <1>0, <1>4, <2>2, <2>3 DEF AddLink, Served
<1>5. ASSUME NEW c \in Caller, AddCount(c) PROVE Served'
  BY <1>0, <1>5 DEF AddCount, TypeOK, Served
<1>6. ASSUME NEW c \in Caller, Wake(c) PROVE Served'
  BY <1>0, <1>6 DEF Wake, Return, TypeOK, Served
<1>7. CASE Loop \/ Select
  BY <1>0, <1>7 DEF Loop, Select, Served
<1>8. CASE List
  <2>1. ASSUME len = 0, ~sleep PROVE nodes = << >>
    <3>1. listlock = Free
      BY <1>0, <2>1 DEF Served, Owned, TypeOK
    <3> QED
      BY <1>0, <2>1, <3>1 DEF Owned, TypeOK
  <2> QED
    BY <1>0, <1>8, <2>1 DEF List, Served, TypeOK
<1>9. CASE ExecAnswered
  <2>1. Head(nodes) \in Elements(executed') \cup reported'
    BY <1>0, <1>9, FoundHead, LoggedElements DEF ExecAnswered
  <2> QED
    BY <1>0, <1>9, <2>1 DEF ExecAnswered, Served
<1>10. CASE ExecLost
  <2>1. wpc' = "del" => Head(nodes) \in reported'
    BY <1>10 DEF ExecLost
  <2> QED
    BY <1>0, <1>10, <2>1 DEF ExecLost, Served
<1>11. CASE DelHead
  BY <1>0, <1>11 DEF DelHead, Served
<1>12. CASE Fini
  BY <1>0, <1>12 DEF Fini, FiniStop, FiniWake, FiniJoin, Served
<1>13. CASE UNCHANGED vars
  BY <1>0, <1>13 DEF vars, Served
<1> QED
  BY <1>1, <1>2, <1>3, <1>4, <1>5, <1>6, <1>7, <1>8, <1>9, <1>10, <1>11, <1>12, <1>13
     DEF Next, Himysql, ThreadRoutine

LEMMA AcceptedAfter ==
  ASSUME QueueInv, NEW c \in Caller, AddLink(c)
  PROVE  /\ mine[c] \in Statement
         /\ accepted' = Append(accepted, mine[c])
         /\ nodes' = Append(nodes, mine[c])
         /\ Elements(accepted') = Elements(accepted) \cup {mine[c]}
         /\ Elements(nodes') = Elements(nodes) \cup {mine[c]}
<1>1. Text(c) = mine[c] /\ mine[c] \in Statement
  BY OwnText DEF AddLink
<1>2. accepted \in Seq(Statement) /\ nodes \in Seq(Statement)
  BY DEF QueueInv, TypeOK
<1>3. nodes' = Append(nodes, mine[c])
  <2>1. CASE len = 0
    <3>1. nodes = << >>
      BY <1>2, <2>1 DEF AddLink, QueueInv, Owned
    <3>2. nodes' = <<mine[c]>>
      BY <1>1, <2>1 DEF AddLink
    <3> QED
      BY <3>1, <3>2
  <2>2. CASE len # 0
    BY <1>1, <2>2 DEF AddLink
  <2> QED
    BY <2>1, <2>2
<1>4. accepted' = Append(accepted, mine[c])
  BY <1>1 DEF AddLink
<1> QED
  BY <1>1, <1>2, <1>3, <1>4, AppendElements

LEMMA OwnStatementStep == QueueInv /\ [Next]_vars => OwnStatement'
<1> SUFFICES ASSUME QueueInv, [Next]_vars PROVE OwnStatement'
  OBVIOUS
<1> USE SizeAssumption, NameAssumption DEF list, caller, worker, history, Goto
<1>0. TypeOK /\ Owned /\ OwnStatement
  BY DEF QueueInv
<1>1. ASSUME NEW c \in Caller, Call(c) PROVE OwnStatement'
  <2>1. calls \in Nat /\ calls' = calls + 1 /\ mine' = [mine EXCEPT ![c] = calls + 1]
    BY <1>0, <1>1 DEF Call, TypeOK
  <2>2. Elements(accepted)' = Elements(accepted)
    BY <1>1 DEF Call
  <2>3. \A d \in Caller : d # c => /\ cpc'[d] = cpc[d] /\ mine'[d] = mine[d]
                                   /\ via'[d] = via[d]
    BY <1>0, <1>1 DEF Call, TypeOK
  <2>4. mine'[c] = calls + 1
    BY <1>0, <2>1 DEF TypeOK
  <2>5. cpc'[c] = "add" => via'[c] # "himysql"
    BY <1>0, <1>1 DEF Call, TypeOK
  <2> QED
    BY <1>0, <1>1, <2>1, <2>2, <2>3, <2>4, <2>5 DEF Call, OwnStatement, Unsent
<1>2. ASSUME NEW c \in Caller, Enter(c) \/ Leave(c) PROVE OwnStatement'
  <2>1. Elements(accepted)' = Elements(accepted)
    BY <1>2 DEF Enter, Leave
  <2> QED
    BY <1>0, <1>2, <2>1 DEF Enter, Leave, TypeOK, OwnStatement, Unsent
<1>3. ASSUME NEW c \in Caller, Format(c) PROVE OwnStatement'
  <2>1. Elements(accepted)' = Elements(accepted)
    BY <1>3 DEF Format
  <2>2. \A d \in Caller : cpc[d] = "add" /\ via[d] = "himysql" => FALSE
    BY <1>0, <1>3 DEF Format, Owned
  <2> QED
    BY <1>0, <1>3, <2>1, <2>2 DEF Format, TypeOK, OwnStatement, Unsent
<1>4. ASSUME NEW c \in Caller, AddRefused(c) PROVE OwnStatement'
  <2>1. Elements(accepted)' = Elements(accepted)
    BY <1>4 DEF AddRefused
  <2> QED
    BY <1>0, <1>4, <2>1 DEF AddRefused, Return, TypeOK, OwnStatement, Unsent
<1>5. ASSUME NEW c \in Caller, AddLink(c) PROVE OwnStatement'
  <2>1. Elements(accepted)' = Elements(accepted) \cup {mine[c]}
    BY <1>5, AcceptedAfter
  <2>2. mine[c] \in 1 .. calls
    BY <1>0, <1>5 DEF AddLink, OwnStatement, Unsent
  <2>3. \A d \in Caller : Unsent(d)' => Unsent(d) /\ d # c
    BY <1>0, <1>5 DEF AddLink, Unsent, TypeOK
  <2>4. \A d \in Caller : Unsent(d)' => mine[d] # mine[c]
    BY <1>0, <1>5, <2>3 DEF OwnStatement, Unsent, AddLink
  <2> QED
    BY <1>0, <1>5, <2>1, <2>2, <2>3, <2>4 DEF AddLink, OwnStatement, Unsent
<1>6. ASSUME NEW c \in Caller, AddCount(c) \/ Wake(c) PROVE OwnStatement'
  <2>1. Elements(accepted)' = Elements(accepted)
    BY <1>6 DEF AddCount, Wake
  <2>2. UNCHANGED <<calls, mine, via, sql>> /\ cpc[c] \in {"count", "wake"}
    BY <1>6 DEF AddCount, Wake
  <2>3. cpc'[c] \in {"wake", "unlock", "idle"}
    BY <1>0, <1>6 DEF AddCount, Wake, Return, TypeOK
  <2>4. \A d \in Caller : d # c => cpc'[d] = cpc[d]
    BY <1>0, <1>6 DEF AddCount, Wake, Return, TypeOK
  <2>5. \A d \in Caller : Unsent(d)' => Unsent(d) /\ cpc'[d] = cpc[d]
    BY <2>3, <2>4 DEF Unsent
  <2> QED
    BY <1>0, <2>1, <2>2, <2>3, <2>5 DEF OwnStatement, Unsent
<1>7. CASE ThreadRoutine \/ Fini \/ UNCHANGED vars
  <2>1. UNCHANGED <<caller, accepted>>
    BY <1>7 DEF ThreadRoutine, Loop, Select, List, ExecAnswered, ExecLost, DelHead,
                Fini, FiniStop, FiniWake, FiniJoin, vars
  <2>2. Elements(accepted)' = Elements(accepted)
    BY <2>1
  <2> QED
    BY <1>0, <2>1, <2>2 DEF OwnStatement, Unsent
<1> QED
  BY <1>1, <1>2, <1>3, <1>4, <1>5, <1>6, <1>7 DEF Next, Himysql

LEMMA OnlyOnceStep == QueueInv /\ [Next]_vars => OnlyOnce'
<1> SUFFICES ASSUME QueueInv, [Next]_vars PROVE OnlyOnce'
  OBVIOUS
<1>1. ASSUME NEW c \in Caller, AddLink(c) PROVE OnlyOnce'
  <2>1. /\ accepted' = Append(accepted, mine[c]) /\ mine[c] \notin Elements(accepted)
        /\ accepted \in Seq(Statement) /\ mine[c] \in Statement
    BY <1>1, AcceptedAfter DEF QueueInv, TypeOK, OwnStatement, Unsent, AddLink
  <2>2. \A i \in DOMAIN accepted : accepted[i] # mine[c]
    BY <2>1 DEF Elements
  <2>3. /\ DOMAIN accepted' = 1 .. Len(accepted) + 1 /\ DOMAIN accepted = 1 .. Len(accepted)
        /\ Len(accepted) \in Nat
        /\ \A i \in DOMAIN accepted : accepted'[i] = accepted[i]
        /\ accepted'[Len(accepted) + 1] = mine[c]
    BY <2>1
  <2> QED
    BY <2>2, <2>3 DEF QueueInv, OnlyOnce
<1>2. CASE UNCHANGED accepted
  BY <1>2 DEF QueueInv, OnlyOnce
<1>3. (\E c \in Caller : AddLink(c)) \/ UNCHANGED accepted
  BY DEF Next, Himysql, Call, Enter, Format, AddRefused, AddCount, Wake, Leave,
         ThreadRoutine, Loop, Select, List, ExecAnswered, ExecLost, DelHead,
         Fini, FiniStop, FiniWake, FiniJoin, vars, history
<1> QED
  BY <1>1, <1>2, <1>3

LEMMA LimitStep == QueueInv /\ [Next]_vars => LimitKept'
<1> SUFFICES ASSUME QueueInv, [Next]_vars PROVE LimitKept'
  OBVIOUS
<1> USE SizeAssumption, NameAssumption DEF list, caller, worker, history, Goto
<1>0. TypeOK /\ LimitKept
  BY DEF QueueInv
<1>1. ASSUME NEW c \in Caller, AddLink(c) PROVE LimitKept'
  <2>1. nodes' = Append(nodes, mine[c]) /\ mine[c] \in Statement /\ nodes \in Seq(Statement)
    BY <1>0, <1>1, AcceptedAfter DEF TypeOK
  <2>2. nodes'[Len(nodes')] = mine[c]
    BY <2>1
  <2>3. len = 0 \/ size + Size[mine[c]] <= ListMax
    BY <1>1, OwnText DEF AddLink, Fits
  <2> QED
    BY <1>1, <2>2, <2>3 DEF AddLink, LimitKept
<1>2. ASSUME NEW c \in Caller, AddCount(c) PROVE LimitKept'
  <2>1. size' <= ListMax \/ len = 0
    BY <1>0, <1>2, LastNode DEF AddCount, LimitKept
  <2> QED
    BY <1>0, <1>2, <2>1 DEF AddCount, LimitKept, TypeOK
<1>3. CASE DelHead
  <2>1. size' <= size /\ len' <= len
    BY <1>0, <1>3, FoundHead DEF DelHead, TypeOK
  <2> QED
    BY <1>0, <1>3, <2>1, FoundHead DEF DelHead, LimitKept, TypeOK
<1>4. CASE UNCHANGED list
  BY <1>0, <1>4 DEF LimitKept
<1>5. (\E c \in Caller : AddLink(c) \/ AddCount(c)) \/ DelHead \/ UNCHANGED list
  BY DEF Next, Himysql, Call, Enter, Format, AddRefused, Wake, Leave,
         ThreadRoutine, Loop, Select, List, ExecAnswered, ExecLost,
         Fini, FiniStop, FiniWake, FiniJoin, vars
<1> QED
  BY <1>1, <1>2, <1>3, <1>4, <1>5

LEMMA InitCounted == Init => Counted
<1> SUFFICES ASSUME Init PROVE Counted
  OBVIOUS
<1>1. << >> \in Seq(Statement)
  OBVIOUS
<1> DEFINE f == [k \in 0 .. 0 |-> 0]
<1>2. AddsUp(f, << >>)
  BY DEF AddsUp
<1>3. Total(<< >>) = 0
  BY <1>1, <1>2, TotalAddsUp
<1> QED
  BY <1>3 DEF Init, Counted

LEMMA CountedStep == SizeInv /\ [Next]_vars => Counted'
<1> SUFFICES ASSUME SizeInv, [Next]_vars PROVE Counted'
  OBVIOUS
<1> USE DEF list, caller, worker, history, Goto
<1>0. QueueInv /\ TypeOK /\ Counted
  BY DEF SizeInv, QueueInv
<1>1. ASSUME NEW c \in Caller, AddLink(c) PROVE Counted'
  <2>1. nodes' = Append(nodes, mine[c]) /\ mine[c] \in Statement /\ nodes \in Seq(Statement)
    BY <1>0, <1>1, AcceptedAfter DEF TypeOK
  <2>2. nodes'[Len(nodes')] = mine[c]
    BY <2>1
  <2>3. Total(nodes') = Total(nodes) + Size[mine[c]]
    BY <2>1, AppendTotal
  <2>4. listlock = Free /\ listlock' # Free /\ size' = size
    BY <1>1, NameAssumption DEF AddLink
  <2> QED
    BY <1>0, <2>2, <2>3, <2>4 DEF Counted
<1>2. ASSUME NEW c \in Caller, AddCount(c) PROVE Counted'
  <2>1. listlock # Free
    BY <1>0, <1>2, LastNode DEF AddCount
  <2>2. /\ listlock' = Free /\ nodes' = nodes
        /\ size' = size + Size[nodes[Len(nodes)]]
    BY <1>2 DEF AddCount
  <2> QED
    BY <1>0, <2>1, <2>2 DEF Counted
<1>3. CASE DelHead
  <2>1. /\ nodes # << >> /\ nodes \in Seq(Statement) /\ nodes' = Tail(nodes)
        /\ listlock = Free /\ listlock' = Free /\ size' = size - Size[Head(nodes)]
    BY <1>0, <1>3, FoundHead DEF DelHead, TypeOK
  <2>2. Total(nodes') = Total(nodes) - Size[Head(nodes)]
    BY <2>1, TailTotal
  <2> QED
    BY <1>0, <2>1, <2>2 DEF Counted
<1>4. CASE UNCHANGED list
  BY <1>0, <1>4 DEF Counted
<1>5. (\E c \in Caller : AddLink(c) \/ AddCount(c)) \/ DelHead \/ UNCHANGED list
  BY DEF Next, Himysql, Call, Enter, Format, AddRefused, Wake, Leave,
         ThreadRoutine, Loop, Select, List, ExecAnswered, ExecLost,
         Fini, FiniStop, FiniWake, FiniJoin, vars
<1> QED
  BY <1>1, <1>2, <1>3, <1>4, <1>5

LEMMA NothingForgottenStep == QueueInv /\ [Next]_vars => NothingForgotten'
<1> SUFFICES ASSUME QueueInv, [Next]_vars PROVE NothingForgotten'
  OBVIOUS
<1> USE DEF list, caller, worker, history
<1> DEFINE Kept == Elements(nodes) \cup Elements(executed) \cup reported
<1>0. TypeOK /\ Served /\ Elements(accepted) \subseteq Kept
  BY DEF QueueInv, NothingForgotten
<1>a. fpc' = "closed" => nodes' = << >>
  <2>1. ASSUME fpc' = "closed" PROVE wpc' = "done"
    BY <2>1, ServedStep DEF Served
  <2> QED
    BY <2>1, ServedStep DEF Served
<1>1. ASSUME NEW c \in Caller, AddLink(c) PROVE NothingForgotten'
  BY <1>0, <1>1, <1>a, AcceptedAfter DEF AddLink, NothingForgotten
<1>2. CASE ExecAnswered
  <2>1. Elements(executed) \subseteq Elements(executed') /\ reported \subseteq reported'
    BY <1>0, <1>2, FoundHead, LoggedElements DEF ExecAnswered
  <2> QED
    BY <1>0, <1>2, <1>a, <2>1 DEF ExecAnswered, NothingForgotten
<1>3. CASE ExecLost
  <2>1. Elements(executed) \subseteq Elements(executed') /\ reported \subseteq reported'
    BY <1>0, <1>3, FoundHead, LoggedElements DEF ExecLost
  <2> QED
    BY <1>0, <1>3, <1>a, <2>1 DEF ExecLost, NothingForgotten
<1>4. CASE DelHead
  <2>1. Elements(nodes) = {Head(nodes)} \cup Elements(nodes')
    BY <1>4, FoundHead DEF DelHead
  <2>2. Head(nodes) \in Elements(executed) \cup reported
    BY <1>0, <1>4 DEF DelHead, Served
  <2> QED
    BY <1>0, <1>4, <1>a, <2>1, <2>2 DEF DelHead, NothingForgotten
<1>5. CASE UNCHANGED <<nodes, history>>
  BY <1>0, <1>5, <1>a DEF NothingForgotten
<1>6. \/ \E c \in Caller : AddLink(c)
      \/ ExecAnswered \/ ExecLost \/ DelHead
      \/ UNCHANGED <<nodes, history>>
  BY DEF Next, Himysql, Call, Enter, Format, AddRefused, AddCount, Wake, Leave,
         ThreadRoutine, Loop, Select, List, Fini, FiniStop, FiniWake, FiniJoin, vars
<1> QED
  BY <1>1, <1>2, <1>3, <1>4, <1>5, <1>6

-----------------------------------------------------------------------------
(* The theorems.                                                           *)

LEMMA InvStep == QueueInv /\ [Next]_vars => QueueInv'
BY TypeStep, OwnedStep, ServedStep, OwnStatementStep, LimitStep, OnlyOnceStep,
   NothingForgottenStep DEF QueueInv

(* Every reachable state of the thread mode satisfies QueueInv: two        *)
(* mutexes, the list and the thread that reads it without its lock.        *)
THEOREM QueueInvariant == Spec => []QueueInv
BY InitInv, InvStep, PTL DEF Spec

(* Every variable keeps its type; the length never drops below zero.       *)
THEOREM QueueTypes == Spec => []TypeOK
<1>1. QueueInv => TypeOK
  BY DEF QueueInv
<1> QED
  BY QueueInvariant, <1>1, PTL

(* list->len and list->size are what the list holds whenever nobody holds  *)
(* its mutex, for any number of statements of any length: no step of two   *)
(* threads counts a node twice or forgets one.                             *)
THEOREM SizeIsSum == Spec => []SizeIsTotal
<1>1. Init => SizeInv
  BY InitInv, InitCounted DEF SizeInv
<1>2. SizeInv /\ [Next]_vars => SizeInv'
  BY InvStep, CountedStep DEF SizeInv
<1>3. SizeInv => SizeIsTotal
  BY DEF SizeInv, QueueInv, Owned, Counted, SizeIsTotal
<1> QED
  BY <1>1, <1>2, <1>3, PTL DEF Spec

(* The list stays within its limit but for one statement alone in it.      *)
THEOREM LimitHolds == Spec => []WithinLimit
<1>1. QueueInv => WithinLimit
  BY DEF QueueInv, LimitKept, WithinLimit
<1> QED
  BY QueueInvariant, <1>1, PTL

(* No statement is appended twice, and none in place of another: himysql() *)
(* formats into one buffer under hm->lock.                                 *)
THEOREM StatementsAreOwn == Spec => []OnlyOnce
<1>1. QueueInv => OnlyOnce
  BY DEF QueueInv
<1> QED
  BY QueueInvariant, <1>1, PTL

(* What himysql() accepted is still in the list, executed or reported.     *)
THEOREM NoneForgotten == Spec => []NothingForgotten
<1>1. QueueInv => NothingForgotten
  BY DEF QueueInv
<1> QED
  BY QueueInvariant, <1>1, PTL

-----------------------------------------------------------------------------
(* The refinement.                                                         *)

(* The outbox's queue: the head has left once its answer is there.         *)
waiting == IF wpc = "del" THEN Tail(nodes) ELSE nodes

LEMMA OutboxStep == QueueInv /\ [Next]_vars => [OB!Next]_(OB!vars)
<1> SUFFICES ASSUME QueueInv, [Next]_vars
             PROVE  OB!Next \/ UNCHANGED <<waiting, executed, reported, running>>
  BY DEF OB!vars, waiting
<1> USE DEF list, caller, worker, history, waiting
<1>1. ASSUME NEW c \in Caller, AddLink(c) PROVE OB!Next
  <2>1. /\ nodes' = Append(nodes, mine[c]) /\ mine[c] \in Statement
        /\ nodes \in Seq(Statement)
    BY <1>1, AcceptedAfter DEF QueueInv, TypeOK
  <2>2. wpc = "del" => Tail(Append(nodes, mine[c])) = Append(Tail(nodes), mine[c])
    <3>1. ASSUME wpc = "del" PROVE nodes # << >>
      BY <3>1, FoundHead
    <3> QED
      BY <2>1, <3>1
  <2>3. waiting' = Append(waiting, mine[c])
    BY <1>1, <2>1, <2>2 DEF AddLink
  <2> QED
    BY <1>1, <2>1, <2>3 DEF AddLink, OB!Next, OB!Accept
<1>2. CASE ExecAnswered
  <2>1. nodes # << >> /\ waiting = nodes /\ waiting' = Tail(nodes)
    BY <1>2, FoundHead DEF ExecAnswered
  <2>2. Logged(Head(nodes)) = OB!Logged(Head(nodes))
    BY DEF Logged, OB!Logged
  <2> QED
    BY <1>2, <2>1, <2>2 DEF ExecAnswered, OB!Next, OB!Deliver, OB!Refuse
<1>3. CASE ExecLost
  <2>1. nodes # << >> /\ waiting = nodes
    BY <1>3, FoundHead DEF ExecLost
  <2>2. Logged(Head(nodes)) = OB!Logged(Head(nodes))
    BY DEF Logged, OB!Logged
  <2>3. CASE sleep
    <3>1. waiting' = nodes /\ UNCHANGED <<reported, running>>
      BY <1>3, <2>3 DEF ExecLost
    <3> QED
      BY <1>3, <2>1, <2>2, <3>1 DEF ExecLost, OB!Next, OB!DeliverUnseen
  <2>4. CASE ~sleep
    <3>1. waiting' = Tail(nodes) /\ reported' = reported \cup {Head(nodes)} /\ ~running
      BY <1>3, <2>4 DEF ExecLost, QueueInv, Served
    <3> QED
      BY <1>3, <2>1, <2>2, <3>1 DEF ExecLost, OB!Next, OB!GiveUp
  <2> QED
    BY <2>3, <2>4
<1>4. CASE FiniStop
  BY <1>4 DEF FiniStop, OB!Next, OB!Close
<1>5. CASE DelHead
  BY <1>5 DEF DelHead
<1>6. CASE Loop \/ Select \/ List
  BY <1>6 DEF Loop, Select, List
<1>7. \/ \E c \in Caller : AddLink(c)
      \/ ThreadRoutine \/ FiniStop
      \/ UNCHANGED <<nodes, wpc, executed, reported, running>>
  BY DEF Next, Himysql, Call, Enter, Format, AddRefused, AddCount, Wake, Leave,
         Fini, FiniWake, FiniJoin, vars
<1> QED
  BY <1>1, <1>2, <1>3, <1>4, <1>5, <1>6, <1>7 DEF ThreadRoutine

(* The client's thread mode is an outbox: first in first out, at least     *)
(* once, and nothing given up before himysql_fini.                         *)
THEOREM QueueRefinement == Spec => ImplementsOutbox
<1>1. Init => OB!Init
  BY DEF Init, OB!Init
<1> QED
  BY <1>1, OutboxStep, QueueInvariant, PTL DEF Spec, ImplementsOutbox, OB!Spec
=============================================================================
