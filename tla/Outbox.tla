------------------------------- MODULE Outbox -------------------------------
(***************************************************************************)
(* What the MySQL client promises in its thread mode: an outbox.           *)
(* Statements leave it in the order they came in.  Each one leaves when    *)
(* the server has executed it or refused it, and a refusal is reported.    *)
(* A connection that breaks never costs a statement while the outbox is    *)
(* open: the statement stays and is sent again, possibly after the server  *)
(* had executed it already.  Only a closed outbox gives up what it cannot  *)
(* deliver, and reports it.                                                *)
(***************************************************************************)
EXTENDS Sequences

CONSTANTS Statement,
          Invalid     \* the statements the server refuses

VARIABLES queue,     \* statements accepted and not settled
          executed,  \* what the server has executed, in order
          reported,  \* statements reported as failed
          open       \* himysql_fini has not been called

vars == <<queue, executed, reported, open>>

Init ==
  /\ queue = << >>
  /\ executed = << >>
  /\ reported = {}
  /\ open = TRUE

(* Repetitions of one statement are not told apart.                        *)
Logged(s) == IF executed # << >> /\ executed[Len(executed)] = s
             THEN executed ELSE Append(executed, s)

Accept(s) ==
  /\ queue' = Append(queue, s)
  /\ UNCHANGED <<executed, reported, open>>

(* The server executes the oldest statement and says so.                   *)
Deliver ==
  /\ queue # << >> /\ Head(queue) \notin Invalid
  /\ executed' = Logged(Head(queue))
  /\ queue' = Tail(queue)
  /\ UNCHANGED <<reported, open>>

(* It executes it, but the answer is lost: the statement stays.            *)
DeliverUnseen ==
  /\ queue # << >> /\ Head(queue) \notin Invalid
  /\ executed' = Logged(Head(queue))
  /\ UNCHANGED <<queue, reported, open>>

Refuse ==
  /\ queue # << >> /\ Head(queue) \in Invalid
  /\ reported' = reported \cup {Head(queue)}
  /\ queue' = Tail(queue)
  /\ UNCHANGED <<executed, open>>

Close ==
  /\ open' = FALSE
  /\ UNCHANGED <<queue, executed, reported>>

(* A closed outbox reports what it could not deliver for certain.          *)
GiveUp ==
  /\ ~open
  /\ queue # << >>
  /\ \/ UNCHANGED executed
     \/ /\ Head(queue) \notin Invalid
        /\ executed' = Logged(Head(queue))
  /\ reported' = reported \cup {Head(queue)}
  /\ queue' = Tail(queue)
  /\ UNCHANGED open

Next ==
  \/ \E s \in Statement : Accept(s)
  \/ Deliver \/ DeliverUnseen \/ Refuse \/ Close \/ GiveUp

Spec == Init /\ [][Next]_vars
=============================================================================
