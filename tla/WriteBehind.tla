---------------------------- MODULE WriteBehind -----------------------------
(***************************************************************************)
(* What the constant files' cache promises: a store of copies, each marked *)
(* dirty when it is replaced, and flushed to the database as one atomic    *)
(* step that writes the present copy and removes the mark.  Only a crash   *)
(* and a failed write leave the database behind a copy that is not dirty,  *)
(* and the specification remembers for which keys that happened.           *)
(***************************************************************************)
CONSTANTS Key, Content,
          Version   \* the contents that can be written to the database

VARIABLES cache, dirty, saved,
          owed   \* keys whose last write failed, or was lost by a crash

vars == <<cache, dirty, saved, owed>>

Init ==
  /\ cache \in [Key -> Content \ Version]
  /\ dirty = [k \in Key |-> FALSE]
  /\ saved = [k \in Key |-> 0]
  /\ owed = {}

(* A write of c under k to the database, which may fail.                   *)
Write(k, c) ==
  \/ /\ c \in Version
     /\ saved' = [saved EXCEPT ![k] = c]
     /\ owed' = owed \ {k}
  \/ /\ owed' = IF c \in Version THEN owed \cup {k} ELSE owed
     /\ UNCHANGED saved

(* The copy of k is replaced, or the store refuses it: dirty either way.   *)
Put(k, c) ==
  /\ cache' \in {[cache EXCEPT ![k] = c], cache}
  /\ dirty' = [dirty EXCEPT ![k] = TRUE]
  /\ UNCHANGED <<saved, owed>>

(* The timer writes the present copy.                                      *)
Flush(k) ==
  /\ dirty[k]
  /\ dirty' = [dirty EXCEPT ![k] = FALSE]
  /\ Write(k, cache[k])
  /\ UNCHANGED cache

(* At start-up contents are written to the database first ...              *)
WriteThrough(k, c) == Write(k, c) /\ UNCHANGED <<cache, dirty>>

(* ... and become a clean copy then.                                       *)
Fill(k, c) ==
  /\ c \in Version => saved[k] = c \/ k \in owed
  /\ cache' = [cache EXCEPT ![k] = c]
  /\ UNCHANGED <<dirty, saved, owed>>

(* A crash forgets which copies are dirty.                                 *)
Lose ==
  /\ owed' = owed \cup {k \in Key : dirty[k]}
  /\ dirty' = [k \in Key |-> FALSE]
  /\ UNCHANGED <<cache, saved>>

Next ==
  \/ \E k \in Key, c \in Content : Put(k, c) \/ WriteThrough(k, c) \/ Fill(k, c)
  \/ \E k \in Key : Flush(k)
  \/ Lose

Spec == Init /\ [][Next]_vars
=============================================================================
