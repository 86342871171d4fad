------------------------------- MODULE Daemon -------------------------------
(***************************************************************************)
(* daemonize and its lock file, for several starts of the program on one   *)
(* machine.  A start is a line of processes: each fork leaves the work to  *)
(* a child with a number of its own.  The lock is a record lock of fcntl:  *)
(* it belongs to a process, is not inherited and ends with its owner.      *)
(***************************************************************************)
EXTENDS Naturals

CONSTANTS
  Start,   \* the places the program is started from
  PidMax,  \* bound: the last process number given
  Fault,   \* calls that may fail: "fork", "call" (others up to the lock), "disk"
  Free, Absent, Empty

ASSUME DaemonAssumption ==
  /\ PidMax \in Nat
  /\ Fault \subseteq {"fork", "call", "disk"}
  /\ Free \notin Nat /\ Absent \notin Nat /\ Empty \notin Nat

VARIABLES
  pc,      \* pc[s]: where the process of start s is, "none" if there is none
  pid,     \* pid[s]: getpid()
  leader,  \* leader[s]: it leads its session, and may get a terminal
  owner,   \* the process that holds the lock on LOCK_FILE
  file,    \* what LOCK_FILE holds
  last     \* the last process number given

vars == <<pc, pid, leader, owner, file, last>>

Point == {"none", "fork", "session", "refork", "open", "lock", "truncate", "write", "run"}

TypeOK ==
  /\ pc \in [Start -> Point]
  /\ pid \in [Start -> 0 .. PidMax]
  /\ leader \in [Start -> BOOLEAN]
  /\ owner \in 1 .. PidMax \cup {Free}
  /\ file \in 1 .. PidMax \cup {Absent, Empty}
  /\ last \in 0 .. PidMax

Init ==
  /\ pc = [s \in Start |-> "none"]
  /\ pid = [s \in Start |-> 0]
  /\ leader = [s \in Start |-> FALSE]
  /\ owner = Free
  /\ file = Absent
  /\ last = 0

-----------------------------------------------------------------------------
(* Processes.                                                              *)

Go(s, point) == pc' = [pc EXCEPT ![s] = point]

(* A process with a number never given before goes on as s.                *)
NewProcess(s) ==
  /\ last < PidMax
  /\ last' = last + 1
  /\ pid' = [pid EXCEPT ![s] = last']
  /\ leader' = [leader EXCEPT ![s] = FALSE]

(* The process is gone, and a lock it held.                                *)
Gone(s) ==
  /\ Go(s, "none")
  /\ pid' = [pid EXCEPT ![s] = 0]
  /\ leader' = [leader EXCEPT ![s] = FALSE]
  /\ owner' = IF owner = pid[s] THEN Free ELSE owner
  /\ UNCHANGED <<file, last>>

(* main, or the next start by hand after the last one is gone.             *)
Run(s) ==
  /\ pc[s] = "none"
  /\ NewProcess(s) /\ Go(s, "fork")
  /\ UNCHANGED <<owner, file>>

(* A signal, a crash.                                                      *)
Die(s) ==
  /\ pc[s] # "none"
  /\ Gone(s)

-----------------------------------------------------------------------------
(* daemonize.                                                              *)

(* The first fork; exit(0) in the parent, whose owner does not wait.       *)
Fork(s) ==
  /\ pc[s] = "fork"
  /\ NewProcess(s) /\ Go(s, "session")
  /\ UNCHANGED <<owner, file>>

(* setsid, and SIGHUP is ignored.                                          *)
SetSid(s) ==
  /\ pc[s] = "session"
  /\ leader' = [leader EXCEPT ![s] = TRUE]
  /\ Go(s, "refork")
  /\ UNCHANGED <<pid, owner, file, last>>

(* Variant: the leader of the session goes on.                             *)
ReforkNot(s) ==
  /\ pc[s] = "refork"
  /\ Go(s, "open")
  /\ UNCHANGED <<pid, leader, owner, file, last>>

(* The second fork: the child leads no session.                            *)
Refork(s) ==
  /\ pc[s] = "refork"
  /\ NewProcess(s) /\ Go(s, "open")
  /\ UNCHANGED <<owner, file>>

ForkFails(s) ==
  /\ "fork" \in Fault /\ pc[s] \in {"fork", "refork"}
  /\ Gone(s)

(* chdir, the three descriptors, open with O_CREAT: LOCK_FILE is there.    *)
OpenLock(s) ==
  /\ pc[s] = "open"
  /\ file' = IF file = Absent THEN Empty ELSE file
  /\ Go(s, "lock")
  /\ UNCHANGED <<pid, leader, owner, last>>

(* exit(1): sigaction, chdir, an unexpected descriptor, open, lock_file.   *)
CallFails(s) ==
  /\ "call" \in Fault /\ pc[s] \in {"session", "open", "lock"}
  /\ Gone(s)

LockFile(s) ==
  /\ pc[s] = "lock" /\ owner = Free
  /\ owner' = pid[s]
  /\ Go(s, "truncate")
  /\ UNCHANGED <<pid, leader, file, last>>

(* Variant: who does not get the lock goes on as if it had.                *)
LockedWrites(s) ==
  /\ pc[s] = "lock" /\ owner # Free
  /\ Go(s, "truncate")
  /\ UNCHANGED <<pid, leader, owner, file, last>>

(* EACCES, EAGAIN: another process has the lock.  The file is closed and   *)
(* daemonize returns 0, as it does to the owner of the lock.               *)
Locked(s) ==
  /\ pc[s] = "lock" /\ owner # Free
  /\ Go(s, "run")
  /\ UNCHANGED <<pid, leader, owner, file, last>>

Truncate(s) ==
  /\ pc[s] = "truncate"
  /\ file' = Empty
  /\ Go(s, "write")
  /\ UNCHANGED <<pid, leader, owner, last>>

(* The number of the process; whether it could be written is not looked at.*)
Write(s) ==
  /\ pc[s] = "write"
  /\ \/ file' = pid[s]
     \/ "disk" \in Fault /\ UNCHANGED file
  /\ Go(s, "run")
  /\ UNCHANGED <<pid, leader, owner, last>>

Next ==
  \E s \in Start :
    \/ Run(s) \/ Die(s)
    \/ Fork(s) \/ SetSid(s) \/ Refork(s) \/ ForkFails(s)
    \/ OpenLock(s) \/ CallFails(s) \/ LockFile(s) \/ Locked(s)
    \/ Truncate(s) \/ Write(s)

Spec == Init /\ [][Next]_vars

-----------------------------------------------------------------------------
(* Properties.                                                             *)

(* Once the owner of the lock runs, LOCK_FILE holds its number - or none,  *)
(* if the disk was full - whoever else starts, loses the lock and dies     *)
(* meanwhile, and whatever number an earlier owner left in it.             *)
OwnerNamed ==
  \A s \in Start :
    pc[s] = "run" /\ owner = pid[s] =>
      file = pid[s] \/ ("disk" \in Fault /\ file = Empty)

(* No daemon can get a controlling terminal: it leads no session.          *)
NoTerminal == \A s \in Start : pc[s] = "run" => ~leader[s]

-----------------------------------------------------------------------------
(* What makes them inductive.                                              *)

(* No two processes have the same number, and none one that is to come.    *)
Numbered ==
  \A s \in Start :
    /\ pc[s] = "none" <=> pid[s] = 0
    /\ pid[s] <= last
    /\ \A t \in Start : pid[s] = pid[t] /\ pid[s] # 0 => s = t

(* The owner of the lock has passed lock_file, who is about to write owns  *)
(* it, and has truncated the file.                                         *)
Owned ==
  /\ owner # Free => owner <= last
  /\ \A s \in Start :
       /\ owner = pid[s] => pc[s] \in {"truncate", "write", "run"}
       /\ pc[s] \in {"truncate", "write"} => owner = pid[s]
       /\ pc[s] = "write" => file = Empty

(* A process leads its session between setsid and the second fork only.    *)
Leads == \A s \in Start : leader[s] => pc[s] = "refork"

DaemonInv == TypeOK /\ Numbered /\ Owned /\ Leads /\ OwnerNamed
=============================================================================
