---------------------------- MODULE DaemonProofs ----------------------------
(***************************************************************************)
(* That the lock file names the owner of the lock, for any number of       *)
(* starts, process numbers and failing calls.                              *)
(***************************************************************************)
EXTENDS Daemon, TLAPS

USE DaemonAssumption DEF Point

LEMMA InitInv == Init => DaemonInv
BY DEF Init, DaemonInv, TypeOK, Numbered, Owned, Leads, OwnerNamed

(* A new process: its number is nobody else's, nor the owner's.            *)
LEMMA NewProcessInv ==
  ASSUME DaemonInv, NEW s \in Start, NEW p \in {"fork", "session", "open"},
         pc[s] \in {"none", "fork", "refork"}, NewProcess(s), Go(s, p),
         UNCHANGED <<owner, file>>
  PROVE  DaemonInv'
<1> USE DEF DaemonInv, NewProcess, Go
<1>1. TypeOK'
  BY DEF TypeOK
<1>2. Numbered'
  BY DEF TypeOK, Numbered
<1>3. Owned'
  BY DEF TypeOK, Numbered, Owned
<1>4. Leads' /\ OwnerNamed'
  BY DEF TypeOK, Numbered, Owned, Leads, OwnerNamed
<1>. QED  BY <1>1, <1>2, <1>3, <1>4

(* A process that ends takes its lock with it.                             *)
LEMMA GoneInv ==
  ASSUME DaemonInv, NEW s \in Start, pc[s] # "none", Gone(s)
  PROVE  DaemonInv'
<1> USE DEF DaemonInv, Gone, Go
<1>1. TypeOK'
  BY DEF TypeOK
<1>2. Numbered'
  BY DEF TypeOK, Numbered
<1>3. Owned'
  BY DEF TypeOK, Numbered, Owned
<1>4. Leads' /\ OwnerNamed'
  BY DEF TypeOK, Numbered, Owned, Leads, OwnerNamed
<1>. QED  BY <1>1, <1>2, <1>3, <1>4

(* The steps of daemonize within one process.                              *)
LEMMA StepInv ==
  ASSUME DaemonInv, NEW s \in Start,
         SetSid(s) \/ OpenLock(s) \/ LockFile(s) \/ Locked(s) \/ Truncate(s) \/ Write(s)
  PROVE  DaemonInv'
<1> USE DEF DaemonInv, Go
<1>1. TypeOK'
  <2>1. CASE SetSid(s) \/ Locked(s)
    BY <2>1 DEF SetSid, Locked, TypeOK
  <2>2. CASE LockFile(s)
    <3>1. pid[s] \in 1 .. PidMax
      BY <2>2 DEF LockFile, TypeOK, Numbered
    <3>. QED  BY <2>2, <3>1 DEF LockFile, TypeOK
  <2>3. CASE OpenLock(s) \/ Truncate(s)
    BY <2>3 DEF OpenLock, Truncate, TypeOK
  <2>4. CASE Write(s)
    <3>1. pid[s] \in 1 .. PidMax
      BY <2>4 DEF Write, TypeOK, Numbered
    <3>. QED  BY <2>4, <3>1 DEF Write, TypeOK
  <2>. QED  BY <2>1, <2>2, <2>3, <2>4
<1>2. Numbered'
  BY DEF SetSid, OpenLock, LockFile, Locked, Truncate, Write, TypeOK, Numbered
<1>3. Owned'
  <2>1. CASE SetSid(s) \/ OpenLock(s)
    BY <2>1 DEF SetSid, OpenLock, TypeOK, Numbered, Owned
  <2>2. CASE LockFile(s) \/ Locked(s)
    BY <2>2 DEF LockFile, Locked, TypeOK, Numbered, Owned
  <2>3. CASE Truncate(s)
    BY <2>3 DEF Truncate, TypeOK, Numbered, Owned
  <2>4. CASE Write(s)
    BY <2>4 DEF Write, TypeOK, Numbered, Owned
  <2>. QED  BY <2>1, <2>2, <2>3, <2>4
<1>4. Leads'
  BY DEF SetSid, OpenLock, LockFile, Locked, Truncate, Write, TypeOK, Leads
<1>5. OwnerNamed'
  <2>1. CASE SetSid(s) \/ LockFile(s) \/ Locked(s)
    BY <2>1 DEF SetSid, LockFile, Locked, TypeOK, Numbered, Owned, OwnerNamed
  <2>2. CASE OpenLock(s)
    BY <2>2 DEF OpenLock, TypeOK, Owned, OwnerNamed
  <2>3. CASE Truncate(s)
    BY <2>3 DEF Truncate, TypeOK, Numbered, Owned, OwnerNamed
  <2>4. CASE Write(s)
    BY <2>4 DEF Write, TypeOK, Numbered, Owned, OwnerNamed
  <2>. QED  BY <2>1, <2>2, <2>3, <2>4
<1>. QED  BY <1>1, <1>2, <1>3, <1>4, <1>5

LEMMA NextInv == DaemonInv /\ [Next]_vars => DaemonInv'
<1>. SUFFICES ASSUME DaemonInv, [Next]_vars PROVE DaemonInv'
  OBVIOUS
<1>1. CASE UNCHANGED vars
  BY <1>1 DEF vars, DaemonInv, TypeOK, Numbered, Owned, Leads, OwnerNamed
<1>2. ASSUME NEW s \in Start, Run(s) \/ Fork(s) \/ Refork(s)
      PROVE  DaemonInv'
  BY <1>2, NewProcessInv DEF Run, Fork, Refork
<1>3. ASSUME NEW s \in Start, Die(s) \/ ForkFails(s) \/ CallFails(s)
      PROVE  DaemonInv'
  BY <1>3, GoneInv DEF Die, ForkFails, CallFails
<1>. QED  BY <1>1, <1>2, <1>3, StepInv DEF Next

(* The inductive invariant: numbers are unique, the owner has passed       *)
(* lock_file, and only the owner writes.                                   *)
THEOREM DaemonInvariant == Spec => []DaemonInv
<1>. QED  BY InitInv, NextInv, PTL DEF Spec

(* While the owner of the lock runs, the lock file names it, whoever else starts.*)
THEOREM LockNamesOwner == Spec => []OwnerNamed
<1>1. DaemonInv => OwnerNamed  BY DEF DaemonInv
<1>. QED  BY <1>1, DaemonInvariant, PTL

(* No daemon leads a session.                                              *)
THEOREM NeverTerminal == Spec => []NoTerminal
<1>1. DaemonInv => NoTerminal  BY DEF DaemonInv, Leads, NoTerminal
<1>. QED  BY <1>1, DaemonInvariant, PTL
=============================================================================
