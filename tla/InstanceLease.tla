---------------------------- MODULE InstanceLease ----------------------------
(***************************************************************************)
(* The single-writer lease of src/runtime/instanceLease.ts: a lock         *)
(* directory created by mkdir, an owner file in it with an expiry time, a  *)
(* takeover of an expired directory by rename, and the fence every send    *)
(* asserts.                                                                *)
(*                                                                         *)
(* An instance is one incarnation of the process; a restart is another     *)
(* one.  Each file-system call is a step.  Acquiring, renewing and         *)
(* releasing are synchronous code, so in one process nothing else runs in  *)
(* between; another process may, when "interleave" is asked for.  Between  *)
(* the fence of a send and its broadcast there are awaits, so the same     *)
(* process may renew.  Signer, Safe and pool are those of every instance.  *)
(***************************************************************************)
EXTENDS Integers, FiniteSets

CONSTANTS
  Instances,   \* incarnations of the bot
  LeaseTime,   \* leaseMs
  MaxTime,     \* bound: the clock of a behaviour
  Faults       \* a subset of FaultNames

FaultNames == {"crash",          \* an instance dies outside the lease code
               "crashInside",    \* an instance dies between two file operations
               "interleave",     \* lease operations of instances overlap
               "stall"}          \* a process stalls past an expiry it checked

ASSUME LeaseAssumption ==
  /\ "none" \notin Instances
  /\ LeaseTime \in Nat \ {0}
  /\ MaxTime \in Nat
  /\ Faults \subseteq FaultNames

VARIABLES
  directory,  \* does the lock directory exist
  owner,      \* the owner file: no record, or the instance and its expiry
  loc,        \* where each instance stands
  sending,    \* instances between the fence and the broadcast of a send
  now         \* the clock

vars == <<directory, owner, loc, sending, now>>

NoOwner == [id |-> "none", expiresAt |-> 0]
Records == [id : Instances, expiresAt : Nat] \cup {NoOwner}

Inside == {"existing", "expired", "moved", "claimed", "renewing", "removing", "removed"}

TypeOK ==
  /\ directory \in BOOLEAN
  /\ owner \in Records
  /\ owner # NoOwner => directory
  /\ loc \in [Instances -> {"off", "live", "leaving", "dead"} \cup Inside]
  /\ sending \subseteq Instances
  /\ now \in 0..MaxTime

\* The lease code of another instance is not running, or may be overlapped.
MayEnter(i) == "interleave" \in Faults \/ \A j \in Instances \ {i} : loc[j] \notin Inside

Goto(i, l) == loc' = [loc EXCEPT ![i] = l]

\* Mutant of Owns: the fence does not look at the expiry.
OwnsExpired(i) == owner.id = i

\* The test of assertOwned, which the fence of every send and renew() make.
Owns(i) == owner.id = i /\ now < owner.expiresAt
-----------------------------------------------------------------------------
\* mkdirSync of acquireInstanceLease.
Acquire(i) ==
  /\ loc[i] = "off"
  /\ MayEnter(i)
  /\ directory' = TRUE
  /\ Goto(i, IF directory THEN "existing" ELSE "claimed")
  /\ UNCHANGED <<owner, sending, now>>

\* The directory exists: an unreadable or unexpired owner refuses.
ReadExisting(i) ==
  /\ loc[i] = "existing"
  /\ Goto(i, IF owner # NoOwner /\ owner.expiresAt <= now THEN "expired" ELSE "dead")
  /\ UNCHANGED <<directory, owner, sending, now>>

\* renameSync moves away whatever directory is there, with its owner file.
MoveStale(i) ==
  /\ loc[i] = "expired"
  /\ directory' = FALSE
  /\ owner' = NoOwner
  /\ Goto(i, IF directory THEN "moved" ELSE "dead")
  /\ UNCHANGED <<sending, now>>

\* The second mkdirSync fails if another instance has made the directory.
Remake(i) ==
  /\ loc[i] = "moved"
  /\ directory' = TRUE
  /\ Goto(i, IF directory THEN "dead" ELSE "claimed")
  /\ UNCHANGED <<owner, sending, now>>

\* writeOwner replaces the file of the directory that has the name by now.
\* acquire() and renew() end here; without a directory it throws.
WriteOwner(i) ==
  /\ loc[i] \in {"claimed", "renewing"}
  /\ owner' = IF directory THEN [id |-> i, expiresAt |-> now + LeaseTime] ELSE owner
  /\ Goto(i, IF directory THEN "live" ELSE IF loc[i] = "claimed" THEN "dead" ELSE "leaving")
  /\ UNCHANGED <<directory, sending, now>>

\* Mutant of Renew: a heartbeat that does not assert its ownership.
RenewUnchecked(i) ==
  /\ loc[i] = "live"
  /\ MayEnter(i)
  /\ Goto(i, "renewing")
  /\ UNCHANGED <<directory, owner, sending, now>>

\* The heartbeat: renew() asserts ownership, or reports the loss and the
\* process shuts down.
Renew(i) ==
  /\ loc[i] = "live"
  /\ MayEnter(i)
  /\ Goto(i, IF Owns(i) THEN "renewing" ELSE "leaving")
  /\ UNCHANGED <<directory, owner, sending, now>>

\* assertSendAllowed passes.  A failure leaves everything as it was.
BeginSend(i) ==
  /\ loc[i] \in {"live", "leaving"}
  /\ MayEnter(i)
  /\ Owns(i)
  /\ sending' = sending \cup {i}
  /\ UNCHANGED <<directory, owner, loc, now>>

\* The broadcast.
EndSend(i) ==
  /\ i \in sending
  /\ loc[i] \in {"live", "leaving"}
  /\ sending' = sending \ {i}
  /\ UNCHANGED <<directory, owner, loc, now>>

Shutdown(i) ==
  /\ loc[i] = "live"
  /\ Goto(i, "leaving")
  /\ UNCHANGED <<directory, owner, sending, now>>

\* release() reads the owner once the work in flight is over, removes the file
\* of a lease of its own, expired or not, and then the directory.
ReleaseCheck(i) ==
  /\ loc[i] = "leaving"
  /\ i \notin sending
  /\ MayEnter(i)
  /\ Goto(i, IF owner.id = i THEN "removing" ELSE "dead")
  /\ UNCHANGED <<directory, owner, sending, now>>

RemoveOwner(i) ==
  /\ loc[i] = "removing"
  /\ owner' = NoOwner
  /\ Goto(i, "removed")
  /\ UNCHANGED <<directory, sending, now>>

\* Mutant of RemoveDirectory: only the file is removed.
RemoveDirectoryNever(i) ==
  /\ loc[i] = "removed"
  /\ Goto(i, "dead")
  /\ UNCHANGED <<directory, owner, sending, now>>

\* rmdirSync removes an empty directory only.
RemoveDirectory(i) ==
  /\ loc[i] = "removed"
  /\ directory' = (directory /\ owner # NoOwner)
  /\ Goto(i, "dead")
  /\ UNCHANGED <<owner, sending, now>>

Crash(i) ==
  /\ loc[i] \notin {"off", "dead"}
  /\ (IF loc[i] \in Inside THEN "crashInside" ELSE "crash") \in Faults
  /\ Goto(i, "dead")
  /\ sending' = sending \ {i}
  /\ UNCHANGED <<directory, owner, now>>

\* Unless processes stall, a synchronous section or a send is over before the
\* lease it checked expires.
Tick ==
  /\ now < MaxTime
  /\ \/ "stall" \in Faults
     \/ \A i \in Instances : loc[i] \notin Inside /\ (i \in sending => now + 1 < owner.expiresAt)
  /\ now' = now + 1
  /\ UNCHANGED <<directory, owner, loc, sending>>
-----------------------------------------------------------------------------
Init ==
  /\ directory = FALSE
  /\ owner = NoOwner
  /\ loc = [i \in Instances |-> "off"]
  /\ sending = {}
  /\ now = 0

Acquiring(i) == Acquire(i) \/ ReadExisting(i) \/ MoveStale(i) \/ Remake(i) \/ WriteOwner(i)

Releasing(i) == ReleaseCheck(i) \/ RemoveOwner(i) \/ RemoveDirectory(i)

Next == Tick \/ \E i \in Instances :
          \/ Acquiring(i) \/ Renew(i) \/ BeginSend(i) \/ EndSend(i)
          \/ Shutdown(i) \/ Releasing(i) \/ Crash(i)

Spec == Init /\ [][Next]_vars

\* The three steps the lease code relies on the file system and the clock for:
\* the rename finds a record that is still expired, release() removes the
\* record it has read as its own, and no send or renewal outlasts the lease it
\* has checked.
Timely ==
  \A i \in Instances :
    /\ loc[i] = "expired" /\ loc'[i] = "moved" => owner # NoOwner /\ owner.expiresAt <= now
    /\ loc[i] = "removing" /\ loc'[i] = "removed" => owner.id = i
    /\ now' # now /\ (i \in sending \/ loc[i] = "renewing") => now' < owner.expiresAt

TimelySpec == Init /\ [][Next /\ Timely]_vars
-----------------------------------------------------------------------------
\* Two instances are never between fence and broadcast at once: the lease
\* blocks two writers.
OneSender == \A i, j \in sending : i = j

\* Nobody else takes, rewrites or removes the lease of an owner before it
\* expires: what the owner's fence has checked stays so.
UnexpiredIsKept ==
  [][owner # NoOwner /\ now < owner.expiresAt
       => \/ owner'.id = owner.id
          \/ owner' = NoOwner /\ loc[owner.id] = "removing"]_vars

\* The lock is unreadable, and so refused to everyone, only while an instance
\* is at work on it.
LockIsReadable == directory /\ owner = NoOwner => \E i \in Instances : loc[i] \in Inside
=============================================================================
