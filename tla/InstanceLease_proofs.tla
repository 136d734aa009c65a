------------------------ MODULE InstanceLease_proofs ------------------------
(***************************************************************************)
(* Proofs about the lease, for any number of instances, any lease time and *)
(* any bound on the clock.  Exclusion is proved under every fault, crashes *)
(* between two file operations, overlapping operations and stalls          *)
(* included, from the three conditions of Timely; instances that neither   *)
(* overlap nor stall meet them by themselves.                              *)
(***************************************************************************)
EXTENDS InstanceLease, TLAPS

-----------------------------------------------------------------------------
LEMMA InitTypeOK == Init => TypeOK
<1> SUFFICES ASSUME Init PROVE TypeOK
  OBVIOUS
<1>1. directory \in BOOLEAN /\ owner \in Records /\ owner = NoOwner
  BY DEF Init, Records
<1>2. loc \in [Instances -> {"off", "live", "leaving", "dead"} \cup Inside]
  BY DEF Init
<1>3. sending \subseteq Instances /\ now \in 0..MaxTime
  BY LeaseAssumption DEF Init
<1> QED
  BY <1>1, <1>2, <1>3 DEF TypeOK

LEMMA TypeOKStep == ASSUME TypeOK, [Next]_vars PROVE TypeOK'
<1> USE LeaseAssumption DEF TypeOK, Goto, Inside, Records, NoOwner
<1>1. CASE Tick
  BY <1>1 DEF Tick
<1>2. ASSUME NEW i \in Instances, Acquiring(i) PROVE TypeOK'
  <2>1. CASE Acquire(i)
    BY <2>1 DEF Acquire
  <2>2. CASE ReadExisting(i)
    BY <2>2 DEF ReadExisting
  <2>3. CASE MoveStale(i)
    BY <2>3 DEF MoveStale
  <2>4. CASE Remake(i)
    BY <2>4 DEF Remake
  <2>5. CASE WriteOwner(i)
    BY <2>5 DEF WriteOwner
  <2> QED
    BY <1>2, <2>1, <2>2, <2>3, <2>4, <2>5 DEF Acquiring
<1>3. ASSUME NEW i \in Instances, Renew(i) \/ Shutdown(i) PROVE TypeOK'
  BY <1>3 DEF Renew, Shutdown
<1>4. ASSUME NEW i \in Instances, BeginSend(i) \/ EndSend(i) PROVE TypeOK'
  BY <1>4 DEF BeginSend, EndSend
<1>5. ASSUME NEW i \in Instances, Releasing(i) PROVE TypeOK'
  BY <1>5 DEF Releasing, ReleaseCheck, RemoveOwner, RemoveDirectory
<1>6. ASSUME NEW i \in Instances, Crash(i) PROVE TypeOK'
  BY <1>6 DEF Crash
<1>7. CASE UNCHANGED vars
  BY <1>7 DEF vars
<1> QED
  BY <1>1, <1>2, <1>3, <1>4, <1>5, <1>6, <1>7 DEF Next

\* The lock directory, its owner file and the instances keep their types,
\* whatever the faults; an owner file is never left without its directory.
THEOREM TypeCorrect == Spec => []TypeOK
  BY InitTypeOK, TypeOKStep, PTL DEF Spec

-----------------------------------------------------------------------------
(***************************************************************************)
(* The inductive invariant under Timely.  At most one instance holds the   *)
(* lock in its hands, a directory without a record that only its next step *)
(* may change; a renewal and a send under way are covered by an unexpired  *)
(* lease of their own.                                                     *)
(***************************************************************************)

InHand == {"claimed", "removed"}

OneInHand == \A i, j \in Instances : loc[i] \in InHand /\ loc[j] \in InHand => i = j

HandsAreEmpty == \A i \in Instances : loc[i] \in InHand => directory /\ owner = NoOwner

RenewersOwn == \A i \in Instances : loc[i] = "renewing" => Owns(i)

SendersOwn ==
  \A i \in sending : Owns(i) /\ loc[i] \in {"live", "leaving", "renewing"}

IInv == TypeOK /\ OneInHand /\ HandsAreEmpty /\ RenewersOwn /\ SendersOwn

\* An instance that dies with the lock in its hands leaves it unreadable; one
\* that does not hands it on.
SomeHand == directory /\ owner = NoOwner => \E i \in Instances : loc[i] \in InHand

RInv == IInv /\ ("crashInside" \notin Faults => SomeHand)

LEMMA InvInit == Init => RInv
<1> SUFFICES ASSUME Init PROVE RInv
  OBVIOUS
<1> QED
  BY InitTypeOK DEF Init, RInv, IInv, OneInHand, HandsAreEmpty, RenewersOwn, SendersOwn,
     SomeHand, InHand

LEMMA InvStep == ASSUME RInv, [Next /\ Timely]_vars PROVE RInv'
<1>1. TypeOK'
  BY TypeOKStep DEF RInv, IInv
<1> USE LeaseAssumption DEF RInv, IInv, TypeOK, OneInHand, HandsAreEmpty, RenewersOwn,
        SendersOwn, SomeHand, InHand, Goto, Inside, Records, NoOwner, Owns
<1>2. CASE Tick /\ Timely
  BY <1>1, <1>2 DEF Tick, Timely
<1>3. ASSUME NEW i \in Instances, Acquire(i) PROVE RInv'
  BY <1>1, <1>3 DEF Acquire
<1>4. ASSUME NEW i \in Instances, ReadExisting(i) PROVE RInv'
  BY <1>1, <1>4 DEF ReadExisting
<1>5. ASSUME NEW i \in Instances, MoveStale(i), Timely PROVE RInv'
  BY <1>1, <1>5 DEF MoveStale, Timely
<1>6. ASSUME NEW i \in Instances, Remake(i) PROVE RInv'
  BY <1>1, <1>6 DEF Remake
<1>7. ASSUME NEW i \in Instances, WriteOwner(i) PROVE RInv'
  BY <1>1, <1>7 DEF WriteOwner
<1>8. ASSUME NEW i \in Instances, Renew(i) PROVE RInv'
  BY <1>1, <1>8 DEF Renew
<1>9. ASSUME NEW i \in Instances, BeginSend(i) PROVE RInv'
  BY <1>1, <1>9 DEF BeginSend
<1>10. ASSUME NEW i \in Instances, EndSend(i) \/ Shutdown(i) PROVE RInv'
  BY <1>1, <1>10 DEF EndSend, Shutdown
<1>11. ASSUME NEW i \in Instances, ReleaseCheck(i) PROVE RInv'
  BY <1>1, <1>11 DEF ReleaseCheck
<1>12. ASSUME NEW i \in Instances, RemoveOwner(i), Timely PROVE RInv'
  BY <1>1, <1>12 DEF RemoveOwner, Timely
<1>13. ASSUME NEW i \in Instances, RemoveDirectory(i) PROVE RInv'
  BY <1>1, <1>13 DEF RemoveDirectory
<1>14. ASSUME NEW i \in Instances, Crash(i) PROVE RInv'
  BY <1>1, <1>14 DEF Crash
<1>15. CASE UNCHANGED vars
  BY <1>15 DEF vars
<1> QED
  BY <1>2, <1>3, <1>4, <1>5, <1>6, <1>7, <1>8, <1>9, <1>10, <1>11, <1>12, <1>13, <1>14, <1>15
     DEF Next, Acquiring, Releasing

LEMMA InvHolds == TimelySpec => []RInv
<1>1. RInv /\ [Next /\ Timely]_vars => RInv'
  BY InvStep
<1> QED
  BY <1>1, InvInit, PTL DEF TimelySpec

\* Whatever crashes, overlaps or stalls, two instances are never between the
\* fence and the broadcast of a send.
THEOREM LeaseExcludes == TimelySpec => []OneSender
<1>1. RInv => OneSender
  BY DEF RInv, IInv, SendersOwn, OneSender, Owns, TypeOK
<1> QED
  BY <1>1, InvHolds, PTL

\* While no instance dies between two file operations, a lock nobody is at
\* work on can be read, so an expired lease can always be taken over.
THEOREM LockStaysReadable ==
  ASSUME "crashInside" \notin Faults PROVE TimelySpec => []LockIsReadable
<1>1. RInv => LockIsReadable
  BY DEF RInv, SomeHand, LockIsReadable, InHand, Inside
<1> QED
  BY <1>1, InvHolds, PTL

\* Whatever crashes, overlaps or stalls, no step of another instance takes,
\* rewrites or removes an unexpired lease.
THEOREM LeaseKept == TimelySpec => UnexpiredIsKept
<1> DEFINE Kept == owner # NoOwner /\ now < owner.expiresAt
                     => \/ owner'.id = owner.id
                        \/ owner' = NoOwner /\ loc[owner.id] = "removing"
<1>1. ASSUME IInv, Next, Timely PROVE Kept
  <2> USE <1>1, LeaseAssumption DEF IInv, TypeOK, HandsAreEmpty, InHand, RenewersOwn, Owns,
          Records, NoOwner, Goto
  <2>1. ASSUME NEW i \in Instances, MoveStale(i) PROVE Kept
    BY <2>1 DEF MoveStale, Timely
  <2>2. ASSUME NEW i \in Instances, WriteOwner(i) PROVE Kept
    BY <2>2 DEF WriteOwner
  <2>3. ASSUME NEW i \in Instances, RemoveOwner(i) PROVE Kept
    BY <2>3 DEF RemoveOwner, Timely
  <2>4. CASE UNCHANGED owner
    BY <2>4
  <2> QED
    BY <2>1, <2>2, <2>3, <2>4 DEF Next, Acquiring, Releasing, Tick, Acquire, ReadExisting,
       Remake, Renew, BeginSend, EndSend, Shutdown, ReleaseCheck, RemoveDirectory, Crash
<1>2. RInv /\ [Next /\ Timely]_vars => [Kept]_vars
  BY <1>1 DEF RInv
<1> QED
  BY <1>2, InvHolds, PTL DEF TimelySpec, UnexpiredIsKept

-----------------------------------------------------------------------------
(***************************************************************************)
(* Instances that may crash at any step, but whose file operations do not  *)
(* overlap and who do not stall past an expiry, are timely: the one at     *)
(* work on the lock is alone, and what it has read still holds.            *)
(***************************************************************************)

CrashesOnly == Faults \subseteq {"crash", "crashInside"}

OneInside == \A i, j \in Instances : loc[i] \in Inside /\ loc[j] \in Inside => i = j

ReadingsHold ==
  \A i \in Instances :
    /\ loc[i] = "expired" => owner # NoOwner /\ owner.expiresAt <= now
    /\ loc[i] = "moved" => ~directory /\ owner = NoOwner
    /\ loc[i] = "claimed" => owner = NoOwner
    /\ loc[i] = "removing" => owner.id = i
    /\ loc[i] = "removed" => owner = NoOwner
    /\ loc[i] = "renewing" => owner.id = i

CInv == TypeOK /\ OneInside /\ ReadingsHold /\ SendersOwn

LEMMA CrashInit == Init => CInv
<1> SUFFICES ASSUME Init PROVE CInv
  OBVIOUS
<1> QED
  BY InitTypeOK DEF Init, CInv, OneInside, ReadingsHold, SendersOwn, Inside

LEMMA CrashStep == ASSUME CrashesOnly, CInv, [Next]_vars PROVE CInv'
<1>1. TypeOK'
  BY TypeOKStep DEF CInv
<1> USE LeaseAssumption DEF CInv, TypeOK, OneInside, ReadingsHold, SendersOwn,
        Goto, Inside, Records, NoOwner, Owns, MayEnter, CrashesOnly
<1>2. CASE Tick
  BY <1>1, <1>2 DEF Tick
<1>3. ASSUME NEW i \in Instances, Acquire(i) PROVE CInv'
  BY <1>1, <1>3 DEF Acquire
<1>4. ASSUME NEW i \in Instances, ReadExisting(i) PROVE CInv'
  BY <1>1, <1>4 DEF ReadExisting
<1>5. ASSUME NEW i \in Instances, MoveStale(i) PROVE CInv'
  BY <1>1, <1>5 DEF MoveStale
<1>6. ASSUME NEW i \in Instances, Remake(i) PROVE CInv'
  BY <1>1, <1>6 DEF Remake
<1>7. ASSUME NEW i \in Instances, WriteOwner(i) PROVE CInv'
  BY <1>1, <1>7 DEF WriteOwner
<1>8. ASSUME NEW i \in Instances, Renew(i) PROVE CInv'
  BY <1>1, <1>8 DEF Renew
<1>9. ASSUME NEW i \in Instances, BeginSend(i) PROVE CInv'
  BY <1>1, <1>9 DEF BeginSend
<1>10. ASSUME NEW i \in Instances, EndSend(i) \/ Shutdown(i) PROVE CInv'
  BY <1>1, <1>10 DEF EndSend, Shutdown
<1>11. ASSUME NEW i \in Instances, Releasing(i) PROVE CInv'
  BY <1>1, <1>11 DEF Releasing, ReleaseCheck, RemoveOwner, RemoveDirectory
<1>12. ASSUME NEW i \in Instances, Crash(i) PROVE CInv'
  BY <1>1, <1>12 DEF Crash
<1>13. CASE UNCHANGED vars
  BY <1>13 DEF vars
<1> QED
  BY <1>2, <1>3, <1>4, <1>5, <1>6, <1>7, <1>8, <1>9, <1>10, <1>11, <1>12, <1>13
     DEF Next, Acquiring

LEMMA CrashTimely == ASSUME CrashesOnly, CInv, [Next]_vars PROVE [Next /\ Timely]_vars
<1> SUFFICES ASSUME Next PROVE Timely
  OBVIOUS
<1>1. ASSUME NEW i \in Instances
      PROVE  /\ loc[i] = "expired" /\ loc'[i] = "moved" => owner # NoOwner /\ owner.expiresAt <= now
             /\ loc[i] = "removing" /\ loc'[i] = "removed" => owner.id = i
  BY <1>1 DEF CInv, ReadingsHold
<1>2. ASSUME NEW i \in Instances, now' # now, i \in sending \/ loc[i] = "renewing"
      PROVE  now' < owner.expiresAt
  <2>1. Tick
    BY <1>2 DEF Next, Acquiring, Releasing, Acquire, ReadExisting, MoveStale, Remake, WriteOwner,
       Renew, BeginSend, EndSend, Shutdown, ReleaseCheck, RemoveOwner, RemoveDirectory, Crash
  <2> QED
    BY <1>2, <2>1 DEF Tick, CrashesOnly, Inside
<1> QED
  BY <1>1, <1>2 DEF Timely

\* A process that may die at any step, between two file operations too, keeps
\* the conditions the theorems above start from, as long as lease operations
\* of two processes do not overlap and none stalls past an expiry.
THEOREM CrashesAreTimely == ASSUME CrashesOnly PROVE Spec => TimelySpec
<1>1. CrashesOnly
  OBVIOUS
<1>2. CInv /\ [Next]_vars => CInv'
  BY <1>1, CrashStep
<1>3. CInv /\ [Next]_vars => [Next /\ Timely]_vars
  BY <1>1, CrashTimely
<1> QED
  BY <1>2, <1>3, CrashInit, PTL DEF Spec, TimelySpec

\* Crashes alone never let two instances send at once, and never let one take
\* a lease that has not expired.
THEOREM CrashesExclude == ASSUME CrashesOnly PROVE Spec => []OneSender /\ UnexpiredIsKept
  BY CrashesAreTimely, LeaseExcludes, LeaseKept, PTL

\* Crashes outside the lease code leave a lock that can be read and taken over.
THEOREM CrashedLockReadable == ASSUME Faults \subseteq {"crash"} PROVE Spec => []LockIsReadable
<1>1. CrashesOnly /\ "crashInside" \notin Faults
  BY DEF CrashesOnly
<1> QED
  BY <1>1, CrashesAreTimely, LockStaysReadable, PTL
=============================================================================
