------------------------- MODULE PolicyRuntimeProofs -------------------------
(***************************************************************************)
(* Proofs about PolicyRuntime, for any sets of processes, keys and links.  *)
(* The invariant says what holding the lock, having the listener open and  *)
(* being named in the lock file have to do with where a process is in its  *)
(* program; the properties follow from it without another induction.       *)
(***************************************************************************)
EXTENDS PolicyRuntime, TLAPS

USE ConstantsDistinct

\* The variables keep their types: the base of every step below.
LEMMA TypeStep == TypeOK /\ [Next]_vars => TypeOK'
  <1> SUFFICES ASSUME TypeOK, [Next]_vars PROVE TypeOK'
    OBVIOUS
  <1> USE DEF TypeOK, Places, Running, Owning, Waiting, Goto
  <1>1. ASSUME NEW p \in Procs, Launch(p) PROVE TypeOK'
    BY <1>1 DEF Launch
  <1>2. ASSUME NEW p \in Procs, TryAcquireWins(p) PROVE TypeOK'
    BY <1>2 DEF TryAcquireWins
  <1>3. ASSUME NEW p \in Procs, TryAcquireLoses(p) PROVE TypeOK'
    BY <1>3 DEF TryAcquireLoses
  <1>4. ASSUME NEW p \in Procs, TryAcquireFails(p) PROVE TypeOK'
    BY <1>4 DEF TryAcquireFails
  <1>5. ASSUME NEW p \in Procs, Truncate(p) PROVE TypeOK'
    BY <1>5 DEF Truncate, Records, Unreadable
  <1>6. ASSUME NEW p \in Procs, WriteRecord(p) PROVE TypeOK'
    BY <1>6 DEF WriteRecord, Records, Record
  <1>7. ASSUME NEW p \in Procs, RecordFails(p) PROVE TypeOK'
    BY <1>7 DEF RecordFails
  <1>8. ASSUME NEW p \in Procs, Bind(p) PROVE TypeOK'
    BY <1>8 DEF Bind
  <1>9. ASSUME NEW p \in Procs, Confirm(p) PROVE TypeOK'
    BY <1>9 DEF Confirm
  <1>10. ASSUME NEW p \in Procs, StopServing(p) PROVE TypeOK'
    BY <1>10 DEF StopServing
  <1>11. ASSUME NEW p \in Procs, CloseServer(p) PROVE TypeOK'
    BY <1>11 DEF CloseServer
  <1>12. ASSUME NEW p \in Procs, Unlock(p) PROVE TypeOK'
    BY <1>12 DEF Unlock
  <1>13. ASSUME NEW p \in Procs, MatchingOwner(p) PROVE TypeOK'
    BY <1>13 DEF MatchingOwner, Records
  <1>14. ASSUME NEW p \in Procs, ProbeAnswered(p) PROVE TypeOK'
    BY <1>14 DEF ProbeAnswered, Records, Unreadable
  <1>15. ASSUME NEW p \in Procs, ProbeFails(p) PROVE TypeOK'
    BY <1>15 DEF ProbeFails, Records, Unreadable
  <1>16. ASSUME NEW p \in Procs, Pause(p) PROVE TypeOK'
    BY <1>16 DEF Pause
  <1>17. ASSUME NEW p \in Procs, Signal(p) PROVE TypeOK'
    BY <1>17 DEF Signal
  <1>18. ASSUME NEW p \in Procs, Kill(p) PROVE TypeOK'
    BY <1>18 DEF Kill
  <1>19. ASSUME NEW p \in Procs, KernelUnlocks(p) PROVE TypeOK'
    BY <1>19 DEF KernelUnlocks
  <1>20. ASSUME NEW p \in Procs, KernelCloses(p) PROVE TypeOK'
    BY <1>20 DEF KernelCloses
  <1>21. ASSUME NEW p \in Procs, Reap(p) PROVE TypeOK'
    BY <1>21 DEF Reap
  <1>22. CASE Outsider
    BY <1>22 DEF Outsider
  <1>23. ASSUME NEW k \in Keys, NEW l \in Links, Replace(k, l) PROVE TypeOK'
    BY <1>23 DEF Replace
  <1>24. CASE UNCHANGED vars
    BY <1>24 DEF vars
  <1> QED
    BY <1>1, <1>2, <1>3, <1>4, <1>5, <1>6, <1>7, <1>8, <1>9, <1>10, <1>11, <1>12, <1>13, <1>14, <1>15, <1>16, <1>17, <1>18, <1>19, <1>20, <1>21, <1>22, <1>23, <1>24 DEF Next, Step, Kernel

\* Locks are taken when free and given back by whoever has them.
LEMMA LockStep == TypeOK /\ LockFollowsProgram /\ TypeOK' /\ [Next]_vars => LockFollowsProgram'
  <1> SUFFICES ASSUME TypeOK, LockFollowsProgram, TypeOK', [Next]_vars PROVE LockFollowsProgram'
    OBVIOUS
  <1> USE DEF TypeOK, LockFollowsProgram, Places, Running, Owning, Waiting, Goto
  <1>1. ASSUME NEW p \in Procs, Launch(p) PROVE LockFollowsProgram'
    BY <1>1 DEF Launch
  <1>2. ASSUME NEW p \in Procs, TryAcquireWins(p) PROVE LockFollowsProgram'
    BY <1>2 DEF TryAcquireWins
  <1>3. ASSUME NEW p \in Procs, TryAcquireLoses(p) PROVE LockFollowsProgram'
    BY <1>3 DEF TryAcquireLoses
  <1>4. ASSUME NEW p \in Procs, TryAcquireFails(p) PROVE LockFollowsProgram'
    BY <1>4 DEF TryAcquireFails
  <1>5. ASSUME NEW p \in Procs, Truncate(p) PROVE LockFollowsProgram'
    BY <1>5 DEF Truncate
  <1>6. ASSUME NEW p \in Procs, WriteRecord(p) PROVE LockFollowsProgram'
    BY <1>6 DEF WriteRecord
  <1>7. ASSUME NEW p \in Procs, RecordFails(p) PROVE LockFollowsProgram'
    BY <1>7 DEF RecordFails
  <1>8. ASSUME NEW p \in Procs, Bind(p) PROVE LockFollowsProgram'
    BY <1>8 DEF Bind
  <1>9. ASSUME NEW p \in Procs, Confirm(p) PROVE LockFollowsProgram'
    BY <1>9 DEF Confirm
  <1>10. ASSUME NEW p \in Procs, StopServing(p) PROVE LockFollowsProgram'
    BY <1>10 DEF StopServing
  <1>11. ASSUME NEW p \in Procs, CloseServer(p) PROVE LockFollowsProgram'
    BY <1>11 DEF CloseServer
  <1>12. ASSUME NEW p \in Procs, Unlock(p) PROVE LockFollowsProgram'
    BY <1>12 DEF Unlock
  <1>13. ASSUME NEW p \in Procs, MatchingOwner(p) PROVE LockFollowsProgram'
    BY <1>13 DEF MatchingOwner
  <1>14. ASSUME NEW p \in Procs, ProbeAnswered(p) PROVE LockFollowsProgram'
    BY <1>14 DEF ProbeAnswered
  <1>15. ASSUME NEW p \in Procs, ProbeFails(p) PROVE LockFollowsProgram'
    BY <1>15 DEF ProbeFails
  <1>16. ASSUME NEW p \in Procs, Pause(p) PROVE LockFollowsProgram'
    BY <1>16 DEF Pause
  <1>17. ASSUME NEW p \in Procs, Signal(p) PROVE LockFollowsProgram'
    BY <1>17 DEF Signal
  <1>18. ASSUME NEW p \in Procs, Kill(p) PROVE LockFollowsProgram'
    BY <1>18 DEF Kill
  <1>19. ASSUME NEW p \in Procs, KernelUnlocks(p) PROVE LockFollowsProgram'
    BY <1>19 DEF KernelUnlocks
  <1>20. ASSUME NEW p \in Procs, KernelCloses(p) PROVE LockFollowsProgram'
    BY <1>20 DEF KernelCloses
  <1>21. ASSUME NEW p \in Procs, Reap(p) PROVE LockFollowsProgram'
    BY <1>21 DEF Reap
  <1>22. CASE Outsider
    BY <1>22 DEF Outsider
  <1>23. ASSUME NEW k \in Keys, NEW l \in Links, Replace(k, l) PROVE LockFollowsProgram'
    BY <1>23 DEF Replace
  <1>24. CASE UNCHANGED vars
    BY <1>24 DEF vars
  <1> QED
    BY <1>1, <1>2, <1>3, <1>4, <1>5, <1>6, <1>7, <1>8, <1>9, <1>10, <1>11, <1>12, <1>13, <1>14, <1>15, <1>16, <1>17, <1>18, <1>19, <1>20, <1>21, <1>22, <1>23, <1>24 DEF Next, Step, Kernel

\* A listener is opened on a free address and closed by whoever opened it.
LEMMA PortStep == TypeOK /\ PortFollowsProgram /\ TypeOK' /\ [Next]_vars => PortFollowsProgram'
  <1> SUFFICES ASSUME TypeOK, PortFollowsProgram, TypeOK', [Next]_vars PROVE PortFollowsProgram'
    OBVIOUS
  <1> USE DEF TypeOK, PortFollowsProgram, Places, Running, Owning, Waiting, Goto
  <1>1. ASSUME NEW p \in Procs, Launch(p) PROVE PortFollowsProgram'
    BY <1>1 DEF Launch
  <1>2. ASSUME NEW p \in Procs, TryAcquireWins(p) PROVE PortFollowsProgram'
    BY <1>2 DEF TryAcquireWins
  <1>3. ASSUME NEW p \in Procs, TryAcquireLoses(p) PROVE PortFollowsProgram'
    BY <1>3 DEF TryAcquireLoses
  <1>4. ASSUME NEW p \in Procs, TryAcquireFails(p) PROVE PortFollowsProgram'
    BY <1>4 DEF TryAcquireFails
  <1>5. ASSUME NEW p \in Procs, Truncate(p) PROVE PortFollowsProgram'
    BY <1>5 DEF Truncate
  <1>6. ASSUME NEW p \in Procs, WriteRecord(p) PROVE PortFollowsProgram'
    BY <1>6 DEF WriteRecord
  <1>7. ASSUME NEW p \in Procs, RecordFails(p) PROVE PortFollowsProgram'
    BY <1>7 DEF RecordFails
  <1>8. ASSUME NEW p \in Procs, Bind(p) PROVE PortFollowsProgram'
    BY <1>8 DEF Bind
  <1>9. ASSUME NEW p \in Procs, Confirm(p) PROVE PortFollowsProgram'
    BY <1>9 DEF Confirm
  <1>10. ASSUME NEW p \in Procs, StopServing(p) PROVE PortFollowsProgram'
    BY <1>10 DEF StopServing
  <1>11. ASSUME NEW p \in Procs, CloseServer(p) PROVE PortFollowsProgram'
    BY <1>11 DEF CloseServer
  <1>12. ASSUME NEW p \in Procs, Unlock(p) PROVE PortFollowsProgram'
    BY <1>12 DEF Unlock
  <1>13. ASSUME NEW p \in Procs, MatchingOwner(p) PROVE PortFollowsProgram'
    BY <1>13 DEF MatchingOwner
  <1>14. ASSUME NEW p \in Procs, ProbeAnswered(p) PROVE PortFollowsProgram'
    BY <1>14 DEF ProbeAnswered
  <1>15. ASSUME NEW p \in Procs, ProbeFails(p) PROVE PortFollowsProgram'
    BY <1>15 DEF ProbeFails
  <1>16. ASSUME NEW p \in Procs, Pause(p) PROVE PortFollowsProgram'
    BY <1>16 DEF Pause
  <1>17. ASSUME NEW p \in Procs, Signal(p) PROVE PortFollowsProgram'
    BY <1>17 DEF Signal
  <1>18. ASSUME NEW p \in Procs, Kill(p) PROVE PortFollowsProgram'
    BY <1>18 DEF Kill
  <1>19. ASSUME NEW p \in Procs, KernelUnlocks(p) PROVE PortFollowsProgram'
    BY <1>19 DEF KernelUnlocks
  <1>20. ASSUME NEW p \in Procs, KernelCloses(p) PROVE PortFollowsProgram'
    BY <1>20 DEF KernelCloses
  <1>21. ASSUME NEW p \in Procs, Reap(p) PROVE PortFollowsProgram'
    BY <1>21 DEF Reap
  <1>22. CASE Outsider
    BY <1>22 DEF Outsider
  <1>23. ASSUME NEW k \in Keys, NEW l \in Links, Replace(k, l) PROVE PortFollowsProgram'
    BY <1>23 DEF Replace
  <1>24. CASE UNCHANGED vars
    BY <1>24 DEF vars
  <1> QED
    BY <1>1, <1>2, <1>3, <1>4, <1>5, <1>6, <1>7, <1>8, <1>9, <1>10, <1>11, <1>12, <1>13, <1>14, <1>15, <1>16, <1>17, <1>18, <1>19, <1>20, <1>21, <1>22, <1>23, <1>24 DEF Next, Step, Kernel

\* Two processes of one key are never both past the lock, so nobody overwrites
\* the record of an owner.
LEMMA RecordStep == TypeOK /\ LockFollowsProgram /\ RecordFollowsProgram /\ TypeOK' /\ [Next]_vars => RecordFollowsProgram'
  <1> SUFFICES ASSUME TypeOK, LockFollowsProgram, RecordFollowsProgram, TypeOK', [Next]_vars PROVE RecordFollowsProgram'
    OBVIOUS
  <1> USE DEF TypeOK, LockFollowsProgram, RecordFollowsProgram, Record, Places, Running, Owning, Waiting, Goto
  <1>1. ASSUME NEW p \in Procs, Launch(p) PROVE RecordFollowsProgram'
    BY <1>1 DEF Launch
  <1>2. ASSUME NEW p \in Procs, TryAcquireWins(p) PROVE RecordFollowsProgram'
    BY <1>2 DEF TryAcquireWins
  <1>3. ASSUME NEW p \in Procs, TryAcquireLoses(p) PROVE RecordFollowsProgram'
    BY <1>3 DEF TryAcquireLoses
  <1>4. ASSUME NEW p \in Procs, TryAcquireFails(p) PROVE RecordFollowsProgram'
    BY <1>4 DEF TryAcquireFails
  <1>5. ASSUME NEW p \in Procs, Truncate(p) PROVE RecordFollowsProgram'
    BY <1>5 DEF Truncate
  <1>6. ASSUME NEW p \in Procs, WriteRecord(p) PROVE RecordFollowsProgram'
    BY <1>6 DEF WriteRecord
  <1>7. ASSUME NEW p \in Procs, RecordFails(p) PROVE RecordFollowsProgram'
    BY <1>7 DEF RecordFails
  <1>8. ASSUME NEW p \in Procs, Bind(p) PROVE RecordFollowsProgram'
    BY <1>8 DEF Bind
  <1>9. ASSUME NEW p \in Procs, Confirm(p) PROVE RecordFollowsProgram'
    BY <1>9 DEF Confirm
  <1>10. ASSUME NEW p \in Procs, StopServing(p) PROVE RecordFollowsProgram'
    BY <1>10 DEF StopServing
  <1>11. ASSUME NEW p \in Procs, CloseServer(p) PROVE RecordFollowsProgram'
    BY <1>11 DEF CloseServer
  <1>12. ASSUME NEW p \in Procs, Unlock(p) PROVE RecordFollowsProgram'
    BY <1>12 DEF Unlock
  <1>13. ASSUME NEW p \in Procs, MatchingOwner(p) PROVE RecordFollowsProgram'
    BY <1>13 DEF MatchingOwner
  <1>14. ASSUME NEW p \in Procs, ProbeAnswered(p) PROVE RecordFollowsProgram'
    BY <1>14 DEF ProbeAnswered
  <1>15. ASSUME NEW p \in Procs, ProbeFails(p) PROVE RecordFollowsProgram'
    BY <1>15 DEF ProbeFails
  <1>16. ASSUME NEW p \in Procs, Pause(p) PROVE RecordFollowsProgram'
    BY <1>16 DEF Pause
  <1>17. ASSUME NEW p \in Procs, Signal(p) PROVE RecordFollowsProgram'
    BY <1>17 DEF Signal
  <1>18. ASSUME NEW p \in Procs, Kill(p) PROVE RecordFollowsProgram'
    BY <1>18 DEF Kill
  <1>19. ASSUME NEW p \in Procs, KernelUnlocks(p) PROVE RecordFollowsProgram'
    BY <1>19 DEF KernelUnlocks
  <1>20. ASSUME NEW p \in Procs, KernelCloses(p) PROVE RecordFollowsProgram'
    BY <1>20 DEF KernelCloses
  <1>21. ASSUME NEW p \in Procs, Reap(p) PROVE RecordFollowsProgram'
    BY <1>21 DEF Reap
  <1>22. CASE Outsider
    BY <1>22 DEF Outsider
  <1>23. ASSUME NEW k \in Keys, NEW l \in Links, Replace(k, l) PROVE RecordFollowsProgram'
    BY <1>23 DEF Replace
  <1>24. CASE UNCHANGED vars
    BY <1>24 DEF vars
  <1> QED
    BY <1>1, <1>2, <1>3, <1>4, <1>5, <1>6, <1>7, <1>8, <1>9, <1>10, <1>11, <1>12, <1>13, <1>14, <1>15, <1>16, <1>17, <1>18, <1>19, <1>20, <1>21, <1>22, <1>23, <1>24 DEF Next, Step, Kernel

\* What a standby has read stays what it was, and so does its own link.
LEMMA SeenStep == TypeOK /\ SeenMatches /\ TypeOK' /\ [Next]_vars => SeenMatches'
  <1> SUFFICES ASSUME TypeOK, SeenMatches, TypeOK', [Next]_vars PROVE SeenMatches'
    OBVIOUS
  <1> USE DEF TypeOK, SeenMatches, Matches, Places, Running, Owning, Waiting, Goto
  <1>1. ASSUME NEW p \in Procs, Launch(p) PROVE SeenMatches'
    BY <1>1 DEF Launch
  <1>2. ASSUME NEW p \in Procs, TryAcquireWins(p) PROVE SeenMatches'
    BY <1>2 DEF TryAcquireWins
  <1>3. ASSUME NEW p \in Procs, TryAcquireLoses(p) PROVE SeenMatches'
    BY <1>3 DEF TryAcquireLoses
  <1>4. ASSUME NEW p \in Procs, TryAcquireFails(p) PROVE SeenMatches'
    BY <1>4 DEF TryAcquireFails
  <1>5. ASSUME NEW p \in Procs, Truncate(p) PROVE SeenMatches'
    BY <1>5 DEF Truncate
  <1>6. ASSUME NEW p \in Procs, WriteRecord(p) PROVE SeenMatches'
    BY <1>6 DEF WriteRecord
  <1>7. ASSUME NEW p \in Procs, RecordFails(p) PROVE SeenMatches'
    BY <1>7 DEF RecordFails
  <1>8. ASSUME NEW p \in Procs, Bind(p) PROVE SeenMatches'
    BY <1>8 DEF Bind
  <1>9. ASSUME NEW p \in Procs, Confirm(p) PROVE SeenMatches'
    BY <1>9 DEF Confirm
  <1>10. ASSUME NEW p \in Procs, StopServing(p) PROVE SeenMatches'
    BY <1>10 DEF StopServing
  <1>11. ASSUME NEW p \in Procs, CloseServer(p) PROVE SeenMatches'
    BY <1>11 DEF CloseServer
  <1>12. ASSUME NEW p \in Procs, Unlock(p) PROVE SeenMatches'
    BY <1>12 DEF Unlock
  <1>13. ASSUME NEW p \in Procs, MatchingOwner(p) PROVE SeenMatches'
    BY <1>13 DEF MatchingOwner
  <1>14. ASSUME NEW p \in Procs, ProbeAnswered(p) PROVE SeenMatches'
    BY <1>14 DEF ProbeAnswered
  <1>15. ASSUME NEW p \in Procs, ProbeFails(p) PROVE SeenMatches'
    BY <1>15 DEF ProbeFails
  <1>16. ASSUME NEW p \in Procs, Pause(p) PROVE SeenMatches'
    BY <1>16 DEF Pause
  <1>17. ASSUME NEW p \in Procs, Signal(p) PROVE SeenMatches'
    BY <1>17 DEF Signal
  <1>18. ASSUME NEW p \in Procs, Kill(p) PROVE SeenMatches'
    BY <1>18 DEF Kill
  <1>19. ASSUME NEW p \in Procs, KernelUnlocks(p) PROVE SeenMatches'
    BY <1>19 DEF KernelUnlocks
  <1>20. ASSUME NEW p \in Procs, KernelCloses(p) PROVE SeenMatches'
    BY <1>20 DEF KernelCloses
  <1>21. ASSUME NEW p \in Procs, Reap(p) PROVE SeenMatches'
    BY <1>21 DEF Reap
  <1>22. CASE Outsider
    BY <1>22 DEF Outsider
  <1>23. ASSUME NEW k \in Keys, NEW l \in Links, Replace(k, l) PROVE SeenMatches'
    BY <1>23 DEF Replace
  <1>24. CASE UNCHANGED vars
    BY <1>24 DEF vars
  <1> QED
    BY <1>1, <1>2, <1>3, <1>4, <1>5, <1>6, <1>7, <1>8, <1>9, <1>10, <1>11, <1>12, <1>13, <1>14, <1>15, <1>16, <1>17, <1>18, <1>19, <1>20, <1>21, <1>22, <1>23, <1>24 DEF Next, Step, Kernel

\* IInv holds at the start and every step keeps it.
LEMMA Invariance == Spec => []IInv
  <1>1. Init => IInv
    <2> SUFFICES ASSUME Init PROVE IInv
      OBVIOUS
    <2>1. \A p \in Procs : holder[key[p]] = None /\ pc[p] = "new"
      BY DEF Init
    <2> QED
      BY <2>1 DEF Init, IInv, TypeOK, LockFollowsProgram, PortFollowsProgram,
                  RecordFollowsProgram, SeenMatches, Records, Unreadable, Owning,
                  Places, Running, Waiting
  <1>2. IInv /\ [Next]_vars => IInv'
    BY TypeStep, LockStep, PortStep, RecordStep, SeenStep DEF IInv
  <1> QED
    BY <1>1, <1>2, PTL DEF Spec

\* The variables always have their types.
THEOREM TypeCorrect == Spec => []TypeOK
  BY Invariance, PTL DEF IInv

\* The inductive invariant, as the runs check it.
THEOREM Inductive == Spec => []IInv
  BY Invariance

\* A process about to open the listener finds no live process of its policy on
\* the address: the deferred calls of runOwnedManagedPolicy are in the right order.
THEOREM NobodyInTheWay == Spec => []NoSiblingInTheWay
  <1>1. IInv => NoSiblingInTheWay
    BY DEF IInv, TypeOK, LockFollowsProgram, PortFollowsProgram, NoSiblingInTheWay, Owning
  <1> QED
    BY <1>1, Invariance, PTL

\* Whoever has the listener open is named, with its link, in the lock file.
THEOREM OnRecord == Spec => []ListenerOnRecord
  <1>1. IInv => ListenerOnRecord
    BY DEF IInv, PortFollowsProgram, RecordFollowsProgram, ListenerOnRecord, Owning
  <1> QED
    BY <1>1, Invariance, PTL

\* A standby whose record is still current has probed a listener for its link.
THEOREM ProbesItsLink == Spec => []StandbyProbesItsLink
  <1>1. IInv => StandbyProbesItsLink
    <2> SUFFICES ASSUME IInv, NEW p \in Procs, NEW q \in Procs,
                        pc[p] = "probe", seen[p] = record[key[p]],
                        port = q, key[q] = key[p], pc[q] # "killed"
                 PROVE link[q] = link[p]
      BY DEF StandbyProbesItsLink
    <2>1. record[key[q]] = Record(q)
      BY DEF IInv, PortFollowsProgram, RecordFollowsProgram, Owning
    <2>2. seen[p].link = link[p]
      BY DEF IInv, SeenMatches, Matches
    <2> QED
      BY <2>1, <2>2 DEF Record
  <1> QED
    BY <1>1, Invariance, PTL

\* The lock file changes only under its lock, and never under an owner that
\* has the listener open.
THEOREM WrittenByHolder == Spec => RecordWrittenByHolder
  <1> DEFINE Written == \A k \in Keys : record'[k] # record[k] =>
                          /\ holder[k] # None /\ holder'[k] = holder[k] /\ pc'[holder[k]] # pc[holder[k]]
                          /\ \A q \in Procs : port = q /\ key[q] = k => pc[q] = "killed"
  <1>1. IInv /\ [Next]_vars => Written
    <2> SUFFICES ASSUME IInv, [Next]_vars, record' # record PROVE Written
      OBVIOUS
    <2>1. PICK p \in Procs : Truncate(p) \/ WriteRecord(p)
      BY DEF Next, Step, Kernel, vars, Launch, TryAcquireWins, TryAcquireLoses,
             TryAcquireFails, RecordFails, Bind, Confirm, StopServing, CloseServer,
             Unlock, MatchingOwner, ProbeAnswered, ProbeFails, Pause, KernelUnlocks,
             KernelCloses, Reap, Signal, Kill, Outsider, Replace
    <2>2. /\ holder[key[p]] = p /\ holder' = holder
          /\ pc[p] \in {"truncate", "write"} /\ pc'[p] # pc[p]
      BY <2>1 DEF Truncate, WriteRecord, Goto, IInv, TypeOK, LockFollowsProgram, Owning
    <2>3. \A k \in Keys : record'[k] # record[k] => k = key[p]
      BY <2>1 DEF Truncate, WriteRecord, IInv, TypeOK
    <2>4. ASSUME NEW q \in Procs, port = q, key[q] = key[p] PROVE pc[q] = "killed"
      BY <2>2, <2>4 DEF IInv, LockFollowsProgram, PortFollowsProgram, Owning
    <2> QED
      BY <2>2, <2>3, <2>4
  <1>2. IInv /\ [Next]_vars => [Written]_vars
    BY <1>1
  <1> QED
    BY <1>2, Invariance, PTL DEF Spec, RecordWrittenByHolder

\* Every step of the runtime is a step of the hand-over or leaves it alone.
LEMMA PromiseStep == IInv /\ IInv' /\ [Next]_vars => [Promise!Next]_(Promise!vars)
  <1> SUFFICES ASSUME IInv, IInv', [Next]_vars PROVE [Promise!Next]_(Promise!vars)
    OBVIOUS
  <1> USE DEF IInv, TypeOK, Goto
  <1>1. ASSUME NEW p \in Procs, Launch(p) PROVE UNCHANGED Promise!vars
    BY <1>1 DEF Launch, Promise!vars
  <1>2. ASSUME NEW p \in Procs, TryAcquireWins(p) PROVE Promise!Acquire(key[p], p)
    BY <1>2 DEF TryAcquireWins, Promise!Acquire, LockFollowsProgram, PortFollowsProgram, Owning
  <1>3. ASSUME NEW p \in Procs, TryAcquireLoses(p) PROVE UNCHANGED Promise!vars
    BY <1>3 DEF TryAcquireLoses, Promise!vars
  <1>4. ASSUME NEW p \in Procs, TryAcquireFails(p) PROVE UNCHANGED Promise!vars
    BY <1>4 DEF TryAcquireFails, Promise!vars
  <1>5. ASSUME NEW p \in Procs, Truncate(p) PROVE UNCHANGED Promise!vars
    BY <1>5 DEF Truncate, Promise!vars
  <1>6. ASSUME NEW p \in Procs, WriteRecord(p) PROVE UNCHANGED Promise!vars
    BY <1>6 DEF WriteRecord, Promise!vars
  <1>7. ASSUME NEW p \in Procs, RecordFails(p) PROVE Promise!Release(key[p], p)
    BY <1>7 DEF RecordFails, Promise!Release, LockFollowsProgram, PortFollowsProgram, Owning
  <1>8. ASSUME NEW p \in Procs, Bind(p) PROVE Promise!Listen(key[p], p) \/ UNCHANGED Promise!vars
    BY <1>8 DEF Bind, Promise!Listen, Promise!vars, LockFollowsProgram, Owning
  <1>9. ASSUME NEW p \in Procs, Confirm(p) PROVE UNCHANGED Promise!vars
    BY <1>9 DEF Confirm, Promise!vars
  <1>10. ASSUME NEW p \in Procs, StopServing(p) PROVE UNCHANGED Promise!vars
    BY <1>10 DEF StopServing, Promise!vars
  <1>11. ASSUME NEW p \in Procs, CloseServer(p) PROVE Promise!Close(key[p], p)
    BY <1>11 DEF CloseServer, Promise!Close, LockFollowsProgram, PortFollowsProgram, Owning
  <1>12. ASSUME NEW p \in Procs, Unlock(p) PROVE Promise!Release(key[p], p)
    BY <1>12 DEF Unlock, Promise!Release, LockFollowsProgram, PortFollowsProgram, Owning
  <1>13. ASSUME NEW p \in Procs, MatchingOwner(p) PROVE UNCHANGED Promise!vars
    BY <1>13 DEF MatchingOwner, Promise!vars
  <1>14. ASSUME NEW p \in Procs, ProbeAnswered(p) PROVE UNCHANGED Promise!vars
    BY <1>14 DEF ProbeAnswered, Promise!vars
  <1>15. ASSUME NEW p \in Procs, ProbeFails(p) PROVE UNCHANGED Promise!vars
    BY <1>15 DEF ProbeFails, Promise!vars
  <1>16. ASSUME NEW p \in Procs, Pause(p) PROVE UNCHANGED Promise!vars
    BY <1>16 DEF Pause, Promise!vars
  <1>17. ASSUME NEW p \in Procs, Signal(p) PROVE UNCHANGED Promise!vars
    BY <1>17 DEF Signal, Promise!vars
  <1>18. ASSUME NEW p \in Procs, Kill(p) PROVE Promise!Kill(p)
    BY <1>18 DEF Kill, Promise!Kill, Running, Owning, Waiting, LockFollowsProgram
  <1>19. ASSUME NEW p \in Procs, KernelUnlocks(p) PROVE Promise!Release(key[p], p)
    BY <1>19 DEF KernelUnlocks, Promise!Release, LockFollowsProgram, PortFollowsProgram, Owning
  <1>20. ASSUME NEW p \in Procs, KernelCloses(p) PROVE Promise!Close(key[p], p)
    BY <1>20 DEF KernelCloses, Promise!Close, LockFollowsProgram, PortFollowsProgram, Owning
  <1>21. ASSUME NEW p \in Procs, Reap(p) PROVE Promise!Reap(p)
    BY <1>21 DEF Reap, Promise!Reap, Running, Owning, Waiting, LockFollowsProgram
  <1>22. CASE Outsider
    BY <1>22 DEF Outsider, Promise!Next, Promise!Outsider
  <1>23. ASSUME NEW k \in Keys, NEW l \in Links, Replace(k, l) PROVE UNCHANGED Promise!vars
    BY <1>23 DEF Replace, Promise!vars
  <1>24. CASE UNCHANGED vars
    BY <1>24 DEF vars, Promise!vars
  <1>25. ASSUME NEW p \in Procs, Launch(p) \/ Step(p) \/ Kernel(p) \/ Signal(p) \/ Kill(p)
         PROVE Promise!Next \/ UNCHANGED Promise!vars
    <2>1. key[p] \in Keys
      OBVIOUS
    <2> HIDE DEF IInv, TypeOK, Goto
    <2> QED
      BY <2>1, <1>1, <1>2, <1>3, <1>4, <1>5, <1>6, <1>7, <1>8, <1>9, <1>10, <1>11, <1>12, <1>13, <1>14, <1>15, <1>16, <1>17, <1>18, <1>19, <1>20, <1>21, <1>25 DEF Step, Kernel, Promise!Next
  <1> HIDE DEF IInv, TypeOK, Goto
  <1> QED
    BY <1>22, <1>23, <1>24, <1>25 DEF Next, Promise!Next

\* The lock file protocol implements the abstract hand-over: initial states map
\* to initial states and every step to a step or a stutter.
THEOREM Refinement == Spec => ImplementsPromise
  <1>1. Init => Promise!Init
    BY DEF Init, Promise!Init
  <1>2. IInv /\ IInv' /\ [Next]_vars => [Promise!Next]_(Promise!vars)
    BY PromiseStep
  <1> QED
    BY <1>1, <1>2, Invariance, PTL DEF Spec, ImplementsPromise, Promise!Spec

===============================================================================
