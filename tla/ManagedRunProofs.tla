--------------------------- MODULE ManagedRunProofs ---------------------------
(***************************************************************************)
(* Proofs about ManagedRun, for any children, daemons and links.  What a   *)
(* child relies on was right when it read the record, because the record   *)
(* of a live daemon says what that daemon serves; it stays right because a *)
(* process serves one thing all its life.                                  *)
(***************************************************************************)
EXTENDS ManagedRun, TLAPS

USE RunConstants

\* The variables keep their types, and the flock follows the program.
LEMMA TypeStep == IInv /\ [Next]_vars => TypeOK'
  <1> SUFFICES ASSUME TypeOK, RecordSaysWhatIsServed, [Next]_vars PROVE TypeOK'
    BY DEF IInv
  <1> USE DEF TypeOK
  <1>1. ASSUME NEW p \in Procs, Launch(p) PROVE TypeOK'
    BY <1>1 DEF Launch, Goto, Rest, daemons
  <1>2. ASSUME NEW p \in Procs, GetDaemonStatus(p) PROVE TypeOK'
    BY <1>2 DEF GetDaemonStatus, Goto, Rest, daemons, Status, MatchingDaemonPolicy, Record!Alive
  <1>3. ASSUME NEW p \in Procs, WaitForDaemonPolicy(p) PROVE TypeOK'
    BY <1>3 DEF WaitForDaemonPolicy, Goto, Rest, daemons
  <1>4. ASSUME NEW p \in Procs, Reuse(p) PROVE TypeOK'
    BY <1>4 DEF Reuse, Goto, Rest, daemons
  <1>5. ASSUME NEW p \in Procs, Acquire(p) PROVE TypeOK'
    BY <1>5 DEF Acquire, Goto, Rest, daemons, Foreground!Acquire
  <1>6. ASSUME NEW p \in Procs, Listen(p) PROVE TypeOK'
    BY <1>6 DEF Listen, Goto, Rest, daemons, Foreground!Listen
  <1>7. ASSUME NEW p \in Procs, StopServing(p) PROVE TypeOK'
    BY <1>7 DEF StopServing, Goto, Rest, daemons, Foreground!Close
  <1>8. ASSUME NEW p \in Procs, Release(p) PROVE TypeOK'
    BY <1>8 DEF Release, Goto, Rest, daemons
  <1>9. ASSUME NEW p \in Procs, Signal(p) PROVE TypeOK'
    BY <1>9 DEF Signal, Goto, Rest, daemons
  <1>10. ASSUME NEW d \in Daemons, Start(d), UNCHANGED <<children, managed>> PROVE TypeOK'
    BY <1>10 DEF children, Record!WritePid, Start, Record!Advance, Record!NoRecord
  <1>11. ASSUME NEW d \in Daemons, Record!WriteState(d), UNCHANGED <<children, managed>> PROVE TypeOK'
    BY <1>11 DEF children, Record!WriteState, Record!Advance
  <1>12. ASSUME NEW d \in Daemons, Record!Bind(d), UNCHANGED <<children, managed>> PROVE TypeOK'
    BY <1>12 DEF children, Record!Bind, Record!Advance
  <1>13. ASSUME NEW d \in Daemons, Record!Cleanup(d), UNCHANGED <<children, managed>> PROVE TypeOK'
    BY <1>13 DEF children, Record!Cleanup, Record!Advance, Record!End, Record!NoRecord
  <1>14. ASSUME NEW d \in Daemons, Record!Close(d), UNCHANGED <<children, managed>> PROVE TypeOK'
    BY <1>14 DEF children, Record!Close, Record!Advance, Record!Vacate
  <1>15. ASSUME NEW d \in Daemons, Record!Crash(d), UNCHANGED <<children, managed>> PROVE TypeOK'
    BY <1>15 DEF children, Record!Crash, Record!Advance, Record!End, Record!Vacate
  <1>16. ASSUME Record!Forget, UNCHANGED <<children, managed>> PROVE TypeOK'
    BY <1>16 DEF children, Record!Forget, Record!NoRecord
  <1>17. ASSUME NEW l \in Links, Replace(l) PROVE TypeOK'
    BY <1>17 DEF Replace, children, daemons
  <1>18. CASE Outsider
    BY <1>18 DEF Outsider, children, daemons
  <1>19. CASE UNCHANGED vars
    BY <1>19 DEF vars
  <1> HIDE DEF TypeOK
  <1> QED
    BY <1>1, <1>2, <1>3, <1>4, <1>5, <1>6, <1>7, <1>8, <1>9, <1>10, <1>11, <1>12, <1>13, <1>14, <1>15, <1>16, <1>17, <1>18, <1>19 DEF Next, Child, DaemonStep, Advance

\* A process writes a record of what it serves, and serves that until it ends.
LEMMA RecordStep == IInv /\ TypeOK' /\ [Next]_vars => RecordSaysWhatIsServed'
  <1> SUFFICES ASSUME TypeOK, TypeOK', RecordSaysWhatIsServed, [Next]_vars PROVE RecordSaysWhatIsServed'
    BY DEF IInv
  <1> USE DEF TypeOK, RecordSaysWhatIsServed, Record!Alive
  <1>1. ASSUME NEW p \in Procs, Launch(p) PROVE RecordSaysWhatIsServed'
    BY <1>1 DEF Launch, Goto, Rest, daemons
  <1>2. ASSUME NEW p \in Procs, GetDaemonStatus(p) PROVE RecordSaysWhatIsServed'
    BY <1>2 DEF GetDaemonStatus, Goto, Rest, daemons, Status, MatchingDaemonPolicy, Record!Alive
  <1>3. ASSUME NEW p \in Procs, WaitForDaemonPolicy(p) PROVE RecordSaysWhatIsServed'
    BY <1>3 DEF WaitForDaemonPolicy, Goto, Rest, daemons
  <1>4. ASSUME NEW p \in Procs, Reuse(p) PROVE RecordSaysWhatIsServed'
    BY <1>4 DEF Reuse, Goto, Rest, daemons
  <1>5. ASSUME NEW p \in Procs, Acquire(p) PROVE RecordSaysWhatIsServed'
    BY <1>5 DEF Acquire, Goto, Rest, daemons, Foreground!Acquire
  <1>6. ASSUME NEW p \in Procs, Listen(p) PROVE RecordSaysWhatIsServed'
    BY <1>6 DEF Listen, Goto, Rest, daemons, Foreground!Listen
  <1>7. ASSUME NEW p \in Procs, StopServing(p) PROVE RecordSaysWhatIsServed'
    BY <1>7 DEF StopServing, Goto, Rest, daemons, Foreground!Close
  <1>8. ASSUME NEW p \in Procs, Release(p) PROVE RecordSaysWhatIsServed'
    BY <1>8 DEF Release, Goto, Rest, daemons
  <1>9. ASSUME NEW p \in Procs, Signal(p) PROVE RecordSaysWhatIsServed'
    BY <1>9 DEF Signal, Goto, Rest, daemons
  <1>10. ASSUME NEW d \in Daemons, Start(d), UNCHANGED <<children, managed>> PROVE RecordSaysWhatIsServed'
    BY <1>10 DEF children, Record!WritePid, Start, Record!Advance, Record!NoRecord
  <1>11. ASSUME NEW d \in Daemons, Record!WriteState(d), UNCHANGED <<children, managed>> PROVE RecordSaysWhatIsServed'
    BY <1>11 DEF children, Record!WriteState, Record!Advance
  <1>12. ASSUME NEW d \in Daemons, Record!Bind(d), UNCHANGED <<children, managed>> PROVE RecordSaysWhatIsServed'
    BY <1>12 DEF children, Record!Bind, Record!Advance
  <1>13. ASSUME NEW d \in Daemons, Record!Cleanup(d), UNCHANGED <<children, managed>> PROVE RecordSaysWhatIsServed'
    BY <1>13 DEF children, Record!Cleanup, Record!Advance, Record!End, Record!NoRecord
  <1>14. ASSUME NEW d \in Daemons, Record!Close(d), UNCHANGED <<children, managed>> PROVE RecordSaysWhatIsServed'
    BY <1>14 DEF children, Record!Close, Record!Advance, Record!Vacate
  <1>15. ASSUME NEW d \in Daemons, Record!Crash(d), UNCHANGED <<children, managed>> PROVE RecordSaysWhatIsServed'
    BY <1>15 DEF children, Record!Crash, Record!Advance, Record!End, Record!Vacate
  <1>16. ASSUME Record!Forget, UNCHANGED <<children, managed>> PROVE RecordSaysWhatIsServed'
    BY <1>16 DEF children, Record!Forget, Record!NoRecord
  <1>17. ASSUME NEW l \in Links, Replace(l) PROVE RecordSaysWhatIsServed'
    BY <1>17 DEF Replace, children, daemons
  <1>18. CASE Outsider
    BY <1>18 DEF Outsider, children, daemons
  <1>19. CASE UNCHANGED vars
    BY <1>19 DEF vars
  <1> HIDE DEF TypeOK, RecordSaysWhatIsServed, Record!Alive
  <1> QED
    BY <1>1, <1>2, <1>3, <1>4, <1>5, <1>6, <1>7, <1>8, <1>9, <1>10, <1>11, <1>12, <1>13, <1>14, <1>15, <1>16, <1>17, <1>18, <1>19 DEF Next, Child, DaemonStep, Advance

\* The daemon a child relies on has started, and does not start again.
LEMMA SeenStep == IInv /\ TypeOK' /\ [Next]_vars =>
                    ReusesItsLink' /\ \A q \in Procs : seen'[q] # None => stage'[seen'[q]] # "new"
  <1> DEFINE Keeps == ReusesItsLink' /\ \A q \in Procs : seen'[q] # None => stage'[seen'[q]] # "new"
  <1> SUFFICES ASSUME TypeOK, TypeOK', RecordSaysWhatIsServed, ReusesItsLink,
                   \A q \in Procs : seen[q] # None => stage[seen[q]] # "new", [Next]_vars PROVE Keeps
    BY DEF IInv
  <1> USE DEF TypeOK, RecordSaysWhatIsServed, ReusesItsLink, Record!Alive, Keeps
  <1>1. ASSUME NEW p \in Procs, Launch(p) PROVE Keeps
    BY <1>1 DEF Launch, Goto, Rest, daemons
  <1>2. ASSUME NEW p \in Procs, GetDaemonStatus(p) PROVE Keeps
    BY <1>2 DEF GetDaemonStatus, Goto, Rest, daemons, Status, MatchingDaemonPolicy, Record!Alive
  <1>3. ASSUME NEW p \in Procs, WaitForDaemonPolicy(p) PROVE Keeps
    BY <1>3 DEF WaitForDaemonPolicy, Goto, Rest, daemons
  <1>4. ASSUME NEW p \in Procs, Reuse(p) PROVE Keeps
    BY <1>4 DEF Reuse, Goto, Rest, daemons
  <1>5. ASSUME NEW p \in Procs, Acquire(p) PROVE Keeps
    BY <1>5 DEF Acquire, Goto, Rest, daemons, Foreground!Acquire
  <1>6. ASSUME NEW p \in Procs, Listen(p) PROVE Keeps
    BY <1>6 DEF Listen, Goto, Rest, daemons, Foreground!Listen
  <1>7. ASSUME NEW p \in Procs, StopServing(p) PROVE Keeps
    BY <1>7 DEF StopServing, Goto, Rest, daemons, Foreground!Close
  <1>8. ASSUME NEW p \in Procs, Release(p) PROVE Keeps
    BY <1>8 DEF Release, Goto, Rest, daemons
  <1>9. ASSUME NEW p \in Procs, Signal(p) PROVE Keeps
    BY <1>9 DEF Signal, Goto, Rest, daemons
  <1>10. ASSUME NEW d \in Daemons, Start(d), UNCHANGED <<children, managed>> PROVE Keeps
    BY <1>10 DEF children, Record!WritePid, Start, Record!Advance, Record!NoRecord
  <1>11. ASSUME NEW d \in Daemons, Record!WriteState(d), UNCHANGED <<children, managed>> PROVE Keeps
    BY <1>11 DEF children, Record!WriteState, Record!Advance
  <1>12. ASSUME NEW d \in Daemons, Record!Bind(d), UNCHANGED <<children, managed>> PROVE Keeps
    BY <1>12 DEF children, Record!Bind, Record!Advance
  <1>13. ASSUME NEW d \in Daemons, Record!Cleanup(d), UNCHANGED <<children, managed>> PROVE Keeps
    BY <1>13 DEF children, Record!Cleanup, Record!Advance, Record!End, Record!NoRecord
  <1>14. ASSUME NEW d \in Daemons, Record!Close(d), UNCHANGED <<children, managed>> PROVE Keeps
    BY <1>14 DEF children, Record!Close, Record!Advance, Record!Vacate
  <1>15. ASSUME NEW d \in Daemons, Record!Crash(d), UNCHANGED <<children, managed>> PROVE Keeps
    BY <1>15 DEF children, Record!Crash, Record!Advance, Record!End, Record!Vacate
  <1>16. ASSUME Record!Forget, UNCHANGED <<children, managed>> PROVE Keeps
    BY <1>16 DEF children, Record!Forget, Record!NoRecord
  <1>17. ASSUME NEW l \in Links, Replace(l) PROVE Keeps
    BY <1>17 DEF Replace, children, daemons
  <1>18. CASE Outsider
    BY <1>18 DEF Outsider, children, daemons
  <1>19. CASE UNCHANGED vars
    BY <1>19 DEF vars
  <1> HIDE DEF TypeOK, RecordSaysWhatIsServed, ReusesItsLink, Record!Alive, Keeps
  <1> QED
    BY <1>1, <1>2, <1>3, <1>4, <1>5, <1>6, <1>7, <1>8, <1>9, <1>10, <1>11, <1>12, <1>13, <1>14, <1>15, <1>16, <1>17, <1>18, <1>19 DEF Next, Child, DaemonStep, Advance

\* Only the steps Listen and StopServing of a child give and take its address.
LEMMA ListenerStep == IInv /\ TypeOK' /\ [Next]_vars => ListenerFollowsProgram'
  <1> SUFFICES ASSUME TypeOK, TypeOK', ListenerFollowsProgram, [Next]_vars PROVE ListenerFollowsProgram'
    BY DEF IInv
  <1> USE DEF TypeOK, ListenerFollowsProgram
  <1>1. ASSUME NEW p \in Procs, Launch(p) PROVE ListenerFollowsProgram'
    BY <1>1 DEF Launch, Goto, Rest, daemons
  <1>2. ASSUME NEW p \in Procs, GetDaemonStatus(p) PROVE ListenerFollowsProgram'
    BY <1>2 DEF GetDaemonStatus, Goto, Rest, daemons, Status, MatchingDaemonPolicy, Record!Alive
  <1>3. ASSUME NEW p \in Procs, WaitForDaemonPolicy(p) PROVE ListenerFollowsProgram'
    BY <1>3 DEF WaitForDaemonPolicy, Goto, Rest, daemons
  <1>4. ASSUME NEW p \in Procs, Reuse(p) PROVE ListenerFollowsProgram'
    BY <1>4 DEF Reuse, Goto, Rest, daemons
  <1>5. ASSUME NEW p \in Procs, Acquire(p) PROVE ListenerFollowsProgram'
    BY <1>5 DEF Acquire, Goto, Rest, daemons, Foreground!Acquire
  <1>6. ASSUME NEW p \in Procs, Listen(p) PROVE ListenerFollowsProgram'
    BY <1>6 DEF Listen, Goto, Rest, daemons, Foreground!Listen
  <1>7. ASSUME NEW p \in Procs, StopServing(p) PROVE ListenerFollowsProgram'
    BY <1>7 DEF StopServing, Goto, Rest, daemons, Foreground!Close
  <1>8. ASSUME NEW p \in Procs, Release(p) PROVE ListenerFollowsProgram'
    BY <1>8 DEF Release, Goto, Rest, daemons
  <1>9. ASSUME NEW p \in Procs, Signal(p) PROVE ListenerFollowsProgram'
    BY <1>9 DEF Signal, Goto, Rest, daemons
  <1>10. ASSUME NEW d \in Daemons, Start(d), UNCHANGED <<children, managed>> PROVE ListenerFollowsProgram'
    BY <1>10 DEF children, Record!WritePid, Start, Record!Advance
  <1>11. ASSUME NEW d \in Daemons, Record!WriteState(d), UNCHANGED <<children, managed>> PROVE ListenerFollowsProgram'
    BY <1>11 DEF children, Record!WriteState, Record!Advance
  <1>12. ASSUME NEW d \in Daemons, Record!Bind(d), UNCHANGED <<children, managed>> PROVE ListenerFollowsProgram'
    BY <1>12 DEF children, Record!Bind, Record!Advance
  <1>13. ASSUME NEW d \in Daemons, Record!Cleanup(d), UNCHANGED <<children, managed>> PROVE ListenerFollowsProgram'
    BY <1>13 DEF children, Record!Cleanup, Record!Advance, Record!End
  <1>14. ASSUME NEW d \in Daemons, Record!Close(d), UNCHANGED <<children, managed>> PROVE ListenerFollowsProgram'
    BY <1>14 DEF children, Record!Close, Record!Advance, Record!Vacate
  <1>15. ASSUME NEW d \in Daemons, Record!Crash(d), UNCHANGED <<children, managed>> PROVE ListenerFollowsProgram'
    BY <1>15 DEF children, Record!Crash, Record!Advance, Record!End, Record!Vacate
  <1>16. ASSUME Record!Forget, UNCHANGED <<children, managed>> PROVE ListenerFollowsProgram'
    BY <1>16 DEF children, Record!Forget
  <1>17. ASSUME NEW l \in Links, Replace(l) PROVE ListenerFollowsProgram'
    BY <1>17 DEF Replace, children, daemons
  <1>18. CASE Outsider
    BY <1>18 DEF Outsider, children, daemons
  <1>19. CASE UNCHANGED vars
    BY <1>19 DEF vars
  <1> HIDE DEF TypeOK, ListenerFollowsProgram
  <1> QED
    BY <1>1, <1>2, <1>3, <1>4, <1>5, <1>6, <1>7, <1>8, <1>9, <1>10, <1>11, <1>12, <1>13, <1>14, <1>15, <1>16, <1>17, <1>18, <1>19 DEF Next, Child, DaemonStep, Advance

\* IInv holds at the start and every step keeps it.
THEOREM RunInvariance == Spec => []IInv
  <1>1. Init => IInv
    BY DEF Init, IInv, TypeOK, RecordSaysWhatIsServed, ReusesItsLink, ListenerFollowsProgram,
           Record!Init, Record!Left, Record!NoRecord, Record!Alive
  <1>2. IInv /\ [Next]_vars => IInv'
    BY TypeStep, RecordStep, SeenStep, ListenerStep DEF IInv
  <1> QED
    BY <1>1, <1>2, PTL DEF Spec

\* The variables always have their types, and the flock is with a child between
\* Acquire and Release.
THEOREM RunTyped == Spec => []TypeOK
  BY RunInvariance, PTL DEF IInv

\* The daemon a child relies on serves the link on the child's command line for as
\* long as it lives, whatever happens to the profile and the record.
THEOREM RelyOnOwnLink == Spec => []ReusesItsLink
  BY RunInvariance, PTL DEF IInv
===============================================================================
