------------------------------ MODULE ManagedRun ------------------------------
(***************************************************************************)
(* The choice `xcore-bridge run' makes before anything else: use the       *)
(* listener of a manual daemon, refuse to start beside a daemon that is in *)
(* the way, or serve in the foreground.                                    *)
(*                                                                         *)
(* The foreground is PolicyLock, which PolicyRuntime implements; the daemon*)
(* is DaemonRecord, which Daemon implements.  The children are those of    *)
(* one policy: one profile, one address, one lock key.                     *)
(***************************************************************************)
EXTENDS Naturals

CONSTANTS Procs,      \* run processes; each is launched at most once
          Daemons,    \* serve processes; each runs at most once
          Killed,     \* those that were killed before
          Links,      \* share links
          Here,       \* the profile of the children
          Elsewhere,  \* another profile
          None,       \* no process, no link
          Other       \* a listener that is neither

ASSUME RunConstants == /\ Here # Elsewhere
                       /\ None \notin Procs \cup Daemons \cup Links \cup {Here, Elsewhere}
                       /\ Other \notin Procs \cup Daemons \cup {None}
                       /\ Procs \cap Daemons = {} /\ Killed \subseteq Daemons

VARIABLES
  pc, link, stop, seen,  \* children: place, link, SIGTERM, daemon they rely on
  owner,                 \* owner[Here]: the child with the flock
  listener,              \* who listens on the address
  managed,               \* the link the profile holds for the address
  stage, profile, serves,\* daemons: stage, profile, link they serve on the address
  record                 \* the daemon's record

vars == <<pc, link, stop, seen, owner, listener, managed, stage, profile, serves, record>>
children == <<pc, link, stop, seen, owner>>
daemons == <<stage, profile, serves, record>>

Foreground == INSTANCE PolicyLock WITH Keys <- {Here}, dead <- {}
Record == INSTANCE DaemonRecord WITH Profiles <- {Here, Elsewhere}

Init == /\ pc = [p \in Procs |-> "new"]
        /\ managed \in Links
        /\ link = [p \in Procs |-> managed]
        /\ stop = [p \in Procs |-> FALSE]
        /\ seen = [p \in Procs |-> None]
        /\ owner = [k \in {Here} |-> None]
        /\ listener = None
        /\ record = Record!NoRecord \/ record \in [pid : Killed, profile : {Here}, link : {managed}]
        /\ Record!Init

(***************************************************************************)
(* The daemon                                                              *)
(***************************************************************************)

\* It has read its profile, perhaps before the last edit; another profile may use
\* the address as well.
Start(d) == \E p \in {Here, Elsewhere}, l \in Links \cup {None} :
              (p = Here => l # None) /\ Record!WritePid(d, p, l)

\* On its way up and down.
Advance(d) == Record!WriteState(d) \/ Record!Bind(d) \/ Record!Cleanup(d)

DaemonStep == /\ \/ \E d \in Daemons : Start(d) \/ Advance(d) \/ Record!Close(d) \/ Record!Crash(d)
                 \/ Record!Forget
              /\ UNCHANGED <<children, managed>>

(***************************************************************************)
(* A child                                                                 *)
(***************************************************************************)

Goto(p, from, to) == pc[p] = from /\ pc' = [pc EXCEPT ![p] = to]
Rest == UNCHANGED <<managed, daemons>>

\* verifyManagedRunTarget holds for the command line the profile has now.
Launch(p) == /\ Goto(p, "new", "status")
             /\ link' = [link EXCEPT ![p] = managed]
             /\ UNCHANGED <<stop, seen, owner, listener>> /\ Rest

\* GetStatus for the children's profile.  The record of a killed daemon hides the
\* next one until that has written its own.
Status == [pid |-> record.pid,
           profile |-> IF record.profile = None THEN Here ELSE record.profile,
           link |-> record.link,
           running |-> Record!Alive(record.pid)]

\* MUTANT: the link of the policy is not compared.
MatchesAnyLink(p) == Status.profile = Here /\ Status.link # None

MatchingDaemonPolicy(p) == Status.profile = Here /\ Status.link = link[p]

\* One GetStatus decides: reuse, refuse, or go on in the foreground.
GetDaemonStatus(p) ==
  /\ \/ /\ Status.running /\ MatchingDaemonPolicy(p)
        /\ Goto(p, "status", "await")
        /\ seen' = [seen EXCEPT ![p] = Status.pid]
     \/ /\ Status.running /\ ~MatchingDaemonPolicy(p)
        /\ Goto(p, "status", IF Status.profile = Here \/ Status.link # None THEN "gone" ELSE "acquire")
        /\ UNCHANGED seen
     \/ /\ ~Status.running
        /\ Goto(p, "status", "acquire")
        /\ UNCHANGED seen
  /\ UNCHANGED <<link, stop, owner, listener>> /\ Rest

\* waitForDaemonPolicy: whoever listens answers; two seconds, or the signal,
\* end the wait.
WaitForDaemonPolicy(p) == /\ \/ Goto(p, "await", "reuse") /\ listener # None
                             \/ Goto(p, "await", "gone")
                          /\ UNCHANGED <<link, stop, seen, owner, listener>> /\ Rest

\* MUTANT: the child waits for the daemon to end instead of its context.
ReuseUntilDaemonEnds(p) == /\ Goto(p, "reuse", "gone")
                           /\ ~Record!Alive(seen[p])
                           /\ UNCHANGED <<link, stop, seen, owner, listener>> /\ Rest

\* <-ctx.Done()
Reuse(p) == /\ Goto(p, "reuse", "gone")
            /\ stop[p]
            /\ UNCHANGED <<link, stop, seen, owner, listener>> /\ Rest

\* The foreground, as PolicyLock promises it.  A standby tries again until the
\* signal comes.
Acquire(p) == /\ \/ Goto(p, "acquire", "own") /\ Foreground!Acquire(Here, p)
                 \/ Goto(p, "acquire", "gone") /\ owner[Here] # None /\ stop[p] /\ UNCHANGED <<owner, listener>>
              /\ UNCHANGED <<link, stop, seen>> /\ Rest

\* Whatever fails with the lock in hand, a taken address or the record of the owner,
\* ends the child.
Listen(p) == /\ \/ Goto(p, "own", "serving") /\ Foreground!Listen(Here, p)
                \/ Goto(p, "own", "closed") /\ UNCHANGED <<owner, listener>>
             /\ UNCHANGED <<link, stop, seen>> /\ Rest

\* MUTANT: the listener is left to the end of the process.
StopWithoutClose(p) == /\ Goto(p, "serving", "closed")
                       /\ stop[p]
                       /\ UNCHANGED <<link, stop, seen, owner, listener>> /\ Rest

StopServing(p) == /\ Goto(p, "serving", "closed")
                  /\ stop[p]
                  /\ Foreground!Close(Here, p)
                  /\ UNCHANGED <<link, stop, seen>> /\ Rest

\* MUTANT: a failed start returns without giving the lock back.
KeepLock(p) == /\ Goto(p, "closed", "gone")
               /\ UNCHANGED <<link, stop, seen, owner, listener>> /\ Rest

Release(p) == /\ Goto(p, "closed", "gone")
              /\ owner' = [owner EXCEPT ![Here] = None]
              /\ UNCHANGED <<link, stop, seen, listener>> /\ Rest

Signal(p) == /\ pc[p] \notin {"new", "gone"}
             /\ ~stop[p]
             /\ stop' = [stop EXCEPT ![p] = TRUE]
             /\ UNCHANGED <<pc, link, seen, owner, listener>> /\ Rest

(***************************************************************************)
(* The whole                                                               *)
(***************************************************************************)

\* `xcore-bridge replace'
Replace(l) == /\ l # managed
              /\ managed' = l
              /\ UNCHANGED <<children, listener, daemons>>

Outsider == /\ \/ listener = None /\ listener' = Other
               \/ listener = Other /\ listener' = None
            /\ UNCHANGED <<children, managed, daemons>>

Child(p) == \/ GetDaemonStatus(p) \/ WaitForDaemonPolicy(p) \/ Reuse(p)
            \/ Acquire(p) \/ Listen(p) \/ StopServing(p) \/ Release(p)

Next == \/ \E p \in Procs : Launch(p) \/ Child(p) \/ Signal(p)
        \/ DaemonStep
        \/ \E l \in Links : Replace(l)
        \/ Outsider

Spec == Init /\ [][Next]_vars

\* Processes are scheduled; nobody has to launch or stop one.
FairSpec == /\ Spec
            /\ \A p \in Procs : WF_vars(Child(p))
            /\ \A d \in Daemons : WF_vars(Advance(d) /\ UNCHANGED <<children, managed>>)

-----------------------------------------------------------------------------
(***************************************************************************)
(* Properties                                                              *)
(***************************************************************************)

\* The values of the variables; the flock follows the program.
TypeOK == /\ pc \in [Procs -> {"new", "status", "await", "reuse", "acquire", "own", "serving", "closed", "gone"}]
          /\ link \in [Procs -> Links]
          /\ stop \in [Procs -> BOOLEAN]
          /\ seen \in [Procs -> Daemons \cup {None}]
          /\ listener \in Procs \cup Daemons \cup {None, Other}
          /\ managed \in Links
          /\ stage \in [Daemons -> {"new", "pid", "recorded", "up", "closed", "gone"}]
          /\ profile \in [Daemons -> {Here, Elsewhere, None}]
          /\ serves \in [Daemons -> Links \cup {None}]
          /\ record \in [pid : Daemons \cup {None}, profile : {Here, Elsewhere, None}, link : Links \cup {None}]
          /\ owner \in [{Here} -> Procs \cup {None}]
          /\ \A p \in Procs : owner[Here] = p <=> pc[p] \in {"own", "serving", "closed"}

\* The record of a daemon that is alive says what it serves.
RecordSaysWhatIsServed ==
  /\ \A d \in Daemons : Record!Alive(d) => profile[d] # None
  /\ record.profile = None => record.link = None
  /\ record.pid # None => stage[record.pid] # "new"
  /\ record.profile # None /\ Record!Alive(record.pid) =>
       record.profile = profile[record.pid] /\ record.link = serves[record.pid]

\* The daemon a child relies on is, as long as it lives, one of the child's own
\* profile that serves the link on the child's command line, although the profile
\* may have been edited, and the daemon restarted, between the two of them
\* reading it.
ReusesItsLink ==
  \A p \in Procs : pc[p] \in {"await", "reuse"} /\ Record!Alive(seen[p]) =>
    profile[seen[p]] = Here /\ serves[seen[p]] = link[p]

\* A child has the address from Listen to Close.
ListenerFollowsProgram == \A p \in Procs : listener = p <=> pc[p] = "serving"

\* What the proofs rest on: with a child relying on a process that has started, so
\* that what it serves does not change any more.
IInv == /\ TypeOK /\ RecordSaysWhatIsServed /\ ReusesItsLink /\ ListenerFollowsProgram
        /\ \A p \in Procs : seen[p] # None => stage[seen[p]] # "new"

\* A child that is told to stop ends, in each of its modes, and leaves neither
\* lock nor listener behind.
EndsOnSignal == \A p \in Procs : stop[p] ~> pc[p] = "gone" /\ owner[Here] # p /\ listener # p

\* A child that starts is served by a sibling or a daemon, serves, or ends: it
\* does not wait for a lock that nobody will give back.
Decides == \A p \in Procs :
             pc[p] \in {"status", "await", "acquire", "own"} ~>
               pc[p] \in {"reuse", "gone"} \/ \E q \in Procs : pc[q] = "serving"

\* Once the daemon it used has been stopped and has removed its record, a child
\* goes on in the foreground, or ends, or finds a listener again.
ReturnsToForeground ==
  \A p \in Procs : pc[p] = "reuse" /\ record.pid = None ~> pc[p] # "reuse" \/ listener # None
===============================================================================
