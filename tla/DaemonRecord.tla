------------------------------ MODULE DaemonRecord ------------------------------
(***************************************************************************)
(* What the manual daemon is to a run process: serve processes that come   *)
(* one at a time, listen on the address of the policy or leave it alone,   *)
(* and keep the record that GetStatus reads.  Nobody else writes it; it    *)
(* may be cleared when no process is alive.  Daemon, with its commands and *)
(* their lock, implements this; ManagedRun is built on it.                 *)
(***************************************************************************)
EXTENDS Naturals

CONSTANTS Daemons,  \* serve processes; each runs at most once
          Killed,   \* those that were killed before
          Profiles, \* Surge profiles
          Links,    \* what a daemon may serve on the address
          None      \* no process, no profile, no link

VARIABLES stage,     \* where each serve process is
          profile,   \* the profile of each that is alive
          serves,    \* what it serves on the address, or None
          record,    \* daemon.json, or daemon.pid with neither profile nor link
          listener   \* who listens on the address

vars == <<stage, profile, serves, record, listener>>

NoRecord == [pid |-> None, profile |-> None, link |-> None]

Alive(d) == d # None /\ stage[d] \notin {"new", "gone"}

\* A killed process may have left its record.
Left == [pid : Killed, profile : Profiles, link : Links]

Init == /\ stage = [d \in Daemons |-> IF d \in Killed THEN "gone" ELSE "new"]
        /\ profile = [d \in Daemons |-> None]
        /\ serves = [d \in Daemons |-> None]
        /\ record \in Left \cup {NoRecord}
        /\ listener \notin Daemons

Advance(d, from, to) == stage[d] = from /\ stage' = [stage EXCEPT ![d] = to]

\* writeState writes the PID file first; a daemon.json that is still there hides it.
\* No other process is alive.
WritePid(d, p, l) ==
  /\ Advance(d, "new", "pid")
  /\ \A e \in Daemons : ~Alive(e)
  /\ profile' = [profile EXCEPT ![d] = p]
  /\ serves' = [serves EXCEPT ![d] = l]
  /\ record' = IF record.profile = None THEN [NoRecord EXCEPT !.pid = d] ELSE record
  /\ UNCHANGED listener

WriteState(d) == /\ Advance(d, "pid", "recorded")
                 /\ record' = [pid |-> d, profile |-> profile[d], link |-> serves[d]]
                 /\ UNCHANGED <<profile, serves, listener>>

\* Without a policy on the address a daemon leaves it alone.  The start fails when
\* another program has this address, or another address of the profile.
Bind(d) == /\ \/ Advance(d, "recorded", "up") /\ serves[d] # None /\ listener = None /\ listener' = d
              \/ Advance(d, "recorded", "up") /\ serves[d] = None /\ UNCHANGED listener
              \/ Advance(d, "recorded", "closed") /\ UNCHANGED listener
           /\ UNCHANGED <<profile, serves, record>>

Vacate(d) == listener' = IF listener = d THEN None ELSE listener

Close(d) == /\ Advance(d, "up", "closed")
            /\ Vacate(d)
            /\ UNCHANGED <<profile, serves, record>>

End(d, from) == /\ stage[d] \in from
                /\ stage' = [stage EXCEPT ![d] = "gone"]
                /\ profile' = [profile EXCEPT ![d] = None]
                /\ serves' = [serves EXCEPT ![d] = None]

\* cleanupState
Cleanup(d) == /\ End(d, {"closed"})
              /\ record' = NoRecord
              /\ UNCHANGED listener

\* A process that is killed, or fails while it writes its record: the record stays.
Crash(d) == /\ End(d, {"pid", "recorded", "up", "closed"})
            /\ Vacate(d)
            /\ UNCHANGED record

\* A process that ends before it writes anything.
Vanish(d) == End(d, {"new"}) /\ UNCHANGED <<record, listener>>

\* removeRuntimeFiles of a command that found the record stale.
Forget == /\ \A d \in Daemons : ~Alive(d)
          /\ record' = NoRecord
          /\ UNCHANGED <<stage, profile, serves, listener>>

\* Other programs, children among them, open and close the address.
Others == /\ listener \notin Daemons /\ listener' \notin Daemons
          /\ UNCHANGED <<stage, profile, serves, record>>

Next == \/ \E d \in Daemons, p \in Profiles, l \in Links \cup {None} : WritePid(d, p, l)
        \/ \E d \in Daemons : \/ WriteState(d) \/ Bind(d) \/ Close(d) \/ Cleanup(d)
                              \/ Crash(d) \/ Vanish(d)
        \/ Forget \/ Others

Spec == Init /\ [][Next]_vars
=================================================================================
