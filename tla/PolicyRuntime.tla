---------------------------- MODULE PolicyRuntime ----------------------------
(***************************************************************************)
(* The foreground mode of `xcore-bridge run`: Surge starts one process per *)
(* use of a policy, the processes of one policy meet at a lock file, the   *)
(* one that holds the flock runs xray-core, the others stand by and poll.  *)
(*                                                                         *)
(* One SOCKS5 address is modelled: processes of different addresses share  *)
(* neither a lock file nor a listener.  Several keys may name the address  *)
(* (two profiles with the same port), and then use different lock files.   *)
(* The daemon is not running here; module ManagedRun adds it.              *)
(***************************************************************************)
EXTENDS Naturals

CONSTANTS Procs,    \* process ids; a process is launched at most once
          Keys,     \* lock keys, Clean(profile) + address: one lock file each
          Links,    \* VLESS share links, compared by their hash
          None,     \* no process
          Other     \* a listener that is not a run process

ASSUME ConstantsDistinct == /\ None \notin Procs
                            /\ Other \notin Procs
                            /\ None # Other

VARIABLES
  pc,       \* where each process is in runForegroundManagedPolicy
  key,      \* the lock file a process has open
  link,     \* the share link on its command line
  stop,     \* its context is done: SIGTERM or SIGINT has arrived
  ready,    \* standbyReady
  seen,     \* the owner record matchingOwner returned
  holder,   \* holder[k]: the process whose flock is on lock file k
  record,   \* record[k]: what lock file k holds
  managed,  \* managed[k]: the link the profile holds for this address
  port      \* who listens on the address

vars == <<pc, key, link, stop, ready, seen, holder, record, managed, port>>

\* A lock file that is empty, or cut short, does not parse and names nobody.
Unreadable == [pid |-> None, link |-> None]
Record(p) == [pid |-> p, link |-> link[p]]
Records == [pid : Procs, link : Links] \cup {Unreadable}

Owning == {"truncate", "write", "bind", "confirm", "serving", "close", "unlock"}
Waiting == {"acquire", "owner", "probe", "wait"}
Running == Owning \cup Waiting
Places == Running \cup {"new", "killed", "gone"}

Init == /\ pc = [p \in Procs |-> "new"]
        /\ key \in [Procs -> Keys]
        /\ managed \in [Keys -> Links]
        /\ link = [p \in Procs |-> managed[key[p]]]
        /\ stop = [p \in Procs |-> FALSE]
        /\ ready = [p \in Procs |-> FALSE]
        /\ seen = [p \in Procs |-> Unreadable]
        /\ holder = [k \in Keys |-> None]
        /\ record = [k \in Keys |-> Unreadable]
        /\ port = None

Goto(p, from, to) == pc[p] = from /\ pc' = [pc EXCEPT ![p] = to]

(***************************************************************************)
(* Start-up and the lock                                                   *)
(***************************************************************************)

\* MUTANT: the lock file is opened with O_TRUNC.
LaunchTruncating(p) ==
  /\ Goto(p, "new", "acquire")
  /\ link' = [link EXCEPT ![p] = managed[key[p]]]
  /\ record' = [record EXCEPT ![key[p]] = Unreadable]
  /\ UNCHANGED <<key, stop, ready, seen, holder, managed, port>>

\* Surge runs the command line of the policy; verifyManagedRunTarget accepts
\* it only while the profile holds that link for the address.
Launch(p) == /\ Goto(p, "new", "acquire")
             /\ link' = [link EXCEPT ![p] = managed[key[p]]]
             /\ UNCHANGED <<key, stop, ready, seen, holder, record, managed, port>>

\* MUTANT: a shared lock, which any number of processes get.
TryAcquireShared(p) ==
  /\ Goto(p, "acquire", "truncate")
  /\ holder' = [holder EXCEPT ![key[p]] = p]
  /\ UNCHANGED <<key, link, stop, ready, seen, record, managed, port>>

\* flock(LOCK_EX|LOCK_NB) succeeds.
TryAcquireWins(p) ==
  /\ Goto(p, "acquire", "truncate")
  /\ holder[key[p]] = None
  /\ holder' = [holder EXCEPT ![key[p]] = p]
  /\ UNCHANGED <<key, link, stop, ready, seen, record, managed, port>>

\* flock reports EWOULDBLOCK.
TryAcquireLoses(p) ==
  /\ Goto(p, "acquire", "owner")
  /\ holder[key[p]] # None
  /\ UNCHANGED <<key, link, stop, ready, seen, holder, record, managed, port>>

\* Any other error of flock ends the command.
TryAcquireFails(p) ==
  /\ Goto(p, "acquire", "gone")
  /\ UNCHANGED <<key, link, stop, ready, seen, holder, record, managed, port>>

Truncate(p) == /\ Goto(p, "truncate", "write")
               /\ record' = [record EXCEPT ![key[p]] = Unreadable]
               /\ UNCHANGED <<key, link, stop, ready, seen, holder, managed, port>>

WriteRecord(p) == /\ Goto(p, "write", "bind")
                  /\ record' = [record EXCEPT ![key[p]] = Record(p)]
                  /\ UNCHANGED <<key, link, stop, ready, seen, holder, managed, port>>

\* MUTANT: the error of Truncate or WriteAt is ignored.
RecordFailureIgnored(p) == /\ Goto(p, "truncate", "bind") \/ Goto(p, "write", "bind")
                           /\ UNCHANGED <<key, link, stop, ready, seen, holder, record, managed, port>>

\* A failed Truncate or WriteAt unlocks and ends the command.
RecordFails(p) == /\ Goto(p, "truncate", "gone") \/ Goto(p, "write", "gone")
                  /\ holder' = [holder EXCEPT ![key[p]] = None]
                  /\ UNCHANGED <<key, link, stop, ready, seen, record, managed, port>>

(***************************************************************************)
(* The owner: bridge.Start, the wait for the signal, the deferred calls    *)
(***************************************************************************)

\* core.Start opens the listener; an address in use is an error, and so is whatever
\* else fails in the core.
Bind(p) == /\ \/ Goto(p, "bind", "confirm") /\ port = None /\ port' = p
              \/ Goto(p, "bind", "unlock") /\ UNCHANGED port
           /\ UNCHANGED <<key, link, stop, ready, seen, holder, record, managed>>

\* waitForReady gets the SOCKS5 greeting, or gives up: two seconds without an
\* answer, or the context done.  Giving up closes the server that was created.
Confirm(p) == /\ \/ Goto(p, "confirm", "serving") /\ ~stop[p]
                 \/ Goto(p, "confirm", "close")
              /\ UNCHANGED <<key, link, stop, ready, seen, holder, record, managed, port>>

\* <-ctx.Done()
StopServing(p) == /\ Goto(p, "serving", "close")
                  /\ stop[p]
                  /\ UNCHANGED <<key, link, stop, ready, seen, holder, record, managed, port>>

\* MUTANT: the lock is let go before the server is closed.
UnlockThenClose(p) == /\ Goto(p, "close", "unlock")
                      /\ holder' = [holder EXCEPT ![key[p]] = None]
                      /\ UNCHANGED <<key, link, stop, ready, seen, record, managed, port>>

\* The deferred server.Close runs before the deferred runtimeLock.close.
CloseServer(p) == /\ Goto(p, "close", "unlock")
                  /\ port' = None
                  /\ UNCHANGED <<key, link, stop, ready, seen, holder, record, managed>>

\* MUTANT: the record is cleared once the lock has been let go.
UnlockThenClear(p) == /\ Goto(p, "unlock", "gone")
                      /\ holder' = [holder EXCEPT ![key[p]] = None]
                      /\ record' = [record EXCEPT ![key[p]] = Unreadable]
                      /\ UNCHANGED <<key, link, stop, ready, seen, managed, port>>

\* LOCK_UN; the record stays in the file.
Unlock(p) == /\ Goto(p, "unlock", "gone")
             /\ holder' = [holder EXCEPT ![key[p]] = None]
             /\ UNCHANGED <<key, link, stop, ready, seen, record, managed, port>>

(***************************************************************************)
(* The standby: matchingOwner, one readiness probe per round, the pause    *)
(***************************************************************************)

\* MUTANT: any owner will do, whatever link it serves.
MatchesAnyOwner(p, r) == r # Unreadable

Matches(p, r) == r # Unreadable /\ r.link = link[p]

\* The lock file is read without the lock.
MatchingOwner(p) ==
  /\ IF Matches(p, record[key[p]]) /\ ~ready[p]
       THEN /\ Goto(p, "owner", "probe")
            /\ seen' = [seen EXCEPT ![p] = record[key[p]]]
       ELSE Goto(p, "owner", "wait") /\ UNCHANGED seen
  /\ UNCHANGED <<key, link, stop, ready, holder, record, managed, port>>

\* Any SOCKS5 listener on the address answers the probe.
ProbeAnswered(p) == /\ Goto(p, "probe", "wait")
                    /\ port # None
                    /\ ~stop[p]
                    /\ ready' = [ready EXCEPT ![p] = TRUE]
                    /\ seen' = [seen EXCEPT ![p] = Unreadable]
                    /\ UNCHANGED <<key, link, stop, holder, record, managed, port>>

\* No answer in 100 ms, or the context is done.
ProbeFails(p) == /\ Goto(p, "probe", "wait")
                 /\ seen' = [seen EXCEPT ![p] = Unreadable]
                 /\ UNCHANGED <<key, link, stop, ready, holder, record, managed, port>>

\* MUTANT: a standby blocks on its context, as a process in daemon mode does.
PauseForGood(p) == /\ Goto(p, "wait", "gone")
                   /\ stop[p]
                   /\ UNCHANGED <<key, link, stop, ready, seen, holder, record, managed, port>>

\* MUTANT: a plain sleep in the loop instead of the select.
PauseDeaf(p) == /\ Goto(p, "wait", "acquire")
                /\ UNCHANGED <<key, link, stop, ready, seen, holder, record, managed, port>>

\* The select of the loop: the 25 ms timer, or the end of the context.
Pause(p) == /\ \/ Goto(p, "wait", "acquire") /\ ~stop[p]
               \/ Goto(p, "wait", "gone") /\ stop[p]
            /\ UNCHANGED <<key, link, stop, ready, seen, holder, record, managed, port>>

(***************************************************************************)
(* The environment: signals, the kernel, other programs, profile edits     *)
(***************************************************************************)

Signal(p) == /\ pc[p] \in Running
             /\ ~stop[p]
             /\ stop' = [stop EXCEPT ![p] = TRUE]
             /\ UNCHANGED <<pc, key, link, ready, seen, holder, record, managed, port>>

\* SIGKILL or a panic outside StartMulti: no deferred call runs.
Kill(p) == /\ pc[p] \in Running
           /\ pc' = [pc EXCEPT ![p] = "killed"]
           /\ UNCHANGED <<key, link, stop, ready, seen, holder, record, managed, port>>

\* The kernel closes the descriptors of a killed process one after the other.
KernelUnlocks(p) == /\ pc[p] = "killed"
                    /\ holder[key[p]] = p
                    /\ holder' = [holder EXCEPT ![key[p]] = None]
                    /\ UNCHANGED <<pc, key, link, stop, ready, seen, record, managed, port>>

KernelCloses(p) == /\ pc[p] = "killed"
                   /\ port = p
                   /\ port' = None
                   /\ UNCHANGED <<pc, key, link, stop, ready, seen, holder, record, managed>>

Reap(p) == /\ Goto(p, "killed", "gone")
           /\ holder[key[p]] # p
           /\ port # p
           /\ UNCHANGED <<key, link, stop, ready, seen, holder, record, managed, port>>

Outsider == /\ \/ port = None /\ port' = Other
               \/ port = Other /\ port' = None
            /\ UNCHANGED <<pc, key, link, stop, ready, seen, holder, record, managed>>

\* `xcore-bridge replace` gives the policy another link on the same address.
Replace(k, l) == /\ l # managed[k]
                 /\ managed' = [managed EXCEPT ![k] = l]
                 /\ UNCHANGED <<pc, key, link, stop, ready, seen, holder, record, port>>

Step(p) == \/ TryAcquireWins(p) \/ TryAcquireLoses(p) \/ TryAcquireFails(p)
           \/ Truncate(p) \/ WriteRecord(p) \/ RecordFails(p)
           \/ Bind(p) \/ Confirm(p) \/ StopServing(p) \/ CloseServer(p) \/ Unlock(p)
           \/ MatchingOwner(p) \/ ProbeAnswered(p) \/ ProbeFails(p) \/ Pause(p)

Kernel(p) == KernelUnlocks(p) \/ KernelCloses(p) \/ Reap(p)

Next == \/ \E p \in Procs : Launch(p) \/ Step(p) \/ Kernel(p) \/ Signal(p) \/ Kill(p)
        \/ Outsider
        \/ \E k \in Keys, l \in Links : Replace(k, l)

Spec == Init /\ [][Next]_vars

\* Every process that runs is scheduled, and the kernel finishes an exit.
\* Nothing obliges Surge to launch or to stop a process.
FairSpec == Spec /\ \A p \in Procs : WF_vars(Step(p)) /\ WF_vars(Kernel(p))

-----------------------------------------------------------------------------
(***************************************************************************)
(* Properties                                                              *)
(***************************************************************************)

\* The values the variables take.
TypeOK == /\ pc \in [Procs -> Places]
          /\ key \in [Procs -> Keys]
          /\ link \in [Procs -> Links]
          /\ stop \in [Procs -> BOOLEAN]
          /\ ready \in [Procs -> BOOLEAN]
          /\ seen \in [Procs -> Records]
          /\ holder \in [Keys -> Procs \cup {None}]
          /\ record \in [Keys -> Records]
          /\ managed \in [Keys -> Links]
          /\ port \in Procs \cup {None, Other}

\* A process between flock and LOCK_UN has the lock of its key, and a lock is
\* held only by such a process or by one the kernel has not finished with.
LockFollowsProgram ==
  \A p \in Procs :
    /\ pc[p] \in Owning => holder[key[p]] = p
    /\ \A k \in Keys : holder[k] = p => key[p] = k /\ pc[p] \in Owning \cup {"killed"}

\* The listener of a process is open exactly from core.Start to server.Close.
PortFollowsProgram ==
  \A p \in Procs :
    /\ pc[p] \in {"confirm", "serving", "close"} => port = p
    /\ port = p => pc[p] \in {"confirm", "serving", "close", "killed"}

\* From the write to the unlock the lock file names the owner and its link.
RecordFollowsProgram ==
  \A p \in Procs : pc[p] \in Owning \ {"truncate", "write"} => record[key[p]] = Record(p)

\* A record a standby has read and acts on matched the link it runs with.
SeenMatches == \A p \in Procs : pc[p] = "probe" => Matches(p, seen[p])

\* The inductive invariant the properties below rest on.
IInv == /\ TypeOK
        /\ LockFollowsProgram
        /\ PortFollowsProgram
        /\ RecordFollowsProgram
        /\ SeenMatches

\* The order of the two deferred calls: a process that is about to open the
\* listener never finds a process of its own policy on the address, so a
\* standby that takes over cannot fail because its predecessor is still there.
\* Only a predecessor that was killed can be in the way.
NoSiblingInTheWay ==
  \A p, q \in Procs : pc[p] = "bind" /\ port = q /\ key[q] = key[p] => pc[q] = "killed"

\* While a process has the listener open the lock file says who it is and
\* which link it serves, although the file is never cleared and is written
\* after the lock is taken.
ListenerOnRecord ==
  \A q \in Procs : port = q /\ pc[q] # "killed" => record[key[q]] = Record(q)

\* A standby probes an address, not a process.  If the record it read is still
\* the one in the file when the answer comes from a live process of its policy,
\* that process serves the link the standby was started for.
StandbyProbesItsLink ==
  \A p, q \in Procs :
    /\ pc[p] = "probe" /\ seen[p] = record[key[p]]
    /\ port = q /\ key[q] = key[p] /\ pc[q] # "killed"
    => link[q] = link[p]

\* The lock file is written by the process that holds the lock (it is the one that
\* moves), and never under a process that has told its link to others.
RecordWrittenByHolder ==
  [][\A k \in Keys : record'[k] # record[k] =>
       /\ holder[k] # None /\ holder'[k] = holder[k] /\ pc'[holder[k]] # pc[holder[k]]
       /\ \A q \in Procs : port = q /\ key[q] = k => pc[q] = "killed"]_vars

\* Every child that waits gets to see the policy served: by a sibling or, when
\* all of them are gone, by itself, unless it is stopped or its start fails.
TakeOver ==
  \A p \in Procs :
    pc[p] \in Waiting ~> \/ \E q \in Procs : key[q] = key[p] /\ pc[q] = "serving"
                         \/ stop[p]
                         \/ pc[p] \in {"killed", "gone"}

\* A process that gets the signal ends, wherever it is, and leaves neither its
\* lock nor its listener behind.
StopsOnSignal ==
  \A p \in Procs :
    stop[p] ~> pc[p] = "gone" /\ holder[key[p]] # p /\ port # p

\* The lock files, the listener and the killed processes seen as PolicyLock.
Promise == INSTANCE PolicyLock WITH owner <- holder,
                                    listener <- port,
                                    dead <- {p \in Procs : pc[p] = "killed"}

\* The runtime hands the policy from owner to owner as PolicyLock says.
ImplementsPromise == Promise!Spec
===============================================================================
