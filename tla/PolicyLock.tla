------------------------------ MODULE PolicyLock ------------------------------
(***************************************************************************)
(* What the foreground runtime promises to Surge for one SOCKS5 address:   *)
(* the children started for a policy take turns.  Per lock key there is at *)
(* most one owner; only an owner opens the listener; an owner closes its   *)
(* listener before it lets the next child in.  A killed process is the one *)
(* exception: the kernel takes its lock and its listener away in any order.*)
(***************************************************************************)
CONSTANTS Procs,     \* processes of the run command
          Keys,      \* lock keys: one per (profile, address)
          None,      \* nobody
          Other      \* a program that is not one of ours

VARIABLES owner,     \* owner[k]: the child that owns key k, or None
          listener,  \* who listens on the address
          dead       \* children that were killed and not yet reaped

vars == <<owner, listener, dead>>

Init == /\ owner = [k \in Keys |-> None]
        /\ listener = None
        /\ dead = {}

Acquire(k, p) == /\ owner[k] = None
                 /\ p \notin dead
                 /\ owner' = [owner EXCEPT ![k] = p]
                 /\ UNCHANGED <<listener, dead>>

Listen(k, p) == /\ owner[k] = p
                /\ p \notin dead
                /\ listener = None
                /\ listener' = p
                /\ UNCHANGED <<owner, dead>>

\* The owner, or the kernel on behalf of a killed child, closes the listener.
Close(k, p) == /\ listener = p
               /\ owner[k] = p \/ p \in dead
               /\ listener' = None
               /\ UNCHANGED <<owner, dead>>

\* A live owner lets go only after its listener is closed.
Release(k, p) == /\ owner[k] = p
                 /\ listener = p => p \in dead
                 /\ owner' = [owner EXCEPT ![k] = None]
                 /\ UNCHANGED <<listener, dead>>

Kill(p) == /\ p \notin dead
           /\ dead' = dead \cup {p}
           /\ UNCHANGED <<owner, listener>>

Reap(p) == /\ p \in dead
           /\ listener # p
           /\ \A k \in Keys : owner[k] # p
           /\ dead' = dead \ {p}
           /\ UNCHANGED <<owner, listener>>

\* Programs that are not ours come and go on the address.
Outsider == /\ \/ listener = None /\ listener' = Other
               \/ listener = Other /\ listener' = None
            /\ UNCHANGED <<owner, dead>>

Next == \/ \E k \in Keys, p \in Procs : \/ Acquire(k, p)
                                        \/ Listen(k, p)
                                        \/ Close(k, p)
                                        \/ Release(k, p)
        \/ \E p \in Procs : Kill(p) \/ Reap(p)
        \/ Outsider

Spec == Init /\ [][Next]_vars
===============================================================================
