------------------------------ MODULE SurgeProfile ------------------------------
(***************************************************************************)
(* The edits of a Surge profile: `add`, `remove`, `rename` and `replace`,  *)
(* and surge.Install, which is add with the managed block made anew.  Each *)
(* command reads the profile, works on the lines it read, writes them as   *)
(* the backup and then the edited lines as the profile; nothing locks the  *)
(* profile in between.                                                     *)
(*                                                                         *)
(* A profile is a sequence of lines.  Blank lines, which only lay it out,  *)
(* are left out.  A policy name is a sequence: "X 2", the second policy of *)
(* name X, is <<"X", 2>>.  A line `name = ...' whose arguments are those   *)
(* of `xcore-bridge run' has its share link in the field link; any other   *)
(* line has None there.                                                    *)
(***************************************************************************)
EXTENDS ShareLink, FiniteSets, Sequences, SequencesExt

CONSTANTS Cmds,       \* edit commands; each runs once
          Requests,   \* what a command may be asked to do
          Starts,     \* profiles before the first edit
          UserLines,  \* proxy lines the user may write by hand
          Contested,  \* ports that other programs open and close
          Overlapping \* commands beside which others of them, and the user, may be at work

ASSUME OverlappingCommands == Overlapping \subseteq Cmds

VARIABLES
  profile,   \* the lines of the profile
  backup,    \* the lines of profile.conf.bak, <<>> when there is none
  pc,        \* how far each command has come
  request,   \* what each command was asked
  consent,   \* has the user confirmed the first edit?
  original,  \* the lines each command read
  rendered,  \* the lines each command is to write
  busy       \* ports that other programs listen on

vars == <<profile, backup, pc, request, consent, original, rendered, busy>>

(***************************************************************************)
(* Lines                                                                   *)
(***************************************************************************)

Plain(k) == [kind |-> k, name |-> <<>>, port |-> 0, link |-> None]
Begin == Plain("begin")
End == Plain("end")
ProxyLine(n, p, l) == [kind |-> "policy", name |-> n, port |-> p, link |-> l]

IsHeader(l) == l.kind \in {"[general]", "[proxy]", "[rule]"}
IsBegin(l) == l = Begin
IsEnd(l) == l = End
IsProxy(l) == l.kind = "policy"
IsCurrent(l) == IsProxy(l) /\ l.link # None /\ l.port > 0

SectionStart(lines, h) == SelectInSeq(lines, LAMBDA l : l.kind = h)
SectionEnd(lines, h) ==
  Min({i \in SectionStart(lines, h) + 1 .. Len(lines) : IsHeader(lines[i])} \cup {Len(lines) + 1})

\* The lines of [Proxy], and the names and local ports they take.
Section(lines) == SubSeq(lines, SectionStart(lines, "[proxy]") + 1, SectionEnd(lines, "[proxy]") - 1)
ProxyNames(lines) == {l.name : l \in {m \in ToSet(lines) : IsProxy(m)}}
LocalPorts(lines) == {l.port : l \in {m \in ToSet(lines) : IsProxy(m)}} \ {0}

\* A missing [Proxy] goes behind [General], else before [Rule], else last.
InsertProxySection(lines) ==
  LET rule == SectionStart(lines, "[rule]")
      at == IF SectionStart(lines, "[general]") # 0 THEN SectionEnd(lines, "[general]")
            ELSE IF rule # 0 THEN rule ELSE Len(lines) + 1
  IN InsertAt(lines, at, Plain("[proxy]"))

(***************************************************************************)
(* The managed block                                                       *)
(***************************************************************************)

\* The lines at the places in S, in their order.
Keep(lines, S) ==
  LET kept[i \in 0 .. Len(lines)] ==
        IF i = 0 THEN <<>>
        ELSE IF i \in S THEN Append(kept[i - 1], lines[i]) ELSE kept[i - 1]
  IN kept[Len(lines)]

FindMarkerEnd(lines, from, to) == SelectInSubSeq(lines, from, to, IsEnd)

\* What the first block of a section holds; nothing when it has no end marker.
FirstBlock(section) ==
  LET begin == SelectInSeq(section, IsBegin)
      end == FindMarkerEnd(section, begin + 1, Len(section))
  IN IF begin # 0 /\ end # 0
       THEN Keep(section, {i \in begin + 1 .. end - 1 : ~IsBegin(section[i])})
       ELSE <<>>
ManagedProxyBlock(lines) ==
  IF SectionStart(lines, "[proxy]") # 0 THEN FirstBlock(Section(lines)) ELSE <<>>

\* MUTANT: everything from the begin marker to the end of [Proxy] goes.
RemoveToSectionEnd(lines) ==
  Keep(lines, DOMAIN lines \ {i \in 1 .. SectionEnd(lines, "[proxy]") - 1 : \E b \in 1 .. i : IsBegin(lines[b])})

\* Every complete block of [Proxy] goes, markers included.
RemoveManagedProxyBlock(lines) ==
  LET last == SectionEnd(lines, "[proxy]") - 1
      begins == {i \in SectionStart(lines, "[proxy]") + 1 .. last : IsBegin(lines[i])}
      blocks == UNION {b .. FindMarkerEnd(lines, b + 1, last) : b \in begins}
  IN Keep(lines, DOMAIN lines \ blocks)

\* The block becomes the last of [Proxy]; an empty one is not written.
RenderManagedProxyBlock(lines, managed) ==
  LET at == SectionEnd(lines, "[proxy]")
      block == IF managed = <<>> THEN <<>> ELSE <<Begin>> \o managed \o <<End>>
  IN SubSeq(lines, 1, at - 1) \o block \o SubSeq(lines, at, Len(lines))

\* What `run' and the daemon ask of the profile, and whether they let a child
\* with this link and port go ahead.
ManagedPoliciesOK(lines) ==
  /\ ManagedProxyBlock(lines) # <<>>
  /\ \A l \in ToSet(ManagedProxyBlock(lines)) : IsCurrent(l)
VerifyManagedRunTarget(lines, link, port) ==
  /\ ManagedPoliciesOK(lines)
  /\ \E l \in ToSet(ManagedProxyBlock(lines)) : l.link = link /\ l.port = port

(***************************************************************************)
(* Names and ports                                                         *)
(***************************************************************************)

\* The least number of S, 0 when there is none.
Least(S) == IF S = {} THEN 0 ELSE Min(S)

UniqueName(taken, n) ==
  IF n \notin taken THEN n
  ELSE Append(n, Least({i \in 2 .. Cardinality(taken) + 2 : Append(n, i) \notin taken}))

\* MUTANT: a port is given out without a probe.
FindUnprobedPort(start, used, reusable) == Least({p \in start .. MaxPort : p \notin used})

\* The first port from start on that no line takes and that nobody listens on,
\* unless the block being replaced had it; 0 when there is none.
FindAvailablePort(start, used, reusable) ==
  Least({p \in start .. MaxPort : p \notin used /\ (p \in reusable \/ p \notin busy)})

(***************************************************************************)
(* The edits: the lines to write, or Refused                               *)
(***************************************************************************)

Refused == <<>>

\* MUTANT: the names of the block are not among the taken ones.
TakenOutside(cleaned, kept) == ProxyNames(Section(cleaned))

Taken(cleaned, kept) == ProxyNames(Section(cleaned)) \cup ProxyNames(kept)

\* vless.Parse and Node.Validate
Accepted(l) == Parse(l) /\ Validate(Node[l])

\* MUTANT: only the first link is looked at.
FirstAccepted(nodes) == Accepted(nodes[1].link)

AllAccepted(nodes) == \A i \in DOMAIN nodes : Accepted(nodes[i].link)

\* The lines for the links of a request, one after the other: each takes a name and
\* a port that neither the profile has nor a line before it was given.
Assign(a, node, reusable) ==
  LET name == UniqueName(a.names, node.name)
      port == FindAvailablePort(a.next, a.used, reusable)
  IN [names |-> a.names \cup {name},
      used |-> a.used \cup {port},
      next |-> IF port = 0 THEN MaxPort + 1 ELSE port + 1,
      lines |-> Append(a.lines, ProxyLine(name, port, node.link))]
NewLines(nodes, base, names, used, reusable) ==
  LET given[i \in 0 .. Len(nodes)] ==
        IF i = 0 THEN [names |-> names, used |-> used, next |-> base, lines |-> <<>>]
        ELSE Assign(given[i - 1], nodes[i], reusable)
  IN given[Len(nodes)].lines

\* add keeps the block, which must hold current lines only; install drops it.
AddPolicies(lines, r) ==
  LET with == IF SectionStart(lines, "[proxy]") # 0 THEN lines ELSE InsertProxySection(lines)
      kept == IF r.op = "install" THEN <<>> ELSE ManagedProxyBlock(with)
      cleaned == RemoveManagedProxyBlock(with)
      used == LocalPorts(Section(cleaned)) \cup LocalPorts(kept)
      reusable == LocalPorts(Section(with)) \ used
      added == NewLines(r.nodes, r.base, Taken(cleaned, kept), used, reusable)
  IN IF /\ r.nodes # <<>> /\ AllAccepted(r.nodes)
        /\ \A l \in ToSet(kept) : IsCurrent(l)
        /\ \A l \in ToSet(added) : l.port # 0
       THEN RenderManagedProxyBlock(cleaned, kept \o added)
       ELSE Refused

\* MUTANT: a policy whose name only starts with one of the names goes too.
RemoveByPrefix(lines, r) ==
  LET managed == ManagedProxyBlock(lines)
      next == Keep(managed, {i \in DOMAIN managed :
                       ~(IsProxy(managed[i]) /\ \E n \in r.names : IsPrefix(n, managed[i].name))})
  IN IF next = managed THEN Refused
     ELSE RenderManagedProxyBlock(RemoveManagedProxyBlock(lines),
                                  IF ProxyNames(next) = {} THEN <<>> ELSE next)

\* Any line of the block may go, current or not; comments do not keep a block.
RemovePolicies(lines, r) ==
  LET managed == ManagedProxyBlock(lines)
      next == Keep(managed, {i \in DOMAIN managed : ~(IsProxy(managed[i]) /\ managed[i].name \in r.names)})
  IN IF next = managed THEN Refused
     ELSE RenderManagedProxyBlock(RemoveManagedProxyBlock(lines),
                                  IF ProxyNames(next) = {} THEN <<>> ELSE next)

RenamePolicy(lines, r) ==
  LET managed == ManagedProxyBlock(lines)
      cleaned == RemoveManagedProxyBlock(lines)
      taken == ProxyNames(Section(cleaned)) \cup (ProxyNames(managed) \ {r.from})
      Renamed(l) == IF l.name = r.from THEN [l EXCEPT !.name = UniqueName(taken, r.to)] ELSE l
  IN IF r.from \notin ProxyNames(managed) THEN Refused
     ELSE RenderManagedProxyBlock(cleaned, [i \in DOMAIN managed |-> Renamed(managed[i])])

\* Name and port stay, the link changes.
ReplacePolicy(lines, r) ==
  LET managed == ManagedProxyBlock(lines)
      Replaced(l) == IF l.name = r.name THEN ProxyLine(l.name, l.port, r.link) ELSE l
  IN IF /\ Accepted(r.link)
        /\ r.name \in ProxyNames(managed) /\ \A l \in ToSet(managed) : IsCurrent(l)
       THEN RenderManagedProxyBlock(RemoveManagedProxyBlock(lines), [i \in DOMAIN managed |-> Replaced(managed[i])])
       ELSE Refused

Edit(lines, r) == CASE r.op \in {"add", "install"} -> AddPolicies(lines, r)
                    [] r.op = "remove" -> RemovePolicies(lines, r)
                    [] r.op = "rename" -> RenamePolicy(lines, r)
                    [] r.op = "replace" -> ReplacePolicy(lines, r)

(***************************************************************************)
(* The profiles and requests there are                                     *)
(***************************************************************************)

IsSequence(s) == Len(s) \in Nat /\ s = [i \in 1 .. Len(s) |-> s[i]]
IsName(n) == IsSequence(n) /\ n # <<>>

\* Only a policy has a name.  What looks like one outside of [Proxy] is text.
LineOK(l) == /\ l = [kind |-> l.kind, name |-> l.name, port |-> l.port, link |-> l.link]
             /\ IF IsProxy(l) THEN IsName(l.name) ELSE l.name = <<>>
             /\ l.port \in 0 .. MaxPort
             /\ l.link \in Links \cup {None}

\* Policies and markers are in [Proxy], no two policies have a name or a port in
\* common, and there is one complete block with something in it, or no marker.
\* Links came into the block with an edit.
Clash(l, k) == IsProxy(l) /\ IsProxy(k) /\ (l.name = k.name \/ (l.port = k.port /\ l.port # 0))
NoClash(lines) == \A i \in DOMAIN lines : \A j \in 1 .. i - 1 : ~Clash(lines[i], lines[j])
IsMarker(l) == IsBegin(l) \/ IsEnd(l)
BlockAt(lines, b, e) ==
  /\ IsBegin(lines[b]) /\ IsEnd(lines[e]) /\ b + 1 < e
  /\ \A i \in DOMAIN lines : IsMarker(lines[i]) => i \in {b, e}
  /\ \A i \in b + 1 .. e - 1 : lines[i].link # None => Accepted(lines[i].link)
InProxy(lines) ==
  LET start == SectionStart(lines, "[proxy]")
  IN IF start = 0 THEN {} ELSE start + 1 .. SectionEnd(lines, "[proxy]") - 1
Tidy(lines) ==
  /\ IsSequence(lines) /\ lines # <<>>
  /\ \A i \in DOMAIN lines : LineOK(lines[i])
  /\ {i \in DOMAIN lines : IsProxy(lines[i]) \/ IsMarker(lines[i])} \subseteq InProxy(lines)
  /\ NoClash(lines)
  /\ (\E i \in DOMAIN lines : IsMarker(lines[i])) => \E b, e \in DOMAIN lines : BlockAt(lines, b, e)

RequestOK(r) ==
  \/ /\ r.op \in {"add", "install"}
     /\ IsSequence(r.nodes) /\ r.base \in 1 .. MaxPort
     /\ \A i \in DOMAIN r.nodes : IsName(r.nodes[i].name) /\ r.nodes[i].link \in Links
  \/ r.op = "remove"
  \/ r.op = "rename" /\ IsName(r.to)
  \/ r.op = "replace" /\ r.link \in Links

\* A profile to start from is one that earlier edits and the user may have left.
ASSUME EditInputs == /\ \A s \in Starts : Tidy(s)
                     /\ \A r \in Requests : RequestOK(r)
                     /\ \A l \in UserLines : LineOK(l) /\ IsProxy(l)

(***************************************************************************)
(* The commands                                                            *)
(***************************************************************************)

Init == /\ profile \in Starts
        /\ backup = <<>>
        /\ pc = [c \in Cmds |-> "new"]
        /\ request = [c \in Cmds |-> None]
        /\ consent = [c \in Cmds |-> FALSE]
        /\ original = [c \in Cmds |-> <<>>]
        /\ rendered = [c \in Cmds |-> <<>>]
        /\ busy \in SUBSET Contested

AtWork == {c \in Cmds : pc[c] \in {"read", "edit", "backup", "save"}}
Goto(c, from, to) == pc[c] = from /\ pc' = [pc EXCEPT ![c] = to]

\* A command that ends takes what it had in memory with it.
Finish(c) == /\ pc' = [pc EXCEPT ![c] = "gone"]
             /\ request' = [request EXCEPT ![c] = None]
             /\ consent' = [consent EXCEPT ![c] = FALSE]
             /\ original' = [original EXCEPT ![c] = <<>>]
             /\ rendered' = [rendered EXCEPT ![c] = <<>>]

\* Any begin marker will do, in whatever section.
ProfileHasManagedBlock(lines) == \E i \in DOMAIN lines : IsBegin(lines[i])

\* MUTANT: the user is asked only about a profile without [Proxy].
StartUnasked(c, r) ==
  /\ Goto(c, "new", "read")
  /\ AtWork \subseteq IF c \in Overlapping THEN Overlapping ELSE {}
  /\ request' = [request EXCEPT ![c] = r]
  /\ consent' = [consent EXCEPT ![c] = r.op = "add" /\ SectionStart(profile, "[proxy]") = 0]
  /\ UNCHANGED <<profile, backup, original, rendered, busy>>

\* add looks for the block, and asks the user, or was given --yes, when there is
\* none; who does not confirm sees it abandoned.
Start(c, r) ==
  /\ Goto(c, "new", "read")
  /\ AtWork \subseteq IF c \in Overlapping THEN Overlapping ELSE {}
  /\ request' = [request EXCEPT ![c] = r]
  /\ consent' = [consent EXCEPT ![c] = r.op = "add" /\ ~ProfileHasManagedBlock(profile)]
  /\ UNCHANGED <<profile, backup, original, rendered, busy>>

\* os.ReadFile
Read(c) == /\ Goto(c, "read", "edit")
           /\ original' = [original EXCEPT ![c] = profile]
           /\ UNCHANGED <<profile, backup, request, consent, rendered, busy>>

\* MUTANT: the lines are written although the edit was refused.
RenderAnyway(c) ==
  /\ Goto(c, "edit", "backup")
  /\ rendered' = [rendered EXCEPT ![c] = Edit(original[c], request[c])]
  /\ UNCHANGED <<profile, backup, request, consent, original, busy>>

Render(c) ==
  /\ Goto(c, "edit", "backup")
  /\ rendered' = [rendered EXCEPT ![c] = Edit(original[c], request[c])]
  /\ rendered'[c] # Refused
  /\ UNCHANGED <<profile, backup, request, consent, original, busy>>

\* MUTANT: a backup that is there is kept.
WriteBackupOnce(c) ==
  /\ Goto(c, "backup", "save")
  /\ backup' = IF backup = <<>> THEN original[c] ELSE backup
  /\ UNCHANGED <<profile, request, consent, original, rendered, busy>>

\* A temporary file renamed over profile.conf.bak.
WriteBackup(c) == /\ Goto(c, "backup", "save")
                  /\ backup' = original[c]
                  /\ UNCHANGED <<profile, request, consent, original, rendered, busy>>

\* A temporary file renamed over the profile.
Save(c) == /\ pc[c] = "save"
           /\ Finish(c)
           /\ profile' = rendered[c]
           /\ UNCHANGED <<backup, busy>>

\* A refused edit, --dry-run, a write that fails, or the end of the process: no
\* file is left half written.
Abandon(c) == /\ c \in AtWork
              /\ Finish(c)
              /\ UNCHANGED <<profile, backup, busy>>

\* The user, or Surge, writes a proxy line at the top of [Proxy].
UserEdit ==
  /\ AtWork \subseteq Overlapping
  /\ SectionStart(profile, "[proxy]") # 0
  /\ \E l \in UserLines :
       /\ l.name \notin ProxyNames(Section(profile))
       /\ l.port \notin LocalPorts(Section(profile))
       /\ profile' = InsertAt(profile, SectionStart(profile, "[proxy]") + 1, l)
  /\ UNCHANGED <<backup, pc, request, consent, original, rendered, busy>>

\* Another program opens or closes a port.
Outsider == /\ \E p \in Contested : busy' = IF p \in busy THEN busy \ {p} ELSE busy \cup {p}
            /\ UNCHANGED <<profile, backup, pc, request, consent, original, rendered>>

Command(c) == \/ \E r \in Requests : Start(c, r)
              \/ Read(c) \/ Render(c) \/ WriteBackup(c) \/ Save(c) \/ Abandon(c)
Next == \/ \E c \in Cmds : Command(c)
        \/ UserEdit
        \/ Outsider

Spec == Init /\ [][Next]_vars

(***************************************************************************)
(* Properties                                                              *)
(***************************************************************************)

\* No edit that was refused comes to be written, and no profile is emptied.
TypeOK == /\ pc \in [Cmds -> {"new", "read", "edit", "backup", "save", "gone"}]
          /\ request \in [Cmds -> Requests \cup {None}]
          /\ consent \in [Cmds -> BOOLEAN]
          /\ busy \subseteq Contested
          /\ profile # <<>>
          /\ \A c \in Cmds : pc[c] \in {"backup", "save"} => original[c] # <<>> /\ rendered[c] # Refused

\* The lines outside the managed block, the [Proxy] header apart.
Manual(lines) ==
  LET b == SelectInSeq(lines, IsBegin)
      e == SelectLastInSeq(lines, IsEnd)
  IN Keep(lines, {i \in DOMAIN lines : (b = 0 \/ i \notin b .. e) /\ lines[i] # Plain("[proxy]")})

\* Whatever edits came in between, and however they overlapped, [Proxy] never
\* holds two policies of one name or one local port, its block is not empty,
\* and each marker is there once or not at all (Install, Rename, Replace).
WellFormed ==
  LET begins == {i \in DOMAIN profile : IsBegin(profile[i])}
      ends == {i \in DOMAIN profile : IsEnd(profile[i])}
  IN /\ NoClash(Section(profile))
     /\ \A S \in {begins, ends} : /\ \A i, j \in S : i = j
                                  /\ S = {} <=> ManagedProxyBlock(profile) = <<>>

Saves(c) == pc[c] = "save" /\ pc'[c] = "gone" /\ profile' = rendered[c]

\* No edit adds, drops, moves or changes a line of the profile it read that is
\* outside the managed block (removeManagedProxyBlock, renderManagedProxyBlock).
ManualKept == [][\A c \in Cmds : Saves(c) => Manual(profile') = Manual(original[c])]_vars

Touched(r) == CASE r.op = "remove" -> r.names
                [] r.op = "replace" -> {r.name}
                [] OTHER -> {}

\* The children that `run' lets through before an edit, it lets through afterwards,
\* those of the policies apart that the edit is about.
TargetsKept(r, before, after) ==
  r.op # "install" /\ ManagedPoliciesOK(before) =>
    \A l \in ToSet(ManagedProxyBlock(before)) :
      l.name \notin Touched(r) => VerifyManagedRunTarget(after, l.link, l.port)

\* An edit never turns away a child that Surge still starts with the command
\* line of a policy that the edit was not about: verifyManagedRunTarget goes on
\* accepting its link and port, under a new name too.
TargetsSurvive == [][\A c \in Cmds : Saves(c) => TargetsKept(request[c], original[c], profile')]_vars

\* When an edit is about to be written, each policy that was not in the profile
\* it read has a port that no line of that profile takes and nobody listens on,
\* or one that the replaced block had (findAvailablePort).
PortsFresh ==
  [][\A c \in Cmds : pc[c] = "edit" /\ pc'[c] = "backup" /\ request[c].op \in {"add", "install"} =>
       \A l \in ToSet(ManagedProxyBlock(rendered'[c])) \ ToSet(ManagedProxyBlock(original[c])) :
         /\ l.port \notin LocalPorts(Manual(original[c]))
         /\ l.port \in busy => /\ request[c].op = "install"
                               /\ l.port \in LocalPorts(ManagedProxyBlock(original[c]))]_vars

\* What the proofs rest on: each command works on a tidy profile and writes a tidy
\* one, with the same lines of the user and the same children let through.
EditInv ==
  /\ TypeOK
  /\ Tidy(profile)
  /\ \A c \in Cmds :
       /\ pc[c] \in {"read", "edit", "backup", "save"} => request[c] \in Requests
       /\ pc[c] \in {"edit", "backup", "save"} => Tidy(original[c])
       /\ pc[c] \in {"backup", "save"} => /\ Tidy(rendered[c])
                                          /\ Manual(rendered[c]) = Manual(original[c])
                                          /\ TargetsKept(request[c], original[c], rendered[c])

\* What a command may rely on that no other overlaps: the profile is still the one
\* it read, and the backup it wrote is still there.
Alone == Cmds \ Overlapping
Serial == \A c \in AtWork \cap Alone :
            /\ AtWork = {c}
            /\ pc[c] # "read" => original[c] = profile
            /\ pc[c] = "save" => backup = profile

\* Whatever edits overlapped before, a command that no other overlaps leaves the
\* profile as it was before its edit as the backup (atomicWriteFile of the
\* original, then of the edit).
BackupIsPrevious == [][\A c \in Alone : Saves(c) => backup' = profile]_vars

\* A profile without a managed block is given its first one only after the user has
\* agreed to that, although the question is put before the profile is read
\* (addCommand, confirmFirstProfileChange).
FirstEditConfirmed ==
  [][\A c \in Alone : Saves(c) /\ request[c].op = "add" /\ ~ProfileHasManagedBlock(profile) => consent[c]]_vars
=============================================================================
