------------------------------- MODULE Releases -------------------------------
(***************************************************************************)
(* What `xcore-bridge upgrade` installs: the order on version tags, the    *)
(* choice of a release, and the checks before a binary is replaced.        *)
(*                                                                         *)
(* There may be several binaries: an upgrade compares with the version of  *)
(* the one that runs, and replaces that one or another (--target).  GitHub *)
(* publishes releases at any moment and answers two requests, each of      *)
(* which may fail.  Upgrades come one after the other, and nothing else    *)
(* replaces a binary; archives and checksums are right or wrong.           *)
(***************************************************************************)
EXTENDS Integers, Sequences

CONSTANTS Tags,     \* release tags and the versions binaries are built with
          Text,     \* what a tag is made of: the parts before and after the first "-"
          Rank,     \* the place of a tag in the order of strings
          Programs, \* paths of binaries, none of them Homebrew's
          Built,    \* the versions the binaries may have at first
          PageSize, \* how many releases the list request returns
          MaxReleases, \* bound: releases published in one behaviour
          None      \* no tag

\* A part between dots: decimal digits that fit an int, or a word, which has its
\* place in the order of strings.
Identifier == [kind : {"number", "word"}, value : Nat]

ASSUME ReleaseConstants == /\ Text \in [Tags -> [core : Seq(Identifier), pre : Seq(Identifier)]]
                           /\ Rank \in [Tags -> Nat]
                           /\ Built \subseteq Tags
                           /\ {PageSize, MaxReleases} \subseteq Nat
                           /\ None \notin Tags \cup Programs

(***************************************************************************)
(* The order on tags: Below is compareUpgradeTags(a, b) < 0                *)
(***************************************************************************)

\* parseUpgradeVersion: exactly three numbers before the first "-".
Parsed(t) == /\ Len(Text[t].core) = 3
             /\ \A i \in 1..3 : Text[t].core[i].kind = "number"

\* comparePrereleaseIdentifier: numbers come before words.
BelowIdentifier(x, y) == \/ x.kind = y.kind /\ x.value < y.value
                         \/ x.kind = "number" /\ y.kind = "word"

\* MUTANT: of two that agree as far as they go the longer one comes first.
BelowPrereleaseShort(a, b) ==
  /\ a # <<>>
  /\ \/ b = <<>>
     \/ \E i \in 1..Len(a) : /\ \A j \in 1..(i - 1) : j <= Len(b) /\ a[j] = b[j]
                             /\ i <= Len(b) => BelowIdentifier(a[i], b[i])

\* comparePrerelease: nothing comes after everything; otherwise the first
\* difference decides, the end of a list being the least.
BelowPrerelease(a, b) ==
  /\ a # <<>>
  /\ \/ b = <<>>
     \/ \E i \in 1..Len(b) : /\ \A j \in 1..(i - 1) : j <= Len(a) /\ a[j] = b[j]
                             /\ i <= Len(a) => BelowIdentifier(a[i], b[i])

\* compareUpgradeVersions.
SameCore(a, b) == \A i \in 1..3 : Text[a].core[i].value = Text[b].core[i].value
BelowVersion(a, b) ==
  \/ \E i \in 1..3 : /\ \A j \in 1..(i - 1) : Text[a].core[j].value = Text[b].core[j].value
                     /\ Text[a].core[i].value < Text[b].core[i].value
  \/ SameCore(a, b) /\ BelowPrerelease(Text[a].pre, Text[b].pre)

Below(a, b) == \/ ~Parsed(a) /\ ~Parsed(b) /\ Rank[a] < Rank[b]
               \/ ~Parsed(a) /\ Parsed(b)
               \/ Parsed(a) /\ Parsed(b) /\ BelowVersion(a, b)

(***************************************************************************)
(* GitHub                                                                  *)
(***************************************************************************)

VARIABLES releases,        \* newest first, as the API lists them
          latest,          \* the release at /releases/latest, or None
          installed,       \* the version of each binary
          at,              \* where the upgrade is
          program, current,\* the binary that runs, and the version it was built with
          target,          \* TargetPath: the binary to replace
          channel,         \* --channel; --version needs none
          force,           \* --force
          page,            \* the releases the list request returned
          index,           \* the next one the loop looks at
          first, best,     \* the loop's candidates
          chosen, via,     \* the selected tag, and where it came from
          archive          \* whether the downloaded archive is the published one

github == <<releases, latest>>
request == <<program, current, target, channel, force>>
loop == <<page, index, first, best>>
selection == <<chosen, via, archive>>
vars == <<github, installed, at, request, loop, selection>>

Kinds == {"stable", "prerelease", "draft"}
Release == [tag : Tags, kind : Kinds]
Published(t) == \E i \in DOMAIN releases : releases[i].tag = t

Init == /\ releases = <<>> /\ latest = None
        /\ installed \in [Programs -> Built]
        /\ at = "idle"
        /\ program = None /\ current = None /\ target = None
        /\ channel = "auto" /\ force = FALSE
        /\ page = <<>> /\ index = 1 /\ first = None /\ best = None
        /\ chosen = None /\ via = "none" /\ archive = "none"

\* A tag has one release.
Publish(t, k) == /\ ~Published(t) /\ Len(releases) < MaxReleases
                 /\ releases' = <<[tag |-> t, kind |-> k]>> \o releases
                 /\ latest' = IF k = "stable" THEN t ELSE latest
                 /\ UNCHANGED <<installed, at, request, loop, selection>>

\* A draft or a prerelease becomes a stable release.
Promote(i) == /\ releases[i].kind # "stable"
              /\ releases' = [releases EXCEPT ![i].kind = "stable"]
              /\ latest' = releases[i].tag
              /\ UNCHANGED <<installed, at, request, loop, selection>>

(***************************************************************************)
(* runUpgrade                                                              *)
(***************************************************************************)

Goto(from, to) == at = from /\ at' = to

\* The process ends, and its variables with it.
End(from) == /\ Goto(from, "idle")
             /\ program' = None /\ current' = None /\ target' = None
             /\ channel' = "auto" /\ force' = FALSE
             /\ page' = <<>> /\ index' = 1 /\ first' = None /\ best' = None
             /\ chosen' = None /\ via' = "none" /\ archive' = "none"
             /\ UNCHANGED github
Fail(from) == End(from) /\ UNCHANGED installed

\* The program p is run to replace q, which is itself unless --target or --bindir
\* says otherwise.  resolveUpgradeRelease takes an exact tag as it is, on any channel.
Start(p, q, ch, tag, f) ==
  /\ Goto("idle", IF tag # None THEN "validate" ELSE IF ch = "beta" THEN "beta" ELSE "stable")
  /\ program' = p /\ current' = installed[p] /\ target' = q
  /\ channel' = ch /\ force' = f
  /\ chosen' = tag /\ via' = IF tag # None THEN "tag" ELSE "none"
  /\ UNCHANGED <<github, installed, loop, archive>>

\* resolveStableRelease succeeds; a failure of any kind ends it, or sends the
\* auto channel to the prereleases.
StableAnswered == /\ Goto("stable", "decide")
                  /\ latest # None
                  /\ chosen' = latest /\ via' = "stable"
                  /\ UNCHANGED <<github, installed, request, loop, archive>>

StableFails ==
  \/ /\ Goto("stable", "beta") /\ channel = "auto"
     /\ UNCHANGED <<github, installed, request, loop, selection>>
  \/ Fail("stable") /\ channel # "auto"

\* resolveBetaRelease: the request, and the loop over what it returned.
BetaAnswered == /\ Goto("beta", "scan")
                /\ page' = SubSeq(releases, 1, IF Len(releases) < PageSize THEN Len(releases) ELSE PageSize)
                /\ index' = 1 /\ first' = None /\ best' = None
                /\ UNCHANGED <<github, installed, request, selection>>

BetaFails == Fail("beta")

Candidate(r) == r.kind = "prerelease"

Scan == LET t == page[index].tag IN
        /\ at = "scan" /\ index <= Len(page)
        /\ index' = index + 1
        /\ first' = IF first = None /\ Candidate(page[index]) THEN t ELSE first
        /\ best' = IF Candidate(page[index]) /\ Parsed(t) /\ (best = None \/ Below(best, t))
                     THEN t ELSE best
        /\ UNCHANGED <<github, installed, at, request, page, selection>>

ScanEnds == /\ index > Len(page)
            /\ \/ /\ Goto("scan", "decide") /\ first # None
                  /\ chosen' = IF best # None THEN best ELSE first
                  /\ via' = "beta"
                  /\ UNCHANGED <<github, installed, request, loop, archive>>
               \/ Fail("scan") /\ first = None

\* MUTANT: an exact version only has to differ from the current one.
ValidateDiffers ==
  LET newer == Parsed(chosen) /\ (Parsed(current) => chosen # current) IN
  \/ Goto("validate", "decide") /\ newer /\ UNCHANGED <<github, installed, request, loop, selection>>
  \/ Fail("validate") /\ ~newer

\* validateExactUpgradeVersion: newer than the program that runs, whatever the
\* binary to replace is.
Validate ==
  LET newer == Parsed(chosen) /\ (Parsed(current) => Below(current, chosen)) IN
  \/ Goto("validate", "decide") /\ newer /\ UNCHANGED <<github, installed, request, loop, selection>>
  \/ Fail("validate") /\ ~newer

\* Up to date, or only asked (--dry-run), or the download and what follows.
Decide == \/ Fail("decide")
          \/ /\ Goto("decide", "download") /\ (chosen # current \/ force)
             /\ UNCHANGED <<github, installed, request, loop, selection>>

\* downloadUpgradeFile: what arrives may be cut short or altered.
Download == /\ Goto("download", "verify")
            /\ Published(chosen)
            /\ archive' \in {"right", "wrong"}
            /\ UNCHANGED <<github, installed, request, loop, chosen, via>>

DownloadFails == Fail("download")

\* MUTANT: the checksum is not compared.
VerifyNothing == /\ Goto("verify", "extract")
                 /\ UNCHANGED <<github, installed, request, loop, selection>>

\* checksums.txt, which may not come or not list the archive.
Verify == /\ Goto("verify", "extract")
          /\ archive = "right"
          /\ UNCHANGED <<github, installed, request, loop, selection>>

VerifyFails == Fail("verify")

\* extractUpgradeBinary: the first file of that name in the archive.
Extract == /\ Goto("extract", "install")
           /\ UNCHANGED <<github, installed, request, loop, selection>>

ExtractFails == Fail("extract")

\* installUpgradeBinary: a temporary file in the same directory, and a rename.
\* Nobody knows what an archive that is not the published one installs.
Install == /\ End("install")
           /\ installed' = [installed EXCEPT ![target] = IF archive = "right" THEN chosen ELSE None]

InstallFails == Fail("install")

Next == \/ \E t \in Tags, k \in Kinds : Publish(t, k)
        \/ \E i \in DOMAIN releases : Promote(i)
        \/ \E p, q \in Programs, ch \in {"auto", "stable", "beta"}, f \in BOOLEAN : Start(p, q, ch, None, f)
        \/ \E p, q \in Programs, t \in Tags, f \in BOOLEAN : Start(p, q, "auto", t, f)
        \/ StableAnswered \/ StableFails \/ BetaAnswered \/ BetaFails
        \/ Scan \/ ScanEnds \/ Validate \/ Decide
        \/ Download \/ DownloadFails \/ Verify \/ VerifyFails
        \/ Extract \/ ExtractFails \/ Install \/ InstallFails

Spec == Init /\ [][Next]_vars

-----------------------------------------------------------------------------
(***************************************************************************)
(* Properties                                                              *)
(***************************************************************************)

Fetching == {"download", "verify", "extract", "install"}
Selected == at \in {"decide"} \cup Fetching
Places == {"idle", "stable", "beta", "scan", "validate", "decide"} \cup Fetching

\* The values the variables take: a binary is always that of a published tag,
\* whatever was downloaded, and what was selected is a tag.
TypeOK == /\ releases \in Seq(Release)
          /\ latest \in Tags \cup {None}
          /\ installed \in [Programs -> Tags]
          /\ at \in Places
          /\ program \in Programs \cup {None}
          /\ current \in Tags \cup {None}
          /\ target \in Programs \cup {None}
          /\ channel \in {"auto", "stable", "beta"}
          /\ force \in BOOLEAN
          /\ page \in Seq(Release)
          /\ index \in Nat \ {0}
          /\ first \in Tags \cup {None}
          /\ best \in Tags \cup {None}
          /\ chosen \in Tags \cup {None}
          /\ via \in {"none", "stable", "beta", "tag"}
          /\ archive \in {"none", "right", "wrong"}
          /\ Selected => chosen # None

\* Precedence as semver.org defines it, on one flat key per version: three
\* numbers, then either the identifiers of the prerelease or, for a release,
\* something above all identifiers; the end of a key is below everything.
Class(x) == IF x.kind = "number" THEN 1 ELSE 2
Key(t) == LET p == Text[t].pre IN
  [i \in 1..(3 + IF p = <<>> THEN 1 ELSE Len(p)) |->
     IF i <= 3 THEN <<0, Text[t].core[i].value>>
     ELSE IF p = <<>> THEN <<3, 0>>
     ELSE <<Class(p[i - 3]), p[i - 3].value>>]
LessPair(x, y) == x[1] < y[1] \/ (x[1] = y[1] /\ x[2] < y[2])
Precedes(a, b) ==
  \E i \in DOMAIN Key(b) : /\ \A j \in 1..(i - 1) : j \in DOMAIN Key(a) /\ Key(a)[j] = Key(b)[j]
                           /\ i \in DOMAIN Key(a) => LessPair(Key(a)[i], Key(b)[i])

\* The tag the beta channel installs is a prerelease of the page, a semantic
\* version if there is one, and no prerelease of the page has precedence
\* over it, in whatever order releases were published and however their tags are written.
BetaIsHighest ==
  Selected /\ via = "beta" =>
    /\ \E i \in DOMAIN page : Candidate(page[i]) /\ page[i].tag = chosen
    /\ \A i \in DOMAIN page :
         Candidate(page[i]) /\ Parsed(page[i].tag) => Parsed(chosen) /\ ~Precedes(chosen, page[i].tag)

\* What `upgrade --version` puts in place of a binary is of higher precedence than
\* the program that was run, which was checked before the download and in an order
\* the code computes part by part.  So a program that replaces itself is never
\* replaced by an older one; of another binary (--target) nothing is known.
ExactNeverDowngrades ==
  [][installed' # installed /\ via = "tag" =>
       /\ Parsed(current) => Precedes(current, installed'[target])
       /\ target = program /\ Parsed(installed[target]) =>
            Precedes(installed[target], installed'[target])]_vars

\* The auto channel turns to the prereleases only when no stable release exists.
AutoPrefersStable == [][at = "stable" /\ at' = "beta" => latest = None]_vars
===============================================================================
