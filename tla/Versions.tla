------------------------------ MODULE Versions ------------------------------
(***************************************************************************)
(* How tql updates itself (app/updates): a new version is downloaded,      *)
(* checked and kept in a folder beside the binary, a marker names the one  *)
(* to switch to, and the next tql that starts turns the link to it.  Every *)
(* tql is a process of its own, there is no lock, and each file operation  *)
(* is a step, between any two of which a process may die.                  *)
(*                                                                         *)
(* Versions are numbered in their order; 0 is the one the user installed,  *)
(* a plain file at the place of the link until the first switch.           *)
(***************************************************************************)
EXTENDS Integers, FiniteSets

CONSTANTS
  Processes,    \* places for processes; one that ended may be used again
  Newest,       \* bound on the releases that come out
  Kept,         \* KEPT, how many versions prune leaves
  MaxFaults,    \* bound on crashes, failed checks and failed downloads
  MaxOverlaps   \* bound on the processes begun while another is updating, and on
                \* the updates by hand where the binary that runs was replaced

ASSUME ConstantsAssumption ==
  /\ Newest \in Nat /\ Kept \in Nat \ {0} /\ MaxFaults \in Nat /\ MaxOverlaps \in Nat

VARIABLES
  link,       \* the version `tql` is
  plain,      \* whether it is still a plain file, not a link
  files,      \* the versions in the folder
  next,       \* the marker: a version, Empty or NoMarker
  installed,  \* the version remembered as installed (remembered.rs), 0 if none
  latest,     \* the latest release
  process,    \* the processes
  faults,     \* how many things went wrong
  overlaps    \* how many of those there were

folder == <<link, plain, files, next>>
bounds == <<faults, overlaps>>
vars   == <<folder, installed, latest, process, bounds>>

NoMarker  == -1
Empty     == -2     \* truncated by fs::write, and not written yet
Releases  == 1 .. Newest

\* A process starts, is started (and activated), is open, or updates: a
\* background process by check::run, a browser or `tql update` by by_hand.
Kinds == {"starting", "quiet", "by hand"}
Activating == {"marker", "checking", "linking", "unmarking", "clearing"}
Installing == {"asking", "keeping", "marking", "writing", "listing",
               "pruning", "noting"}
Steps == {"off", "started", "open"} \cup Activating \cup Installing

\* target: the release it installs; name: what it read from the marker;
\* old: what it found to prune; opened: whether the marker it opened is there
Off == [at |-> "off", kind |-> "starting", running |-> 0, target |-> 0, name |-> NoMarker,
        old |-> {}, opened |-> FALSE]

At(p, step)    == process[p].at = step
Go(p, step)    == process' = [process EXCEPT ![p].at = step]
Busy           == \E p \in Processes : process[p].at \in Activating \cup Installing
\* others_running: pgrep finds another tql
OthersRun(p)   == \E q \in Processes \ {p} : ~At(q, "off")
\* A version that can be run: its file is there
Runs(version)  == version \in files \/ (plain /\ version = 0)

Init ==
  /\ link = 0 /\ plain = TRUE
  /\ files = {} /\ next = NoMarker /\ installed = 0
  /\ latest \in {0, 1} \cap 0 .. Newest
  /\ process = [p \in Processes |-> Off]
  /\ faults = 0 /\ overlaps = 0

\* It runs from the plain file that a link has taken the place of
Replaced(p) == ~plain /\ process[p].running = 0

\* A process begins
BeginsBeside(overlap) ==
  IF overlap THEN overlaps < MaxOverlaps /\ overlaps' = overlaps + 1 ELSE UNCHANGED overlaps
Begins == BeginsBeside(Busy)
Fault  == faults < MaxFaults /\ faults' = faults + 1 /\ UNCHANGED overlaps

-----------------------------------------------------------------------------
(* Processes come and go                                                   *)

\* The user starts tql
Start(p) ==
  /\ At(p, "off")
  /\ Runs(link)
  /\ Begins
  /\ process' = [process EXCEPT ![p] = [Off EXCEPT !.at = "marker", !.running = link]]
  /\ UNCHANGED <<folder, installed, latest, faults>>

\* in_the_background, when a check is due: the binary that runs is started
\* again.  The first one has the path of the link, whatever that is now.
Spawn(p, q) ==
  /\ At(p, "started") /\ At(q, "off")
  /\ LET version == IF process[p].running = 0 THEN link ELSE process[p].running
     IN  /\ Runs(version)
         /\ Begins
         /\ process' = [process EXCEPT
              ![p].at = "open",
              ![q] = [Off EXCEPT !.at = "marker", !.kind = "quiet", !.running = version]]
  /\ UNCHANGED <<folder, installed, latest, faults>>

\* No check is due, or the file of the binary is gone
Open(p) ==
  /\ At(p, "started")
  /\ Go(p, "open")
  /\ UNCHANGED <<folder, installed, latest, bounds>>

\* :update, or the command `tql update`
ByHand(p) ==
  /\ At(p, "open")
  /\ BeginsBeside(Busy \/ Replaced(p))
  /\ process' = [process EXCEPT ![p].at = "asking", ![p].kind = "by hand"]
  /\ UNCHANGED <<folder, installed, latest, faults>>

Quit(p) ==
  /\ At(p, "open")
  /\ process' = [process EXCEPT ![p] = Off]
  /\ UNCHANGED <<folder, installed, latest, bounds>>

\* A process dies in the middle of anything
Crash(p) ==
  /\ process[p].at \in Activating \cup Installing
  /\ Fault
  /\ process' = [process EXCEPT ![p] = Off]
  /\ UNCHANGED <<folder, installed, latest>>

\* A new release comes out
Release ==
  /\ latest < Newest
  /\ latest' = latest + 1
  /\ UNCHANGED <<folder, installed, process, bounds>>

-----------------------------------------------------------------------------
(* Versions::activate, at the start of a process or after by_hand           *)

\* What follows an activation that did not switch
Resumed(p) ==
  [process[p] EXCEPT
     !.name = NoMarker, !.target = 0, !.old = {},
     !.kind = IF @ = "by hand" THEN "starting" ELSE @,
     !.at   = CASE process[p].kind = "starting" -> "started"
                [] process[p].kind = "quiet"    -> "asking"
                [] process[p].kind = "by hand"  -> "open"]

\* The marker is read
ReadMarker(p) ==
  /\ At(p, "marker")
  /\ process' = [process EXCEPT ![p] = IF next = NoMarker THEN Resumed(p)
                                      ELSE [@ EXCEPT !.name = next, !.at = "checking"]]
  /\ UNCHANGED <<folder, installed, latest, bounds>>

\* A plain binary is not replaced under another tql that runs from it,
\* unless the user asks for the update
Waits(p) == plain /\ process[p].kind # "by hand" /\ OthersRun(p)

Unless(p, waits, step) ==
  IF waits THEN process' = [process EXCEPT ![p] = Resumed(p)] ELSE Go(p, step)

\* Mutant of Check: whatever the marker says is linked
CheckNothing(p) ==
  /\ At(p, "checking")
  /\ Unless(p, Waits(p), "linking")
  /\ UNCHANGED <<folder, installed, latest, bounds>>

\* Mutant of Check: a marker that has to wait is removed
CheckOnce(p) ==
  /\ At(p, "checking")
  /\ Go(p, IF process[p].name \notin files \/ Waits(p) THEN "clearing" ELSE "linking")
  /\ UNCHANGED <<folder, installed, latest, bounds>>

\* It must name a file that is there
Check(p) ==
  /\ At(p, "checking")
  /\ IF process[p].name \notin files THEN Go(p, "clearing")
     ELSE Unless(p, Waits(p), "linking")
  /\ UNCHANGED <<folder, installed, latest, bounds>>

\* A link made beside it is renamed over the old one
Link(p) ==
  /\ At(p, "linking")
  /\ link' = process[p].name
  /\ plain' = FALSE
  /\ Go(p, "unmarking")
  /\ UNCHANGED <<files, next, installed, latest, bounds>>

\* A removed marker is not the one another process has open
Unmark == [q \in Processes |-> [process[q] EXCEPT !.opened = FALSE]]

\* A marker that names nothing is removed
ClearMarker(p) ==
  /\ At(p, "clearing")
  /\ next' = NoMarker
  /\ process' = [Unmark EXCEPT ![p] = Resumed(p)]
  /\ UNCHANGED <<link, plain, files, installed, latest, bounds>>

\* The marker is removed; a process that starts then runs what the link is
\* now, which looks for a marker again (activate_on_start)
RemoveMarker(p) ==
  /\ At(p, "unmarking")
  /\ next' = NoMarker
  /\ process' = [Unmark EXCEPT ![p] =
       IF process[p].kind # "by hand" /\ Runs(link)
       THEN [Off EXCEPT !.at = "marker", !.kind = process[p].kind, !.running = link]
       ELSE Resumed(p)]
  /\ UNCHANGED <<link, plain, files, installed, latest, bounds>>

-----------------------------------------------------------------------------
(* check::run and check::by_hand                                           *)

Ends(p) == process' = [process EXCEPT ![p] =
             IF process[p].kind = "quiet" THEN Off
             ELSE [Off EXCEPT !.at = "open", !.running = process[p].running]]

\* Mutant of AskLatest: what was installed once is not installed again
AskOnce(p) ==
  /\ At(p, "asking")
  /\ IF latest > installed
     THEN process' = [process EXCEPT ![p].at = "keeping", ![p].target = latest]
     ELSE Ends(p)
  /\ UNCHANGED <<folder, installed, latest, bounds>>

\* The latest release is asked for: only a newer one is of interest
AskLatest(p) ==
  /\ At(p, "asking")
  /\ IF latest > process[p].running
     THEN process' = [process EXCEPT ![p].at = "keeping", ![p].target = latest]
     ELSE Ends(p)
  /\ UNCHANGED <<folder, installed, latest, bounds>>

\* The service is not there, the download does not match its checksum or
\* does not run as its version, or a file cannot be written
Refused(p) ==
  /\ process[p].at \in {"asking", "keeping", "marking"}
  /\ Fault
  /\ Ends(p)
  /\ UNCHANGED <<folder, installed, latest>>

\* It is downloaded, matches its checksum, says it is its version, and is
\* renamed into place (verify_and_keep)
Keep(p) ==
  /\ At(p, "keeping")
  /\ files' = files \cup {process[p].target}
  /\ Go(p, "marking")
  /\ UNCHANGED <<link, plain, next, installed, latest, bounds>>

\* stage: fs::write opens and truncates the marker,
OpenMarker(p) ==
  /\ At(p, "marking")
  /\ next' = Empty
  /\ process' = [process EXCEPT ![p].at = "writing", ![p].opened = TRUE]
  /\ UNCHANGED <<link, plain, files, installed, latest, bounds>>

\* and writes it, to a file that may be removed by now
WriteMarker(p) ==
  /\ At(p, "writing")
  /\ next' = IF process[p].opened THEN process[p].target ELSE next
  /\ process' = [process EXCEPT ![p].at = "listing", ![p].opened = FALSE]
  /\ UNCHANGED <<link, plain, files, installed, latest, bounds>>

\* Mutant of Outdated: one fewer is kept
OutdatedTooMany(versions) ==
  {v \in versions : Cardinality({w \in versions : w > v}) >= Kept - 1}

\* Mutant of Outdated: the lowest are kept
OutdatedHighest(versions) ==
  {v \in versions : Cardinality({w \in versions : w < v}) >= Kept}

\* All but the KEPT highest
Outdated(versions) ==
  {v \in versions : Cardinality({w \in versions : w > v}) >= Kept}

\* prune lists the folder,
ListOld(p) ==
  /\ At(p, "listing")
  /\ process' = [process EXCEPT ![p].at = "pruning", ![p].old = Outdated(files)]
  /\ UNCHANGED <<folder, installed, latest, bounds>>

\* and removes what is old
Prune(p) ==
  /\ At(p, "pruning")
  /\ files' = files \ process[p].old
  /\ Go(p, "noting")
  /\ UNCHANGED <<link, plain, next, installed, latest, bounds>>

\* The version is remembered as installed, and by hand a link is switched
\* at once (switches_safely_now).  A process whose plain file was replaced
\* finds the link or not, as the system tells it its path (running_path).
Note(p) ==
  /\ At(p, "noting")
  /\ installed' = process[p].target
  /\ \/ process[p].kind = "by hand" /\ ~plain /\ Go(p, "marker")
     \/ (process[p].kind = "quiet" \/ plain \/ process[p].running = 0) /\ Ends(p)
  /\ UNCHANGED <<folder, latest, bounds>>

-----------------------------------------------------------------------------

Activate(p) ==
  ReadMarker(p) \/ Check(p) \/ Link(p) \/ ClearMarker(p) \/ RemoveMarker(p)

Install(p) ==
  \/ AskLatest(p) \/ Keep(p) \/ OpenMarker(p) \/ WriteMarker(p)
  \/ ListOld(p) \/ Prune(p) \/ Note(p)

Next ==
  \/ \E p \in Processes :
       \/ Start(p) \/ Open(p) \/ ByHand(p) \/ Quit(p)
       \/ Activate(p) \/ Install(p) \/ Refused(p) \/ Crash(p)
       \/ \E q \in Processes : Spawn(p, q)
  \/ Release

Spec == Init /\ [][Next]_vars

\* A process runs to its end; a user who is given a tql quits it some day,
\* starts another, and is due a check again and again (EVERY_SECONDS).
Fairness ==
  /\ \A p \in Processes : WF_vars(Activate(p) \/ Install(p)) /\ WF_vars(Quit(p))
  /\ WF_vars(\E p \in Processes : Start(p))
  /\ \A p \in Processes : WF_vars(Open(p) \/ \E q \in Processes : Spawn(p, q))
  /\ SF_vars(\E p, q \in Processes : Spawn(p, q))

FairSpec == Spec /\ Fairness

-----------------------------------------------------------------------------
(* Properties *)

\* The type of every variable.
TypeOK ==
  /\ link \in 0 .. Newest /\ plain \in BOOLEAN
  /\ files \subseteq Releases /\ next \in Releases \cup {NoMarker, Empty}
  /\ installed \in 0 .. Newest /\ latest \in 0 .. Newest
  /\ process \in [Processes ->
       [at : Steps, kind : Kinds, running : 0 .. Newest, target : 0 .. Newest,
        name : Releases \cup {NoMarker, Empty}, old : SUBSET Releases, opened : BOOLEAN]]
  /\ faults \in 0 .. MaxFaults /\ overlaps \in 0 .. MaxOverlaps

\* There is always a tql to start: what `tql` links to is in the folder,
\* although prune never asks what is linked.  The KEPT versions have to hold
\* the linked one, the one that waits for the next start, the one that an
\* update in hand adds, two for each fault (the version whose marker it lost,
\* and the one that waited before it), and three for each overlap, as both
\* may lose theirs.  With fewer, `tql` comes to lead nowhere.
LinkRuns == 2 + 2 * faults + 3 * overlaps + (IF Busy THEN 1 ELSE 0) <= Kept => Runs(link)

\* "tql ... is ready" (check::notice) of a version that is there, or that a
\* newer one has taken the place of: it is remembered only once it is kept.
ReadyIsKept == installed # 0 => \E v \in files : v >= installed

\* "... is ready, restart to use it" (check::notice): unless something went
\* wrong or overlapped, the marker names what is ready until it is used.
ReadyIsTrue ==
  ~Busy /\ faults + overlaps = 0 /\ installed > link => next = installed

\* The latest release comes to be the one that is used, whatever went wrong
\* on the way, for a user who closes every tql now and then: an update that
\* was lost is found missing by the next check, since it compares with the
\* version that runs and not with what was installed.
LatestIsUsed ==
  [](Runs(link)) /\ []<>(\A p \in Processes : At(p, "off")) => <>[](link = latest)
=============================================================================
