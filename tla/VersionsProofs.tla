--------------------------- MODULE VersionsProofs ---------------------------
(***************************************************************************)
(* Proofs about the update, for any number of processes, releases, faults  *)
(* and overlaps, and any number of versions that prune leaves but none:    *)
(* the types, that what is said to be ready is kept, and, as long as       *)
(* nothing went wrong or overlapped, that the marker names it; and that    *)
(* there is a tql to start.                                                *)
(***************************************************************************)
EXTENDS Versions, FiniteSetTheorems, WellFoundedInduction, TLAPS

\* Versions are kept from where a download is in place
Holding == {"marking", "writing", "listing", "pruning", "noting"}

Processing ==
  [at : Steps, kind : Kinds, running : 0 .. Newest, target : 0 .. Newest,
   name : Releases \cup {NoMarker, Empty}, old : SUBSET Releases, opened : BOOLEAN]

\* What a process installs is a release and is in the folder, or a later one
\* is; what it links is a version; and it prunes less than the highest one
\* there is.
Sound(r, there) ==
  /\ r.at \in {"keeping"} \cup Holding => r.target \in Releases
  /\ r.at \in Holding => \E v \in there : v >= r.target
  /\ r.at = "linking" => r.name \in Releases
  /\ r.old # {} => \E v \in there : \A w \in r.old : w < v

Inv == TypeOK /\ ReadyIsKept /\ \A p \in Processes : Sound(process[p], files)

\* A set of versions has a highest one.
LEMMA Highest ==
  ASSUME NEW S \in SUBSET Releases, S # {}
  PROVE  \E m \in S : \A v \in S : v <= m
<1> DEFINE T == {Newest - v : v \in S}
<1>1. T \subseteq Nat /\ T # {}
  <2>1. \A v \in S : Newest - v \in Nat
    BY ConstantsAssumption DEF Releases
  <2>2. PICK v \in S : TRUE
    OBVIOUS
  <2>3. Newest - v \in T
    BY <2>2
  <2> QED
    BY <2>1, <2>3
<1>2. \E x \in T : \A y \in T : ~ (<<y, x>> \in OpToRel(<, Nat))
  BY <1>1, NatLessThanWellFounded, WFMin
<1>3. PICK x \in T : \A y \in T : ~ (y < x)
  BY <1>1, <1>2 DEF OpToRel
<1>4. PICK m \in S : x = Newest - m
  OBVIOUS
<1>5. \A v \in S : v <= m
  <2> TAKE v \in S
  <2>1. ~ (Newest - v < Newest - m)
    BY <1>3, <1>4
  <2> QED
    BY <2>1, ConstantsAssumption DEF Releases
<1> QED
  BY <1>5

\* What is outdated is below the highest version, as KEPT is not zero.
LEMMA OutdatedIsBelow ==
  ASSUME NEW S \in SUBSET Releases, Outdated(S) # {}
  PROVE  \E m \in S : \A w \in Outdated(S) : w < m
<1>1. S # {}
  BY DEF Outdated
<1>2. PICK m \in S : \A v \in S : v <= m
  BY <1>1, Highest
<1>3. m \notin Outdated(S)
  <2>1. \A w \in S : ~ (w > m)
    BY <1>2 DEF Releases
  <2>2. Cardinality({}) = 0
    BY FS_EmptySet
  <2>3. {w \in S : w > m} = {}
    BY <2>1
  <2> QED
    BY <2>2, <2>3, ConstantsAssumption DEF Outdated
<1>4. \A w \in Outdated(S) : w < m
  <2> TAKE w \in Outdated(S)
  <2>1. w \in S /\ w # m
    BY <1>3 DEF Outdated
  <2> QED
    BY <1>2, <2>1 DEF Releases
<1> QED
  BY <1>4

\* Nothing is pruned of which not a later version stays.
LEMMA PruneLeavesLater ==
  ASSUME NEW there \in SUBSET Releases, NEW r \in Processing, Sound(r, there),
         NEW v \in there
  PROVE  \E u \in there \ r.old : u >= v
<1>1. there \subseteq Nat /\ r.old \subseteq Nat
  BY DEF Processing, Releases
<1>2. CASE v \notin r.old
  BY <1>1, <1>2
<1>3. CASE v \in r.old
  <2>1. PICK u \in there : \A w \in r.old : w < u
    BY <1>3 DEF Sound
  <2>2. u \notin r.old /\ u >= v
    BY <1>1, <1>3, <2>1
  <2> QED
    BY <2>2
<1> QED
  BY <1>2, <1>3

\* What is sound stays so when another process prunes,
LEMMA SoundPruned ==
  ASSUME NEW there \in SUBSET Releases,
         NEW r \in Processing, Sound(r, there),
         NEW other \in Processing, Sound(other, there)
  PROVE  Sound(other, there \ r.old)
<1>1. there \subseteq Nat /\ r.old \subseteq Nat /\ other.old \subseteq Nat /\ other.target \in Nat
  BY ConstantsAssumption DEF Processing, Releases
<1>2. other.at \in Holding => \E v \in there \ r.old : v >= other.target
  <2> SUFFICES ASSUME other.at \in Holding PROVE \E v \in there \ r.old : v >= other.target
    OBVIOUS
  <2>1. PICK v \in there : v >= other.target
    BY DEF Sound
  <2>2. PICK u \in there \ r.old : u >= v
    BY PruneLeavesLater
  <2> QED
    BY <1>1, <2>1, <2>2
<1>3. other.old # {} => \E v \in there \ r.old : \A w \in other.old : w < v
  <2> SUFFICES ASSUME other.old # {}
               PROVE  \E v \in there \ r.old : \A w \in other.old : w < v
    OBVIOUS
  <2>1. PICK v \in there : \A w \in other.old : w < v
    BY DEF Sound
  <2>2. PICK u \in there \ r.old : u >= v
    BY PruneLeavesLater
  <2> QED
    BY <1>1, <2>1, <2>2
<1> QED
  BY <1>2, <1>3 DEF Sound

\* and when a version is added.
LEMMA SoundGrows ==
  ASSUME NEW r, NEW A, NEW B, A \subseteq B, Sound(r, A)
  PROVE  Sound(r, B)
BY DEF Sound

\* The initial state satisfies the invariant.
LEMMA InitInv == Init => Inv
<1> SUFFICES ASSUME Init PROVE Inv
  OBVIOUS
<1>1. Off \in Processing
  BY ConstantsAssumption DEF Off, Processing, Steps, Kinds
<1>2. TypeOK
  BY <1>1, ConstantsAssumption DEF Init, TypeOK, Processing, Releases
<1>3. \A p \in Processes : Sound(process[p], files)
  BY DEF Init, Off, Sound, Holding
<1> QED
  BY <1>2, <1>3 DEF Inv, Init, ReadyIsKept

\* What a step of one process has to show.
LEMMA StepsSoundly ==
  ASSUME Inv, NEW p \in Processes, NEW r \in Processing, Sound(r, files),
         process' = [process EXCEPT ![p] = r], files' = files
  PROVE  /\ process' \in [Processes -> Processing]
         /\ \A q \in Processes : Sound(process'[q], files')
BY DEF Inv, TypeOK, Processing

\* The same of one that removes the marker.
LEMMA StepsUnmarked ==
  ASSUME Inv, NEW p \in Processes, NEW r \in Processing, Sound(r, files),
         process' = [Unmark EXCEPT ![p] = r], files' = files
  PROVE  /\ process' \in [Processes -> Processing]
         /\ \A q \in Processes : Sound(process'[q], files')
<1>1. process \in [Processes -> Processing] /\ \A q \in Processes : Sound(process[q], files)
  BY DEF Inv, TypeOK, Processing
<1>2. \A q \in Processes :
        /\ [process[q] EXCEPT !.opened = FALSE] \in Processing
        /\ Sound([process[q] EXCEPT !.opened = FALSE], files)
  BY <1>1 DEF Processing, Sound
<1> QED
  BY <1>2 DEF Unmark

\* A process that ends or carries on after an activation is sound.
LEMMA RestsSound ==
  ASSUME Inv, NEW p \in Processes
  PROVE  /\ Off \in Processing /\ Sound(Off, files)
         /\ Resumed(p) \in Processing /\ Sound(Resumed(p), files)
         /\ \A v \in 0 .. Newest, k \in Kinds :
              LET r == [Off EXCEPT !.at = "marker", !.kind = k, !.running = v]
              IN  r \in Processing /\ Sound(r, files)
         /\ \A v \in 0 .. Newest, s \in {"marker", "open"} :
              LET r == [Off EXCEPT !.at = s, !.running = v]
              IN  r \in Processing /\ Sound(r, files)
<1>1. process[p] \in Processing
  BY DEF Inv, TypeOK, Processing
<1>2. Off \in Processing /\ Sound(Off, files)
  BY ConstantsAssumption DEF Off, Processing, Steps, Kinds, Sound, Holding
<1>3. process[p].kind \in {"starting", "quiet", "by hand"}
  BY <1>1 DEF Processing, Kinds
<1>4. Resumed(p).at \in {"started", "asking", "open"}
  BY <1>1, <1>3 DEF Resumed, Processing
<1>5. Resumed(p) \in Processing /\ Resumed(p).old = {}
  <2>1. Resumed(p).at \in Steps
    BY <1>4 DEF Steps, Activating, Installing
  <2>2. (IF process[p].kind = "by hand" THEN "starting" ELSE process[p].kind) \in Kinds
    BY <1>3 DEF Kinds
  <2> DEFINE k == IF process[p].kind = "by hand" THEN "starting" ELSE process[p].kind
             s == Resumed(p).at
  <2>3. Resumed(p) = [process[p] EXCEPT !.name = NoMarker, !.target = 0, !.old = {},
                                        !.kind = k, !.at = s]
    BY <1>1, <1>3 DEF Resumed, Processing
  <2>4. k \in Kinds /\ s \in Steps
    BY <2>1, <2>2
  <2> HIDE DEF k, s
  <2>5. /\ process[p].running \in 0 .. Newest /\ process[p].opened \in BOOLEAN
        /\ 0 \in 0 .. Newest /\ NoMarker \in Releases \cup {NoMarker, Empty}
        /\ {} \in SUBSET Releases
    BY <1>1, ConstantsAssumption DEF Processing
  <2>6. Resumed(p) = [at |-> s, kind |-> k, running |-> process[p].running, target |-> 0,
                      name |-> NoMarker, old |-> {}, opened |-> process[p].opened]
    BY <1>1, <2>3 DEF Processing
  <2> QED
    BY <2>4, <2>5, <2>6 DEF Processing
<1>6. Sound(Resumed(p), files)
  BY <1>4, <1>5 DEF Sound, Holding
<1>7. ASSUME NEW v \in 0 .. Newest, NEW k \in Kinds
      PROVE  LET r == [Off EXCEPT !.at = "marker", !.kind = k, !.running = v]
             IN  r \in Processing /\ Sound(r, files)
  BY <1>2 DEF Off, Processing, Steps, Activating, Sound, Holding
<1>8. ASSUME NEW v \in 0 .. Newest, NEW s \in {"marker", "open"}
      PROVE  LET r == [Off EXCEPT !.at = s, !.running = v]
             IN  r \in Processing /\ Sound(r, files)
  BY <1>2 DEF Off, Processing, Steps, Activating, Sound, Holding
<1> QED
  BY <1>2, <1>5, <1>6, <1>7, <1>8

\* So is one that is done with its update.
LEMMA EndsSound ==
  ASSUME Inv, NEW p \in Processes, Ends(p), files' = files
  PROVE  /\ process' \in [Processes -> Processing]
         /\ \A q \in Processes : Sound(process'[q], files')
<1>1. process[p].running \in 0 .. Newest
  BY DEF Inv, TypeOK
<1>2. CASE process[p].kind = "quiet"
  <2>1. process' = [process EXCEPT ![p] = Off]
    BY <1>2 DEF Ends
  <2> QED
    BY <2>1, RestsSound, StepsSoundly
<1>3. CASE process[p].kind # "quiet"
  <2> DEFINE r == [Off EXCEPT !.at = "open", !.running = process[p].running]
  <2>1. r \in Processing /\ Sound(r, files)
    BY <1>1, RestsSound DEF Kinds
  <2>2. process' = [process EXCEPT ![p] = r]
    BY <1>3 DEF Ends
  <2> QED
    BY <2>1, <2>2, StepsSoundly
<1> QED
  BY <1>2, <1>3

\* The three parts of the invariant that a step of a process disturbs make
\* it hold again, when the rest of the variables keep their types.
LEMMA Recombined ==
  ASSUME Inv,
         link' \in 0 .. Newest, plain' \in BOOLEAN, files' \subseteq Releases,
         next' \in Releases \cup {NoMarker, Empty},
         installed' \in 0 .. Newest, latest' \in 0 .. Newest,
         process' \in [Processes -> Processing],
         faults' \in 0 .. MaxFaults, overlaps' \in 0 .. MaxOverlaps,
         \A p \in Processes : Sound(process'[p], files'),
         installed' # 0 => \E v \in files' : v >= installed'
  PROVE  Inv'
<1>1. TypeOK'
  BY DEF TypeOK, Processing
<1>2. ReadyIsKept'
  BY DEF ReadyIsKept
<1> QED
  BY <1>1, <1>2 DEF Inv

\* The bounds stay bounds.
LEMMA Bounded ==
  ASSUME Inv, \/ UNCHANGED bounds
              \/ UNCHANGED faults /\ \E overlap \in BOOLEAN : BeginsBeside(overlap)
              \/ Fault
  PROVE  faults' \in 0 .. MaxFaults /\ overlaps' \in 0 .. MaxOverlaps
<1>1. faults \in 0 .. MaxFaults /\ overlaps \in 0 .. MaxOverlaps
  BY DEF Inv, TypeOK
<1> QED
  BY <1>1, ConstantsAssumption DEF bounds, BeginsBeside, Fault

\* Every step of a process that is started, opened or ended keeps the
\* invariant.
LEMMA ComesAndGoes ==
  ASSUME Inv, NEW p \in Processes,
         \/ Start(p) \/ Open(p) \/ ByHand(p) \/ Quit(p) \/ Refused(p) \/ Crash(p)
         \/ \E q \in Processes : Spawn(p, q)
  PROVE  Inv'
<1>1. /\ TypeOK /\ ReadyIsKept
      /\ process \in [Processes -> Processing] /\ process[p] \in Processing
      /\ Sound(process[p], files)
  BY DEF Inv, TypeOK, Processing
<1>2. UNCHANGED <<folder, installed, latest>>
  BY DEF Start, Open, ByHand, Quit, Refused, Crash, Spawn
<1>3. faults' \in 0 .. MaxFaults /\ overlaps' \in 0 .. MaxOverlaps
  <2>1. CASE Start(p) \/ \E q \in Processes : Spawn(p, q)
    <3>1. UNCHANGED faults /\ BeginsBeside(Busy) /\ Busy \in BOOLEAN
      BY <2>1 DEF Start, Spawn, Begins, Busy
    <3> QED
      BY <3>1, Bounded
  <2>2. CASE ByHand(p)
    <3>1. /\ UNCHANGED faults /\ BeginsBeside(Busy \/ Replaced(p))
          /\ (Busy \/ Replaced(p)) \in BOOLEAN
      BY <2>2 DEF ByHand, Busy, Replaced
    <3> QED
      BY <3>1, Bounded
  <2>3. CASE Open(p) \/ Quit(p) \/ Refused(p) \/ Crash(p)
    BY <2>3, Bounded DEF Open, Quit, Refused, Crash
  <2> QED
    BY <2>1, <2>2, <2>3
<1>4. SUFFICES /\ process' \in [Processes -> Processing]
               /\ \A q \in Processes : Sound(process'[q], files')
  BY <1>1, <1>2, <1>3, Recombined DEF folder, TypeOK, ReadyIsKept
<1>5. CASE Start(p)
  <2> DEFINE r == [Off EXCEPT !.at = "marker", !.running = link]
  <2>1. r \in Processing /\ Sound(r, files)
    BY <1>1, RestsSound DEF TypeOK, Kinds
  <2>2. process' = [process EXCEPT ![p] = r]
    BY <1>5 DEF Start
  <2> QED
    BY <1>2, <2>1, <2>2, StepsSoundly DEF folder
<1>6. CASE Open(p)
  <2> DEFINE r == [process[p] EXCEPT !.at = "open"]
  <2>1. r \in Processing /\ Sound(r, files)
    BY <1>1 DEF Processing, Steps, Sound, Holding
  <2>2. process' = [process EXCEPT ![p] = r]
    BY <1>6 DEF Open, Go
  <2> QED
    BY <1>2, <2>1, <2>2, StepsSoundly DEF folder
<1>7. CASE ByHand(p)
  <2> DEFINE r == [process[p] EXCEPT !.at = "asking", !.kind = "by hand"]
  <2>1. r \in Processing /\ Sound(r, files)
    BY <1>1 DEF Processing, Steps, Installing, Kinds, Sound, Holding
  <2>2. process' = [process EXCEPT ![p] = r]
    BY <1>7 DEF ByHand
  <2> QED
    BY <1>2, <2>1, <2>2, StepsSoundly DEF folder
<1>8. CASE Quit(p) \/ Crash(p)
  <2>1. process' = [process EXCEPT ![p] = Off]
    BY <1>8 DEF Quit, Crash
  <2> QED
    BY <1>2, <2>1, RestsSound, StepsSoundly DEF folder
<1>9. CASE Refused(p)
  <2>1. Ends(p)
    BY <1>9 DEF Refused
  <2> QED
    BY <1>2, <2>1, EndsSound DEF folder
<1>10. CASE \E q \in Processes : Spawn(p, q)
  <2>1. PICK q \in Processes : Spawn(p, q)
    BY <1>10
  <2> DEFINE version == IF process[p].running = 0 THEN link ELSE process[p].running
             r == [process[p] EXCEPT !.at = "open"]
             child == [Off EXCEPT !.at = "marker", !.kind = "quiet", !.running = version]
  <2>2. version \in 0 .. Newest
    BY <1>1 DEF TypeOK, Processing
  <2>3. child \in Processing /\ Sound(child, files)
    BY <2>2, RestsSound DEF Kinds
  <2>4. r \in Processing /\ Sound(r, files)
    BY <1>1 DEF Processing, Steps, Sound, Holding
  <2>5. process' = [process EXCEPT ![p] = r, ![q] = child]
    BY <2>1 DEF Spawn
  <2> HIDE DEF r, child
  <2> QED
    BY <1>1, <1>2, <2>3, <2>4, <2>5 DEF folder, Inv
<1> QED
  BY <1>5, <1>6, <1>7, <1>8, <1>9, <1>10

\* Every step of an activation keeps the invariant.
LEMMA Activates ==
  ASSUME Inv, NEW p \in Processes, Activate(p)
  PROVE  Inv'
<1>1. /\ TypeOK /\ ReadyIsKept
      /\ process \in [Processes -> Processing] /\ process[p] \in Processing
      /\ Sound(process[p], files)
  BY DEF Inv, TypeOK, Processing
<1>2. /\ UNCHANGED <<files, installed, latest>>
      /\ faults' \in 0 .. MaxFaults /\ overlaps' \in 0 .. MaxOverlaps
  BY Bounded DEF Activate, ReadMarker, Check, Link, ClearMarker, RemoveMarker, folder, bounds
<1>3. /\ link' \in 0 .. Newest /\ plain' \in BOOLEAN
      /\ next' \in Releases \cup {NoMarker, Empty}
  <2>1. CASE Link(p)
    <3>1. process[p].name \in 0 .. Newest
      BY <1>1, <2>1 DEF Link, At, Sound, Releases
    <3> QED
      BY <1>1, <2>1, <3>1 DEF Link, TypeOK
  <2>2. CASE ClearMarker(p) \/ RemoveMarker(p)
    BY <1>1, <2>2 DEF ClearMarker, RemoveMarker, TypeOK
  <2>3. CASE ReadMarker(p) \/ Check(p)
    BY <1>1, <2>3 DEF ReadMarker, Check, folder, TypeOK
  <2> QED
    BY <2>1, <2>2, <2>3 DEF Activate
<1>4. SUFFICES /\ process' \in [Processes -> Processing]
               /\ \A q \in Processes : Sound(process'[q], files')
  BY <1>1, <1>2, <1>3, Recombined DEF TypeOK, ReadyIsKept
<1>5. ASSUME process' = [process EXCEPT ![p] = Resumed(p)]
      PROVE  /\ process' \in [Processes -> Processing]
             /\ \A q \in Processes : Sound(process'[q], files')
  BY <1>2, <1>5, RestsSound, StepsSoundly
<1>6. ASSUME NEW step \in Steps, Go(p, step), step \notin {"keeping"} \cup Holding,
             step = "linking" => process[p].name \in Releases
      PROVE  /\ process' \in [Processes -> Processing]
             /\ \A q \in Processes : Sound(process'[q], files')
  <2> DEFINE r == [process[p] EXCEPT !.at = step]
  <2>1. r \in Processing /\ Sound(r, files)
    BY <1>1, <1>6 DEF Processing, Sound
  <2>2. process' = [process EXCEPT ![p] = r]
    BY <1>6 DEF Go
  <2> QED
    BY <1>2, <2>1, <2>2, StepsSoundly
<1>7. CASE ReadMarker(p)
  <2>1. CASE next = NoMarker
    BY <1>5, <1>7, <2>1 DEF ReadMarker
  <2>2. CASE next # NoMarker
    <3> DEFINE r == [process[p] EXCEPT !.name = next, !.at = "checking"]
    <3>1. r \in Processing /\ Sound(r, files)
      BY <1>1 DEF TypeOK, Processing, Steps, Activating, Sound, Holding
    <3>2. process' = [process EXCEPT ![p] = r]
      BY <1>7, <2>2 DEF ReadMarker
    <3> QED
      BY <1>2, <3>1, <3>2, StepsSoundly
  <2> QED
    BY <2>1, <2>2
<1>8. CASE Check(p)
  <2>1. CASE process[p].name \notin files
    BY <1>6, <1>8, <2>1 DEF Check, Steps, Activating, Holding
  <2>2. CASE process[p].name \in files /\ Waits(p)
    BY <1>5, <1>8, <2>2 DEF Check, Unless
  <2>3. CASE process[p].name \in files /\ ~ Waits(p)
    <3>1. Go(p, "linking")
      BY <1>8, <2>3 DEF Check, Unless
    <3>2. process[p].name \in Releases
      BY <1>1, <2>3 DEF TypeOK
    <3> QED
      BY <1>6, <3>1, <3>2 DEF Steps, Activating, Holding
  <2> QED
    BY <2>1, <2>2, <2>3
<1>9. CASE Link(p)
  BY <1>6, <1>9 DEF Link, Steps, Activating, Holding
<1>10. CASE ClearMarker(p)
  BY <1>2, <1>10, RestsSound, StepsUnmarked DEF ClearMarker
<1>11. CASE RemoveMarker(p)
  <2>1. CASE process[p].kind # "by hand" /\ Runs(link)
    <3> DEFINE r == [Off EXCEPT !.at = "marker", !.kind = process[p].kind, !.running = link]
    <3>1. r \in Processing /\ Sound(r, files)
      BY <1>1, RestsSound DEF TypeOK, Processing
    <3>2. process' = [Unmark EXCEPT ![p] = r]
      BY <1>11, <2>1 DEF RemoveMarker
    <3> QED
      BY <1>2, <3>1, <3>2, StepsUnmarked
  <2>2. CASE ~ (process[p].kind # "by hand" /\ Runs(link))
    <3>1. process' = [Unmark EXCEPT ![p] = Resumed(p)]
      BY <1>11, <2>2 DEF RemoveMarker
    <3> QED
      BY <1>2, <3>1, RestsSound, StepsUnmarked
  <2> QED
    BY <2>1, <2>2
<1> QED
  BY <1>7, <1>8, <1>9, <1>10, <1>11 DEF Activate

\* Every step of an update keeps the invariant.
LEMMA Installs ==
  ASSUME Inv, NEW p \in Processes, Install(p)
  PROVE  Inv'
<1>1. /\ TypeOK /\ ReadyIsKept
      /\ process \in [Processes -> Processing] /\ process[p] \in Processing
      /\ Sound(process[p], files)
      /\ \A q \in Processes : Sound(process[q], files)
  BY DEF Inv, TypeOK, Processing
<1>2. /\ UNCHANGED <<link, plain, latest>>
      /\ faults' \in 0 .. MaxFaults /\ overlaps' \in 0 .. MaxOverlaps
  BY Bounded DEF Install, AskLatest, Keep, OpenMarker, WriteMarker, ListOld, Prune, Note,
                 folder, bounds
<1>3. ASSUME UNCHANGED <<files, installed>>, next' \in Releases \cup {NoMarker, Empty},
             process' \in [Processes -> Processing],
             \A q \in Processes : Sound(process'[q], files')
      PROVE  Inv'
  BY <1>1, <1>2, <1>3, Recombined DEF TypeOK, ReadyIsKept
<1>4. ASSUME NEW r \in Processing, Sound(r, files), process' = [process EXCEPT ![p] = r],
             UNCHANGED <<files, installed>>, next' \in Releases \cup {NoMarker, Empty}
      PROVE  Inv'
  BY <1>3, <1>4, StepsSoundly
<1>5. CASE AskLatest(p)
  <2>1. UNCHANGED <<files, installed>> /\ next' \in Releases \cup {NoMarker, Empty}
    BY <1>1, <1>5 DEF AskLatest, folder, TypeOK
  <2>2. CASE latest > process[p].running
    <3> DEFINE r == [process[p] EXCEPT !.at = "keeping", !.target = latest]
    <3>1. latest \in Releases
      BY <1>1, <2>2 DEF TypeOK, Processing, Releases
    <3>2. r \in Processing /\ Sound(r, files)
      BY <1>1, <3>1 DEF TypeOK, Processing, Steps, Installing, Sound, Holding
    <3>3. process' = [process EXCEPT ![p] = r]
      BY <1>5, <2>2 DEF AskLatest
    <3> QED
      BY <1>4, <2>1, <3>2, <3>3
  <2>3. CASE ~ (latest > process[p].running)
    <3>1. Ends(p)
      BY <1>5, <2>3 DEF AskLatest
    <3> QED
      BY <1>3, <2>1, <3>1, EndsSound
  <2> QED
    BY <2>2, <2>3
<1>6. CASE Keep(p)
  <2>1. /\ files' = files \cup {process[p].target} /\ UNCHANGED <<next, installed>>
        /\ process' = [process EXCEPT ![p] = [process[p] EXCEPT !.at = "marking"]]
        /\ process[p].at = "keeping"
    BY <1>6 DEF Keep, Go, At
  <2>2. process[p].target \in Releases /\ files' \subseteq Releases
    BY <1>1, <2>1 DEF Sound, TypeOK
  <2>3. \A q \in Processes : Sound(process[q], files')
    BY <1>1, <2>1, SoundGrows
  <2> DEFINE r == [process[p] EXCEPT !.at = "marking"]
  <2>4. r \in Processing /\ Sound(r, files')
    <3>1. process[p].target \in files' /\ process[p].target >= process[p].target
      BY <2>1, <2>2 DEF Releases
    <3> QED
      BY <1>1, <2>2, <2>3, <3>1 DEF Processing, Steps, Installing, Sound
  <2>5. /\ process' \in [Processes -> Processing]
        /\ \A q \in Processes : Sound(process'[q], files')
    <3>1. process' = [process EXCEPT ![p] = r]
      BY <2>1
    <3> HIDE DEF r
    <3> QED
      BY <1>1, <2>3, <2>4, <3>1
  <2>6. installed' # 0 => \E v \in files' : v >= installed'
    BY <1>1, <2>1 DEF ReadyIsKept
  <2> QED
    BY <1>1, <1>2, <2>1, <2>2, <2>5, <2>6, Recombined DEF TypeOK
<1>7. CASE OpenMarker(p)
  <2> DEFINE r == [process[p] EXCEPT !.at = "writing", !.opened = TRUE]
  <2>1. r \in Processing /\ Sound(r, files)
    BY <1>1, <1>7 DEF OpenMarker, At, Processing, Steps, Installing, Sound, Holding
  <2>2. process' = [process EXCEPT ![p] = r] /\ UNCHANGED <<files, installed>> /\ next' = Empty
    BY <1>7 DEF OpenMarker
  <2> QED
    BY <1>4, <2>1, <2>2
<1>8. CASE WriteMarker(p)
  <2> DEFINE r == [process[p] EXCEPT !.at = "listing", !.opened = FALSE]
  <2>1. r \in Processing /\ Sound(r, files)
    BY <1>1, <1>8 DEF WriteMarker, At, Processing, Steps, Installing, Sound, Holding
  <2>2. process[p].target \in Releases
    BY <1>1, <1>8 DEF WriteMarker, At, Sound, Holding
  <2>3. /\ process' = [process EXCEPT ![p] = r] /\ UNCHANGED <<files, installed>>
        /\ next' \in Releases \cup {NoMarker, Empty}
    BY <1>1, <1>8, <2>2 DEF WriteMarker, TypeOK
  <2> QED
    BY <1>4, <2>1, <2>3
<1>9. CASE ListOld(p)
  <2> DEFINE r == [process[p] EXCEPT !.at = "pruning", !.old = Outdated(files)]
  <2>1. Outdated(files) \in SUBSET Releases
    BY <1>1 DEF Outdated, TypeOK
  <2>2. Outdated(files) # {} => \E m \in files : \A w \in Outdated(files) : w < m
    BY <1>1, OutdatedIsBelow DEF TypeOK
  <2>3. process[p].at = "listing"
    BY <1>9 DEF ListOld, At
  <2>4. r \in Processing
    BY <1>1, <2>1 DEF Processing, Steps, Installing
  <2>5. /\ r.at = "pruning" /\ r.old = Outdated(files)
        /\ r.target = process[p].target /\ r.name = process[p].name
    BY <1>1 DEF Processing
  <2>6. Sound(r, files)
    <3> HIDE DEF r
    <3> QED
      BY <1>1, <2>2, <2>3, <2>5 DEF Sound, Holding
  <2>7. /\ process' = [process EXCEPT ![p] = r] /\ UNCHANGED <<files, installed>>
        /\ next' \in Releases \cup {NoMarker, Empty}
    BY <1>1, <1>9 DEF ListOld, folder, TypeOK
  <2> QED
    BY <1>4, <2>4, <2>6, <2>7
<1>10. CASE Prune(p)
  <2>1. /\ files' = files \ process[p].old /\ UNCHANGED <<next, installed>>
        /\ process' = [process EXCEPT ![p] = [process[p] EXCEPT !.at = "noting"]]
        /\ process[p].at = "pruning"
    BY <1>10 DEF Prune, Go, At
  <2>2. files \in SUBSET Releases /\ files' \subseteq Releases
    BY <1>1, <2>1 DEF TypeOK
  <2>3. \A q \in Processes : Sound(process[q], files')
    BY <1>1, <2>1, <2>2, SoundPruned
  <2> DEFINE r == [process[p] EXCEPT !.at = "noting"]
  <2>4. r \in Processing /\ Sound(r, files')
    BY <1>1, <2>1, <2>3 DEF Processing, Steps, Installing, Sound, Holding
  <2>5. /\ process' \in [Processes -> Processing]
        /\ \A q \in Processes : Sound(process'[q], files')
    <3>1. process' = [process EXCEPT ![p] = r]
      BY <2>1
    <3> HIDE DEF r
    <3> QED
      BY <1>1, <2>3, <2>4, <3>1
  <2>6. installed' # 0 => \E v \in files' : v >= installed'
    <3> SUFFICES ASSUME installed # 0 PROVE \E v \in files' : v >= installed
      BY <2>1
    <3>1. PICK v \in files : v >= installed
      BY <1>1 DEF ReadyIsKept
    <3>2. PICK u \in files' : u >= v
      BY <1>1, <2>1, <2>2, PruneLeavesLater
    <3> QED
      BY <1>1, <2>2, <3>1, <3>2 DEF TypeOK, Releases
  <2> QED
    BY <1>1, <1>2, <2>1, <2>2, <2>5, <2>6, Recombined DEF TypeOK
<1>11. CASE Note(p)
  <2>1. UNCHANGED <<files, next>> /\ installed' = process[p].target /\ process[p].at = "noting"
    BY <1>11 DEF Note, folder, At
  <2>2. process[p].target \in 0 .. Newest /\ \E v \in files' : v >= process[p].target
    BY <1>1, <2>1 DEF Processing, Sound, Holding
  <2>3. /\ process' \in [Processes -> Processing]
        /\ \A q \in Processes : Sound(process'[q], files')
    <3>1. CASE Ends(p)
      BY <2>1, <3>1, EndsSound
    <3>2. CASE Go(p, "marker")
      <4> DEFINE r == [process[p] EXCEPT !.at = "marker"]
      <4>1. r \in Processing /\ Sound(r, files)
        BY <1>1 DEF Processing, Steps, Activating, Sound, Holding
      <4>2. process' = [process EXCEPT ![p] = r]
        BY <3>2 DEF Go
      <4> QED
        BY <2>1, <4>1, <4>2, StepsSoundly
    <3> QED
      BY <1>11, <3>1, <3>2 DEF Note
  <2> QED
    BY <1>1, <1>2, <2>1, <2>2, <2>3, Recombined DEF TypeOK
<1> QED
  BY <1>5, <1>6, <1>7, <1>8, <1>9, <1>10, <1>11 DEF Install

\* Every step keeps the invariant.
LEMMA NextInv == Inv /\ [Next]_vars => Inv'
<1> SUFFICES ASSUME Inv, [Next]_vars PROVE Inv'
  OBVIOUS
<1>1. CASE \E p \in Processes : Activate(p) \/ Install(p)
  BY <1>1, Activates, Installs
<1>2. CASE \E p \in Processes :
        \/ Start(p) \/ Open(p) \/ ByHand(p) \/ Quit(p) \/ Refused(p) \/ Crash(p)
        \/ \E q \in Processes : Spawn(p, q)
  BY <1>2, ComesAndGoes
<1>3. CASE Release
  <2>1. latest' \in 0 .. Newest /\ UNCHANGED <<folder, installed, process, bounds>>
    BY <1>3, ConstantsAssumption DEF Release, Inv, TypeOK
  <2> QED
    BY <2>1 DEF folder, bounds, Inv, TypeOK, ReadyIsKept
<1>4. CASE UNCHANGED vars
  BY <1>4 DEF vars, folder, bounds, Inv, TypeOK, ReadyIsKept
<1> QED
  BY <1>1, <1>2, <1>3, <1>4 DEF Next

\* The variables keep their types.
THEOREM TypeCorrect == Spec => []TypeOK
<1>1. Inv => TypeOK
  BY DEF Inv
<1> QED
  BY <1>1, InitInv, NextInv, PTL DEF Spec

\* Whatever interleaves, dies or fails, what is remembered as installed
\* ("tql ... is ready") is in the folder, or a later version is: however
\* many prune at once, from lists that are out of date, the highest stays.
THEOREM ReadyStaysKept == Spec => []ReadyIsKept
<1>1. Inv => ReadyIsKept
  BY DEF Inv
<1> QED
  BY <1>1, InitInv, NextInv, PTL DEF Spec

-----------------------------------------------------------------------------
(* What the marker names                                                   *)

\* It activates or installs
Working(p) == process[p].at \in Activating \cup Installing

\* What a process has of its own, but whether its marker is still there
Same(q) ==
  /\ process'[q].at = process[q].at /\ process'[q].kind = process[q].kind
  /\ process'[q].running = process[q].running /\ process'[q].target = process[q].target
  /\ process'[q].name = process[q].name /\ process'[q].old = process[q].old

\* A process that is activated or installs changes no other, but for the
\* marker it removes.
LEMMA OthersStay ==
  ASSUME Inv, NEW p \in Processes, Activate(p) \/ Install(p) \/ Refused(p) \/ Crash(p)
                                   \/ Start(p) \/ Open(p) \/ ByHand(p) \/ Quit(p),
         NEW q \in Processes, q # p
  PROVE  Same(q)
<1>1. process \in [Processes -> Processing]
  BY DEF Inv, TypeOK, Processing
<1>2. ASSUME NEW r, process' = [process EXCEPT ![p] = r] PROVE Same(q)
  BY <1>1, <1>2 DEF Same
<1>3. ASSUME NEW s, Go(p, s) PROVE Same(q)
  BY <1>1, <1>3 DEF Same, Go
<1>4. ASSUME NEW r, process' = [Unmark EXCEPT ![p] = r] PROVE Same(q)
  <2>1. process'[q] = [process[q] EXCEPT !.opened = FALSE]
    BY <1>1, <1>4 DEF Unmark
  <2> QED
    BY <1>1, <2>1 DEF Same, Processing
<1>5. CASE ReadMarker(p) \/ Check(p) \/ Link(p)
  BY <1>2, <1>3, <1>5 DEF ReadMarker, Check, Unless, Link
<1>6. CASE ClearMarker(p) \/ RemoveMarker(p)
  BY <1>4, <1>6 DEF ClearMarker, RemoveMarker
<1>7. CASE AskLatest(p) \/ Keep(p) \/ OpenMarker(p) \/ WriteMarker(p)
  BY <1>1, <1>3, <1>7 DEF AskLatest, Ends, Keep, OpenMarker, WriteMarker, Same
<1>8. CASE ListOld(p) \/ Prune(p) \/ Note(p) \/ Refused(p)
  BY <1>1, <1>3, <1>8 DEF ListOld, Prune, Note, Ends, Refused, Same
<1>9. CASE Crash(p) \/ Start(p) \/ Open(p) \/ ByHand(p) \/ Quit(p)
  BY <1>1, <1>3, <1>9 DEF Crash, Start, Open, ByHand, Quit, Same
<1> QED
  BY <1>5, <1>6, <1>7, <1>8, <1>9 DEF Activate, Install

\* What a process is after an activation that did not switch.
LEMMA ResumedIs ==
  ASSUME Inv, NEW p \in Processes
  PROVE  /\ Resumed(p) \in Processing
         /\ Resumed(p).running = process[p].running /\ Resumed(p).target = 0
         /\ process[p].kind = "starting" => Resumed(p).at = "started" /\ Resumed(p).kind = "starting"
         /\ process[p].kind = "quiet" => Resumed(p).at = "asking" /\ Resumed(p).kind = "quiet"
         /\ process[p].kind = "by hand" => Resumed(p).at = "open" /\ Resumed(p).kind = "starting"
<1>1. process[p] \in Processing
  BY DEF Inv, TypeOK, Processing
<1>2. Resumed(p) \in Processing
  BY RestsSound
<1>3. CASE process[p].kind = "starting"
  BY <1>1, <1>2, <1>3 DEF Resumed, Processing
<1>4. CASE process[p].kind = "quiet"
  BY <1>1, <1>2, <1>4 DEF Resumed, Processing
<1>5. CASE process[p].kind = "by hand"
  BY <1>1, <1>2, <1>5 DEF Resumed, Processing
<1> QED
  BY <1>1, <1>2, <1>3, <1>4, <1>5 DEF Processing, Kinds

\* Faults and overlaps are never taken back.
LEMMA DisturbancesStay ==
  ASSUME Inv, [Next]_vars
  PROVE  faults <= faults' /\ overlaps <= overlaps' /\ faults' \in Nat /\ overlaps' \in Nat
<1>1. faults \in Nat /\ overlaps \in Nat
  BY ConstantsAssumption DEF Inv, TypeOK
<1>2. \/ UNCHANGED bounds
      \/ UNCHANGED faults /\ \E overlap \in BOOLEAN : BeginsBeside(overlap)
      \/ Fault
  <2> USE DEF bounds
  <2>1. ASSUME NEW p \in Processes, Activate(p) PROVE UNCHANGED bounds
    BY <2>1 DEF Activate, ReadMarker, Check, Link, ClearMarker, RemoveMarker
  <2>2. ASSUME NEW p \in Processes, Install(p) PROVE UNCHANGED bounds
    BY <2>2 DEF Install, AskLatest, Keep, OpenMarker, WriteMarker, ListOld, Prune, Note
  <2>3. ASSUME NEW p \in Processes, Open(p) \/ Quit(p) PROVE UNCHANGED bounds
    BY <2>3 DEF Open, Quit
  <2>4. ASSUME NEW p \in Processes, Refused(p) \/ Crash(p) PROVE Fault
    BY <2>4 DEF Refused, Crash
  <2>5. ASSUME NEW p \in Processes, Start(p) \/ \E q \in Processes : Spawn(p, q)
        PROVE  UNCHANGED faults /\ BeginsBeside(Busy)
    BY <2>5 DEF Start, Spawn, Begins
  <2>6. ASSUME NEW p \in Processes, ByHand(p)
        PROVE  UNCHANGED faults /\ BeginsBeside(Busy \/ Replaced(p))
    BY <2>6 DEF ByHand
  <2>7. Busy \in BOOLEAN /\ \A p \in Processes : (Busy \/ Replaced(p)) \in BOOLEAN
    BY DEF Busy, Replaced
  <2>8. CASE Release \/ UNCHANGED vars
    BY <2>8 DEF Release, vars
  <2> QED
    BY <2>1, <2>2, <2>3, <2>4, <2>5, <2>6, <2>7, <2>8 DEF Next
<1> QED
  BY <1>1, <1>2 DEF bounds, BeginsBeside, Fault

\* The marker is used up, and then the link is what was installed, or it
\* names that, and its file is there.
Waiting ==
  /\ next \in {NoMarker, installed}
  /\ next = NoMarker => link = installed
  /\ next # NoMarker => installed \in files

NoneAbove(version) == \A v \in files : v <= version

\* The steps that find the marker, and what is installed, as they were left
Before == {"marker", "checking", "linking", "unmarking", "asking", "keeping"}

\* What a process may rely on that is alone at its work
Orderly(p) ==
  LET at == process[p].at  target == process[p].target
  IN  /\ at \in Before \cup {"marking"} => Waiting
      /\ at \in Before => NoneAbove(installed)
      /\ at \in {"checking", "linking"} => process[p].name = next /\ next = installed
      /\ at = "unmarking" => link = installed
      /\ at \in {"keeping"} \cup Holding => installed <= target /\ target <= latest
      /\ at \in Holding => target \in files /\ NoneAbove(target)
      /\ at = "writing" => process[p].opened
      /\ at \in {"listing", "pruning", "noting"} => next = target
      /\ at = "pruning" => target \notin process[p].old
      /\ at # "clearing"

\* Nothing went wrong and nothing overlapped: one at a time is at work.
Undisturbed ==
  /\ link <= installed /\ installed <= latest
  /\ \A p, q \in Processes : Working(p) /\ Working(q) => p = q
  /\ \A p \in Processes : Working(p) => Orderly(p)
  /\ ~Busy => Waiting /\ NoneAbove(installed)

MarkerInv == faults + overlaps = 0 => Undisturbed

\* When one is at work, it is enough to show what becomes of it.
LEMMA OneStep ==
  ASSUME Undisturbed, NEW p \in Processes, Working(p),
         \A q \in Processes : q # p => Same(q),
         link' <= installed' /\ installed' <= latest',
         Working(p)' => Orderly(p)',
         ~ Working(p)' => Waiting' /\ NoneAbove(installed)'
  PROVE  Undisturbed'
<1>1. \A q \in Processes : q # p => ~ Working(q)
  BY DEF Undisturbed
<1>2. \A q \in Processes : q # p => ~ Working(q)'
  BY <1>1 DEF Same, Working
<1>3. Working(p)' => Busy'
  BY DEF Working, Busy
<1> QED
  BY <1>2, <1>3 DEF Undisturbed

\* One that begins finds things as they were left.
LEMMA BeginsOrderly ==
  ASSUME Undisturbed, ~Busy, UNCHANGED <<folder, installed, latest>>,
         NEW p \in Processes, process'[p].at \in {"marker", "asking"},
         \A q \in Processes : q # p => ~ Working(q)'
  PROVE  Undisturbed'
<1>1. Waiting' /\ NoneAbove(installed)'
  BY DEF Undisturbed, Waiting, NoneAbove, folder
<1>2. Orderly(p)'
  BY <1>1 DEF Orderly, Before, Holding
<1>3. Working(p)' /\ Busy'
  BY DEF Working, Busy, Activating, Installing
<1>4. link' <= installed' /\ installed' <= latest'
  BY DEF Undisturbed, folder
<1> QED
  BY <1>2, <1>3, <1>4 DEF Undisturbed

\* The highest one is not outdated.
LEMMA HighestIsNotOutdated ==
  ASSUME NEW S \in SUBSET Releases, NEW m \in S, \A v \in S : v <= m
  PROVE  m \notin Outdated(S)
<1>1. \A w \in S : ~ (w > m)
  BY DEF Releases
<1>2. {w \in S : w > m} = {}
  BY <1>1
<1>3. Cardinality({}) = 0
  BY FS_EmptySet
<1> QED
  BY <1>2, <1>3, ConstantsAssumption DEF Outdated

\* What the variables are, for the arithmetic.
LEMMA Numbers ==
  ASSUME Inv
  PROVE  /\ link \in Nat /\ installed \in Nat /\ latest \in Nat
         /\ files \subseteq Nat /\ files \in SUBSET Releases
         /\ process \in [Processes -> Processing]
         /\ \A p \in Processes : process[p].target \in Nat
         /\ next \in Nat \cup {NoMarker, Empty} /\ NoMarker \notin Nat /\ Empty \notin Nat
         /\ NoMarker # Empty /\ plain \in BOOLEAN
BY ConstantsAssumption DEF Inv, TypeOK, Releases, Processing, NoMarker, Empty

\* An activation that nothing disturbs,
LEMMA ActivatesOrderly ==
  ASSUME Inv, Undisturbed, NEW p \in Processes, Activate(p)
  PROVE  Undisturbed'
<1>1. process \in [Processes -> Processing] /\ process[p] \in Processing
  BY Numbers
<1>2. Working(p) /\ Orderly(p) /\ link <= installed /\ installed <= latest
  BY DEF Undisturbed, Working, Activate, ReadMarker, Check, Link, ClearMarker, RemoveMarker,
         At, Activating
<1>3. \A q \in Processes : q # p => Same(q)
  BY OthersStay
<1>4. ASSUME process' = [process EXCEPT ![p] = Resumed(p)], Waiting', NoneAbove(installed)',
             link' <= installed', installed' <= latest'
      PROVE  Undisturbed'
  <2>1. process'[p].at \in {"started", "asking", "open"}
    BY <1>1, <1>4, ResumedIs DEF Processing, Kinds
  <2>2. Working(p)' => Orderly(p)'
    BY <1>4, <2>1 DEF Working, Orderly, Before, Holding, Activating, Installing
  <2> QED
    BY <1>2, <1>3, <1>4, <2>2, OneStep
<1>5. CASE ReadMarker(p)
  <2>1. Waiting /\ NoneAbove(installed)
    BY <1>2, <1>5 DEF ReadMarker, At, Orderly, Before
  <2>2. Waiting' /\ NoneAbove(installed)' /\ link' <= installed' /\ installed' <= latest'
    BY <1>2, <1>5, <2>1 DEF ReadMarker, folder, Waiting, NoneAbove
  <2>3. CASE next = NoMarker
    BY <1>4, <1>5, <2>2, <2>3 DEF ReadMarker
  <2>4. CASE next # NoMarker
    <3>1. process'[p].at = "checking" /\ process'[p].name = next /\ UNCHANGED <<next, installed>>
      BY <1>1, <1>5, <2>4 DEF ReadMarker, folder, Processing
    <3>2. next = installed
      BY <2>1, <2>4 DEF Waiting
    <3>3. Orderly(p)'
      BY <2>2, <3>1, <3>2 DEF Orderly, Before, Holding
    <3>4. Working(p)'
      BY <3>1 DEF Working, Activating
    <3> QED
      BY <1>2, <1>3, <2>2, <3>3, <3>4, OneStep
  <2> QED
    BY <2>3, <2>4
<1>6. CASE Check(p)
  <2>1. /\ Waiting /\ NoneAbove(installed) /\ process[p].name = next /\ next = installed
        /\ UNCHANGED <<folder, installed, latest>>
    BY <1>2, <1>6 DEF Check, At, Orderly, Before
  <2>2. Waiting' /\ NoneAbove(installed)' /\ link' <= installed' /\ installed' <= latest'
    BY <1>2, <2>1 DEF folder, Waiting, NoneAbove
  <2>3. process[p].name \in files
    BY <2>1, Numbers DEF Waiting
  <2>4. CASE Waits(p)
    BY <1>4, <1>6, <2>2, <2>3, <2>4 DEF Check, Unless
  <2>5. CASE ~ Waits(p)
    <3>1. process'[p].at = "linking" /\ process'[p].name = process[p].name
      BY <1>1, <1>6, <2>3, <2>5 DEF Check, Unless, Go, Processing
    <3>2. Orderly(p)' /\ Working(p)'
      BY <2>1, <2>2, <3>1 DEF Orderly, Before, Holding, folder, Working, Activating
    <3> QED
      BY <1>2, <1>3, <2>2, <3>2, OneStep
  <2> QED
    BY <2>4, <2>5
<1>7. CASE Link(p)
  <2>1. /\ Waiting /\ NoneAbove(installed) /\ process[p].name = next /\ next = installed
        /\ link' = installed /\ UNCHANGED <<files, next, installed, latest>>
        /\ process'[p].at = "unmarking"
    BY <1>1, <1>2, <1>7 DEF Link, Go, At, Orderly, Before
  <2>2. Waiting' /\ NoneAbove(installed)'
    BY <2>1 DEF Waiting, NoneAbove
  <2>3. link' <= installed' /\ installed' <= latest'
    BY <1>2, <2>1, Numbers
  <2>4. Orderly(p)' /\ Working(p)'
    BY <2>1, <2>2 DEF Orderly, Before, Holding, Working, Activating
  <2> QED
    BY <1>2, <1>3, <2>3, <2>4, OneStep
<1>8. CASE ClearMarker(p)
  BY <1>2, <1>8 DEF ClearMarker, At, Orderly
<1>9. CASE RemoveMarker(p)
  <2>1. /\ NoneAbove(installed) /\ link = installed /\ next' = NoMarker
        /\ UNCHANGED <<link, files, installed, latest>>
    BY <1>2, <1>9 DEF RemoveMarker, At, Orderly, Before
  <2>2. Waiting' /\ NoneAbove(installed)' /\ link' <= installed' /\ installed' <= latest'
    BY <1>2, <2>1 DEF Waiting, NoneAbove
  <2>3. process'[p].at \in {"marker", "started", "asking", "open"}
    <3>1. \/ process'[p] = [Off EXCEPT !.at = "marker", !.kind = process[p].kind, !.running = link]
          \/ process'[p] = Resumed(p)
      BY <1>1, <1>9 DEF RemoveMarker, Unmark
    <3> QED
      BY <1>1, <3>1, ResumedIs DEF Off, Processing, Kinds
  <2>4. Working(p)' => Orderly(p)'
    BY <2>2, <2>3 DEF Working, Orderly, Before, Holding, Activating, Installing
  <2> QED
    BY <1>2, <1>3, <2>2, <2>4, OneStep
<1> QED
  BY <1>5, <1>6, <1>7, <1>8, <1>9 DEF Activate

\* and an update.
LEMMA InstallsOrderly ==
  ASSUME Inv, Undisturbed, NEW p \in Processes, Install(p)
  PROVE  Undisturbed'
<1>1. process \in [Processes -> Processing] /\ process[p] \in Processing
  BY Numbers
<1>2. Working(p) /\ Orderly(p) /\ link <= installed /\ installed <= latest
  BY DEF Undisturbed, Working, Install, AskLatest, Keep, OpenMarker, WriteMarker, ListOld,
         Prune, Note, At, Installing
<1>3. \A q \in Processes : q # p => Same(q)
  BY OthersStay
<1>4. ASSUME Ends(p), Waiting', NoneAbove(installed)', link' <= installed', installed' <= latest'
      PROVE  Undisturbed'
  <2>1. process'[p].at \in {"off", "open"}
    BY <1>1, <1>4 DEF Ends, Off
  <2>2. ~ Working(p)'
    BY <2>1 DEF Working, Activating, Installing
  <2> QED
    BY <1>2, <1>3, <1>4, <2>2, OneStep
<1>5. CASE AskLatest(p)
  <2>1. Waiting /\ NoneAbove(installed) /\ UNCHANGED <<folder, installed, latest>>
    BY <1>2, <1>5 DEF AskLatest, At, Orderly, Before
  <2>2. Waiting' /\ NoneAbove(installed)' /\ link' <= installed' /\ installed' <= latest'
    BY <1>2, <2>1 DEF folder, Waiting, NoneAbove
  <2>3. CASE latest > process[p].running
    <3>1. process'[p].at = "keeping" /\ process'[p].target = latest
      BY <1>1, <1>5, <2>3 DEF AskLatest, Processing
    <3>2. Orderly(p)' /\ Working(p)'
      BY <1>2, <2>1, <2>2, <3>1, Numbers DEF Orderly, Before, Holding, Working, Installing
    <3> QED
      BY <1>2, <1>3, <2>2, <3>2, OneStep
  <2>4. CASE ~ (latest > process[p].running)
    BY <1>4, <1>5, <2>2, <2>4 DEF AskLatest
  <2> QED
    BY <2>3, <2>4
<1>6. CASE Keep(p)
  <2> DEFINE target == process[p].target
  <2>1. /\ Waiting /\ NoneAbove(installed) /\ installed <= target /\ target <= latest
        /\ files' = files \cup {target} /\ UNCHANGED <<link, next, installed, latest>>
        /\ process'[p].at = "marking" /\ process'[p].target = target
    BY <1>1, <1>2, <1>6 DEF Keep, Go, At, Orderly, Before, Processing
  <2>2. Waiting'
    BY <2>1 DEF Waiting
  <2>3. target \in files' /\ \A v \in files' : v <= target
    BY <2>1, Numbers DEF NoneAbove
  <2>4. Orderly(p)' /\ Working(p)'
    BY <2>1, <2>2, <2>3 DEF Orderly, Before, Holding, NoneAbove, Working, Installing
  <2> QED
    BY <1>2, <1>3, <2>1, <2>4, OneStep
<1>7. CASE OpenMarker(p) \/ WriteMarker(p)
  <2> DEFINE target == process[p].target
  <2>1. /\ installed <= target /\ target <= latest /\ target \in files /\ NoneAbove(target)
        /\ UNCHANGED <<link, files, installed, latest>>
        /\ process'[p].target = target
        /\ \/ process'[p].at = "writing" /\ process'[p].opened
           \/ process'[p].at = "listing" /\ next' = target
    BY <1>1, <1>2, <1>7 DEF OpenMarker, WriteMarker, At, Orderly, Holding, Processing
  <2>2. Orderly(p)' /\ Working(p)'
    BY <2>1 DEF Orderly, Before, Holding, NoneAbove, Working, Installing
  <2> QED
    BY <1>2, <1>3, <2>1, <2>2, OneStep
<1>8. CASE ListOld(p)
  <2> DEFINE target == process[p].target
  <2>1. /\ installed <= target /\ target <= latest /\ target \in files /\ NoneAbove(target)
        /\ next = target /\ UNCHANGED <<link, files, next, installed, latest>>
        /\ process'[p].target = target
        /\ process'[p].at = "pruning" /\ process'[p].old = Outdated(files)
    BY <1>1, <1>2, <1>8 DEF ListOld, folder, At, Orderly, Holding, Processing
  <2>2. target \notin Outdated(files)
    BY <2>1, HighestIsNotOutdated, Numbers DEF NoneAbove
  <2>3. Orderly(p)' /\ Working(p)'
    BY <2>1, <2>2 DEF Orderly, Before, Holding, NoneAbove, Working, Installing
  <2> QED
    BY <1>2, <1>3, <2>1, <2>3, OneStep
<1>9. CASE Prune(p)
  <2> DEFINE target == process[p].target
  <2>1. /\ installed <= target /\ target <= latest /\ target \in files /\ NoneAbove(target)
        /\ next = target /\ target \notin process[p].old
        /\ files' = files \ process[p].old /\ UNCHANGED <<link, next, installed, latest>>
        /\ process'[p].target = target /\ process'[p].at = "noting"
    BY <1>1, <1>2, <1>9 DEF Prune, Go, At, Orderly, Holding, Processing
  <2>2. Orderly(p)' /\ Working(p)'
    BY <2>1 DEF Orderly, Before, Holding, NoneAbove, Working, Installing
  <2> QED
    BY <1>2, <1>3, <2>1, <2>2, OneStep
<1>10. CASE Note(p)
  <2> DEFINE target == process[p].target
  <2>1. /\ installed <= target /\ target <= latest /\ target \in files /\ NoneAbove(target)
        /\ next = target /\ installed' = target /\ UNCHANGED <<link, files, next, latest>>
    BY <1>1, <1>2, <1>10 DEF Note, folder, At, Orderly, Holding
  <2>2. Waiting' /\ NoneAbove(installed)'
    BY <2>1, Numbers DEF Waiting, NoneAbove
  <2>3. link' <= installed' /\ installed' <= latest'
    BY <1>2, <2>1, Numbers
  <2>4. CASE Ends(p)
    BY <1>4, <2>2, <2>3, <2>4
  <2>5. CASE Go(p, "marker")
    <3>1. process'[p].at = "marker"
      BY <1>1, <2>5 DEF Go
    <3>2. Orderly(p)' /\ Working(p)'
      BY <2>2, <3>1 DEF Orderly, Before, Holding, Working, Activating
    <3> QED
      BY <1>2, <1>3, <2>3, <3>2, OneStep
  <2> QED
    BY <1>10, <2>4, <2>5 DEF Note
<1> QED
  BY <1>5, <1>6, <1>7, <1>8, <1>9, <1>10 DEF Install

\* Every step of the rest: a begin that does not overlap finds nobody at work.
LEMMA RestOrderly ==
  ASSUME Inv, Undisturbed, NEW p \in Processes, UNCHANGED bounds,
         \/ Start(p) \/ Open(p) \/ ByHand(p) \/ Quit(p)
         \/ \E q \in Processes : Spawn(p, q)
  PROVE  Undisturbed'
<1>1. process \in [Processes -> Processing] /\ overlaps \in Nat
  BY Numbers, ConstantsAssumption DEF Inv, TypeOK
<1>2. UNCHANGED <<folder, installed, latest>>
  BY DEF Start, Open, ByHand, Quit, Spawn
<1>3. ASSUME NEW q \in Processes, ~Busy, process'[q].at \in {"marker", "asking"},
             \A r \in Processes : r # q => Same(r) \/ process'[r].at = "open"
      PROVE  Undisturbed'
  <2>1. \A r \in Processes : r # q => ~ Working(r)'
    BY <1>3 DEF Same, Working, Busy, Activating, Installing
  <2> QED
    BY <1>2, <1>3, <2>1, BeginsOrderly
<1>4. CASE Start(p) \/ ByHand(p)
  <2>1. ~Busy
    <3>1. BeginsBeside(Busy) \/ BeginsBeside(Busy \/ Replaced(p))
      BY <1>4 DEF Start, ByHand, Begins
    <3>2. overlaps' = overlaps
      BY DEF bounds
    <3> QED
      BY <1>1, <3>1, <3>2 DEF BeginsBeside
  <2>2. process'[p].at \in {"marker", "asking"}
    BY <1>1, <1>4 DEF Start, ByHand, Off, Processing
  <2> QED
    BY <1>3, <1>4, <2>1, <2>2, OthersStay
<1>5. CASE \E q \in Processes : Spawn(p, q)
  <2>1. PICK q \in Processes : Spawn(p, q)
    BY <1>5
  <2>2. ~Busy
    BY <1>1, <2>1 DEF Spawn, Begins, BeginsBeside, bounds
  <2>3. p # q
    BY <2>1 DEF Spawn, At
  <2>4. process'[q].at = "marker" /\ process'[p].at = "open"
    BY <1>1, <2>1, <2>3 DEF Spawn, Off, Processing
  <2>5. \A r \in Processes : r # q /\ r # p => Same(r)
    BY <1>1, <2>1 DEF Spawn, Same
  <2> QED
    BY <1>3, <2>2, <2>4, <2>5
<1>6. CASE Open(p) \/ Quit(p)
  <2>1. process'[p].at \in {"off", "open"} /\ process[p].at \in {"started", "open"}
    BY <1>1, <1>6 DEF Open, Quit, Go, At, Off, Processing
  <2>2. ~ Working(p) /\ ~ Working(p)'
    BY <2>1 DEF Working, Activating, Installing
  <2>3. \A q \in Processes : q # p => Same(q)
    BY <1>6, OthersStay
  <2>4. \A q \in Processes : Working(q)' <=> Working(q)
    BY <2>2, <2>3 DEF Working, Same
  <2>5. Busy' <=> Busy
    BY <2>4 DEF Busy, Working
  <2>6. \A q \in Processes : Working(q) => process'[q] = process[q]
    BY <1>1, <1>6, <2>2 DEF Open, Quit, Go
  <2>7. \A q \in Processes : Working(q) => (Orderly(q) => Orderly(q)')
    BY <1>2, <2>6 DEF Orderly, Waiting, NoneAbove, folder
  <2> QED
    BY <1>2, <2>4, <2>5, <2>7 DEF Undisturbed, Waiting, NoneAbove, folder
<1> QED
  BY <1>4, <1>5, <1>6

\* Undisturbed work stays orderly.
LEMMA MarkerNext == Inv /\ MarkerInv /\ [Next]_vars => MarkerInv'
<1> SUFFICES ASSUME Inv, MarkerInv, [Next]_vars, (faults + overlaps = 0)'
             PROVE  Undisturbed'
  BY DEF MarkerInv
<1>1. faults + overlaps = 0 /\ UNCHANGED bounds
  <2>1. faults \in Nat /\ overlaps \in Nat
    BY ConstantsAssumption DEF Inv, TypeOK
  <2> QED
    BY <2>1, DisturbancesStay DEF bounds
<1>2. Undisturbed
  BY <1>1 DEF MarkerInv
<1>3. CASE \E p \in Processes : Activate(p) \/ Install(p)
  BY <1>2, <1>3, ActivatesOrderly, InstallsOrderly
<1>4. CASE \E p \in Processes :
        Start(p) \/ Open(p) \/ ByHand(p) \/ Quit(p) \/ \E q \in Processes : Spawn(p, q)
  BY <1>1, <1>2, <1>4, RestOrderly
<1>5. CASE \E p \in Processes : Refused(p) \/ Crash(p)
  <2>1. faults' = faults + 1 /\ faults \in Nat
    BY <1>5, ConstantsAssumption DEF Refused, Crash, Fault, Inv, TypeOK
  <2> QED
    BY <1>1, <2>1 DEF bounds
<1>6. CASE Release \/ UNCHANGED vars
  <2>1. UNCHANGED <<folder, installed, process>> /\ latest <= latest' /\ latest' \in Nat
    BY <1>6, Numbers DEF Release, vars
  <2>2. \A p \in Processes : Orderly(p) => Orderly(p)'
    BY <2>1, Numbers DEF Orderly, Waiting, NoneAbove, folder
  <2> QED
    BY <1>2, <2>1, <2>2, Numbers DEF Undisturbed, Working, Busy, Waiting, NoneAbove, folder
<1> QED
  BY <1>3, <1>4, <1>5, <1>6 DEF Next

\* "... is ready, restart to use it" (check::notice): as long as no process
\* dies or fails and none begins beside another's update, the marker names
\* what was installed, from the moment that it is remembered until the link
\* is it, however many take turns at it.
THEOREM ReadyIsToldTruly == Spec => []ReadyIsTrue
<1>1. Init => MarkerInv
  <2> SUFFICES ASSUME Init PROVE Undisturbed
    BY DEF MarkerInv
  <2>1. \A p \in Processes : ~ Working(p)
    BY DEF Init, Working, Off, Activating, Installing
  <2>2. latest \in Nat
    BY ConstantsAssumption DEF Init
  <2> QED
    BY <2>1, <2>2 DEF Init, Undisturbed, Waiting, NoneAbove
<1>2. Inv /\ MarkerInv => ReadyIsTrue
  <2> SUFFICES ASSUME Inv, Undisturbed, ~Busy, installed > link PROVE next = installed
    BY DEF MarkerInv, ReadyIsTrue
  <2> QED
    BY Numbers DEF Undisturbed, Waiting
<1> QED
  BY <1>1, <1>2, InitInv, NextInv, MarkerNext, PTL DEF Spec

-----------------------------------------------------------------------------
(***************************************************************************)
(* There is a tql to start, as long as prune leaves enough versions.       *)
(*                                                                         *)
(* Prune takes a version when KEPT are above it.  The proof counts how     *)
(* many there may come to be above the link, and above every version that  *)
(* may become the link: what the marker names, what a process has read     *)
(* from it or is about to write to it.  A process at work keeps one        *)
(* version, so one that begins beside another adds one to each count, and  *)
(* one that ends without a switch leaves it there.  While they are one at  *)
(* a time and nothing goes wrong, a lone one finds things as the last one  *)
(* left them (Tight); a fault pays for two versions and an overlap for     *)
(* three, after which the counts hold in any order of steps (Loose), until *)
(* all of them are done.                                                   *)
(***************************************************************************)
\* How many versions are above one
Above(S, version) == Cardinality({w \in S : w > version})

\* What faults and overlaps may have cost
Paid == 2 * faults + 3 * overlaps
Room == 2 + Paid <= Kept

\* Those that may keep one version more before they end
Keeper(p) == \/ process[p].at \in {"asking", "keeping"}
             \/ process[p].kind = "quiet" /\ process[p].at \in Activating
MayKeep == {p \in Processes : Keeper(p)}

\* The versions that are, or may come to be, the link
Wanted == {v \in Releases :
  \/ ~plain /\ v = link
  \/ v = next
  \/ \E p \in Processes :
       \/ process[p].at \in {"checking", "linking"} /\ v = process[p].name
       \/ process[p].at \in {"keeping", "marking", "writing"} /\ v = process[p].target}

\* There is a tql to start, and nobody is about to change that.
Safe ==
  /\ plain \/ link \in files
  /\ \A p \in Processes : process[p].at = "linking" => process[p].name \in files
  /\ \A p \in Processes : process[p].at = "pruning" => Wanted \cap process[p].old = {}

\* However many more are kept, what is wanted stays within a bound.
WithinPaid(n) == \A v \in Wanted : Above(files, v) + Cardinality(MayKeep) <= Paid + n

\* Something went wrong or overlapped, and has been paid for: in any order
\* that the processes at work go on.
Loose ==
  /\ IsFiniteSet(MayKeep) /\ Cardinality(MayKeep) <= Paid
  /\ WithinPaid(0)
  /\ Room => Safe

\* The link is used up to n versions above it, which matters once it is one.
LinkWithin(n) == plain \/ Above(files, link) <= Paid + n
NextWithin(n) == next \in Releases => Above(files, next) <= Paid + n
IsHighest(version) == version \in files /\ NoneAbove(version)

\* How an update leaves things: one version more than is paid for, if the
\* marker names one to switch to
Idle == NextWithin(0) /\ (LinkWithin(0) \/ (next \in files /\ LinkWithin(1)))

\* What prune may take from a lone update by hand, which switches at once
Strained(p) ==
  /\ process[p].kind = "by hand" /\ Kept = Paid + 2 /\ ~plain
  /\ process[p].at \in {"pruning", "noting", "marker", "checking", "linking"}

\* What a process may rely on that is alone at its work
Lone(p) ==
  LET at == process[p].at  kind == process[p].kind
      name == process[p].name  target == process[p].target
  IN  /\ LinkWithin(2)
      /\ kind # "by hand" /\ at \in {"marker", "checking", "linking", "clearing"} => Idle
      /\ kind = "by hand" /\ at \in {"marker", "checking", "linking"} => IsHighest(next)
      /\ at = "clearing" => kind # "by hand" /\ LinkWithin(0)
      /\ at \in {"checking", "linking"} => name = next
      /\ at = "linking" => name \in files
      /\ at = "unmarking" => ~plain /\ link \in files /\ LinkWithin(0) /\ next = link
      /\ at \in {"asking", "keeping"} => Idle
      /\ at \in {"asking", "keeping"} /\ kind = "quiet" => LinkWithin(0)
      /\ at = "keeping" => NoneAbove(target)
      /\ at \in Holding => IsHighest(target)
      /\ at \in Holding /\ kind = "quiet" => LinkWithin(1)
      /\ at = "marking" => NextWithin(1)
      /\ at = "writing" => process[p].opened /\ next = Empty
      /\ at \in {"listing", "pruning", "noting"} => next = target
      /\ at = "pruning" => target \notin process[p].old
      /\ kind = "by hand" /\ at \in Installing => plain \/ process[p].running # 0
      /\ Room => Safe \/ Strained(p)

\* One at a time is at work since the last that was paid for.
Tight ==
  /\ \A p, q \in Processes : Working(p) /\ Working(q) => p = q
  /\ \A p \in Processes : Working(p) => Lone(p)
  /\ ~Busy => Idle /\ (Room => Safe)

\* What holds of every process
Common ==
  /\ NoneAbove(latest)
  /\ plain \/ link \in Releases
  /\ plain => link = 0
  /\ \A p \in Processes : process[p].target <= latest
  /\ \A p \in Processes : process[p].at \in Installing => process[p].kind # "starting"

LinkInv == Common /\ (Loose \/ Tight)

-----------------------------------------------------------------------------
(* Counting *)

LEMMA AboveIsNumber ==
  ASSUME NEW S \in SUBSET Releases, NEW v
  PROVE  /\ IsFiniteSet({w \in S : w > v}) /\ Above(S, v) \in Nat
         /\ NoneAbove(v) /\ S = files /\ v \in Nat => Above(S, v) = 0
<1>1. IsFiniteSet(Releases)
  BY FS_Interval, ConstantsAssumption DEF Releases
<1>2. IsFiniteSet({w \in S : w > v})
  BY <1>1, FS_Subset
<1>3. Above(S, v) \in Nat
  BY <1>2, FS_CardinalityType DEF Above
<1>4. ASSUME NoneAbove(v), S = files, v \in Nat PROVE Above(S, v) = 0
  <2>1. \A w \in S : w \in Nat /\ w <= v
    BY <1>4 DEF NoneAbove, Releases
  <2>2. {w \in S : w > v} = {}
    BY <1>4, <2>1
  <2> QED
    BY <2>2, FS_EmptySet DEF Above
<1> QED
  BY <1>2, <1>3, <1>4

LEMMA AboveGrows ==
  ASSUME NEW S \in SUBSET Releases, NEW T \in SUBSET Releases, S \subseteq T, NEW v
  PROVE  Above(S, v) <= Above(T, v)
<1>1. {w \in S : w > v} \subseteq {w \in T : w > v}
  OBVIOUS
<1> QED
  BY <1>1, AboveIsNumber, FS_Subset DEF Above

\* The sets that are counted are finite, and one more is one more.
LEMMA OneMore ==
  ASSUME NEW A, IsFiniteSet(A), NEW p, NEW B, B \subseteq A \cup {p}
  PROVE  /\ IsFiniteSet(B) /\ Cardinality(A) \in Nat
         /\ Cardinality(B) \in Nat /\ Cardinality(B) <= Cardinality(A) + 1
<1>1. Cardinality(A) \in Nat
  BY FS_CardinalityType
<1>2. /\ IsFiniteSet(A \cup {p})
      /\ Cardinality(A \cup {p}) <= Cardinality(A) + 1 /\ Cardinality(A \cup {p}) \in Nat
  BY <1>1, FS_AddElement, FS_CardinalityType
<1> QED
  BY <1>1, <1>2, FS_Subset, FS_CardinalityType

\* One version more is at most one more above any.
LEMMA AboveAdds ==
  ASSUME NEW S \in SUBSET Releases, NEW new \in Releases, NEW v
  PROVE  Above(S \cup {new}, v) <= Above(S, v) + 1
<1>1. {w \in S \cup {new} : w > v} \subseteq {w \in S : w > v} \cup {new}
  OBVIOUS
<1>2. IsFiniteSet({w \in S : w > v})
  BY AboveIsNumber
<1> QED
  BY <1>1, <1>2, OneMore DEF Above

LEMMA NoMore ==
  ASSUME NEW A, IsFiniteSet(A), NEW B, B \subseteq A
  PROVE  /\ IsFiniteSet(B) /\ Cardinality(A) \in Nat
         /\ Cardinality(B) \in Nat /\ Cardinality(B) <= Cardinality(A)
BY FS_Subset, FS_CardinalityType

LEMMA OneFewer ==
  ASSUME NEW A, IsFiniteSet(A), NEW p \in A, NEW B, B \subseteq A \ {p}
  PROVE  /\ IsFiniteSet(B) /\ Cardinality(A) \in Nat
         /\ Cardinality(B) \in Nat /\ Cardinality(B) + 1 <= Cardinality(A)
<1>1. Cardinality(A) \in Nat
  BY FS_CardinalityType
<1>2. IsFiniteSet(A \ {p}) /\ Cardinality(A \ {p}) = Cardinality(A) - 1
  BY FS_RemoveElement
<1>3. Cardinality(A \ {p}) \in Nat
  BY <1>2, FS_CardinalityType
<1> QED
  BY <1>1, <1>2, <1>3, FS_Subset, FS_CardinalityType

LEMMA PaidIsNumber ==
  ASSUME Inv
  PROVE  Paid \in Nat /\ faults \in Nat /\ overlaps \in Nat /\ Kept \in Nat
BY ConstantsAssumption DEF Inv, TypeOK, Paid

\* The same of the state after a step.
LEMMA NumbersAfter ==
  ASSUME Inv'
  PROVE  /\ Paid' \in Nat /\ files' \in SUBSET Releases /\ link' \in Nat
         /\ next' \in Nat \cup {NoMarker, Empty} /\ NoMarker \notin Nat /\ Empty \notin Nat
<1>1. TypeOK'
  BY DEF Inv
<1>2. faults' \in Nat /\ overlaps' \in Nat
  BY <1>1, ConstantsAssumption DEF TypeOK
<1>3. Paid' \in Nat
  <2>1. \A f, o \in Nat : 2 * f + 3 * o \in Nat
    OBVIOUS
  <2>2. 2 * faults' + 3 * overlaps' \in Nat
    BY <1>2, <2>1
  <2> QED
    BY <2>2 DEF Paid
<1>4. files' \in SUBSET Releases /\ link' \in Nat
  BY <1>1, ConstantsAssumption DEF TypeOK
<1>5. next' \in Nat \cup {NoMarker, Empty} /\ NoMarker \notin Nat /\ Empty \notin Nat
  BY <1>1, ConstantsAssumption DEF TypeOK, Releases, NoMarker, Empty
<1> QED
  BY <1>3, <1>4, <1>5

-----------------------------------------------------------------------------
(* What a step of one process does to what is wanted and what is safe *)

LEMMA WantedStep ==
  ASSUME NEW p \in Processes, \A q \in Processes : q # p => Same(q), NEW X,
         ~plain' /\ link' \in Releases => link' \in Wanted \cup X,
         next' \in Releases => next' \in Wanted \cup X,
         process'[p].at \in {"checking", "linking"} /\ process'[p].name \in Releases
           => process'[p].name \in Wanted \cup X,
         process'[p].at \in {"keeping", "marking", "writing"} /\ process'[p].target \in Releases
           => process'[p].target \in Wanted \cup X
  PROVE  Wanted' \subseteq Wanted \cup X
<1> SUFFICES ASSUME NEW v \in Wanted' PROVE v \in Wanted \cup X
  OBVIOUS
<1>1. CASE ~plain' /\ v = link'
  BY <1>1 DEF Wanted
<1>2. CASE v = next'
  BY <1>2 DEF Wanted
<1>3. ASSUME NEW q \in Processes,
             \/ process'[q].at \in {"checking", "linking"} /\ v = process'[q].name
             \/ process'[q].at \in {"keeping", "marking", "writing"} /\ v = process'[q].target
      PROVE  v \in Wanted \cup X
  <2>1. CASE q = p
    BY <1>3, <2>1 DEF Wanted
  <2>2. CASE q # p
    BY <1>3, <2>2 DEF Wanted, Same
  <2> QED
    BY <2>1, <2>2
<1> QED
  BY <1>1, <1>2, <1>3 DEF Wanted

LEMMA MayKeepStep ==
  ASSUME NEW p \in Processes, \A q \in Processes : q # p => Same(q), Keeper(p)' => Keeper(p)
  PROVE  MayKeep' \subseteq MayKeep
BY DEF MayKeep, Keeper, Same

LEMMA SafeStep ==
  ASSUME NEW p \in Processes, \A q \in Processes : q # p => Same(q),
         Safe, Wanted' \subseteq Wanted, files \subseteq files',
         plain' \/ link' \in files',
         process'[p].at = "linking" => process'[p].name \in files',
         process'[p].at = "pruning" => Wanted' \cap process'[p].old = {}
  PROVE  Safe'
BY DEF Safe, Same

\* While no more is kept or wanted, what was paid for stays so.
LEMMA LooseStep ==
  ASSUME Inv, Inv', Loose, files' \subseteq files, Wanted' \subseteq Wanted,
         MayKeep' \subseteq MayKeep, Paid <= Paid', Room' => Safe'
  PROVE  Loose'
<1>1. Paid \in Nat /\ Paid' \in Nat /\ files' \in SUBSET Releases
  BY PaidIsNumber, NumbersAfter
<1>2. /\ IsFiniteSet(MayKeep') /\ Cardinality(MayKeep) \in Nat
      /\ Cardinality(MayKeep') \in Nat /\ Cardinality(MayKeep') <= Cardinality(MayKeep)
  BY NoMore DEF Loose
<1>3. ASSUME NEW v \in Wanted'
      PROVE  Above(files', v) + Cardinality(MayKeep') <= Paid'
  <2>1. Above(files, v) + Cardinality(MayKeep) <= Paid
    BY <1>1, <1>3 DEF Loose, WithinPaid
  <2>2. Above(files', v) <= Above(files, v)
    BY <1>1, AboveGrows, Numbers
  <2>3. Above(files', v) \in Nat /\ Above(files, v) \in Nat
    BY <1>1, AboveIsNumber, Numbers
  <2> QED
    BY <1>1, <1>2, <2>1, <2>2, <2>3
<1>4. Cardinality(MayKeep') <= Paid'
  BY <1>1, <1>2 DEF Loose
<1> QED
  BY <1>1, <1>2, <1>3, <1>4 DEF Loose, WithinPaid

\* An activation, in any order with the others,
LEMMA ActivatesLoosely ==
  ASSUME Inv, Inv', Common, Loose, NEW p \in Processes, Activate(p)
  PROVE  Loose'
<1>1. process \in [Processes -> Processing] /\ process[p] \in Processing
  BY Numbers
<1>2. \A q \in Processes : q # p => Same(q)
  BY OthersStay
<1>3. UNCHANGED <<files, bounds>>
  BY DEF Activate, ReadMarker, Check, Link, ClearMarker, RemoveMarker, folder
<1>4. Paid' = Paid /\ Paid \in Nat /\ (Room' <=> Room)
  BY <1>3, PaidIsNumber DEF Paid, Room, bounds
<1>5. ASSUME Wanted' \subseteq Wanted, Keeper(p)' => Keeper(p),
             Room => plain' \/ link' \in files,
             process'[p].at = "linking" => process'[p].name \in files,
             process'[p].at # "pruning"
      PROVE  Loose'
  <2>1. MayKeep' \subseteq MayKeep
    BY <1>2, <1>5, MayKeepStep
  <2>2. Room' => Safe'
    BY <1>2, <1>3, <1>4, <1>5, SafeStep DEF Loose
  <2> QED
    BY <1>3, <1>4, <1>5, <2>1, <2>2, LooseStep
<1>6. Wanted = Wanted \cup {}
  OBVIOUS
<1>7. Room => plain \/ link \in files
  BY DEF Loose, Safe
<1>8. ASSUME UNCHANGED <<link, plain>>, next' \in {next, NoMarker},
             process'[p].at \in {"marker", "started", "asking", "open", "clearing"},
             process[p].kind = "quiet" \/ process'[p].at # "asking",
             process'[p].kind = "quiet" => process[p].kind = "quiet",
             process[p].at \in Activating
      PROVE  Loose'
  <2>1. Wanted' \subseteq Wanted
    <3>1. ~plain' /\ link' \in Releases => link' \in Wanted
      BY <1>8 DEF Wanted
    <3>2. next' \in Releases => next' \in Wanted
      BY <1>8, Numbers DEF Wanted, Releases
    <3> QED
      BY <1>2, <1>6, <1>8, <3>1, <3>2, WantedStep
  <2>2. Keeper(p)' => Keeper(p)
    BY <1>8 DEF Keeper
  <2> QED
    BY <1>5, <1>7, <1>8, <2>1, <2>2
<1>9. ASSUME process'[p] = Resumed(p)
      PROVE  /\ process'[p].at \in {"started", "asking", "open"}
             /\ process[p].kind = "quiet" \/ process'[p].at # "asking"
             /\ process'[p].kind = "quiet" => process[p].kind = "quiet"
  BY <1>1, <1>9, ResumedIs DEF Processing, Kinds
<1>10. process[p].at \in Activating
  BY DEF Activate, ReadMarker, Check, Link, ClearMarker, RemoveMarker, At, Activating
<1>11. CASE ReadMarker(p)
  <2>1. UNCHANGED <<link, plain, next>>
    BY <1>11 DEF ReadMarker, folder
  <2>2. CASE next = NoMarker
    <3>1. process'[p] = Resumed(p)
      BY <1>1, <1>11, <2>2 DEF ReadMarker
    <3> QED
      BY <1>8, <1>9, <1>10, <2>1, <3>1
  <2>3. CASE next # NoMarker
    <3>1. /\ process'[p].at = "checking" /\ process'[p].name = next
          /\ process'[p].kind = process[p].kind
      BY <1>1, <1>11, <2>3 DEF ReadMarker, Processing
    <3>2. next \in Releases => next \in Wanted
      BY DEF Wanted
    <3>3. ~plain' /\ link' \in Releases => link' \in Wanted
      BY <2>1 DEF Wanted
    <3>4. Wanted' \subseteq Wanted
      BY <1>2, <1>6, <2>1, <3>1, <3>2, <3>3, WantedStep
    <3>5. Keeper(p)' => Keeper(p)
      BY <1>10, <3>1 DEF Keeper
    <3> QED
      BY <1>5, <1>7, <2>1, <3>1, <3>4, <3>5
  <2> QED
    BY <2>2, <2>3
<1>12. CASE Check(p)
  <2>1. UNCHANGED <<link, plain, next>> /\ process[p].at = "checking"
    BY <1>12 DEF Check, folder, At
  <2>2. CASE process[p].name \notin files
    <3>1. process'[p].at = "clearing" /\ process'[p].kind = process[p].kind
      BY <1>1, <1>12, <2>2 DEF Check, Go, Processing
    <3> QED
      BY <1>8, <1>10, <2>1, <3>1
  <2>3. CASE process[p].name \in files /\ Waits(p)
    <3>1. process'[p] = Resumed(p)
      BY <1>1, <1>12, <2>3 DEF Check, Unless
    <3> QED
      BY <1>8, <1>9, <1>10, <2>1, <3>1
  <2>4. CASE process[p].name \in files /\ ~ Waits(p)
    <3>1. /\ process'[p].at = "linking" /\ process'[p].name = process[p].name
          /\ process'[p].kind = process[p].kind
      BY <1>1, <1>12, <2>4 DEF Check, Unless, Go, Processing
    <3>2. process[p].name \in Releases => process[p].name \in Wanted
      BY <2>1 DEF Wanted
    <3>3. /\ ~plain' /\ link' \in Releases => link' \in Wanted
          /\ next' \in Releases => next' \in Wanted
      BY <2>1 DEF Wanted
    <3>4. Wanted' \subseteq Wanted
      BY <1>2, <1>6, <2>1, <3>1, <3>2, <3>3, WantedStep
    <3>5. Keeper(p)' => Keeper(p)
      BY <1>10, <3>1 DEF Keeper
    <3> QED
      BY <1>5, <1>7, <2>1, <2>4, <3>1, <3>4, <3>5
  <2> QED
    BY <2>2, <2>3, <2>4
<1>13. CASE Link(p)
  <2>1. /\ link' = process[p].name /\ next' = next /\ process[p].at = "linking"
        /\ process'[p].at = "unmarking" /\ process'[p].kind = process[p].kind
    BY <1>1, <1>13 DEF Link, Go, At, Processing
  <2>2. /\ link' \in Releases => link' \in Wanted
        /\ next' \in Releases => next' \in Wanted
    BY <2>1 DEF Wanted
  <2>3. Wanted' \subseteq Wanted
    BY <1>2, <1>6, <2>1, <2>2, WantedStep
  <2>4. Keeper(p)' => Keeper(p)
    BY <1>10, <2>1 DEF Keeper
  <2>5. Room => link' \in files
    BY <2>1 DEF Loose, Safe
  <2> QED
    BY <1>5, <2>1, <2>3, <2>4, <2>5
<1>14. CASE ClearMarker(p)
  <2>1. process'[p] = Resumed(p) /\ UNCHANGED <<link, plain>> /\ next' = NoMarker
    BY <1>1, <1>14 DEF ClearMarker, Unmark
  <2> QED
    BY <1>8, <1>9, <1>10, <2>1
<1>15. CASE RemoveMarker(p)
  <2>1. UNCHANGED <<link, plain>> /\ next' = NoMarker
    BY <1>15 DEF RemoveMarker
  <2>2. CASE process[p].kind # "by hand" /\ Runs(link)
    <3>1. process'[p] = [Off EXCEPT !.at = "marker", !.kind = process[p].kind, !.running = link]
      BY <1>1, <1>15, <2>2 DEF RemoveMarker, Unmark
    <3>2. process'[p].at = "marker" /\ process'[p].kind = process[p].kind
      BY <3>1 DEF Off
    <3> QED
      BY <1>8, <1>10, <2>1, <3>2
  <2>3. CASE ~ (process[p].kind # "by hand" /\ Runs(link))
    <3>1. process'[p] = Resumed(p)
      BY <1>1, <1>15, <2>3 DEF RemoveMarker, Unmark
    <3> QED
      BY <1>8, <1>9, <1>10, <2>1, <3>1
  <2> QED
    BY <2>2, <2>3
<1> QED
  BY <1>11, <1>12, <1>13, <1>14, <1>15 DEF Activate

\* and an update.
LEMMA InstallsLoosely ==
  ASSUME Inv, Inv', Common, Loose, NEW p \in Processes, Install(p)
  PROVE  Loose'
<1>1. process \in [Processes -> Processing] /\ process[p] \in Processing
  BY Numbers
<1>2. \A q \in Processes : q # p => Same(q)
  BY OthersStay
<1>3. UNCHANGED <<link, plain, bounds>>
  BY DEF Install, AskLatest, Keep, OpenMarker, WriteMarker, ListOld, Prune, Note, folder
<1>4. Paid' = Paid /\ Paid \in Nat /\ (Room' <=> Room) /\ (Room => Paid < Kept)
  BY <1>3, PaidIsNumber DEF Paid, Room, bounds
<1>5. /\ \A v \in Wanted : Above(files, v) + Cardinality(MayKeep) <= Paid
      /\ IsFiniteSet(MayKeep) /\ Cardinality(MayKeep) \in Nat /\ Cardinality(MayKeep) <= Paid
      /\ \A v : Above(files, v) \in Nat
  <2>1. IsFiniteSet(MayKeep) /\ Cardinality(MayKeep) <= Paid /\ WithinPaid(0)
    BY DEF Loose
  <2>2. Cardinality(MayKeep) \in Nat
    BY <2>1, FS_CardinalityType
  <2>3. \A v : Above(files, v) \in Nat
    BY AboveIsNumber, Numbers
  <2>4. \A v \in Wanted : Above(files, v) + Cardinality(MayKeep) <= Paid
    BY <1>4, <2>1, <2>2, <2>3 DEF WithinPaid
  <2> QED
    BY <2>1, <2>2, <2>3, <2>4
<1>6. Wanted = Wanted \cup {}
  OBVIOUS
<1>7. ~plain' /\ link' \in Releases => link' \in Wanted
  BY <1>3 DEF Wanted
<1>8. Room => plain \/ link \in files
  BY DEF Loose, Safe
<1>9. ASSUME files' = files, Wanted' \subseteq Wanted, Keeper(p)' => Keeper(p),
             process'[p].at # "linking",
             process'[p].at = "pruning" /\ Room => Wanted' \cap process'[p].old = {}
      PROVE  Loose'
  <2>1. MayKeep' \subseteq MayKeep
    BY <1>2, <1>9, MayKeepStep
  <2>2. Room' => Safe'
    BY <1>2, <1>3, <1>4, <1>8, <1>9, SafeStep DEF Loose
  <2> QED
    BY <1>4, <1>9, <2>1, <2>2, LooseStep
<1>10. ASSUME Ends(p), UNCHANGED <<files, next>> PROVE Loose'
  <2>1. process'[p].at \in {"off", "open"}
    BY <1>1, <1>10 DEF Ends, Off
  <2>2. next' \in Releases => next' \in Wanted
    BY <1>10 DEF Wanted
  <2>3. Wanted' \subseteq Wanted
    BY <1>2, <1>6, <1>7, <2>1, <2>2, WantedStep
  <2>4. ~ Keeper(p)'
    BY <2>1 DEF Keeper, Activating
  <2> QED
    BY <1>9, <1>10, <2>1, <2>3, <2>4
<1>11. CASE AskLatest(p)
  <2>1. CASE ~ (latest > process[p].running)
    BY <1>10, <1>11, <2>1 DEF AskLatest, folder
  <2>2. CASE latest > process[p].running
    <3>1. /\ process'[p].at = "keeping" /\ process'[p].target = latest
          /\ process'[p].kind = process[p].kind
          /\ UNCHANGED <<files, next>> /\ process[p].at = "asking"
      BY <1>1, <1>11, <2>2 DEF AskLatest, folder, At, Processing
    <3>2. next' \in Releases => next' \in Wanted
      BY <3>1 DEF Wanted
    <3>3. Wanted' \subseteq Wanted \cup {latest}
      BY <1>2, <1>7, <3>1, <3>2, WantedStep
    <3>4. Above(files, latest) = 0
      BY AboveIsNumber, Numbers DEF Common
    <3>5. MayKeep' \subseteq MayKeep
      <4>1. Keeper(p)
        BY <3>1 DEF Keeper
      <4> QED
        BY <1>2, <4>1, MayKeepStep
    <3>6. /\ IsFiniteSet(MayKeep') /\ Cardinality(MayKeep') \in Nat
          /\ Cardinality(MayKeep') <= Cardinality(MayKeep)
      BY <1>5, <3>5, NoMore
    <3>7. ASSUME NEW v \in Wanted' PROVE Above(files', v) + Cardinality(MayKeep') <= Paid'
      <4>1. Above(files, v) + Cardinality(MayKeep) <= Paid
        BY <1>4, <1>5, <3>3, <3>4, <3>7
      <4>2. files' = files
        BY <3>1
      <4> QED
        BY <1>4, <1>5, <3>6, <4>1, <4>2
    <3>8. ASSUME Room PROVE Safe'
      <4>1. Safe
        BY <3>8 DEF Loose
      <4>2. \A q \in Processes : latest \notin process[q].old
        <5>1. SUFFICES ASSUME NEW q \in Processes, latest \in process[q].old PROVE FALSE
          OBVIOUS
        <5>2. PICK v \in files : \A w \in process[q].old : w < v
          BY <5>1 DEF Inv, Sound
        <5> QED
          BY <5>1, <5>2, Numbers DEF Common, NoneAbove
      <4>3. \A q \in Processes : process'[q].at = "pruning" =>
              process[q].at = "pruning" /\ process'[q].old = process[q].old
        BY <1>2, <3>1 DEF Same
      <4>4. \A q \in Processes : process'[q].at = "linking" =>
              process[q].at = "linking" /\ process'[q].name = process[q].name
        BY <1>2, <3>1 DEF Same
      <4> QED
        BY <1>3, <3>1, <3>3, <4>1, <4>2, <4>3, <4>4 DEF Safe
    <3> QED
      BY <1>4, <1>5, <3>6, <3>7, <3>8 DEF Loose, WithinPaid
  <2> QED
    BY <2>1, <2>2
<1>12. CASE Keep(p)
  <2> DEFINE target == process[p].target
  <2>1. /\ process[p].at = "keeping" /\ files' = files \cup {target} /\ next' = next
        /\ process'[p].at = "marking" /\ process'[p].target = target
        /\ process'[p].kind = process[p].kind
    BY <1>1, <1>12 DEF Keep, Go, At, Processing
  <2>2. target \in Releases
    BY <2>1 DEF Inv, Sound
  <2>3. target \in Wanted /\ (next' \in Releases => next' \in Wanted)
    BY <2>1, <2>2 DEF Wanted
  <2>4. Wanted' \subseteq Wanted
    BY <1>2, <1>6, <1>7, <2>1, <2>3, WantedStep
  <2>5. MayKeep' \subseteq MayKeep \ {p} /\ p \in MayKeep
    BY <1>2, <2>1 DEF MayKeep, Keeper, Same, Activating
  <2>6. /\ IsFiniteSet(MayKeep') /\ Cardinality(MayKeep') \in Nat
        /\ Cardinality(MayKeep') + 1 <= Cardinality(MayKeep)
    BY <1>5, <2>5, OneFewer
  <2>7. ASSUME NEW v \in Wanted' PROVE Above(files', v) + Cardinality(MayKeep') <= Paid'
    <3>1. Above(files, v) + Cardinality(MayKeep) <= Paid
      BY <1>5, <2>4, <2>7
    <3>2. Above(files', v) <= Above(files, v) + 1 /\ Above(files', v) \in Nat
      BY <2>1, <2>2, AboveAdds, AboveIsNumber, Numbers
    <3> QED
      BY <1>4, <1>5, <2>6, <3>1, <3>2
  <2>8. Room => Safe'
    BY <1>2, <1>3, <1>8, <2>1, <2>4, SafeStep DEF Loose
  <2>9. Cardinality(MayKeep') <= Paid'
    BY <1>4, <1>5, <2>6
  <2> QED
    BY <1>4, <2>6, <2>7, <2>8, <2>9 DEF Loose, WithinPaid
<1>13. CASE OpenMarker(p) \/ WriteMarker(p)
  <2>1. /\ process[p].at \in {"marking", "writing"} /\ files' = files
        /\ next' \in {Empty, next, process[p].target}
        /\ process'[p].at \in {"writing", "listing"} /\ process'[p].target = process[p].target
    BY <1>1, <1>13 DEF OpenMarker, WriteMarker, At, Processing
  <2>2. process[p].target \in Releases => process[p].target \in Wanted
    BY <2>1 DEF Wanted
  <2>3. next' \in Releases => next' \in Wanted
    BY <2>1, <2>2, Numbers DEF Wanted, Releases
  <2>4. Wanted' \subseteq Wanted
    BY <1>2, <1>6, <1>7, <2>1, <2>2, <2>3, WantedStep
  <2>5. ~ Keeper(p)'
    BY <2>1 DEF Keeper, Activating
  <2> QED
    BY <1>9, <2>1, <2>4, <2>5
<1>14. CASE ListOld(p)
  <2>1. /\ UNCHANGED <<files, next>>
        /\ process'[p].at = "pruning" /\ process'[p].old = Outdated(files)
    BY <1>1, <1>14 DEF ListOld, folder, Processing
  <2>2. next' \in Releases => next' \in Wanted
    BY <2>1 DEF Wanted
  <2>3. Wanted' \subseteq Wanted
    BY <1>2, <1>6, <1>7, <2>1, <2>2, WantedStep
  <2>4. ~ Keeper(p)'
    BY <2>1 DEF Keeper, Activating
  <2>5. ASSUME Room, NEW v \in Wanted' PROVE v \notin process'[p].old
    <3>1. Above(files, v) <= Paid
      BY <1>4, <1>5, <2>3, <2>5
    <3>2. ~ (Above(files, v) >= Kept)
      BY <1>4, <1>5, <2>5, <3>1, PaidIsNumber
    <3> QED
      BY <2>1, <3>2 DEF Outdated, Above
  <2> QED
    BY <1>9, <2>1, <2>3, <2>4, <2>5
<1>15. CASE Prune(p)
  <2>1. /\ files' = files \ process[p].old /\ next' = next /\ process[p].at = "pruning"
        /\ process'[p].at = "noting"
    BY <1>1, <1>15 DEF Prune, Go, At
  <2>2. next' \in Releases => next' \in Wanted
    BY <2>1 DEF Wanted
  <2>3. Wanted' \subseteq Wanted
    BY <1>2, <1>6, <1>7, <2>1, <2>2, WantedStep
  <2>4. ~ Keeper(p)'
    BY <2>1 DEF Keeper, Activating
  <2>5. MayKeep' \subseteq MayKeep
    BY <1>2, <2>4, MayKeepStep
  <2>6. ASSUME Room PROVE Safe'
    <3>1. Safe /\ Wanted \cap process[p].old = {}
      BY <2>1, <2>6 DEF Loose, Safe
    <3>2. plain' \/ link' \in files'
      <4>1. SUFFICES ASSUME ~plain PROVE link \in files'
        BY <1>3
      <4>2. link \in files /\ link \in Wanted
        BY <3>1, <4>1 DEF Safe, Common, Wanted
      <4> QED
        BY <2>1, <3>1, <4>2
    <3>3. ASSUME NEW q \in Processes, process'[q].at = "linking"
          PROVE  process'[q].name \in files'
      <4>1. /\ process[q].at = "linking" /\ process'[q].name = process[q].name
            /\ process[q].name \in files
        BY <1>2, <2>1, <3>1, <3>3 DEF Same, Safe
      <4>2. process[q].name \in Wanted
        BY <4>1, Numbers DEF Wanted
      <4> QED
        BY <2>1, <3>1, <4>1, <4>2
    <3>4. ASSUME NEW q \in Processes, process'[q].at = "pruning"
          PROVE  Wanted' \cap process'[q].old = {}
      BY <1>2, <2>1, <2>3, <3>1, <3>4 DEF Same, Safe
    <3> QED
      BY <3>2, <3>3, <3>4 DEF Safe
  <2>7. Room' => Safe'
    BY <1>4, <2>6
  <2>8. files' \subseteq files /\ Paid <= Paid'
    BY <1>4, <2>1
  <2> QED
    BY <2>3, <2>5, <2>7, <2>8, LooseStep
<1>16. CASE Note(p)
  <2>1. UNCHANGED <<files, next>>
    BY <1>16 DEF Note, folder
  <2>2. CASE Ends(p)
    BY <1>10, <2>1, <2>2
  <2>3. CASE process[p].kind = "by hand" /\ Go(p, "marker")
    <3>1. process'[p].at = "marker" /\ process'[p].kind = "by hand"
      BY <1>1, <2>3 DEF Go, Processing
    <3>2. next' \in Releases => next' \in Wanted
      BY <2>1 DEF Wanted
    <3>3. Wanted' \subseteq Wanted
      BY <1>2, <1>6, <1>7, <3>1, <3>2, WantedStep
    <3>4. ~ Keeper(p)'
      BY <3>1 DEF Keeper
    <3> QED
      BY <1>9, <2>1, <3>1, <3>3, <3>4
  <2> QED
    BY <1>16, <2>2, <2>3 DEF Note
<1> QED
  BY <1>11, <1>12, <1>13, <1>14, <1>15, <1>16 DEF Install

-----------------------------------------------------------------------------
(* Alone at work *)

LEMMA TightStep ==
  ASSUME Tight, NEW p \in Processes, Working(p), \A q \in Processes : q # p => Same(q),
         Working(p)' => Lone(p)',
         ~ Working(p)' => Idle' /\ (Room' => Safe')
  PROVE  Tight'
<1>1. \A q \in Processes : q # p => ~ Working(q)
  BY DEF Tight
<1>2. \A q \in Processes : q # p => ~ Working(q)'
  BY <1>1 DEF Same, Working
<1>3. Working(p)' => Busy'
  BY DEF Working, Busy
<1> QED
  BY <1>2, <1>3 DEF Tight

\* What is safe when one is at work, as nobody else prunes or links
LEMMA SafeAlone ==
  ASSUME NEW p \in Processes, \A q \in Processes : q # p => ~ Working(q)',
         plain' \/ link' \in files',
         process'[p].at = "linking" => process'[p].name \in files',
         process'[p].at = "pruning" =>
           next' \notin process'[p].old /\ (plain' \/ link' \notin process'[p].old)
  PROVE  Safe'
<1>1. \A q \in Processes : q # p => process'[q].at \notin {"linking", "pruning", "checking",
                                                       "keeping", "marking", "writing"}
  BY DEF Working, Activating, Installing
<1>2. process'[p].at = "pruning" => Wanted' \cap process'[p].old = {}
  BY <1>1 DEF Wanted
<1> QED
  BY <1>1, <1>2 DEF Safe

\* What has not been paid for is within two, and one may keep one more.
LEMMA TightBound ==
  ASSUME Inv, Common, Tight
  PROVE  /\ IsFiniteSet(MayKeep) /\ Cardinality(MayKeep) \in Nat /\ Cardinality(MayKeep) <= 1
         /\ WithinPaid(2)
<1>1. Paid \in Nat /\ \A v : Above(files, v) \in Nat
  BY PaidIsNumber, AboveIsNumber, Numbers
<1>2. ASSUME ~Busy
      PROVE  /\ IsFiniteSet(MayKeep) /\ Cardinality(MayKeep) \in Nat
             /\ Cardinality(MayKeep) <= 1 /\ WithinPaid(2)
  <2>1. MayKeep = {}
    BY <1>2 DEF MayKeep, Keeper, Busy, Installing
  <2>2. IsFiniteSet(MayKeep) /\ Cardinality(MayKeep) = 0
    BY <2>1, FS_EmptySet
  <2>3. NextWithin(0) /\ LinkWithin(1)
    BY <1>1, <1>2 DEF Tight, Idle, LinkWithin
  <2>4. \A v \in Wanted : v = next \/ (~plain /\ v = link)
    BY <1>2 DEF Wanted, Busy, Activating, Installing
  <2>5. \A v \in Wanted : Above(files, v) <= Paid + 1
    BY <1>1, <2>3, <2>4 DEF NextWithin, LinkWithin, Wanted
  <2> QED
    BY <1>1, <2>2, <2>5 DEF WithinPaid
<1>3. ASSUME NEW p \in Processes, Working(p)
      PROVE  /\ IsFiniteSet(MayKeep) /\ Cardinality(MayKeep) \in Nat
             /\ Cardinality(MayKeep) <= 1 /\ WithinPaid(2)
  <2>1. Lone(p) /\ \A q \in Processes : q # p => ~ Working(q)
    BY <1>3 DEF Tight
  <2>2. MayKeep \subseteq {p}
    BY <2>1 DEF MayKeep, Keeper, Working, Installing
  <2>3. IsFiniteSet({}) /\ Cardinality({}) = 0
    BY FS_EmptySet
  <2>4. IsFiniteSet(MayKeep) /\ Cardinality(MayKeep) \in Nat /\ Cardinality(MayKeep) <= 1
    BY <2>2, <2>3, OneMore
  <2>5. ~ Keeper(p) => Cardinality(MayKeep) = 0
    BY <2>2, <2>3 DEF MayKeep
  <2>6. /\ Idle \/ IsHighest(next) \/ NextWithin(1) \/ next = Empty \/ next = link
        /\ Keeper(p) => Idle \/ (next = link /\ LinkWithin(0))
    <3>1. process[p].at \in {"marker", "checking", "linking", "clearing", "unmarking", "asking",
             "keeping", "marking", "writing", "listing", "pruning", "noting"}
      BY <1>3 DEF Working, Activating, Installing
    <3> QED
      BY <2>1, <3>1 DEF Lone, Keeper, Holding, Activating
  <2>7. Idle => LinkWithin(1) /\ NextWithin(0)
    BY <1>1 DEF Idle, LinkWithin
  <2>8. IsHighest(next) => Above(files, next) = 0
    BY Numbers, AboveIsNumber DEF IsHighest
  <2>9. LinkWithin(2)
    BY <2>1 DEF Lone
  <2>10. ASSUME ~plain, link \in Wanted
         PROVE  Above(files, link) + Cardinality(MayKeep) <= Paid + 2
    BY <1>1, <2>4, <2>5, <2>6, <2>7, <2>9, <2>10 DEF LinkWithin
  <2>11. ASSUME next \in Wanted
         PROVE  Above(files, next) + Cardinality(MayKeep) <= Paid + 2
    <3>1. next \in Releases /\ next # Empty
      BY <2>11, Numbers DEF Wanted, Releases
    <3>2. CASE Keeper(p) /\ next = link /\ LinkWithin(0)
      <4>1. CASE ~plain
        BY <1>1, <2>4, <3>2, <4>1 DEF LinkWithin
      <4>2. CASE plain /\ ~ Idle
        <5>1. process[p].at = "unmarking"
          BY <2>1, <3>2, <4>2 DEF Lone, Keeper, Activating, Holding
        <5> QED
          BY <2>1, <4>2, <5>1 DEF Lone
      <4>3. CASE Idle
        BY <1>1, <2>4, <2>7, <3>1, <4>3 DEF NextWithin
      <4> QED
        BY <4>1, <4>2, <4>3
    <3>3. CASE Idle
      BY <1>1, <2>4, <2>7, <3>1, <3>3 DEF NextWithin
    <3>4. CASE ~ Keeper(p) /\ ~ Idle
      <4>1. Cardinality(MayKeep) = 0
        BY <2>5, <3>4
      <4>2. CASE next = link
        <5>1. CASE ~plain
          BY <1>1, <2>9, <4>1, <4>2, <5>1 DEF LinkWithin
        <5>2. CASE plain
          <6>1. IsHighest(next) \/ NextWithin(1)
            <7>1. process[p].at \in {"marker", "checking", "linking", "clearing", "unmarking",
                     "asking", "keeping", "marking", "writing", "listing", "pruning", "noting"}
              BY <1>3 DEF Working, Activating, Installing
            <7> QED
              BY <2>1, <3>1, <3>4, <5>2, <7>1 DEF Lone, Holding
          <6> QED
            BY <1>1, <2>8, <3>1, <4>1, <6>1 DEF NextWithin
        <5> QED
          BY <5>1, <5>2
      <4>3. CASE next # link
        BY <1>1, <2>6, <2>8, <3>1, <3>4, <4>1, <4>3 DEF NextWithin
      <4> QED
        BY <4>2, <4>3
    <3> QED
      BY <2>6, <3>2, <3>3, <3>4
  <2>12. ASSUME NEW v \in Wanted PROVE Above(files, v) + Cardinality(MayKeep) <= Paid + 2
    <3>1. \A q \in Processes : process[q].at \in {"checking", "linking", "keeping", "marking",
                                               "writing"} => q = p
      BY <2>1 DEF Working, Activating, Installing
    <3>2. CASE ~plain /\ v = link
      BY <2>10, <2>12, <3>2
    <3>3. CASE v = next
      BY <2>11, <2>12, <3>3
    <3>4. CASE process[p].at \in {"checking", "linking"} /\ v = process[p].name
      <4>1. v = next
        BY <2>1, <3>4 DEF Lone
      <4> QED
        BY <2>11, <2>12, <4>1
    <3>5. CASE process[p].at \in {"keeping", "marking", "writing"} /\ v = process[p].target
      <4>1. NoneAbove(v)
        BY <2>1, <3>5 DEF Lone, Holding, IsHighest
      <4>2. Above(files, v) = 0
        BY <3>5, <4>1, Numbers, AboveIsNumber
      <4> QED
        BY <1>1, <2>4, <4>2
    <3> QED
      BY <2>12, <3>1, <3>2, <3>3, <3>4, <3>5 DEF Wanted
  <2> QED
    BY <2>4, <2>12 DEF WithinPaid
<1> QED
  BY <1>2, <1>3 DEF Busy, Working

\* An activation that nobody works beside,
LEMMA ActivatesAlone ==
  ASSUME Inv, Common, Tight, NEW p \in Processes, Activate(p)
  PROVE  Tight'
<1>1. process \in [Processes -> Processing] /\ process[p] \in Processing
  BY Numbers
<1>2. \A q \in Processes : q # p => Same(q)
  BY OthersStay
<1>3. UNCHANGED <<files, bounds>>
  BY DEF Activate, ReadMarker, Check, Link, ClearMarker, RemoveMarker, folder
<1>4. Paid' = Paid /\ Paid \in Nat /\ (Room' <=> Room)
  BY <1>3, PaidIsNumber DEF Paid, Room, bounds
<1>4a. \A v : Above(files, v) \in Nat
  BY AboveIsNumber, Numbers
<1>4b. LinkWithin(0)' => LinkWithin(2)' /\ LinkWithin(1)'
  <2>1. Above(files', link') \in Nat /\ Paid' \in Nat
    BY <1>3, <1>4, <1>4a
  <2> QED
    BY <2>1 DEF LinkWithin
<1>4c. LinkWithin(0) /\ UNCHANGED <<link, plain>> => LinkWithin(0)'
  BY <1>3, <1>4 DEF LinkWithin
<1>4d. LinkWithin(0)' /\ next' = NoMarker => Idle'
  BY Numbers DEF Idle, NextWithin, Releases
<1>5. process[p].at \in Activating /\ Working(p) /\ Lone(p)
  BY DEF Activate, ReadMarker, Check, Link, ClearMarker, RemoveMarker, At, Activating, Working,
         Tight
<1>6. \A q \in Processes : q # p => ~ Working(q)'
  BY <1>2, <1>5 DEF Tight, Working, Same
<1>7. ASSUME Safe, UNCHANGED <<link, plain>>,
             process'[p].at \in {"marker", "started", "asking", "open", "clearing", "checking"}
      PROVE  Safe'
  BY <1>3, <1>6, <1>7, SafeAlone DEF Safe
<1>8. ASSUME process'[p] = Resumed(p), UNCHANGED <<link, plain>>, Idle',
             process[p].kind = "quiet" => LinkWithin(0)',
             Room => Safe
      PROVE  Tight'
  <2>1. /\ process[p].kind = "quiet" => process'[p].at = "asking" /\ process'[p].kind = "quiet"
        /\ process[p].kind # "quiet" => process'[p].at \in {"started", "open"}
    BY <1>1, <1>8, ResumedIs DEF Processing, Kinds
  <2>2. Room' => Safe'
    <3>1. process'[p].at \in {"asking", "started", "open"}
      BY <2>1
    <3> QED
      BY <1>4, <1>7, <1>8, <3>1
  <2>4. CASE process[p].kind = "quiet"
    <3>1. Lone(p)'
      BY <1>8, <1>4b, <2>1, <2>2, <2>4 DEF Lone, Holding
    <3>2. Working(p)'
      BY <2>1, <2>4 DEF Working, Installing
    <3> QED
      BY <1>2, <1>5, <3>1, <3>2, TightStep
  <2>5. CASE process[p].kind # "quiet"
    <3>1. ~ Working(p)'
      BY <2>1, <2>5 DEF Working, Activating, Installing
    <3> QED
      BY <1>2, <1>5, <1>8, <2>2, <3>1, TightStep
  <2> QED
    BY <2>4, <2>5
<1>9. ASSUME UNCHANGED <<link, plain, next>>
      PROVE  /\ Idle' <=> Idle
             /\ (LinkWithin(0)' <=> LinkWithin(0)) /\ (LinkWithin(2)' <=> LinkWithin(2))
             /\ (IsHighest(next)' <=> IsHighest(next))
  BY <1>3, <1>4, <1>9 DEF Idle, LinkWithin, NextWithin, IsHighest, NoneAbove
<1>10. CASE ReadMarker(p)
  <2>1. UNCHANGED <<link, plain, next>> /\ process[p].at = "marker"
    BY <1>10 DEF ReadMarker, folder, At
  <2>2. CASE next = NoMarker
    <3>1. process'[p] = Resumed(p)
      BY <1>1, <1>10, <2>2 DEF ReadMarker
    <3>2. next \notin files
      BY <2>2, Numbers
    <3>3. process[p].kind # "by hand" /\ Idle /\ LinkWithin(0)
      BY <1>5, <2>1, <3>2 DEF Lone, Idle, IsHighest
    <3>4. Room => Safe
      BY <1>5, <3>3 DEF Lone, Strained
    <3> QED
      BY <1>8, <1>9, <2>1, <3>1, <3>3, <3>4
  <2>3. CASE next # NoMarker
    <3>1. /\ process'[p].at = "checking" /\ process'[p].name = next
          /\ process'[p].kind = process[p].kind
      BY <1>1, <1>10, <2>3 DEF ReadMarker, Processing
    <3>2. Room' => Safe' \/ Strained(p)'
      <4>1. Strained(p) => Strained(p)'
        BY <1>4, <2>1, <3>1 DEF Strained
      <4> QED
        BY <1>4, <1>5, <1>7, <2>1, <3>1, <4>1 DEF Lone
    <3>3. Lone(p)'
      <4>1. process[p].kind # "by hand" => Idle
        BY <1>5, <2>1 DEF Lone
      <4>2. process[p].kind = "by hand" => IsHighest(next)
        BY <1>5, <2>1 DEF Lone
      <4>3. LinkWithin(2)
        BY <1>5 DEF Lone
      <4> QED
        BY <1>9, <2>1, <3>1, <3>2, <4>1, <4>2, <4>3 DEF Lone, Holding, Installing
    <3>4. Working(p)'
      BY <3>1 DEF Working, Activating
    <3> QED
      BY <1>2, <1>5, <3>3, <3>4, TightStep
  <2> QED
    BY <2>2, <2>3
<1>11. CASE Check(p)
  <2>1. /\ UNCHANGED <<link, plain, next>> /\ process[p].at = "checking"
        /\ process[p].name = next /\ LinkWithin(2)
        /\ process[p].kind # "by hand" => Idle
        /\ process[p].kind = "by hand" => IsHighest(next)
    BY <1>5, <1>11 DEF Check, folder, At, Lone
  <2>2. CASE process[p].name \notin files
    <3>1. process'[p].at = "clearing" /\ process'[p].kind = process[p].kind
      BY <1>1, <1>11, <2>2 DEF Check, Go, Processing
    <3>2. process[p].kind # "by hand" /\ Idle /\ LinkWithin(0)
      BY <2>1, <2>2 DEF IsHighest, Idle
    <3>3. Room' => Safe'
      <4>1. Room => Safe
        BY <1>5, <3>2 DEF Lone, Strained
      <4> QED
        BY <1>4, <1>7, <2>1, <3>1, <4>1
    <3>4. Lone(p)' /\ Working(p)'
      BY <1>9, <2>1, <3>1, <3>2, <3>3
      DEF Lone, Holding, Installing, Working, Activating
    <3> QED
      BY <1>2, <1>5, <3>4, TightStep
  <2>3. CASE process[p].name \in files /\ Waits(p)
    <3>1. process'[p] = Resumed(p)
      BY <1>1, <1>11, <2>3 DEF Check, Unless
    <3>2. plain /\ process[p].kind # "by hand" /\ Idle
      BY <2>1, <2>3 DEF Waits
    <3>3. LinkWithin(0)
      BY <3>2 DEF LinkWithin
    <3>4. Room => Safe
      BY <1>5, <3>2 DEF Lone, Strained
    <3> QED
      BY <1>8, <1>9, <2>1, <3>1, <3>2, <3>3, <3>4
  <2>4. CASE process[p].name \in files /\ ~ Waits(p)
    <3>1. /\ process'[p].at = "linking" /\ process'[p].name = process[p].name
          /\ process'[p].kind = process[p].kind
      BY <1>1, <1>11, <2>4 DEF Check, Unless, Go, Processing
    <3>2. Room' => Safe' \/ Strained(p)'
      <4>1. Strained(p) => Strained(p)'
        BY <1>4, <2>1, <3>1 DEF Strained
      <4>2. Safe => Safe'
        BY <1>3, <1>6, <2>1, <2>4, <3>1, SafeAlone DEF Safe
      <4> QED
        BY <1>4, <1>5, <4>1, <4>2 DEF Lone
    <3>3. Lone(p)' /\ Working(p)'
      BY <1>3, <1>9, <2>1, <2>4, <3>1, <3>2
      DEF Lone, Holding, Installing, Working, Activating
    <3> QED
      BY <1>2, <1>5, <3>3, TightStep
  <2> QED
    BY <2>2, <2>3, <2>4
<1>12. CASE Link(p)
  <2>1. /\ link' = process[p].name /\ plain' = FALSE /\ next' = next
        /\ process[p].at = "linking" /\ process[p].name = next /\ process[p].name \in files
        /\ process[p].kind # "by hand" => Idle
        /\ process[p].kind = "by hand" => IsHighest(next)
        /\ process'[p].at = "unmarking"
    BY <1>1, <1>5, <1>12 DEF Link, Go, At, Lone, Processing
  <2>2. Above(files, next) <= Paid
    <3>1. CASE process[p].kind = "by hand"
      <4>1. next \in Nat /\ NoneAbove(next)
        BY <2>1, <3>1, Numbers DEF IsHighest
      <4>2. Above(files, next) = 0
        BY <4>1, AboveIsNumber, Numbers
      <4> QED
        BY <1>4, <4>2
    <3>2. CASE process[p].kind # "by hand"
      <4>1. next \in Releases
        BY <2>1, Numbers
      <4> QED
        <5>1. Above(files, next) <= Paid + 0
          BY <2>1, <3>2, <4>1 DEF Idle, NextWithin
        <5> QED
          BY <1>4, <5>1
    <3> QED
      BY <3>1, <3>2
  <2>3. LinkWithin(0)' /\ LinkWithin(2)'
    <3>1. Above(files', link') <= Paid' + 0
      <4>1. Above(files', link') = Above(files, next)
        BY <1>3, <2>1
      <4> QED
        BY <1>4, <2>2, <4>1
    <3> QED
      BY <1>4b, <3>1 DEF LinkWithin
  <2>4. Safe'
    BY <1>3, <1>6, <2>1, SafeAlone
  <2>5. Lone(p)' /\ Working(p)'
    BY <1>3, <2>1, <2>3, <2>4 DEF Lone, Holding, Installing, Working, Activating
  <2> QED
    BY <1>2, <1>5, <2>5, TightStep
<1>13. CASE ClearMarker(p)
  <2>1. /\ process'[p] = Resumed(p) /\ UNCHANGED <<link, plain>> /\ next' = NoMarker
        /\ process[p].at = "clearing" /\ process[p].kind # "by hand" /\ LinkWithin(0)
    BY <1>1, <1>5, <1>13 DEF ClearMarker, Unmark, At, Lone
  <2>2. LinkWithin(0)' /\ Idle'
    BY <1>4c, <1>4d, <2>1
  <2>3. Room => Safe
    BY <1>5, <2>1 DEF Lone, Strained
  <2> QED
    BY <1>8, <2>1, <2>2, <2>3
<1>14. CASE RemoveMarker(p)
  <2>1. /\ UNCHANGED <<link, plain>> /\ next' = NoMarker /\ process[p].at = "unmarking"
        /\ LinkWithin(0)
    BY <1>5, <1>14 DEF RemoveMarker, At, Lone
  <2>2. LinkWithin(0)' /\ Idle' /\ LinkWithin(2)'
    BY <1>4b, <1>4c, <1>4d, <2>1
  <2>3. Room => Safe
    BY <1>5, <2>1 DEF Lone, Strained
  <2>4. CASE process[p].kind # "by hand" /\ Runs(link)
    <3>1. process'[p] = [Off EXCEPT !.at = "marker", !.kind = process[p].kind, !.running = link]
      BY <1>1, <1>14, <2>4 DEF RemoveMarker, Unmark
    <3>2. process'[p].at = "marker" /\ process'[p].kind = process[p].kind
      BY <3>1 DEF Off
    <3>3. Room' => Safe'
      BY <1>4, <1>7, <2>1, <2>3, <3>2
    <3>4. Lone(p)' /\ Working(p)'
      BY <2>2, <2>4, <3>2, <3>3 DEF Lone, Holding, Installing, Working, Activating
    <3> QED
      BY <1>2, <1>5, <3>4, TightStep
  <2>5. CASE ~ (process[p].kind # "by hand" /\ Runs(link))
    <3>1. process'[p] = Resumed(p)
      BY <1>1, <1>14, <2>5 DEF RemoveMarker, Unmark
    <3> QED
      BY <1>8, <2>1, <2>2, <2>3, <3>1
  <2> QED
    BY <2>4, <2>5
<1> QED
  BY <1>10, <1>11, <1>12, <1>13, <1>14 DEF Activate

\* and an update.
LEMMA InstallsAlone ==
  ASSUME Inv, Common, Tight, NEW p \in Processes, Install(p)
  PROVE  Tight'
<1> DEFINE target == process[p].target
<1>1. process \in [Processes -> Processing] /\ process[p] \in Processing
  BY Numbers
<1>2. \A q \in Processes : q # p => Same(q)
  BY OthersStay
<1>3. UNCHANGED <<link, plain, bounds>>
  BY DEF Install, AskLatest, Keep, OpenMarker, WriteMarker, ListOld, Prune, Note, folder
<1>4. Paid' = Paid /\ Paid \in Nat /\ Kept \in Nat /\ (Room' <=> Room)
  BY <1>3, PaidIsNumber DEF Paid, Room, bounds
<1>5. process[p].at \in Installing /\ Working(p) /\ Lone(p) /\ process[p].kind # "starting"
  BY DEF Install, AskLatest, Keep, OpenMarker, WriteMarker, ListOld, Prune, Note, At, Installing,
         Working, Tight, Common
<1>6. \A q \in Processes : q # p => ~ Working(q)'
  BY <1>2, <1>5 DEF Tight, Working, Same
<1>7. \A v : Above(files, v) \in Nat
  BY AboveIsNumber, Numbers
<1>8. LinkWithin(2) /\ (process[p].kind = "by hand" => plain \/ process[p].running # 0)
  BY <1>5 DEF Lone
<1>9. process[p].kind \in {"quiet", "by hand"}
  BY <1>1, <1>5 DEF Processing, Kinds
<1>10. \A n \in {0, 1, 2} : files' = files /\ LinkWithin(n) => LinkWithin(n)'
  BY <1>3, <1>4 DEF LinkWithin
<1>11. UNCHANGED <<files, next>> /\ Idle => Idle'
  BY <1>3, <1>4 DEF Idle, LinkWithin, NextWithin
<1>12. ASSUME Safe, files \subseteq files', process'[p].at \notin {"linking", "pruning"}
       PROVE  Safe'
  BY <1>3, <1>6, <1>12, SafeAlone DEF Safe
<1>13. process[p].at \in {"asking", "keeping", "marking", "writing", "listing"} => (Room => Safe)
  BY <1>5 DEF Lone, Strained
<1>14. CASE AskLatest(p)
  <2>1. /\ Idle' /\ UNCHANGED <<files, next>>
        /\ process[p].kind = "quiet" => LinkWithin(0)'
        /\ LinkWithin(2)' /\ (Room => Safe)
    BY <1>5, <1>8, <1>10, <1>11, <1>13, <1>14 DEF AskLatest, At, folder, Lone
  <2>2. CASE latest > process[p].running
    <3>1. /\ process'[p].at = "keeping" /\ process'[p].target = latest
          /\ process'[p].kind = process[p].kind /\ process'[p].running = process[p].running
      BY <1>1, <1>14, <2>2 DEF AskLatest, Processing
    <3>3. Room' => Safe'
      BY <1>4, <1>12, <2>1, <3>1
    <3>4. \A v \in files' : v <= process'[p].target
      BY <2>1, <3>1 DEF Common, NoneAbove
    <3>5. Lone(p)' /\ Working(p)'
      BY <1>3, <1>8, <2>1, <3>1, <3>3, <3>4
      DEF Lone, Holding, Installing, Working, NoneAbove
    <3> QED
      BY <1>2, <1>5, <3>5, TightStep
  <2>3. CASE ~ (latest > process[p].running)
    <3>1. Ends(p)
      BY <1>14, <2>3 DEF AskLatest
    <3>2. process'[p].at \in {"off", "open"}
      BY <1>1, <3>1 DEF Ends, Off
    <3>3. ~ Working(p)' /\ (Room' => Safe')
      BY <1>4, <1>12, <2>1, <3>2 DEF Working, Activating, Installing
    <3> QED
      BY <1>2, <1>5, <2>1, <3>3, TightStep
  <2> QED
    BY <2>2, <2>3
<1>15. CASE Keep(p)
  <2>1. /\ process[p].at = "keeping" /\ files' = files \cup {target} /\ next' = next
        /\ process'[p].at = "marking" /\ process'[p].target = target
        /\ process'[p].kind = process[p].kind /\ process'[p].running = process[p].running
    BY <1>1, <1>15 DEF Keep, Go, At, Processing
  <2>2. /\ Idle /\ NoneAbove(target) /\ (process[p].kind = "quiet" => LinkWithin(0))
        /\ target \in Releases
    BY <1>5, <2>1 DEF Lone, Inv, Sound
  <2>3. \A v : Above(files', v) <= Above(files, v) + 1 /\ Above(files', v) \in Nat
    BY <2>1, <2>2, AboveAdds, AboveIsNumber, Numbers
  <2>4. target \in files' /\ \A v \in files' : v <= target
    BY <2>1, <2>2 DEF NoneAbove, Releases
  <2>5. NextWithin(1)'
    <3>1. SUFFICES ASSUME next \in Releases PROVE Above(files', next) <= Paid + 1
      BY <1>4, <2>1 DEF NextWithin
    <3>2. Above(files, next) <= Paid + 0
      BY <2>2, <3>1 DEF Idle, NextWithin
    <3> QED
      BY <1>4, <1>7, <2>3, <3>2
  <2>6. LinkWithin(2)' /\ (process[p].kind = "quiet" => LinkWithin(1)')
    <3>1. CASE plain
      BY <1>3, <3>1 DEF LinkWithin
    <3>2. CASE ~plain
      <4>1. Above(files, link) <= Paid + 1
        BY <1>4, <1>7, <2>2, <3>2 DEF Idle, LinkWithin
      <4>2. process[p].kind = "quiet" => Above(files, link) <= Paid
        BY <1>4, <1>7, <2>2, <3>2 DEF LinkWithin
      <4>3. /\ Above(files', link) <= Paid + 2
            /\ process[p].kind = "quiet" => Above(files', link) <= Paid + 1
        BY <1>4, <1>7, <2>3, <4>1, <4>2
      <4> QED
        BY <1>3, <1>4, <4>3 DEF LinkWithin
    <3> QED
      BY <3>1, <3>2
  <2>7. Room' => Safe'
    BY <1>4, <1>12, <1>13, <2>1
  <2>8. Lone(p)' /\ Working(p)'
    BY <1>3, <1>8, <2>1, <2>4, <2>5, <2>6, <2>7
    DEF Lone, Holding, Installing, Working, IsHighest, NoneAbove
  <2> QED
    BY <1>2, <1>5, <2>8, TightStep
<1>16. CASE OpenMarker(p)
  <2>1. /\ process[p].at = "marking" /\ files' = files /\ next' = Empty
        /\ process'[p].at = "writing" /\ process'[p].target = target /\ process'[p].opened
        /\ process'[p].kind = process[p].kind /\ process'[p].running = process[p].running
    BY <1>1, <1>16 DEF OpenMarker, At, Processing
  <2>2. IsHighest(target) /\ (process[p].kind = "quiet" => LinkWithin(1))
    BY <1>5, <2>1 DEF Lone, Holding
  <2>3. LinkWithin(2)' /\ (process[p].kind = "quiet" => LinkWithin(1)')
    BY <1>8, <1>10, <2>1, <2>2
  <2>4. Room' => Safe'
    BY <1>4, <1>12, <1>13, <2>1
  <2>5. Lone(p)' /\ Working(p)'
    BY <1>3, <1>8, <2>1, <2>2, <2>3, <2>4
    DEF Lone, Holding, Installing, Working, IsHighest, NoneAbove
  <2> QED
    BY <1>2, <1>5, <2>5, TightStep
<1>17. CASE WriteMarker(p)
  <2>1. process[p].opened /\ process[p].at = "writing"
    BY <1>5, <1>17 DEF WriteMarker, At, Lone
  <2>2. /\ files' = files /\ next' = target
        /\ process'[p].at = "listing" /\ process'[p].target = target
        /\ process'[p].kind = process[p].kind /\ process'[p].running = process[p].running
    BY <1>1, <1>17, <2>1 DEF WriteMarker, Processing
  <2>3. IsHighest(target) /\ (process[p].kind = "quiet" => LinkWithin(1))
    BY <1>5, <2>1 DEF Lone, Holding
  <2>4. LinkWithin(2)' /\ (process[p].kind = "quiet" => LinkWithin(1)')
    BY <1>8, <1>10, <2>2, <2>3
  <2>5. Room' => Safe'
    BY <1>4, <1>12, <1>13, <2>1, <2>2
  <2>6. Lone(p)' /\ Working(p)'
    BY <1>3, <1>8, <2>2, <2>3, <2>4, <2>5
    DEF Lone, Holding, Installing, Working, IsHighest, NoneAbove
  <2> QED
    BY <1>2, <1>5, <2>6, TightStep
<1>18. CASE ListOld(p)
  <2>1. /\ UNCHANGED <<files, next>> /\ process[p].at = "listing"
        /\ process'[p].at = "pruning" /\ process'[p].target = target
        /\ process'[p].old = Outdated(files)
        /\ process'[p].kind = process[p].kind /\ process'[p].running = process[p].running
    BY <1>1, <1>18 DEF ListOld, At, folder, Processing
  <2>2. IsHighest(target) /\ next = target /\ (process[p].kind = "quiet" => LinkWithin(1))
    BY <1>5, <2>1 DEF Lone, Holding
  <2>3. LinkWithin(2)' /\ (process[p].kind = "quiet" => LinkWithin(1)')
    BY <1>8, <1>10, <2>1, <2>2
  <2>4. target \notin Outdated(files)
    BY <2>2, HighestIsNotOutdated, Numbers DEF IsHighest, NoneAbove
  <2>5. Room' => Safe' \/ Strained(p)'
    <3>1. SUFFICES ASSUME Room PROVE Safe' \/ Strained(p)'
      BY <1>4
    <3>2. Safe /\ Kept >= Paid + 2
      BY <1>4, <1>13, <2>1, <3>1 DEF Room
    <3>3. CASE plain \/ link \notin Outdated(files)
      <4>1. plain' \/ link' \in files'
        BY <1>3, <2>1, <3>2 DEF Safe
      <4>2. Safe'
        BY <1>3, <1>6, <2>1, <2>2, <2>4, <3>3, <4>1, SafeAlone
      <4> QED
        BY <4>2
    <3>4. CASE ~plain /\ link \in Outdated(files)
      <4>1. Above(files, link) >= Kept
        BY <3>4 DEF Outdated, Above
      <4>2. process[p].kind # "quiet" /\ Kept = Paid + 2
        <5>1. Above(files, link) <= Paid + 2
          BY <1>8, <3>4 DEF LinkWithin
        <5>2. process[p].kind = "quiet" => Above(files, link) <= Paid + 1
          BY <2>2, <3>4 DEF LinkWithin
        <5>3. Above(files, link) \in Nat
          BY <1>7
        <5> QED
          BY <1>4, <3>2, <4>1, <5>1, <5>2, <5>3
      <4> QED
        BY <1>3, <1>4, <1>9, <2>1, <3>4, <4>2 DEF Strained
    <3> QED
      BY <3>3, <3>4
  <2>6. Lone(p)' /\ Working(p)'
    BY <1>3, <1>8, <2>1, <2>2, <2>3, <2>4, <2>5
    DEF Lone, Holding, Installing, Working, IsHighest, NoneAbove
  <2> QED
    BY <1>2, <1>5, <2>6, TightStep
<1>19. CASE Prune(p)
  <2>1. /\ process[p].at = "pruning" /\ files' = files \ process[p].old /\ next' = next
        /\ process'[p].at = "noting" /\ process'[p].target = target
        /\ process'[p].kind = process[p].kind /\ process'[p].running = process[p].running
    BY <1>1, <1>19 DEF Prune, Go, At, Processing
  <2>2. /\ IsHighest(target) /\ next = target /\ target \notin process[p].old
        /\ process[p].kind = "quiet" => LinkWithin(1)
    BY <1>5, <2>1 DEF Lone, Holding
  <2>3. LinkWithin(2)' /\ (process[p].kind = "quiet" => LinkWithin(1)')
    <3>1. Above(files', link) <= Above(files, link) /\ Above(files', link) \in Nat
      BY <2>1, AboveGrows, AboveIsNumber, Numbers
    <3>2. \A n \in {1, 2} : LinkWithin(n) => LinkWithin(n)'
      <4> SUFFICES ASSUME NEW n \in {1, 2}, Above(files, link) <= Paid + n
                   PROVE  Above(files', link) <= Paid + n
        BY <1>3, <1>4 DEF LinkWithin
      <4> QED
        BY <1>4, <1>7, <3>1
    <3> QED
      BY <1>8, <2>2, <3>2
  <2>4. IsHighest(target)'
    BY <2>1, <2>2 DEF IsHighest, NoneAbove
  <2>5. Room' => Safe' \/ Strained(p)'
    <3>1. Strained(p) => Strained(p)'
      BY <1>3, <1>4, <2>1 DEF Strained
    <3>2. ASSUME Safe PROVE Safe'
      <4>1. plain' \/ link' \in files'
        <5>1. SUFFICES ASSUME ~plain PROVE link \in files'
          BY <1>3
        <5>2. link \in files /\ link \in Wanted
          BY <3>2, <5>1, Numbers DEF Safe, Wanted
        <5> QED
          BY <2>1, <3>2, <5>2 DEF Safe
      <4> QED
        BY <1>6, <2>1, <4>1, SafeAlone
    <3> QED
      BY <1>4, <1>5, <3>1, <3>2 DEF Lone
  <2>6. Lone(p)' /\ Working(p)'
    BY <1>3, <1>8, <2>1, <2>2, <2>3, <2>4, <2>5
    DEF Lone, Holding, Installing, Working, IsHighest, NoneAbove
  <2> QED
    BY <1>2, <1>5, <2>6, TightStep
<1>20. CASE Note(p)
  <2>1. UNCHANGED <<files, next>> /\ process[p].at = "noting"
    BY <1>20 DEF Note, At, folder
  <2>2. /\ IsHighest(target) /\ next = target
        /\ process[p].kind = "quiet" => LinkWithin(1)
    BY <1>5, <2>1 DEF Lone, Holding
  <2>3. CASE process[p].kind = "by hand" /\ ~plain /\ Go(p, "marker")
    <3>1. process'[p].at = "marker" /\ process'[p].kind = "by hand"
      BY <1>1, <2>3 DEF Go, Processing
    <3>2. Room' => Safe' \/ Strained(p)'
      <4>1. Strained(p) => Strained(p)'
        BY <1>3, <1>4, <2>3, <3>1 DEF Strained
      <4> QED
        BY <1>4, <1>5, <1>12, <2>1, <3>1, <4>1 DEF Lone
    <3>3. IsHighest(next)' /\ LinkWithin(2)'
      BY <1>8, <1>10, <2>1, <2>2 DEF IsHighest, NoneAbove
    <3>4. Lone(p)' /\ Working(p)'
      BY <3>1, <3>2, <3>3 DEF Lone, Holding, Installing, Working, Activating
    <3> QED
      BY <1>2, <1>5, <3>4, TightStep
  <2>4. CASE (process[p].kind = "quiet" \/ plain \/ process[p].running = 0) /\ Ends(p)
    <3>1. process'[p].at \in {"off", "open"}
      BY <1>1, <2>4 DEF Ends, Off
    <3>2. process[p].kind = "quiet" \/ plain
      BY <1>8, <1>9, <2>4
    <3>3. Idle
      <4>1. Above(files, next) = 0
        BY <2>2, AboveIsNumber, Numbers DEF IsHighest
      <4>2. NextWithin(0)
        BY <1>4, <4>1 DEF NextWithin
      <4> QED
        BY <2>2, <3>2, <4>2 DEF Idle, IsHighest, LinkWithin
    <3>4. Room => Safe
      BY <1>5, <3>2 DEF Lone, Strained
    <3>5. Idle' /\ (Room' => Safe')
      BY <1>4, <1>11, <1>12, <2>1, <3>1, <3>3, <3>4
    <3>6. ~ Working(p)'
      BY <3>1 DEF Working, Activating, Installing
    <3> QED
      BY <1>2, <1>5, <3>5, <3>6, TightStep
  <2> QED
    BY <1>20, <2>3, <2>4 DEF Note
<1> QED
  BY <1>14, <1>15, <1>16, <1>17, <1>18, <1>19, <1>20 DEF Install

-----------------------------------------------------------------------------
(* Beginning, ending and what goes wrong *)

\* What faults and overlaps cost
LEMMA PaidAfter ==
  ASSUME Inv
  PROVE  /\ faults' = faults + 1 /\ overlaps' = overlaps => Paid' = Paid + 2
         /\ faults' = faults /\ overlaps' = overlaps + 1 => Paid' = Paid + 3
BY PaidIsNumber DEF Paid

\* What a process is that is done with its update, or dead
LEMMA EndsAs ==
  ASSUME Inv, NEW p \in Processes, Ends(p) \/ process' = [process EXCEPT ![p] = Off]
  PROVE  /\ process'[p].at \in {"off", "open"} /\ process'[p].target = 0
         /\ \A q \in Processes : q # p => process'[q] = process[q]
<1>1. process \in [Processes -> Processing]
  BY Numbers
<1>2. PICK r : /\ process' = [process EXCEPT ![p] = r]
               /\ r = Off \/ r = [Off EXCEPT !.at = "open", !.running = process[p].running]
  BY DEF Ends
<1>3. r.at \in {"off", "open"} /\ r.target = 0
  <2>1. CASE r = Off
    BY <2>1 DEF Off
  <2>2. CASE r = [Off EXCEPT !.at = "open", !.running = process[p].running]
    BY <2>2 DEF Off
  <2> QED
    BY <1>2, <2>1, <2>2
<1> QED
  BY <1>1, <1>2, <1>3

LEMMA RoomBefore ==
  ASSUME Inv, Inv', Paid' = Paid + 2 \/ Paid' = Paid + 3, Room'
  PROVE  Room /\ Kept # Paid + 2
BY PaidIsNumber, NumbersAfter DEF Room

LEMMA IdleIsWithin ==
  ASSUME Inv, Idle
  PROVE  LinkWithin(2)
<1>1. Paid \in Nat /\ Above(files, link) \in Nat
  BY PaidIsNumber, AboveIsNumber, Numbers
<1>2. CASE plain
  BY <1>2 DEF LinkWithin
<1>3. CASE ~plain
  <2>1. Above(files, link) <= Paid + 0 \/ Above(files, link) <= Paid + 1
    BY <1>3 DEF Idle, LinkWithin
  <2>2. Above(files, link) <= Paid + 2
    BY <1>1, <2>1
  <2> QED
    BY <2>2 DEF LinkWithin
<1> QED
  BY <1>2, <1>3

\* A step that takes up no version, and changes none of the files
LEMMA CalmStep ==
  ASSUME UNCHANGED folder,
         \A r \in Processes :
           process'[r].at \in {"checking", "linking", "keeping", "marking", "writing", "pruning"}
             => process'[r] = process[r]
  PROVE  Wanted' \subseteq Wanted /\ (Safe => Safe')
<1>1. Wanted' \subseteq Wanted
  BY DEF Wanted, folder
<1> QED
  BY <1>1 DEF Safe, folder

\* When nobody is at work, the last one has left things idle.
LEMMA NobodyLeavesIdle ==
  ASSUME Inv, Common, Loose \/ Tight, ~Busy
  PROVE  Idle /\ (Room => Safe)
<1>1. CASE Tight
  BY <1>1 DEF Tight
<1>2. CASE Loose
  <2>1. Paid \in Nat /\ \A v : Above(files, v) \in Nat
    BY PaidIsNumber, AboveIsNumber, Numbers
  <2>2. Cardinality(MayKeep) \in Nat
    BY <1>2, FS_CardinalityType DEF Loose
  <2>3. ASSUME NEW v \in Wanted PROVE Above(files, v) <= Paid + 0
    <3>1. Above(files, v) + Cardinality(MayKeep) <= Paid + 0
      BY <1>2, <2>3 DEF Loose, WithinPaid
    <3> QED
      BY <2>1, <2>2, <3>1
  <2>4. NextWithin(0) /\ LinkWithin(0)
    BY <2>3 DEF NextWithin, LinkWithin, Wanted, Common
  <2> QED
    BY <1>2, <2>4 DEF Idle, Loose
<1> QED
  BY <1>1, <1>2

\* One that begins then is alone.
LEMMA BeginsAlone ==
  ASSUME Inv, Idle, Room => Safe, UNCHANGED <<folder, bounds>>,
         NEW q \in Processes, \A r \in Processes : r # q => ~ Working(r)',
         \/ process'[q].at = "marker" /\ process'[q].kind # "by hand"
         \/ /\ process'[q].at = "asking" /\ process'[q].kind = "by hand"
            /\ plain \/ process'[q].running # 0
  PROVE  Tight'
<1>1. Paid' = Paid /\ Paid \in Nat /\ (Room' <=> Room) /\ \A v : Above(files, v) \in Nat
  BY PaidIsNumber, AboveIsNumber, Numbers DEF Paid, Room, bounds
<1>2. Idle'
  BY <1>1 DEF Idle, NextWithin, LinkWithin, folder
<1>3. LinkWithin(2)'
  <2>1. LinkWithin(2)
    BY IdleIsWithin
  <2> QED
    BY <1>1, <2>1 DEF LinkWithin, folder
<1>4. Room' => Safe'
  <2>1. Safe => plain' \/ link' \in files'
    BY DEF Safe, folder
  <2>2. process'[q].at \notin {"linking", "pruning"}
    OBVIOUS
  <2> QED
    BY <1>1, <2>1, <2>2, SafeAlone
<1>5. Lone(q)'
  BY <1>2, <1>3, <1>4 DEF Lone, Holding, folder
<1>6. Working(q)' /\ Busy'
  BY DEF Working, Busy, Activating, Installing
<1> QED
  BY <1>5, <1>6 DEF Tight

\* A fault or an overlap pays for what one, or one more, may keep, whatever
\* was left by one that was alone.
LEMMA DisturbedLoosely ==
  ASSUME Inv, Inv', Common, Loose \/ Tight, files' = files, Wanted' \subseteq Wanted,
         Safe => Safe', NEW q,
         \/ Paid' = Paid + 2 /\ MayKeep' \subseteq MayKeep
         \/ Paid' = Paid + 3 /\ MayKeep' \subseteq MayKeep \cup {q}
  PROVE  Loose'
<1>1. /\ Paid \in Nat /\ Paid' \in Nat /\ Kept \in Nat
      /\ \A v : Above(files, v) \in Nat
  BY PaidIsNumber, NumbersAfter, AboveIsNumber, Numbers
<1>2. /\ IsFiniteSet(MayKeep) /\ Cardinality(MayKeep) \in Nat
      /\ Cardinality(MayKeep) <= 1 \/ Cardinality(MayKeep) <= Paid
      /\ \A v \in Wanted : Above(files, v) + Cardinality(MayKeep) <= Paid + 2
  <2>1. CASE Tight
    BY <2>1, TightBound DEF WithinPaid
  <2>2. CASE Loose
    <3>1. Cardinality(MayKeep) \in Nat
      BY <2>2, FS_CardinalityType DEF Loose
    <3>2. ASSUME NEW v \in Wanted PROVE Above(files, v) + Cardinality(MayKeep) <= Paid + 2
      <4>1. Above(files, v) + Cardinality(MayKeep) <= Paid + 0
        BY <2>2, <3>2 DEF Loose, WithinPaid
      <4> QED
        BY <1>1, <3>1, <4>1
    <3> QED
      BY <2>2, <3>1, <3>2 DEF Loose
  <2> QED
    BY <2>1, <2>2
<1>3. /\ IsFiniteSet(MayKeep') /\ Cardinality(MayKeep') \in Nat
      /\ \/ Paid' = Paid + 2 /\ Cardinality(MayKeep') <= Cardinality(MayKeep)
         \/ Paid' = Paid + 3 /\ Cardinality(MayKeep') <= Cardinality(MayKeep) + 1
  <2>1. CASE Paid' = Paid + 2 /\ MayKeep' \subseteq MayKeep
    BY <1>2, <2>1, NoMore
  <2>2. CASE Paid' = Paid + 3 /\ MayKeep' \subseteq MayKeep \cup {q}
    BY <1>2, <2>2, OneMore
  <2> QED
    BY <2>1, <2>2
<1>4. ASSUME NEW v \in Wanted' PROVE Above(files', v) + Cardinality(MayKeep') <= Paid' + 0
  <2>1. Above(files, v) + Cardinality(MayKeep) <= Paid + 2
    BY <1>2, <1>4
  <2>2. Above(files', v) = Above(files, v)
    OBVIOUS
  <2> QED
    BY <1>1, <1>2, <1>3, <2>1, <2>2
<1>5. Cardinality(MayKeep') <= Paid'
  BY <1>1, <1>2, <1>3
<1>6. Room' => Safe'
  <2>1. Room' => Room /\ Kept # Paid + 2
    BY RoomBefore
  <2>2. ASSUME Room, Kept # Paid + 2 PROVE Safe
    <3>1. CASE Loose
      BY <2>2, <3>1 DEF Loose
    <3>2. CASE Tight /\ ~Busy
      BY <2>2, <3>2 DEF Tight
    <3>3. CASE Tight /\ Busy
      <4>1. PICK p \in Processes : Lone(p)
        BY <3>3 DEF Tight, Busy, Working
      <4>2. ~ Strained(p)
        BY <2>2 DEF Strained
      <4> QED
        BY <2>2, <4>1, <4>2 DEF Lone
    <3> QED
      BY <3>1, <3>2, <3>3
  <2> QED
    BY <2>1, <2>2
<1> QED
  BY <1>3, <1>4, <1>5, <1>6 DEF Loose, WithinPaid

\* Steps of those that are not at work
LEMMA TightStays ==
  ASSUME Inv, Tight, UNCHANGED <<folder, bounds>>, Safe => Safe',
         \A r \in Processes : Working(r)' <=> Working(r),
         \A r \in Processes : Working(r) => process'[r] = process[r]
  PROVE  Tight'
<1>1. Paid' = Paid /\ (Room' <=> Room)
  BY DEF Paid, Room, bounds
<1>2. /\ Idle' <=> Idle
      /\ IsHighest(next)' <=> IsHighest(next)
      /\ LinkWithin(0)' <=> LinkWithin(0)
      /\ LinkWithin(1)' <=> LinkWithin(1)
      /\ LinkWithin(2)' <=> LinkWithin(2)
      /\ NextWithin(1)' <=> NextWithin(1)
  BY <1>1 DEF Idle, LinkWithin, NextWithin, IsHighest, NoneAbove, folder
<1>3. ASSUME NEW r \in Processes, Working(r), Lone(r) PROVE Lone(r)'
  <2>1. process'[r] = process[r] /\ UNCHANGED <<link, plain, files, next>>
    BY <1>3 DEF folder
  <2>2. Strained(r)' <=> Strained(r)
    BY <1>1, <2>1 DEF Strained
  <2>3. Room' => Safe' \/ Strained(r)'
    BY <1>1, <1>3, <2>2 DEF Lone
  <2>4. IsHighest(process[r].target)' <=> IsHighest(process[r].target)
    BY <2>1 DEF IsHighest, NoneAbove
  <2>5. NoneAbove(process[r].target)' <=> NoneAbove(process[r].target)
    BY <2>1 DEF NoneAbove
  <2>6. UNCHANGED <<process[r].at, process[r].kind, process[r].name, process[r].target,
                    process[r].old, process[r].opened, process[r].running>>
    BY <2>1
  <2>7. Lone(r)
    BY <1>3
  <2>8. UNCHANGED <<link, plain, files, next>>
    BY <2>1
  <2> DEFINE at == process'[r].at
  <2>9. /\ at = "unmarking" => ~plain' /\ link' \in files' /\ LinkWithin(0)' /\ next' = link'
        /\ process'[r].kind = "by hand" /\ at \in Installing => plain' \/ process'[r].running # 0
    BY <1>2, <2>6, <2>7, <2>8 DEF Lone
  <2>10. /\ LinkWithin(2)'
         /\ process'[r].kind # "by hand" /\ at \in {"marker", "checking", "linking", "clearing"}
              => Idle'
         /\ process'[r].kind = "by hand" /\ at \in {"marker", "checking", "linking"}
              => IsHighest(next)'
         /\ at = "clearing" => process'[r].kind # "by hand" /\ LinkWithin(0)'
         /\ at \in {"checking", "linking"} => process'[r].name = next'
         /\ at = "linking" => process'[r].name \in files'
    BY <1>2, <2>6, <2>7, <2>8 DEF Lone
  <2>11. /\ at \in {"asking", "keeping"} => Idle'
         /\ at \in {"asking", "keeping"} /\ process'[r].kind = "quiet" => LinkWithin(0)'
         /\ at = "keeping" => NoneAbove(process[r].target)'
         /\ at \in Holding => IsHighest(process[r].target)'
         /\ at \in Holding /\ process'[r].kind = "quiet" => LinkWithin(1)'
         /\ at = "marking" => NextWithin(1)'
         /\ at = "writing" => process'[r].opened /\ next' = Empty
         /\ at \in {"listing", "pruning", "noting"} => next' = process'[r].target
         /\ at = "pruning" => process'[r].target \notin process'[r].old
    BY <1>2, <2>4, <2>5, <2>6, <2>7, <2>8 DEF Lone
  <2> QED
    BY <2>3, <2>9, <2>10, <2>11 DEF Lone
<1>4. Busy' <=> Busy
  BY DEF Busy, Working
<1> QED
  BY <1>1, <1>2, <1>3, <1>4 DEF Tight

-----------------------------------------------------------------------------
(* Every step *)

\* What holds of every process, and what a step has to show for it
LEMMA CommonStep ==
  ASSUME Inv, Common, NEW p \in Processes, \A q \in Processes : q # p => Same(q),
         latest' \in Nat, latest <= latest', files' \subseteq files \cup {process[p].target},
         plain' \/ link' \in Releases, plain' => link' = 0, process'[p].target <= latest',
         process'[p].at \in Installing => process'[p].kind # "starting"
  PROVE  Common'
<1>1. latest \in Nat /\ files \subseteq Nat /\ \A q \in Processes : process[q].target \in Nat
  BY Numbers
<1>2. ASSUME NEW v \in files' PROVE v <= latest'
  <2>1. v \in Nat /\ v <= latest
    BY <1>1, <1>2 DEF Common, NoneAbove
  <2> QED
    BY <1>1, <2>1
<1>3. ASSUME NEW q \in Processes PROVE process'[q].target <= latest'
  <2>1. CASE q = p
    BY <2>1
  <2>2. CASE q # p
    <3>1. process'[q].target = process[q].target /\ process[q].target <= latest
      BY <2>2 DEF Same, Common
    <3> QED
      BY <1>1, <3>1
  <2> QED
    BY <2>1, <2>2
<1>4. ASSUME NEW q \in Processes, process'[q].at \in Installing
      PROVE  process'[q].kind # "starting"
  BY <1>4 DEF Same, Common
<1> QED
  BY <1>2, <1>3, <1>4 DEF Common, NoneAbove

LEMMA CommonNext ==
  ASSUME Inv, Inv', Common, [Next]_vars
  PROVE  Common'
<1>1. /\ process \in [Processes -> Processing] /\ latest \in Nat /\ latest' \in Nat
      /\ plain \/ link \in Releases
      /\ plain => link = 0
  BY Numbers, ConstantsAssumption DEF Common, Inv, TypeOK
<1>2. \A p \in Processes : /\ process[p].target <= latest /\ process[p].target \in Nat
                           /\ process[p] \in Processing
                           /\ process[p].at \in Installing => process[p].kind # "starting"
  BY Numbers DEF Common
<1>3. \A v, k : LET r == [Off EXCEPT !.at = "marker", !.kind = k, !.running = v]
                IN  r.target = 0 /\ r.at = "marker"
  BY DEF Off
<1>4. ASSUME NEW p \in Processes, Activate(p) PROVE Common'
  <2>1. UNCHANGED <<files, latest>>
    BY <1>4 DEF Activate, ReadMarker, Check, Link, ClearMarker, RemoveMarker, folder
  <2>2. (plain' \/ link' \in Releases) /\ (plain' => link' = 0)
    <3>1. CASE Link(p)
      BY <3>1 DEF Link, Inv, Sound, At
    <3>2. CASE ~ Link(p)
      <4>1. UNCHANGED <<link, plain>>
        BY <1>4, <3>2 DEF Activate, ReadMarker, Check, ClearMarker, RemoveMarker, folder
      <4> QED
        BY <1>1, <4>1
    <3> QED
      BY <3>1, <3>2
  <2>3. \/ process'[p] = Resumed(p)
        \/ process'[p].target = process[p].target /\ process'[p].at \in Activating
        \/ process'[p].target = 0 /\ process'[p].at \in Activating
    <3>1. CASE ReadMarker(p)
      BY <1>1, <1>2, <3>1 DEF ReadMarker, Processing, Activating
    <3>2. CASE Check(p)
      BY <1>1, <1>2, <3>2 DEF Check, Unless, Go, Processing, Activating
    <3>3. CASE Link(p)
      BY <1>1, <1>2, <3>3 DEF Link, Go, Processing, Activating
    <3>4. CASE ClearMarker(p)
      BY <3>4 DEF ClearMarker, Unmark
    <3>5. CASE RemoveMarker(p)
      <4> DEFINE r == [Off EXCEPT !.at = "marker", !.kind = process[p].kind, !.running = link]
      <4>1. process'[p] = Resumed(p) \/ process'[p] = r
        BY <3>5 DEF RemoveMarker, Unmark
      <4>2. r.target = 0 /\ r.at \in Activating
        BY <1>3 DEF Activating
      <4> HIDE DEF r
      <4> QED
        BY <4>1, <4>2
    <3> QED
      BY <1>4, <3>1, <3>2, <3>3, <3>4, <3>5 DEF Activate
  <2>4. /\ Resumed(p).target = 0
        /\ Resumed(p).at \in Installing => Resumed(p).kind # "starting"
    BY <1>2, ResumedIs DEF Processing, Kinds, Installing
  <2>5. process'[p].target <= latest'
    BY <1>1, <1>2, <2>1, <2>3, <2>4
  <2>6. process'[p].at \in Installing => process'[p].kind # "starting"
    BY <2>3, <2>4 DEF Activating, Installing
  <2> QED
    BY <1>1, <1>4, <2>1, <2>2, <2>5, <2>6, CommonStep, OthersStay
<1>5. ASSUME NEW p \in Processes, Install(p) PROVE Common'
  <2>1. UNCHANGED <<link, plain, latest>> /\ files' \subseteq files \cup {process[p].target}
    BY <1>5 DEF Install, AskLatest, Keep, OpenMarker, WriteMarker, ListOld, Prune, Note, folder
  <2>2. process[p].kind # "starting"
    BY <1>2, <1>5 DEF Install, AskLatest, Keep, OpenMarker, WriteMarker, ListOld, Prune, Note,
                      At, Installing
  <2>3. /\ process'[p].target \in {0, latest, process[p].target}
        /\ process'[p].kind = process[p].kind \/ process'[p].at \in {"off", "open"}
    <3>1. CASE AskLatest(p)
      <4>1. CASE latest > process[p].running
        BY <1>1, <1>2, <3>1, <4>1 DEF AskLatest, Processing
      <4>2. CASE ~ (latest > process[p].running)
        BY <3>1, <4>2, EndsAs DEF AskLatest
      <4> QED
        BY <4>1, <4>2
    <3>2. CASE Keep(p) \/ OpenMarker(p) \/ WriteMarker(p) \/ ListOld(p) \/ Prune(p)
      BY <1>1, <1>2, <3>2 DEF Keep, OpenMarker, WriteMarker, ListOld, Prune, Go, Processing
    <3>3. CASE Note(p)
      <4>1. CASE Ends(p)
        BY <4>1, EndsAs
      <4>2. CASE Go(p, "marker")
        BY <1>1, <1>2, <4>2 DEF Go, Processing
      <4> QED
        BY <3>3, <4>1, <4>2 DEF Note
    <3> QED
      BY <1>5, <3>1, <3>2, <3>3 DEF Install
  <2>4. process'[p].target <= latest'
    BY <1>1, <1>2, <2>1, <2>3
  <2>5. process'[p].at \in Installing => process'[p].kind # "starting"
    BY <2>2, <2>3 DEF Installing
  <2> QED
    BY <1>1, <1>5, <2>1, <2>4, <2>5, CommonStep, OthersStay
<1>6. ASSUME NEW p \in Processes,
             Start(p) \/ Open(p) \/ ByHand(p) \/ Quit(p) \/ Refused(p) \/ Crash(p)
      PROVE  Common'
  <2>1. UNCHANGED <<folder, latest>>
    BY <1>6 DEF Start, Open, ByHand, Quit, Refused, Crash
  <2>2. /\ process'[p].target \in {0, process[p].target}
        /\ process'[p].at \in Installing => process'[p].kind # "starting"
    <3>1. CASE Start(p)
      BY <1>1, <3>1 DEF Start, Off, Installing
    <3>2. CASE Open(p) \/ ByHand(p)
      BY <1>1, <1>2, <3>2 DEF Open, ByHand, Go, Installing, Processing
    <3>3. CASE Quit(p) \/ Refused(p) \/ Crash(p)
      BY <3>3, EndsAs DEF Quit, Refused, Crash, Installing
    <3> QED
      BY <1>6, <3>1, <3>2, <3>3
  <2>3. process'[p].target <= latest'
    BY <1>1, <1>2, <2>1, <2>2
  <2> QED
    BY <1>1, <1>6, <2>1, <2>2, <2>3, CommonStep, OthersStay DEF folder
<1>7. ASSUME NEW p \in Processes, NEW q \in Processes, Spawn(p, q) PROVE Common'
  <2>1. UNCHANGED <<folder, latest>>
    BY <1>7 DEF Spawn
  <2>2. p # q
    BY <1>7 DEF Spawn, At
  <2>3. /\ process'[p].target = process[p].target /\ process'[p].at = "open"
        /\ process'[q].target = 0 /\ process'[q].at = "marker"
        /\ \A r \in Processes \ {p, q} : process'[r] = process[r]
    BY <1>1, <1>7, <2>2 DEF Spawn, Off, Processing
  <2>4. \A r \in Processes : process'[r].target <= latest'
    BY <1>1, <1>2, <2>1, <2>3
  <2>5. \A r \in Processes : process'[r].at \in Installing => process'[r].kind # "starting"
    BY <1>2, <2>3 DEF Installing
  <2> QED
    BY <2>1, <2>4, <2>5 DEF Common, NoneAbove, folder
<1>8. CASE Release \/ UNCHANGED vars
  <2>1. UNCHANGED <<folder, process>> /\ latest <= latest'
    BY <1>1, <1>8 DEF Release, vars
  <2>2. \A v \in files : v \in Nat /\ v <= latest
    BY Numbers DEF Common, NoneAbove
  <2>3. \A v \in files' : v <= latest'
    BY <1>1, <2>1, <2>2 DEF folder
  <2>4. \A r \in Processes : process'[r].target <= latest'
    BY <1>1, <1>2, <2>1
  <2> QED
    BY <1>1, <1>2, <2>1, <2>3, <2>4 DEF Common, NoneAbove, folder
<1> QED
  BY <1>4, <1>5, <1>6, <1>7, <1>8 DEF Next

\* What goes wrong is paid for.
LEMMA FaultsLoosely ==
  ASSUME Inv, Inv', Common, Loose \/ Tight, NEW p \in Processes, Refused(p) \/ Crash(p)
  PROVE  Loose'
<1>1. process \in [Processes -> Processing] /\ UNCHANGED folder
  BY Numbers DEF Refused, Crash
<1>2. Paid' = Paid + 2
  <2>1. faults' = faults + 1 /\ overlaps' = overlaps
    BY DEF Refused, Crash, Fault
  <2> QED
    BY <2>1, PaidAfter
<1>3. process'[p].at \in {"off", "open"} /\ \A q \in Processes : q # p => process'[q] = process[q]
  BY EndsAs DEF Refused, Crash
<1>4. MayKeep' \subseteq MayKeep
  BY <1>3 DEF MayKeep, Keeper, Activating
<1>5. Wanted' \subseteq Wanted /\ (Safe => Safe')
  BY <1>1, <1>3, CalmStep
<1> QED
  BY <1>1, <1>2, <1>4, <1>5, DisturbedLoosely DEF folder

\* One that begins does so when nobody is at work, or is an overlap.
LEMMA BeginsSafely ==
  ASSUME Inv, Inv', Common, Loose \/ Tight, UNCHANGED folder, UNCHANGED faults,
         NEW q \in Processes,
         \A r \in Processes : r # q => \/ process'[r] = process[r]
                                       \/ ~ Working(r) /\ ~ Working(r)',
         NEW overlap \in BOOLEAN, BeginsBeside(overlap),
         ~ overlap => ~ Busy,
         \/ process'[q].at = "marker" /\ process'[q].kind # "by hand"
         \/ /\ process'[q].at = "asking" /\ process'[q].kind = "by hand"
            /\ overlap \/ plain \/ process'[q].running # 0
  PROVE  Loose' \/ Tight'
<1>1. CASE overlap
  <2>1. Paid' = Paid + 3
    <3>1. overlaps' = overlaps + 1 /\ faults' = faults
      BY <1>1 DEF BeginsBeside
    <3> QED
      BY <3>1, PaidAfter
  <2>2. MayKeep' \subseteq MayKeep \cup {q}
    BY DEF MayKeep, Keeper, Working, Installing, Activating
  <2>3. Wanted' \subseteq Wanted /\ (Safe => Safe')
    <3>1. \A r \in Processes :
            process'[r].at \in {"checking", "linking", "keeping", "marking", "writing", "pruning"}
              => process'[r] = process[r]
      BY DEF Working, Activating, Installing
    <3> QED
      BY <3>1, CalmStep
  <2> QED
    BY <2>1, <2>2, <2>3, DisturbedLoosely DEF folder
<1>2. CASE ~ overlap
  <2>1. UNCHANGED bounds /\ ~ Busy
    BY <1>2 DEF BeginsBeside, bounds
  <2>2. \A r \in Processes : r # q => ~ Working(r)'
    BY <2>1 DEF Working, Busy
  <2>3. Idle /\ (Room => Safe)
    BY <2>1, NobodyLeavesIdle
  <2> QED
    BY <1>2, <2>1, <2>2, <2>3, BeginsAlone
<1> QED
  BY <1>1, <1>2

LEMMA ComesAndGoesSafely ==
  ASSUME Inv, Inv', Common, Loose \/ Tight, NEW p \in Processes,
         Start(p) \/ ByHand(p) \/ \E q \in Processes : Spawn(p, q)
  PROVE  Loose' \/ Tight'
<1>1. /\ process \in [Processes -> Processing] /\ UNCHANGED folder /\ UNCHANGED faults
      /\ Busy \in BOOLEAN /\ (Busy \/ Replaced(p)) \in BOOLEAN
  BY Numbers DEF Start, ByHand, Spawn, Busy, Replaced
<1>2. CASE Start(p)
  <2>1. process'[p].at = "marker" /\ process'[p].kind # "by hand"
    BY <1>1, <1>2 DEF Start, Off
  <2>2. \A r \in Processes : r # p => process'[r] = process[r]
    BY <1>1, <1>2 DEF Start
  <2>3. BeginsBeside(Busy)
    BY <1>2 DEF Start, Begins
  <2> QED
    BY <1>1, <2>1, <2>2, <2>3, BeginsSafely
<1>3. CASE ByHand(p)
  <2> DEFINE overlap == Busy \/ Replaced(p)
  <2>1. process'[p].at = "asking" /\ process'[p].kind = "by hand"
    BY <1>1, <1>3 DEF ByHand, Processing
  <2>2. \A r \in Processes : r # p => process'[r] = process[r]
    BY <1>1, <1>3 DEF ByHand
  <2>3. BeginsBeside(overlap)
    BY <1>3 DEF ByHand
  <2>4. overlap \/ plain \/ process'[p].running # 0
    BY <1>1, <1>3 DEF ByHand, Replaced, Processing
  <2>5. overlap \in BOOLEAN /\ (~ overlap => ~ Busy)
    BY <1>1
  <2> HIDE DEF overlap
  <2> QED
    BY <1>1, <2>1, <2>2, <2>3, <2>4, <2>5, BeginsSafely
<1>4. CASE \E q \in Processes : Spawn(p, q)
  <2>1. PICK q \in Processes : Spawn(p, q)
    BY <1>4
  <2>2. p # q /\ ~ Working(p)
    BY <2>1 DEF Spawn, At, Working, Activating, Installing
  <2>3. /\ process'[q].at = "marker" /\ process'[q].kind # "by hand"
        /\ process'[p].at = "open"
        /\ \A r \in Processes \ {p, q} : process'[r] = process[r]
    BY <1>1, <2>1, <2>2 DEF Spawn, Off, Processing
  <2>4. ~ Working(p)'
    BY <2>3 DEF Working, Activating, Installing
  <2>5. BeginsBeside(Busy)
    BY <2>1 DEF Spawn, Begins
  <2> QED
    BY <1>1, <2>2, <2>3, <2>4, <2>5, BeginsSafely
<1> QED
  BY <1>2, <1>3, <1>4

\* Steps of those that are not at work
LEMMA RestSafely ==
  ASSUME Inv, Inv', Common, Loose \/ Tight, UNCHANGED <<folder, bounds>>,
         \A r \in Processes : process'[r] = process[r] \/ (~ Working(r) /\ ~ Working(r)')
  PROVE  Loose' \/ Tight'
<1>1. Paid' = Paid /\ Paid \in Nat /\ (Room' <=> Room)
  BY PaidIsNumber DEF Paid, Room, bounds
<1>2. Wanted' \subseteq Wanted /\ (Safe => Safe')
  <2>1. \A r \in Processes :
          process'[r].at \in {"checking", "linking", "keeping", "marking", "writing", "pruning"}
            => process'[r] = process[r]
    BY DEF Working, Activating, Installing
  <2> QED
    BY <2>1, CalmStep
<1>3. CASE Loose
  <2>1. MayKeep' \subseteq MayKeep
    BY DEF MayKeep, Keeper, Working, Installing, Activating
  <2> QED
    BY <1>1, <1>2, <1>3, <2>1, LooseStep DEF Loose, folder
<1>4. CASE Tight
  <2>1. \A r \in Processes : /\ Working(r)' <=> Working(r)
                             /\ Working(r) => process'[r] = process[r]
    BY DEF Working
  <2> QED
    BY <1>2, <1>4, <2>1, TightStays
<1> QED
  BY <1>3, <1>4

\* Every step keeps the counts.
LEMMA LinkNext ==
  ASSUME Inv, Inv', LinkInv, [Next]_vars
  PROVE  LinkInv'
<1>1. Common /\ (Loose \/ Tight) /\ process \in [Processes -> Processing]
  BY Numbers DEF LinkInv
<1>2. Common'
  BY <1>1, CommonNext
<1>3. ASSUME NEW p \in Processes, Activate(p) PROVE Loose' \/ Tight'
  BY <1>1, <1>3, ActivatesLoosely, ActivatesAlone
<1>4. ASSUME NEW p \in Processes, Install(p) PROVE Loose' \/ Tight'
  BY <1>1, <1>4, InstallsLoosely, InstallsAlone
<1>5. ASSUME NEW p \in Processes, Refused(p) \/ Crash(p) PROVE Loose' \/ Tight'
  BY <1>1, <1>5, FaultsLoosely
<1>6. ASSUME NEW p \in Processes, Start(p) \/ ByHand(p) \/ \E q \in Processes : Spawn(p, q)
      PROVE  Loose' \/ Tight'
  BY <1>1, <1>6, ComesAndGoesSafely
<1>7. ASSUME NEW p \in Processes, Open(p) \/ Quit(p) PROVE Loose' \/ Tight'
  <2>1. UNCHANGED <<folder, bounds>> /\ process[p].at \in {"started", "open"}
    BY <1>7 DEF Open, Quit, At
  <2>2. /\ process'[p].at \in {"open", "off"}
        /\ \A q \in Processes : q # p => process'[q] = process[q]
    BY <1>1, <1>7 DEF Open, Quit, Go, Off, Processing
  <2>3. ~ Working(p) /\ ~ Working(p)'
    BY <2>1, <2>2 DEF Working, Activating, Installing
  <2> QED
    BY <1>1, <2>1, <2>2, <2>3, RestSafely
<1>8. ASSUME Release \/ UNCHANGED vars PROVE Loose' \/ Tight'
  <2>1. UNCHANGED <<folder, bounds, process>>
    BY <1>8 DEF Release, vars
  <2>2. UNCHANGED <<folder, bounds>>
    BY <2>1
  <2>3. \A r \in Processes : process'[r] = process[r] \/ (~ Working(r) /\ ~ Working(r)')
    BY <2>1
  <2> QED
    BY <1>1, <2>2, <2>3, RestSafely
<1> QED
  BY <1>2, <1>3, <1>4, <1>5, <1>6, <1>7, <1>8 DEF LinkInv, Next

\* There is always a tql to start (Versions::activate, prune), with any
\* number of processes and of releases: what `tql` links to is in the folder
\* as long as two versions are kept, two more for each fault, three more for
\* each overlap, and one more while one is at work.
THEOREM ATqlToStart == Spec => []LinkRuns
<1>1. Init /\ Inv => LinkInv
  <2> SUFFICES ASSUME Init, Inv PROVE LinkInv
    OBVIOUS
  <2>1. \A p \in Processes : process[p].at = "off" /\ process[p].target = 0
    BY DEF Init, Off
  <2>2. Common
    BY <2>1, Numbers DEF Init, Common, NoneAbove, Installing
  <2>3. ~ Busy /\ \A p \in Processes : ~ Working(p)
    BY <2>1 DEF Busy, Working, Activating, Installing
  <2>4. Idle /\ Safe
    BY <2>1, Numbers DEF Init, Idle, Safe, NextWithin, LinkWithin, NoMarker, Releases
  <2> QED
    BY <2>2, <2>3, <2>4 DEF LinkInv, Tight
<1>2. Inv /\ LinkInv => LinkRuns
  <2> SUFFICES ASSUME Inv, LinkInv,
                      2 + 2 * faults + 3 * overlaps + (IF Busy THEN 1 ELSE 0) <= Kept
               PROVE  Runs(link)
    BY DEF LinkRuns
  <2>1. /\ faults \in Nat /\ overlaps \in Nat /\ Kept \in Nat
        /\ Common /\ (Loose \/ Tight)
    BY PaidIsNumber DEF LinkInv
  <2>2. Safe
    <3>1. CASE ~ Busy
      <4>1. Room
        BY <2>1, <3>1 DEF Room, Paid
      <4> QED
        BY <2>1, <3>1, <4>1, NobodyLeavesIdle
    <3>2. CASE Busy
      <4>1. Room /\ Kept # Paid + 2
        BY <2>1, <3>2 DEF Room, Paid
      <4>2. CASE Loose
        BY <4>1, <4>2 DEF Loose
      <4>3. CASE Tight
        <5>1. PICK p \in Processes : Lone(p)
          BY <3>2, <4>3 DEF Tight, Busy, Working
        <5>2. ~ Strained(p)
          BY <4>1 DEF Strained
        <5> QED
          BY <4>1, <5>1, <5>2 DEF Lone
      <4> QED
        BY <2>1, <4>2, <4>3
    <3> QED
      BY <3>1, <3>2
  <2> QED
    BY <2>1, <2>2 DEF Safe, Runs, Common
<1> QED
  BY <1>1, <1>2, InitInv, NextInv, LinkNext, PTL DEF Spec
=============================================================================
