----------------------------- MODULE StoreProofs -----------------------------
(***************************************************************************)
(* Proofs about the store of tql, for any number of processes, migrations   *)
(* and starts: who has prepared it finds all of it, who starts is not       *)
(* refused by what others left, and secrets keep their key.  The second     *)
(* part is about the sign-ins that are saved there.                         *)
(***************************************************************************)
EXTENDS Store, SequenceTheorems, NaturalsInduction, WellFoundedInduction, TLAPS

Migrated == ToSet(Migrations)
Objects == ToSet(InSchema) \cup Migrated
KeyFiles == Procs \cup {"none", "empty"}
Preparing == {"creating", "noting", "migrating", "pending"}
Prepared == {"ready", "keying", "writing", "reading", "saving"}
Places == Preparing \cup Prepared \cup {"off"}
Doings == [at : Places, todo : SUBSET Nat, key : KeyFiles]

StoreTyped ==
  /\ store \in [is : BOOLEAN, has : SUBSET Objects, ran : SUBSET Migrated]
  /\ proc \in [Procs -> Doings]
  /\ \A p \in Procs :
       /\ At(p, "creating") => proc[p].todo \subseteq DOMAIN InSchema
       /\ proc[p].at \in {"noting", "pending"} =>
            proc[p].todo \subseteq DOMAIN Migrations /\ proc[p].todo # {}

\* What is noted as run is there; what a process has behind it is there or noted;
\* and so is everything, when it has created the schema or is done.
NotedIsThere ==
  /\ store.ran \subseteq store.has
  /\ \A p \in Procs :
       /\ At(p, "creating") => \A i \in DOMAIN InSchema \ proc[p].todo : InSchema[i] \in store.has
       /\ proc[p].at \in {"noting", "pending"} =>
            \A i \in DOMAIN Migrations \ proc[p].todo : Migrations[i] \in store.ran
       /\ proc[p].at \in {"noting"} \cup Prepared => Migrated \subseteq store.has

WholeInv == StoreTyped /\ NotedIsThere

\* The objects that a process which creates the schema has made
Made(p) == {InSchema[i] : i \in DOMAIN InSchema \ proc[p].todo}

\* The first migration is noted first;
FirstIsNoted == store.ran # {} => Migrations[1] \in store.ran

\* one process creates the schema, when there was no store;
OneCreates ==
  /\ ~store.is => store.has = {} /\ \A p \in Procs : At(p, "off")
  /\ \A p, q \in Procs :
       proc[p].at \in {"creating", "noting"} /\ proc[q].at \in {"creating", "noting"} => p = q

\* and what is there and not noted is what that process has made, which then
\* nobody migrates.
UnnotedIsMade ==
  /\ \A p \in Procs : At(p, "creating") =>
       \/ proc[p].todo = DOMAIN InSchema /\ store.has \subseteq store.ran
       \/ store.ran = {} /\ Migrations[1] \in store.has /\ store.has \subseteq Made(p)
  /\ (\A p \in Procs : proc[p].at \notin {"creating", "noting"}) => store.has \cap Migrated \subseteq store.ran

CreatedInv == WholeInv /\ FirstIsNoted /\ OneCreates /\ UnnotedIsMade

\* As long as no two processes set about writing the key, it is written once,
\* before any secret is encrypted and never after.
KeyTyped ==
  /\ key \in KeyFiles
  /\ proc \in [Procs -> Doings]

OneWrites ==
  /\ \A p, q \in Procs : proc[p].at \in {"keying", "writing"} /\ proc[q].at \in {"keying", "writing"} => p = q
  /\ \A p \in Procs :
       /\ At(p, "keying") => key = "none"
       /\ At(p, "writing") => key = "empty"
       /\ At(p, "reading") => key # "none"
       /\ At(p, "saving") => key \in Procs /\ proc[p].key = key
  /\ secrets # {} => key \in Procs /\ secrets = {key}

KeyInv == KeyTyped /\ (raced \/ OneWrites)

-----------------------------------------------------------------------------
\* Of the places left one is the first.
LEMMA FirstIsLeft ==
  ASSUME NEW p \in Procs, proc[p].todo \in SUBSET Nat, proc[p].todo # {}
  PROVE  /\ First(p) \in proc[p].todo
         /\ \A j \in proc[p].todo : First(p) <= j
         /\ Rest(p) \subseteq proc[p].todo /\ First(p) \notin Rest(p)
<1>1. PICK i \in proc[p].todo : \A j \in proc[p].todo : ~ (<<j, i>> \in OpToRel(<, Nat))
  BY NatLessThanWellFounded, WFMin
<1>2. \A j \in proc[p].todo : ~ (j < i)
  BY <1>1 DEF OpToRel
<1>3. \A j \in proc[p].todo : i <= j
  BY <1>2
<1> QED
  BY <1>3 DEF First, Rest

\* Where a process goes, and how its record changes.
LEMMA Goings ==
  ASSUME proc \in [Procs -> Doings], NEW p \in Procs, NEW place \in Places, NEW todo \in SUBSET Nat,
         Goes(p, place, todo)
  PROVE  /\ proc' \in [Procs -> Doings]
         /\ proc'[p].at = place /\ proc'[p].todo = todo /\ proc'[p].key = proc[p].key
         /\ \A q \in Procs \ {p} : proc'[q] = proc[q]
<1>1. [proc[p] EXCEPT !.at = place, !.todo = todo] \in Doings
  BY DEF Doings
<1> QED
  BY <1>1 DEF Goes, Doings

LEMMA Endings ==
  ASSUME proc \in [Procs -> Doings], NEW p \in Procs, Fails(p)
  PROVE  /\ proc' \in [Procs -> Doings]
         /\ proc'[p].at = "off" /\ proc'[p].todo = {} /\ proc'[p].key = "none"
         /\ \A q \in Procs \ {p} : proc'[q] = proc[q]
<1>1. Off \in Doings /\ Off.at = "off" /\ Off.todo = {} /\ Off.key = "none"
  BY DEF Off, Doings, Places, KeyFiles
<1> HIDE DEF Off
<1> QED
  BY <1>1 DEF Fails

LEMMA PlacesOfSequences ==
  ASSUME SchemaFits
  PROVE  /\ DOMAIN Migrations \in SUBSET Nat /\ DOMAIN InSchema \in SUBSET Nat
         /\ 1 \in DOMAIN Migrations /\ \A i \in DOMAIN Migrations : 1 <= i
         /\ 1 \in DOMAIN InSchema /\ \A i \in DOMAIN InSchema : 1 <= i
         /\ \A i \in DOMAIN Migrations : Migrations[i] \in Migrated
         /\ \A i \in DOMAIN InSchema : InSchema[i] \in Objects
<1>1. Len(Migrations) \in Nat /\ Len(InSchema) \in Nat
      /\ DOMAIN Migrations = 1 .. Len(Migrations) /\ DOMAIN InSchema = 1 .. Len(InSchema)
  BY DEF SchemaFits
<1>2. Len(Migrations) # 0
  BY DEF SchemaFits
<1>3. 1 \in DOMAIN Migrations
  BY <1>1, <1>2
<1>4. Len(InSchema) # 0
  <2>1. Migrations[1] \in ToSet(InSchema)
    BY <1>3 DEF SchemaFits, ToSet
  <2> QED
    BY <1>1, <2>1 DEF ToSet
<1>5. \A i \in DOMAIN Migrations : Migrations[i] \in Migrated
  BY DEF Migrated, ToSet
<1>6. \A i \in DOMAIN InSchema : InSchema[i] \in Objects
  BY DEF Objects, ToSet
<1> QED
  BY <1>1, <1>3, <1>4, <1>5, <1>6

LEMMA StoreOfOld ==
  ASSUME SchemaFits, Init
  PROVE  /\ store \in [is : BOOLEAN, has : SUBSET Objects, ran : SUBSET Migrated]
         /\ store.ran = store.has /\ (store.ran # {} => Migrations[1] \in store.ran)
         /\ (~store.is => store.has = {})
<1>1. PICK old \in 0 .. Len(Migrations) :
        store = [is |-> old > 0,
                 has |-> ToSet(SubSeq(Migrations, 1, old)), ran |-> ToSet(SubSeq(Migrations, 1, old))]
  BY DEF Init
<1> DEFINE done == SubSeq(Migrations, 1, old)
<1>2. /\ Len(Migrations) \in Nat /\ DOMAIN Migrations = 1 .. Len(Migrations)
      /\ old \in Nat /\ old <= Len(Migrations)
  BY <1>1 DEF SchemaFits
<1>3. DOMAIN done = 1 .. old /\ \A i \in 1 .. old : done[i] = Migrations[i]
  BY <1>2
<1> HIDE DEF done
<1>4. ToSet(done) \subseteq Migrated /\ (old = 0 => ToSet(done) = {})
      /\ (old # 0 => Migrations[1] \in ToSet(done))
  BY <1>2, <1>3 DEF ToSet, Migrated
<1>5. store = [is |-> old > 0, has |-> ToSet(done), ran |-> ToSet(done)]
  BY <1>1 DEF done
<1>6. store.is = (old > 0) /\ store.has = ToSet(done) /\ store.ran = ToSet(done)
  BY <1>5
<1>7. store \in [is : BOOLEAN, has : SUBSET Objects, ran : SUBSET Migrated]
  BY <1>4, <1>5 DEF Objects
<1>8. ~(old > 0) => old = 0
  BY <1>2
<1> QED
  BY <1>4, <1>6, <1>7, <1>8

LEMMA WholeInit == SchemaFits /\ Init => WholeInv
<1> SUFFICES ASSUME SchemaFits, Init PROVE WholeInv
  OBVIOUS
<1>1. \A p \in Procs : proc[p] = Off
  BY DEF Init
<1>2. Off \in Doings /\ Off.at = "off"
  BY DEF Off, Doings, Places, KeyFiles
<1>3. proc \in [Procs -> Doings] /\ \A p \in Procs : proc[p].at = "off"
  BY <1>1, <1>2 DEF Init
<1> QED
  BY <1>3, StoreOfOld DEF WholeInv, StoreTyped, NotedIsThere, At, Prepared

\* What a process is at fits the store as it is after the step.
FitsStore(v) ==
  /\ v.at = "creating" =>
       v.todo \subseteq DOMAIN InSchema /\ \A i \in DOMAIN InSchema \ v.todo : InSchema[i] \in store'.has
  /\ v.at \in {"noting", "pending"} =>
       /\ v.todo \subseteq DOMAIN Migrations /\ v.todo # {}
       /\ \A i \in DOMAIN Migrations \ v.todo : Migrations[i] \in store'.ran
  /\ v.at \in {"noting"} \cup Prepared => Migrated \subseteq store'.has

\* Nothing is ever taken from the store, so the others fit it still.
LEMMA StoreGrows ==
  ASSUME WholeInv, NEW p \in Procs,
         store' \in [is : BOOLEAN, has : SUBSET Objects, ran : SUBSET Migrated],
         store.has \subseteq store'.has, store.ran \subseteq store'.ran, store'.ran \subseteq store'.has,
         proc' \in [Procs -> Doings], \A q \in Procs \ {p} : proc'[q] = proc[q],
         FitsStore(proc'[p])
  PROVE  WholeInv'
<1>1. \A q \in Procs : FitsStore(proc'[q])
  <2>1. ASSUME NEW q \in Procs, q # p PROVE FitsStore(proc[q])
    BY DEF WholeInv, StoreTyped, NotedIsThere, FitsStore, At
  <2> QED
    BY <2>1
<1> QED
  BY <1>1 DEF WholeInv, StoreTyped, NotedIsThere, FitsStore, At

\* A step that leaves the store alone and goes where all is as it was before
LEMMA GoesOn ==
  ASSUME WholeInv, NEW p \in Procs, NEW todo \in SUBSET Nat, NEW place \in Places,
         UNCHANGED store, Goes(p, place, todo),
         place = "migrating" \/ (place \in Prepared /\ proc[p].at \in Prepared)
  PROVE  WholeInv'
<1>1. /\ proc' \in [Procs -> Doings] /\ proc'[p].at = place
      /\ \A q \in Procs \ {p} : proc'[q] = proc[q]
  BY Goings DEF WholeInv, StoreTyped
<1>2. FitsStore(proc'[p])
  BY <1>1 DEF FitsStore, WholeInv, NotedIsThere, Prepared
<1> QED
  BY <1>1, <1>2, StoreGrows DEF WholeInv, StoreTyped, NotedIsThere

LEMMA GivesUp ==
  ASSUME WholeInv, NEW p \in Procs, UNCHANGED store, Fails(p)
  PROVE  WholeInv'
<1>1. /\ proc' \in [Procs -> Doings] /\ proc'[p].at = "off"
      /\ \A q \in Procs \ {p} : proc'[q] = proc[q]
  BY Endings DEF WholeInv, StoreTyped
<1>2. FitsStore(proc'[p])
  BY <1>1 DEF FitsStore, Prepared
<1> QED
  BY <1>1, <1>2, StoreGrows DEF WholeInv, StoreTyped, NotedIsThere

LEMMA PrepareKeeps ==
  ASSUME SchemaFits, WholeInv, NEW p \in Procs, Prepare(p)
  PROVE  WholeInv'
<1>1. proc \in [Procs -> Doings] /\ store \in [is : BOOLEAN, has : SUBSET Objects, ran : SUBSET Migrated]
  BY DEF WholeInv, StoreTyped
<1>2. CASE store.is
  <2>1. Goes(p, "migrating", {}) /\ UNCHANGED store
    BY <1>2 DEF Prepare
  <2> QED
    BY <2>1, GoesOn DEF Places, Preparing
<1>3. CASE ~store.is
  <2>1. Goes(p, "creating", DOMAIN InSchema) /\ store' = [store EXCEPT !.is = TRUE]
    BY <1>3 DEF Prepare
  <2>2. /\ proc' \in [Procs -> Doings] /\ proc'[p].at = "creating" /\ proc'[p].todo = DOMAIN InSchema
        /\ \A q \in Procs \ {p} : proc'[q] = proc[q]
    BY <1>1, <2>1, Goings, PlacesOfSequences, SMTT(30) DEF Places, Preparing
  <2>3. /\ store' \in [is : BOOLEAN, has : SUBSET Objects, ran : SUBSET Migrated]
        /\ store'.has = store.has /\ store'.ran = store.ran
    BY <1>1, <2>1
  <2>4. FitsStore(proc'[p])
    BY <2>2 DEF FitsStore, Prepared
  <2> QED
    BY <2>2, <2>3, <2>4, StoreGrows DEF WholeInv, NotedIsThere
<1> QED
  BY <1>2, <1>3

LEMMA CreateKeeps ==
  ASSUME SchemaFits, WholeInv, NEW p \in Procs, CreateNext(p)
  PROVE  WholeInv'
<1>1. /\ proc \in [Procs -> Doings] /\ store \in [is : BOOLEAN, has : SUBSET Objects, ran : SUBSET Migrated]
      /\ proc[p].at = "creating" /\ proc[p].todo \subseteq DOMAIN InSchema
      /\ \A i \in DOMAIN InSchema \ proc[p].todo : InSchema[i] \in store.has
      /\ store.ran \subseteq store.has
  BY DEF WholeInv, StoreTyped, NotedIsThere, CreateNext, At
<1>2. ASSUME Fails(p), UNCHANGED store PROVE WholeInv'
  BY <1>2, GivesUp
<1>3. ASSUME proc[p].todo # {}, store' = [store EXCEPT !.has = @ \cup {InSchema[First(p)]}],
             Goes(p, "creating", Rest(p))
      PROVE  WholeInv'
  <2>1. /\ First(p) \in proc[p].todo /\ Rest(p) \subseteq proc[p].todo
        /\ First(p) \in DOMAIN InSchema /\ Rest(p) \in SUBSET Nat
    <3>1. proc[p].todo \in SUBSET Nat
      BY <1>1, PlacesOfSequences
    <3> QED
      BY <1>1, <1>3, <3>1, FirstIsLeft
  <2>2. /\ proc' \in [Procs -> Doings] /\ proc'[p].at = "creating" /\ proc'[p].todo = Rest(p)
        /\ \A q \in Procs \ {p} : proc'[q] = proc[q]
    BY <1>1, <1>3, <2>1, Goings, SMTT(30) DEF Places, Preparing
  <2>3. /\ store' \in [is : BOOLEAN, has : SUBSET Objects, ran : SUBSET Migrated]
        /\ store'.has = store.has \cup {InSchema[First(p)]} /\ store'.ran = store.ran
    BY <1>1, <1>3, <2>1, PlacesOfSequences
  <2>4. FitsStore(proc'[p])
    BY <1>1, <2>1, <2>2, <2>3 DEF FitsStore, Prepared, Rest
  <2> QED
    BY <1>1, <2>2, <2>3, <2>4, StoreGrows
<1>4. ASSUME proc[p].todo = {}, Goes(p, "noting", DOMAIN Migrations), UNCHANGED store
      PROVE  WholeInv'
  <2>1. /\ proc' \in [Procs -> Doings] /\ proc'[p].at = "noting" /\ proc'[p].todo = DOMAIN Migrations
        /\ \A q \in Procs \ {p} : proc'[q] = proc[q]
    BY <1>1, <1>4, Goings, PlacesOfSequences DEF Places, Preparing
  <2>2. Migrated \subseteq store.has
    <3>1. ToSet(InSchema) \subseteq store.has
      BY <1>1, <1>4 DEF ToSet
    <3> QED
      BY <3>1 DEF Migrated, SchemaFits
  <2>3. FitsStore(proc'[p])
    BY <1>4, <2>1, <2>2, PlacesOfSequences DEF FitsStore
  <2> QED
    BY <1>1, <1>4, <2>1, <2>3, StoreGrows
<1> QED
  BY <1>2, <1>3, <1>4 DEF CreateNext

\* A process that has a migration behind it, noted, goes on with the rest.
LEMMA NoteFits ==
  ASSUME SchemaFits, WholeInv, NEW p \in Procs, proc[p].at \in {"noting", "pending"},
         Goes(p, IF Rest(p) = {} THEN "ready" ELSE proc[p].at, Rest(p)),
         store'.ran = store.ran \cup {Migrations[First(p)]},
         store.has \subseteq store'.has, Migrations[First(p)] \in store'.has,
         store' \in [is : BOOLEAN, has : SUBSET Objects, ran : SUBSET Migrated]
  PROVE  WholeInv'
<1>1. /\ proc \in [Procs -> Doings]
      /\ proc[p].todo \subseteq DOMAIN Migrations /\ proc[p].todo # {}
      /\ \A i \in DOMAIN Migrations \ proc[p].todo : Migrations[i] \in store.ran
      /\ store.ran \subseteq store.has
      /\ proc[p].at = "noting" => Migrated \subseteq store.has
  BY DEF WholeInv, StoreTyped, NotedIsThere
<1>2. /\ First(p) \in proc[p].todo /\ Rest(p) \subseteq proc[p].todo /\ Rest(p) \in SUBSET Nat
      /\ Rest(p) = proc[p].todo \ {First(p)}
  <2>1. proc[p].todo \in SUBSET Nat
    BY <1>1, PlacesOfSequences
  <2> QED
    BY <1>1, <2>1, FirstIsLeft DEF Rest
<1> DEFINE place == IF Rest(p) = {} THEN "ready" ELSE proc[p].at
<1>3. place \in Places
  BY DEF Places, Prepared, Preparing
<1>4. /\ proc' \in [Procs -> Doings] /\ proc'[p].at = place /\ proc'[p].todo = Rest(p)
      /\ \A q \in Procs \ {p} : proc'[q] = proc[q]
  BY <1>1, <1>2, <1>3, Goings
<1>5. \A i \in DOMAIN Migrations \ Rest(p) : Migrations[i] \in store'.ran
  BY <1>1, <1>2
<1>6. store.has \subseteq store'.has /\ store.ran \subseteq store'.ran /\ store'.ran \subseteq store'.has
  BY <1>1
<1>7. Rest(p) = {} => Migrated \subseteq store'.has
  BY <1>5, <1>6 DEF Migrated, ToSet
<1>8. FitsStore(proc'[p])
  <2>1. CASE Rest(p) = {}
    BY <1>4, <1>7, <2>1 DEF FitsStore
  <2>2. CASE Rest(p) # {}
    BY <1>1, <1>2, <1>4, <1>5, <1>6, <2>2 DEF FitsStore, Prepared
  <2> QED
    BY <2>1, <2>2
<1> QED
  BY <1>4, <1>6, <1>8, StoreGrows

LEMMA NoteKeeps ==
  ASSUME SchemaFits, WholeInv, NEW p \in Procs, NoteNext(p)
  PROVE  WholeInv'
<1>1. /\ store \in [is : BOOLEAN, has : SUBSET Objects, ran : SUBSET Migrated]
      /\ proc[p].at = "noting" /\ proc[p].todo \subseteq DOMAIN Migrations /\ proc[p].todo # {}
      /\ Migrated \subseteq store.has
  BY DEF WholeInv, StoreTyped, NotedIsThere, NoteNext, At
<1>2. Migrations[First(p)] \in Migrated
  <2>1. proc[p].todo \in SUBSET Nat
    BY <1>1, PlacesOfSequences
  <2> QED
    BY <1>1, <2>1, FirstIsLeft, PlacesOfSequences
<1>3. store' = [store EXCEPT !.ran = @ \cup {Migrations[First(p)]}]
      /\ Goes(p, IF Rest(p) = {} THEN "ready" ELSE "noting", Rest(p))
  BY DEF NoteNext
<1>4. /\ store'.ran = store.ran \cup {Migrations[First(p)]} /\ store'.has = store.has
      /\ store' \in [is : BOOLEAN, has : SUBSET Objects, ran : SUBSET Migrated]
  BY <1>1, <1>2, <1>3
<1> QED
  BY <1>1, <1>2, <1>3, <1>4, NoteFits

LEMMA ReadKeeps ==
  ASSUME SchemaFits, WholeInv, NEW p \in Procs, ReadRan(p)
  PROVE  WholeInv'
<1> DEFINE pending == {i \in DOMAIN Migrations : Migrations[i] \notin store.ran}
           place == IF pending = {} THEN "ready" ELSE "pending"
<1>1. Goes(p, place, pending) /\ UNCHANGED store
  BY DEF ReadRan
<1>2. pending \in SUBSET Nat /\ place \in Places
  BY PlacesOfSequences DEF Places, Preparing, Prepared
<1>3. /\ proc' \in [Procs -> Doings] /\ proc'[p].at = place /\ proc'[p].todo = pending
      /\ \A q \in Procs \ {p} : proc'[q] = proc[q]
  BY <1>1, <1>2, Goings DEF WholeInv, StoreTyped
<1>4. pending = {} => Migrated \subseteq store.has
  BY DEF Migrated, ToSet, WholeInv, NotedIsThere
<1>5. FitsStore(proc'[p])
  BY <1>1, <1>3, <1>4 DEF FitsStore, Prepared
<1> QED
  BY <1>1, <1>3, <1>5, StoreGrows DEF WholeInv, StoreTyped, NotedIsThere

\* A migration that runs is noted with what it makes.
LEMMA MigrateRuns ==
  ASSUME SchemaFits, WholeInv, NEW p \in Procs, Migrate(p), ~Fails(p)
  PROVE  /\ store'.has = store.has \cup {Migrations[First(p)]}
         /\ store'.ran = store.ran \cup {Migrations[First(p)]} /\ store'.is = store.is
         /\ store' \in [is : BOOLEAN, has : SUBSET Objects, ran : SUBSET Migrated]
         /\ First(p) \in DOMAIN Migrations /\ First(p) \in proc[p].todo
         /\ \A i \in proc[p].todo : First(p) <= i
         /\ Migrations[First(p)] \in store.has => Migrations[First(p)] \in Skipping
         /\ Goes(p, IF Rest(p) = {} THEN "ready" ELSE "pending", Rest(p))
<1> DEFINE m == Migrations[First(p)]
<1>1. /\ store' = [store EXCEPT !.has = @ \cup {m}, !.ran = @ \cup {m}]
      /\ m \in store.has => m \in Skipping
      /\ Goes(p, IF Rest(p) = {} THEN "ready" ELSE "pending", Rest(p))
  BY DEF Migrate
<1>2. /\ store \in [is : BOOLEAN, has : SUBSET Objects, ran : SUBSET Migrated]
      /\ proc[p].todo \subseteq DOMAIN Migrations /\ proc[p].todo # {}
  BY DEF WholeInv, StoreTyped, Migrate, At
<1>3. /\ First(p) \in proc[p].todo /\ \A i \in proc[p].todo : First(p) <= i
  <2>1. proc[p].todo \in SUBSET Nat
    BY <1>2, PlacesOfSequences
  <2> QED
    BY <1>2, <2>1, FirstIsLeft
<1>4. m \in Migrated /\ m \in Objects
  BY <1>2, <1>3, PlacesOfSequences DEF Objects
<1> HIDE DEF m
<1>5. /\ store'.has = store.has \cup {m} /\ store'.ran = store.ran \cup {m} /\ store'.is = store.is
      /\ store' \in [is : BOOLEAN, has : SUBSET Objects, ran : SUBSET Migrated]
  BY <1>1, <1>2, <1>4
<1> QED
  BY <1>1, <1>2, <1>3, <1>5 DEF m

LEMMA MigrateKeeps ==
  ASSUME SchemaFits, WholeInv, NEW p \in Procs, Migrate(p)
  PROVE  WholeInv'
<1>1. proc[p].at = "pending"
  BY DEF Migrate, At
<1>2. CASE Fails(p) /\ UNCHANGED store
  BY <1>2, GivesUp
<1>3. CASE ~Fails(p)
  BY <1>1, <1>3, MigrateRuns, NoteFits
<1>4. ~Fails(p) \/ UNCHANGED store
  <2>1. SUFFICES ASSUME Fails(p), ~UNCHANGED store PROVE FALSE
    OBVIOUS
  <2>2. Goes(p, IF Rest(p) = {} THEN "ready" ELSE "pending", Rest(p))
    BY <2>1 DEF Migrate
  <2>3. proc[p].todo \in SUBSET Nat /\ proc \in [Procs -> Doings]
    BY <1>1, PlacesOfSequences DEF WholeInv, StoreTyped
  <2>4. proc'[p].at \in {"ready", "pending"}
    BY <2>2, <2>3, Goings DEF Rest, Places, Preparing, Prepared
  <2> QED
    BY <2>1, <2>3, <2>4, Endings
<1> QED
  BY <1>2, <1>3, <1>4

\* The steps of the key, and the end of a process
LEMMA KeyStepsKeep ==
  ASSUME WholeInv, NEW p \in Procs,
         Ensure(p) \/ EmptyKey(p) \/ WriteKey(p) \/ ReadKey(p) \/ SaveSecret(p) \/ Stop(p), KeyTyped
  PROVE  WholeInv'
<1>0. {} \in SUBSET Nat /\ Prepared \subseteq Places
  BY DEF Places
<1>1. ASSUME Ensure(p) PROVE WholeInv'
  BY <1>0, <1>1, GoesOn DEF Ensure, At, Prepared
<1>2. ASSUME EmptyKey(p) PROVE WholeInv'
  BY <1>0, <1>2, GoesOn DEF EmptyKey, At, Prepared
<1>3. ASSUME WriteKey(p) PROVE WholeInv'
  BY <1>0, <1>3, GoesOn DEF WriteKey, At, Prepared
<1>4. ASSUME SaveSecret(p) PROVE WholeInv'
  BY <1>0, <1>4, GoesOn DEF SaveSecret, At, Prepared
<1>5. ASSUME Stop(p) PROVE WholeInv'
  BY <1>5, GivesUp DEF Stop
<1>6. ASSUME ReadKey(p) PROVE WholeInv'
  <2> DEFINE v == [proc[p] EXCEPT !.at = IF key = "empty" THEN "ready" ELSE "saving", !.key = key]
  <2>1. proc' = [proc EXCEPT ![p] = v] /\ proc[p].at = "reading" /\ UNCHANGED store
    BY <1>6 DEF ReadKey, At
  <2>2. proc \in [Procs -> Doings] /\ Migrated \subseteq store.has
    BY <2>1 DEF WholeInv, StoreTyped, NotedIsThere, Prepared
  <2>3. v \in Doings /\ v.at \in {"ready", "saving"}
    BY <2>2 DEF Doings, KeyTyped, Places, Prepared
  <2> HIDE DEF v
  <2>4. proc' \in [Procs -> Doings] /\ proc'[p] = v /\ \A q \in Procs \ {p} : proc'[q] = proc[q]
    BY <2>1, <2>2, <2>3
  <2>5. FitsStore(proc'[p])
    BY <2>1, <2>2, <2>3, <2>4 DEF FitsStore
  <2> QED
    BY <2>1, <2>4, <2>5, StoreGrows DEF WholeInv, StoreTyped, NotedIsThere
<1> QED
  BY <1>1, <1>2, <1>3, <1>4, <1>5, <1>6

LEMMA WholeStep == SchemaFits /\ WholeInv /\ KeyTyped /\ [Next]_storeVars => WholeInv'
<1> SUFFICES ASSUME SchemaFits, WholeInv, KeyTyped, [Next]_storeVars PROVE WholeInv'
  OBVIOUS
<1>1. CASE UNCHANGED storeVars
  BY <1>1 DEF storeVars, WholeInv, StoreTyped, NotedIsThere, At
<1>2. CASE Next
  BY <1>2, PrepareKeeps, CreateKeeps, NoteKeeps, ReadKeeps, MigrateKeeps, KeyStepsKeep DEF Next
<1> QED
  BY <1>1, <1>2

-----------------------------------------------------------------------------
KeyVars == <<key, secrets, raced>>

\* Where a process has nothing to do with the key
Apart == {"off", "creating", "noting", "migrating", "pending", "ready"}

LEMMA PreparingIsApart ==
  ASSUME SchemaFits, proc \in [Procs -> Doings], NEW p \in Procs,
         \A i \in DOMAIN Migrations : i \in Nat,
         proc[p].todo \in SUBSET Nat,
         Prepare(p) \/ CreateNext(p) \/ NoteNext(p) \/ ReadRan(p) \/ Migrate(p) \/ Stop(p)
  PROVE  /\ proc' \in [Procs -> Doings] /\ UNCHANGED KeyVars
         /\ proc'[p].at \in Apart /\ \A q \in Procs \ {p} : proc'[q] = proc[q]
<1> DEFINE Done == /\ proc' \in [Procs -> Doings]
                   /\ proc'[p].at \in Apart /\ \A q \in Procs \ {p} : proc'[q] = proc[q]
<1>1. ASSUME NEW place \in Apart, NEW todo \in SUBSET Nat, Goes(p, place, todo)
      PROVE  Done
  <2>1. place \in Places
    BY DEF Apart, Places, Preparing, Prepared
  <2> QED
    BY <1>1, <2>1, Goings
<1>2. ASSUME Fails(p) PROVE Done
  BY <1>2, Endings DEF Apart
<1>3. /\ Rest(p) \in SUBSET Nat /\ DOMAIN InSchema \in SUBSET Nat /\ DOMAIN Migrations \in SUBSET Nat
      /\ {} \in SUBSET Nat /\ {i \in DOMAIN Migrations : Migrations[i] \notin store.ran} \in SUBSET Nat
  BY PlacesOfSequences DEF Rest
<1>4. "off" \in Apart /\ "creating" \in Apart /\ "noting" \in Apart /\ "migrating" \in Apart
      /\ "pending" \in Apart /\ "ready" \in Apart
  BY DEF Apart
<1> HIDE DEF Done
<1>5. ASSUME Prepare(p) PROVE Done
  BY <1>1, <1>3, <1>4, <1>5 DEF Prepare
<1>6. ASSUME CreateNext(p) PROVE Done
  BY <1>1, <1>2, <1>3, <1>4, <1>6 DEF CreateNext
<1>7. ASSUME NoteNext(p) PROVE Done
  BY <1>1, <1>3, <1>4, <1>7 DEF NoteNext
<1>8. ASSUME ReadRan(p) PROVE Done
  BY <1>1, <1>3, <1>4, <1>8 DEF ReadRan
<1>9. ASSUME Migrate(p) PROVE Done
  BY <1>1, <1>2, <1>3, <1>4, <1>9 DEF Migrate
<1>10. ASSUME Stop(p) PROVE Done
  BY <1>2, <1>10 DEF Stop
<1>11. UNCHANGED KeyVars
  BY DEF KeyVars, Prepare, CreateNext, NoteNext, ReadRan, Migrate, Stop
<1> QED
  BY <1>5, <1>6, <1>7, <1>8, <1>9, <1>10, <1>11 DEF Done

LEMMA KeyInit == KeysFit /\ Init => KeyInv
<1> SUFFICES ASSUME KeysFit, Init PROVE KeyInv
  OBVIOUS
<1>1. Off \in Doings /\ Off.at = "off"
  BY DEF Off, Doings, Places, KeyFiles
<1>2. proc \in [Procs -> Doings] /\ \A p \in Procs : proc[p].at = "off"
  BY <1>1 DEF Init
<1> QED
  BY <1>2 DEF Init, KeyInv, KeyTyped, KeyFiles, OneWrites, At

\* The key is one that a process wrote, or it is not there, or empty.
LEMMA KeyStep == SchemaFits /\ KeysFit /\ KeyInv /\ [Next]_storeVars => KeyInv'
<1> SUFFICES ASSUME SchemaFits, KeysFit, KeyInv, [Next]_storeVars PROVE KeyInv'
  OBVIOUS
<1> USE DEF KeyInv
<1>0. /\ proc \in [Procs -> Doings] /\ key \in KeyFiles
      /\ \A p \in Procs : p # "none" /\ p # "empty"
  BY DEF KeyTyped, KeysFit
<1>1. CASE UNCHANGED storeVars
  BY <1>1 DEF storeVars, KeyTyped, OneWrites, At
<1>2. ASSUME NEW p \in Procs, UNCHANGED KeyVars, proc' \in [Procs -> Doings],
             proc'[p].at \in Apart, \A q \in Procs \ {p} : proc'[q] = proc[q]
      PROVE  KeyInv'
  <2>1. KeyTyped'
    BY <1>0, <1>2 DEF KeyTyped, KeyVars
  <2>2. ASSUME OneWrites PROVE OneWrites'
    <3>1. \A q \in Procs : proc'[q].at \notin Apart => q # p /\ proc'[q] = proc[q]
      BY <1>2
    <3> QED
      BY <1>2, <2>2, <3>1 DEF OneWrites, At, KeyVars, Apart
  <2> QED
    BY <1>2, <2>1, <2>2 DEF KeyVars
<1>3. ASSUME NEW p \in Procs,
             Prepare(p) \/ CreateNext(p) \/ NoteNext(p) \/ ReadRan(p) \/ Migrate(p) \/ Stop(p)
      PROVE  KeyInv'
  <2>1. proc[p].todo \in SUBSET Nat
    BY <1>0 DEF Doings
  <2> QED
    BY <1>0, <1>2, <1>3, <2>1, PlacesOfSequences, PreparingIsApart
<1>4. ASSUME NEW p \in Procs, NEW place \in Prepared, Goes(p, place, {})
      PROVE  /\ proc' \in [Procs -> Doings] /\ proc'[p].at = place /\ proc'[p].key = proc[p].key
             /\ \A q \in Procs \ {p} : proc'[q] = proc[q]
  <2>1. place \in Places /\ {} \in SUBSET Nat
    BY DEF Places
  <2> QED
    BY <1>0, <1>4, <2>1, Goings
<1>5. ASSUME NEW p \in Procs, Ensure(p) PROVE KeyInv'
  <2> DEFINE place == IF key = "none" THEN "keying" ELSE "reading"
  <2>1. Goes(p, place, {}) /\ raced' = (raced \/ (key = "none" /\ Writing)) /\ UNCHANGED <<key, secrets>>
    BY <1>5 DEF Ensure
  <2>2. place \in Prepared
    BY DEF Prepared
  <2>3. /\ proc' \in [Procs -> Doings] /\ proc'[p].at = place
        /\ \A q \in Procs \ {p} : proc'[q] = proc[q]
    BY <1>4, <2>1, <2>2
  <2>4. KeyTyped'
    BY <1>0, <2>1, <2>3 DEF KeyTyped
  <2>5. ASSUME ~raced' PROVE OneWrites'
    <3>1. OneWrites /\ (key = "none" => \A q \in Procs : proc[q].at \notin {"keying", "writing"})
      BY <2>1, <2>5 DEF Writing
    <3> QED
      BY <2>1, <2>3, <3>1 DEF OneWrites, At
  <2> QED
    BY <2>4, <2>5
<1>6. ASSUME NEW p \in Procs, EmptyKey(p) PROVE KeyInv'
  <2>1. Goes(p, "writing", {}) /\ key' = "empty" /\ UNCHANGED <<secrets, raced>> /\ proc[p].at = "keying"
    BY <1>6 DEF EmptyKey, At
  <2>2. /\ proc' \in [Procs -> Doings] /\ proc'[p].at = "writing"
        /\ \A q \in Procs \ {p} : proc'[q] = proc[q]
    BY <1>4, <2>1 DEF Prepared
  <2>3. KeyTyped'
    BY <2>1, <2>2 DEF KeyTyped, KeyFiles
  <2>4. ASSUME OneWrites PROVE OneWrites'
    <3>1. key = "none" /\ secrets = {} /\ \A q \in Procs \ {p} : proc[q].at \notin {"keying", "writing", "saving"}
      BY <1>0, <2>1, <2>4 DEF OneWrites, At
    <3> QED
      BY <2>1, <2>2, <2>4, <3>1 DEF OneWrites, At
  <2> QED
    BY <2>1, <2>3, <2>4
<1>7. ASSUME NEW p \in Procs, WriteKey(p) PROVE KeyInv'
  <2>1. Goes(p, "reading", {}) /\ key' = p /\ UNCHANGED <<secrets, raced>> /\ proc[p].at = "writing"
    BY <1>7 DEF WriteKey, At
  <2>2. /\ proc' \in [Procs -> Doings] /\ proc'[p].at = "reading"
        /\ \A q \in Procs \ {p} : proc'[q] = proc[q]
    BY <1>4, <2>1 DEF Prepared
  <2>3. KeyTyped'
    BY <2>1, <2>2 DEF KeyTyped, KeyFiles
  <2>4. ASSUME OneWrites PROVE OneWrites'
    <3>1. key = "empty" /\ secrets = {} /\ \A q \in Procs \ {p} : proc[q].at \notin {"keying", "writing", "saving"}
      BY <1>0, <2>1, <2>4 DEF OneWrites, At
    <3> QED
      BY <1>0, <2>1, <2>2, <2>4, <3>1 DEF OneWrites, At
  <2> QED
    BY <2>1, <2>3, <2>4
<1>8. ASSUME NEW p \in Procs, ReadKey(p) PROVE KeyInv'
  <2> DEFINE v == [proc[p] EXCEPT !.at = IF key = "empty" THEN "ready" ELSE "saving", !.key = key]
  <2>1. proc' = [proc EXCEPT ![p] = v] /\ proc[p].at = "reading" /\ UNCHANGED <<key, secrets, raced>>
    BY <1>8 DEF ReadKey, At
  <2>2. v \in Doings /\ v.at = (IF key = "empty" THEN "ready" ELSE "saving") /\ v.key = key
    BY <1>0 DEF Doings, Places, Prepared
  <2> HIDE DEF v
  <2>3. proc' \in [Procs -> Doings] /\ proc'[p] = v /\ \A q \in Procs \ {p} : proc'[q] = proc[q]
    BY <1>0, <2>1, <2>2
  <2>4. KeyTyped'
    BY <1>0, <2>1, <2>3 DEF KeyTyped
  <2>5. ASSUME OneWrites PROVE OneWrites'
    <3>1. key # "none" /\ (key # "empty" => key \in Procs)
      BY <1>0, <2>1, <2>5 DEF OneWrites, At, KeyFiles
    <3> QED
      BY <2>1, <2>2, <2>3, <2>5, <3>1 DEF OneWrites, At
  <2> QED
    BY <2>1, <2>4, <2>5
<1>9. ASSUME NEW p \in Procs, SaveSecret(p) PROVE KeyInv'
  <2>1. /\ Goes(p, "ready", {}) /\ secrets' = secrets \cup {proc[p].key} /\ UNCHANGED <<key, raced>>
        /\ proc[p].at = "saving"
    BY <1>9 DEF SaveSecret, At
  <2>2. /\ proc' \in [Procs -> Doings] /\ proc'[p].at = "ready"
        /\ \A q \in Procs \ {p} : proc'[q] = proc[q]
    BY <1>4, <2>1 DEF Prepared
  <2>3. KeyTyped'
    BY <1>0, <2>1, <2>2 DEF KeyTyped
  <2>4. ASSUME OneWrites PROVE OneWrites'
    <3>1. key \in Procs /\ secrets' = {key}
      BY <2>1, <2>4 DEF OneWrites, At
    <3> QED
      BY <2>1, <2>2, <2>4, <3>1 DEF OneWrites, At
  <2> QED
    BY <2>1, <2>3, <2>4
<1> QED
  BY <1>1, <1>3, <1>5, <1>6, <1>7, <1>8, <1>9 DEF Next

\* Whoever has prepared the store, however many did so at once and wherever
\* others died, finds in it all that the migrations make.
THEOREM PreparedIsWhole == ASSUME SchemaFits, KeysFit PROVE Spec => []ReadyIsWhole
<1>1. WholeInv => ReadyIsWhole
  BY DEF WholeInv, NotedIsThere, ReadyIsWhole, Prepared, Migrated
<1>2. KeyInv => KeyTyped
  BY DEF KeyInv
<1> QED
  BY <1>1, <1>2, WholeInit, WholeStep, KeyInit, KeyStep, PTL DEF Spec

\* Unless two processes found no key at once, every secret there is was
\* encrypted with the key there is.
THEOREM SecretsKeepTheirKey == ASSUME SchemaFits, KeysFit PROVE Spec => []SecretsReadable
<1>1. KeyInv => SecretsReadable
  BY DEF KeyInv, OneWrites, SecretsReadable
<1> QED
  BY <1>1, KeyInit, KeyStep, PTL DEF Spec

-----------------------------------------------------------------------------
Creating == {"creating", "noting"}

LEMMA CreatedInit == SchemaFits /\ Init => CreatedInv
<1> SUFFICES ASSUME SchemaFits, Init PROVE CreatedInv
  OBVIOUS
<1>1. \A p \in Procs : proc[p].at = "off"
  BY DEF Init, Off
<1> QED
  BY <1>1, StoreOfOld, WholeInit DEF CreatedInv, FirstIsNoted, OneCreates, UnnotedIsMade, At

\* A process that does not create the schema leaves the store alone.
LEMMA AsideKeeps ==
  ASSUME CreatedInv, WholeInv', NEW p \in Procs, UNCHANGED store, store.is,
         proc[p].at \notin Creating, proc'[p].at \notin Creating,
         \A q \in Procs \ {p} : proc'[q] = proc[q]
  PROVE  CreatedInv'
<1>1. \A q \in Procs : proc'[q].at \in Creating \/ proc[q].at \in Creating => q # p /\ proc'[q] = proc[q]
  BY DEF Creating
<1>2. FirstIsNoted'
  BY DEF CreatedInv, FirstIsNoted
<1>3. OneCreates'
  BY <1>1 DEF CreatedInv, OneCreates, Creating
<1>4. UnnotedIsMade'
  <2>1. \A q \in Procs : proc'[q].at = "creating" =>
          /\ proc[q].at = "creating" /\ proc'[q].todo = proc[q].todo /\ Made(q)' = Made(q)
    BY <1>1 DEF Creating, Made
  <2>2. (\A q \in Procs : proc'[q].at \notin Creating) => \A q \in Procs : proc[q].at \notin Creating
    BY <1>1
  <2> QED
    BY <2>1, <2>2 DEF CreatedInv, UnnotedIsMade, Creating, At
<1> QED
  BY <1>2, <1>3, <1>4 DEF CreatedInv

LEMMA AnyoneMeansAStore ==
  ASSUME CreatedInv, NEW p \in Procs, proc[p].at # "off"
  PROVE  store.is
BY DEF CreatedInv, OneCreates, At

LEMMA PrepareStarts ==
  ASSUME SchemaFits, CreatedInv, WholeInv', NEW p \in Procs, Prepare(p)
  PROVE  CreatedInv'
<1>1. /\ proc \in [Procs -> Doings] /\ proc[p].at = "off"
      /\ store \in [is : BOOLEAN, has : SUBSET Objects, ran : SUBSET Migrated]
  BY DEF CreatedInv, WholeInv, StoreTyped, Prepare, At
<1>2. CASE store.is
  <2>1. Goes(p, "migrating", {}) /\ UNCHANGED store
    BY <1>2 DEF Prepare
  <2>2. proc'[p].at = "migrating" /\ \A q \in Procs \ {p} : proc'[q] = proc[q]
    BY <1>1, <2>1, Goings DEF Places, Preparing
  <2> QED
    BY <1>1, <1>2, <2>1, <2>2, AsideKeeps DEF Creating
<1>3. CASE ~store.is
  <2>1. Goes(p, "creating", DOMAIN InSchema) /\ store' = [store EXCEPT !.is = TRUE]
    BY <1>3 DEF Prepare
  <2>2. /\ proc'[p].at = "creating" /\ proc'[p].todo = DOMAIN InSchema
        /\ \A q \in Procs \ {p} : proc'[q] = proc[q]
    BY <1>1, <2>1, Goings, PlacesOfSequences, SMTT(30) DEF Places, Preparing
  <2>3. store'.is /\ store'.has = store.has /\ store'.ran = store.ran
    BY <1>1, <2>1
  <2>4. store.has = {} /\ store.ran = {} /\ \A q \in Procs : proc[q].at = "off"
    BY <1>3 DEF CreatedInv, OneCreates, At, WholeInv, NotedIsThere
  <2>5. \A q \in Procs : q # p => proc'[q].at = "off"
    BY <2>2, <2>4
  <2> QED
    BY <2>2, <2>3, <2>4, <2>5 DEF CreatedInv, FirstIsNoted, OneCreates, UnnotedIsMade, At
<1> QED
  BY <1>2, <1>3

\* The one that creates
LEMMA CreateGoesOn ==
  ASSUME SchemaFits, CreatedFirst, CreatedInv, WholeInv', NEW p \in Procs, CreateNext(p)
  PROVE  CreatedInv'
<1>1. /\ proc \in [Procs -> Doings] /\ store \in [is : BOOLEAN, has : SUBSET Objects, ran : SUBSET Migrated]
      /\ proc[p].at = "creating" /\ proc[p].todo \subseteq DOMAIN InSchema /\ proc[p].todo \in SUBSET Nat
      /\ \A i \in DOMAIN InSchema \ proc[p].todo : InSchema[i] \in store.has
      /\ store.ran \subseteq store.has
  BY PlacesOfSequences DEF CreatedInv, WholeInv, StoreTyped, NotedIsThere, CreateNext, At
<1>2. store.is /\ \A q \in Procs \ {p} : proc[q].at \notin Creating
  BY <1>1, AnyoneMeansAStore DEF CreatedInv, OneCreates, Creating
<1>3. \/ proc[p].todo = DOMAIN InSchema /\ store.has \subseteq store.ran
      \/ store.ran = {} /\ Migrations[1] \in store.has /\ store.has \subseteq Made(p)
  BY <1>1 DEF CreatedInv, UnnotedIsMade, At
<1>4. ASSUME proc[p].todo # {}
      PROVE  /\ First(p) \in proc[p].todo /\ First(p) \in DOMAIN InSchema
             /\ Rest(p) = proc[p].todo \ {First(p)} /\ Rest(p) \in SUBSET Nat
             /\ proc[p].todo = DOMAIN InSchema => First(p) = 1
  <2>1. /\ First(p) \in proc[p].todo /\ \A i \in proc[p].todo : First(p) <= i
        /\ Rest(p) = proc[p].todo \ {First(p)}
    BY <1>1, <1>4, FirstIsLeft DEF Rest
  <2>2. ASSUME proc[p].todo = DOMAIN InSchema PROVE First(p) = 1
    <3>1. 1 \in proc[p].todo /\ 1 <= First(p)
      BY <2>1, <2>2, PlacesOfSequences
    <3>2. First(p) <= 1 /\ First(p) \in Nat
      BY <1>1, <2>1, <3>1
    <3> QED
      BY <3>1, <3>2
  <2> QED
    BY <1>1, <2>1, <2>2
<1>5. FirstIsNoted' <=> (store'.ran # {} => Migrations[1] \in store'.ran)
  BY DEF FirstIsNoted
\* what is there is what it made, or was noted: only what another has noted is in its way
<1>6. ASSUME Fails(p), UNCHANGED store, proc[p].todo # {}, InSchema[First(p)] \in store.has
      PROVE  CreatedInv'
  <2>1. store.has \subseteq store.ran
    <3>1. SUFFICES ASSUME store.has \subseteq Made(p) PROVE FALSE
      BY <1>3
    <3>2. InSchema[First(p)] \in Made(p)
      BY <1>6, <3>1
    <3> QED
      BY <1>4, <1>6, <3>2 DEF Made, CreatedFirst
  <2>2. /\ proc'[p].at = "off" /\ \A q \in Procs \ {p} : proc'[q] = proc[q]
    BY <1>1, <1>6, Endings
  <2>3. \A q \in Procs : proc'[q].at \notin Creating
    BY <1>2, <2>2 DEF Creating
  <2> QED
    BY <1>2, <1>6, <2>1, <2>2, <2>3 DEF CreatedInv, FirstIsNoted, OneCreates, UnnotedIsMade, At, Creating
<1>7. ASSUME proc[p].todo # {}, InSchema[First(p)] \notin store.has,
             store' = [store EXCEPT !.has = @ \cup {InSchema[First(p)]}], Goes(p, "creating", Rest(p))
      PROVE  CreatedInv'
  <2>1. /\ proc'[p].at = "creating" /\ proc'[p].todo = Rest(p) /\ \A q \in Procs \ {p} : proc'[q] = proc[q]
    BY <1>1, <1>4, <1>7, Goings DEF Places, Preparing
  <2>2. store'.has = store.has \cup {InSchema[First(p)]} /\ store'.ran = store.ran /\ store'.is = store.is
    BY <1>1, <1>7
  <2>3. \A q \in Procs : proc'[q].at \in Creating => q = p
    BY <1>2, <2>1
  <2>4. Made(p)' = Made(p) \cup {InSchema[First(p)]}
    BY <1>1, <1>4, <1>7, <2>1 DEF Made
  <2>5. store'.ran = {} /\ Migrations[1] \in store'.has /\ store'.has \subseteq Made(p)'
    <3>1. CASE proc[p].todo = DOMAIN InSchema /\ store.has \subseteq store.ran
      <4>1. First(p) = 1 /\ InSchema[1] = Migrations[1]
        BY <1>4, <1>7, <3>1 DEF CreatedFirst
      <4>2. store.ran = {}
        BY <1>1, <1>7, <4>1 DEF CreatedInv, FirstIsNoted
      <4> QED
        BY <2>2, <2>4, <3>1, <4>1, <4>2
    <3>2. CASE store.ran = {} /\ Migrations[1] \in store.has /\ store.has \subseteq Made(p)
      BY <2>2, <2>4, <3>2
    <3> QED
      BY <1>3, <3>1, <3>2
  <2>6. UnnotedIsMade'
    BY <2>1, <2>3, <2>5 DEF UnnotedIsMade, At, Creating
  <2>7. OneCreates'
    BY <1>2, <2>2, <2>3 DEF OneCreates, Creating
  <2> QED
    BY <1>5, <2>5, <2>6, <2>7 DEF CreatedInv
<1>8. ASSUME Goes(p, "noting", DOMAIN Migrations), UNCHANGED store
      PROVE  CreatedInv'
  <2>1. /\ proc'[p].at = "noting" /\ \A q \in Procs \ {p} : proc'[q] = proc[q]
    BY <1>1, <1>8, Goings, PlacesOfSequences DEF Places, Preparing
  <2>2. \A q \in Procs : proc'[q].at \in Creating => q = p
    BY <1>2, <2>1
  <2>3. OneCreates' /\ UnnotedIsMade'
    BY <1>2, <1>8, <2>1, <2>2 DEF OneCreates, UnnotedIsMade, Creating, At
  <2> QED
    BY <1>8, <2>3 DEF CreatedInv, FirstIsNoted
<1> QED
  BY <1>6, <1>7, <1>8 DEF CreateNext

LEMMA NoteGoesOn ==
  ASSUME SchemaFits, CreatedInv, WholeInv', NEW p \in Procs, NoteNext(p)
  PROVE  CreatedInv'
<1>1. /\ proc \in [Procs -> Doings] /\ store \in [is : BOOLEAN, has : SUBSET Objects, ran : SUBSET Migrated]
      /\ proc[p].at = "noting" /\ proc[p].todo \subseteq DOMAIN Migrations /\ proc[p].todo # {}
      /\ proc[p].todo \in SUBSET Nat
      /\ \A i \in DOMAIN Migrations \ proc[p].todo : Migrations[i] \in store.ran
  BY PlacesOfSequences DEF CreatedInv, WholeInv, StoreTyped, NotedIsThere, NoteNext, At
<1>2. store.is /\ \A q \in Procs \ {p} : proc[q].at \notin Creating
  BY <1>1, AnyoneMeansAStore DEF CreatedInv, OneCreates, Creating
<1>3. /\ First(p) \in proc[p].todo /\ \A i \in proc[p].todo : First(p) <= i
      /\ Rest(p) = proc[p].todo \ {First(p)} /\ Rest(p) \in SUBSET Nat
  BY <1>1, FirstIsLeft DEF Rest
<1>4. /\ store'.ran = store.ran \cup {Migrations[First(p)]} /\ store'.has = store.has /\ store'.is = store.is
  BY <1>1 DEF NoteNext
<1> DEFINE place == IF Rest(p) = {} THEN "ready" ELSE "noting"
<1>5. proc'[p].at = place /\ \A q \in Procs \ {p} : proc'[q] = proc[q]
  <2>1. Goes(p, place, Rest(p)) /\ place \in Places
    BY DEF NoteNext, Places, Preparing, Prepared
  <2> HIDE DEF place
  <2> QED
    BY <1>1, <1>3, <2>1, Goings
<1>6. Migrations[1] \in store'.ran
  <2>1. CASE 1 \in proc[p].todo
    <3>1. First(p) <= 1 /\ 1 <= First(p) /\ First(p) \in Nat
      BY <1>1, <1>3, <2>1, PlacesOfSequences
    <3>2. First(p) = 1
      BY <3>1
    <3> QED
      BY <1>4, <3>2
  <2>2. CASE 1 \notin proc[p].todo
    BY <1>1, <1>4, <2>2, PlacesOfSequences
  <2> QED
    BY <2>1, <2>2
<1>7. \A q \in Procs : proc'[q].at \in Creating => q = p /\ Rest(p) # {}
  BY <1>2, <1>5 DEF Creating
<1>8. OneCreates'
  BY <1>2, <1>4, <1>7 DEF OneCreates, Creating
<1>9. UnnotedIsMade'
  <2>1. \A q \in Procs : proc'[q].at # "creating"
    BY <1>5, <1>7 DEF Creating
  <2>2. ASSUME \A q \in Procs : proc'[q].at \notin Creating PROVE Migrated \subseteq store'.ran
    <3>1. Rest(p) = {}
      BY <1>5, <2>2 DEF Creating
    <3> QED
      BY <1>1, <1>3, <1>4, <3>1 DEF Migrated, ToSet
  <2> QED
    BY <2>1, <2>2 DEF UnnotedIsMade, Creating, At
<1> QED
  BY <1>6, <1>8, <1>9 DEF CreatedInv, FirstIsNoted

\* Who migrates meanwhile comes to grief at the first, or is ahead of who creates.
LEMMA MigrateGoesOn ==
  ASSUME SchemaFits, CreatedFirst, CreatedInv, WholeInv', NEW p \in Procs, Migrate(p)
  PROVE  CreatedInv'
<1>0. /\ proc \in [Procs -> Doings] /\ WholeInv
      /\ proc[p].at = "pending" /\ proc[p].todo \subseteq DOMAIN Migrations /\ proc[p].todo \in SUBSET Nat
      /\ \A i \in DOMAIN Migrations \ proc[p].todo : Migrations[i] \in store.ran
  BY PlacesOfSequences DEF CreatedInv, WholeInv, StoreTyped, NotedIsThere, Migrate, At
<1>1. store.is
  BY <1>0, AnyoneMeansAStore
<1>2. ASSUME Fails(p), UNCHANGED store PROVE CreatedInv'
  <2>1. proc'[p].at = "off" /\ \A q \in Procs \ {p} : proc'[q] = proc[q]
    BY <1>0, <1>2, Endings
  <2> QED
    BY <1>0, <1>1, <1>2, <2>1, AsideKeeps DEF Creating
<1>3. ASSUME ~Fails(p) PROVE CreatedInv'
  <2>1. /\ store'.has = store.has \cup {Migrations[First(p)]}
        /\ store'.ran = store.ran \cup {Migrations[First(p)]} /\ store'.is = store.is
        /\ First(p) \in DOMAIN Migrations /\ First(p) \in proc[p].todo
        /\ \A i \in proc[p].todo : First(p) <= i
        /\ Migrations[First(p)] \in store.has => Migrations[First(p)] \in Skipping
        /\ Goes(p, IF Rest(p) = {} THEN "ready" ELSE "pending", Rest(p))
    BY <1>0, <1>3, MigrateRuns
  <2>2. proc'[p].at \in {"ready", "pending"} /\ \A q \in Procs \ {p} : proc'[q] = proc[q]
    <3>1. Rest(p) \in SUBSET Nat
      BY <1>0 DEF Rest
    <3> QED
      BY <1>0, <2>1, <3>1, Goings DEF Places, Preparing, Prepared
  <2>3. First(p) = 1 \/ Migrations[1] \in store.ran
    <3>1. CASE 1 \in proc[p].todo
      <4>1. First(p) <= 1 /\ 1 <= First(p) /\ First(p) \in Nat
        BY <1>0, <2>1, <3>1, PlacesOfSequences
      <4> QED
        BY <4>1
    <3>2. CASE 1 \notin proc[p].todo
      BY <1>0, <3>2, PlacesOfSequences
    <3> QED
      BY <3>1, <3>2
  <2>4. FirstIsNoted'
    BY <2>1, <2>3 DEF FirstIsNoted
  <2>5. \A q \in Procs : proc'[q].at \in Creating \/ proc[q].at \in Creating => q # p /\ proc'[q] = proc[q]
    BY <1>0, <2>2 DEF Creating
  <2>6. OneCreates'
    BY <1>1, <2>1, <2>5 DEF CreatedInv, OneCreates, Creating
  <2>7. ASSUME NEW q \in Procs, proc'[q].at = "creating"
        PROVE  proc'[q].todo = DOMAIN InSchema /\ store'.has \subseteq store'.ran
    <3>1. q # p /\ proc'[q] = proc[q] /\ proc[q].at = "creating"
      BY <2>5, <2>7 DEF Creating
    <3>2. \/ proc[q].todo = DOMAIN InSchema /\ store.has \subseteq store.ran
          \/ store.ran = {} /\ Migrations[1] \in store.has
      BY <3>1 DEF CreatedInv, UnnotedIsMade, At
    <3>3. ASSUME store.ran = {}, Migrations[1] \in store.has PROVE FALSE
      BY <2>1, <2>3, <3>3 DEF CreatedFirst
    <3> QED
      BY <2>1, <3>1, <3>2, <3>3
  <2>8. ASSUME \A q \in Procs : proc'[q].at \notin Creating
        PROVE  store'.has \cap Migrated \subseteq store'.ran
    <3>1. \A q \in Procs : proc[q].at \notin Creating
      BY <2>5, <2>8
    <3>2. store.has \cap Migrated \subseteq store.ran
      BY <3>1 DEF CreatedInv, UnnotedIsMade, Creating
    <3> QED
      BY <2>1, <3>2
  <2>9. UnnotedIsMade'
    BY <2>7, <2>8 DEF UnnotedIsMade, Creating, At
  <2> QED
    BY <2>4, <2>6, <2>9 DEF CreatedInv
<1>4. ~Fails(p) \/ (Fails(p) /\ UNCHANGED store)
  <2>1. SUFFICES ASSUME Fails(p), ~UNCHANGED store PROVE FALSE
    OBVIOUS
  <2>2. Goes(p, IF Rest(p) = {} THEN "ready" ELSE "pending", Rest(p)) /\ Rest(p) \in SUBSET Nat
    BY <1>0, <2>1 DEF Migrate, Rest
  <2>3. proc'[p].at \in {"ready", "pending"}
    BY <1>0, <2>2, Goings DEF Places, Preparing, Prepared
  <2> QED
    BY <1>0, <2>1, <2>3, Endings
<1> QED
  BY <1>2, <1>3, <1>4

LEMMA OthersGoOn ==
  ASSUME ~CrashCreating, SchemaFits, CreatedInv, KeyTyped, WholeInv', NEW p \in Procs,
         ReadRan(p) \/ Ensure(p) \/ EmptyKey(p) \/ WriteKey(p) \/ ReadKey(p) \/ SaveSecret(p) \/ Stop(p)
  PROVE  CreatedInv'
<1>1. /\ proc \in [Procs -> Doings] /\ proc[p].at \notin Creating /\ proc[p].at # "off" /\ UNCHANGED store
  BY DEF CreatedInv, WholeInv, StoreTyped, Creating, At,
         ReadRan, Ensure, EmptyKey, WriteKey, ReadKey, SaveSecret, Stop
<1>2. store.is
  BY <1>1, AnyoneMeansAStore
<1>3. ASSUME NEW place \in Places \ Creating, NEW todo \in SUBSET Nat, Goes(p, place, todo)
      PROVE  CreatedInv'
  <2>1. proc'[p].at = place /\ \A q \in Procs \ {p} : proc'[q] = proc[q]
    BY <1>1, <1>3, Goings
  <2> QED
    BY <1>1, <1>2, <2>1, AsideKeeps
<1>4. /\ {} \in SUBSET Nat
      /\ {i \in DOMAIN Migrations : Migrations[i] \notin store.ran} \in SUBSET Nat
      /\ Prepared \cup {"pending"} \subseteq Places \ Creating
  BY PlacesOfSequences DEF Places, Preparing, Prepared, Creating
<1>5. ASSUME ReadRan(p) PROVE CreatedInv'
  BY <1>3, <1>4, <1>5 DEF ReadRan, Prepared
<1>6. ASSUME Ensure(p) \/ EmptyKey(p) \/ WriteKey(p) \/ SaveSecret(p) PROVE CreatedInv'
  BY <1>3, <1>4, <1>6 DEF Ensure, EmptyKey, WriteKey, SaveSecret, Prepared
<1>7. ASSUME Stop(p) PROVE CreatedInv'
  <2>1. proc'[p].at = "off" /\ \A q \in Procs \ {p} : proc'[q] = proc[q]
    BY <1>1, <1>7, Endings DEF Stop
  <2> QED
    BY <1>1, <1>2, <2>1, AsideKeeps DEF Creating
<1>8. ASSUME ReadKey(p) PROVE CreatedInv'
  <2> DEFINE v == [proc[p] EXCEPT !.at = IF key = "empty" THEN "ready" ELSE "saving", !.key = key]
  <2>1. proc' = [proc EXCEPT ![p] = v]
    BY <1>8 DEF ReadKey
  <2>2. v.at \notin Creating
    BY <1>1 DEF Doings, Creating
  <2> HIDE DEF v
  <2>3. proc'[p] = v /\ \A q \in Procs \ {p} : proc'[q] = proc[q]
    BY <1>1, <2>1
  <2> QED
    BY <1>1, <1>2, <2>2, <2>3, AsideKeeps
<1> QED
  BY <1>5, <1>6, <1>7, <1>8

LEMMA CreatedStep ==
  ASSUME SchemaFits, CreatedFirst, ~CrashCreating
  PROVE  CreatedInv /\ KeyTyped /\ [Next]_storeVars => CreatedInv'
<1> SUFFICES ASSUME CreatedInv, KeyTyped, [Next]_storeVars PROVE CreatedInv'
  OBVIOUS
<1>1. WholeInv'
  BY WholeStep DEF CreatedInv
<1>2. CASE UNCHANGED storeVars
  BY <1>1, <1>2 DEF storeVars, CreatedInv, FirstIsNoted, OneCreates, UnnotedIsMade, At, Made
<1>3. CASE Next
  BY <1>1, <1>3, PrepareStarts, CreateGoesOn, NoteGoesOn, MigrateGoesOn, OthersGoOn DEF Next
<1> QED
  BY <1>2, <1>3

\* When none is preparing the store, none who starts is refused by what was
\* left, if none dies between the statements that create the schema.
THEOREM StoreComesUpAgain ==
  ASSUME SchemaFits, CreatedFirst, KeysFit, ~CrashCreating
  PROVE  Spec => []ComesUpAgain
<1>1. CreatedInv => ComesUpAgain
  BY DEF CreatedInv, UnnotedIsMade, ComesUpAgain, Migrated
<1>2. KeyInv => KeyTyped
  BY DEF KeyInv
<1> QED
  BY <1>1, <1>2, CreatedInit, CreatedStep, KeyInit, KeyStep, PTL DEF Spec

-----------------------------------------------------------------------------
(* Signing in to Snowflake in the browser, of SignIns, for any tqls,        *)
(* threads, connections, roles and tokens: what is remembered by a tql,     *)
(* saved in the store and handed out by Snowflake stays with the account    *)
(* and the role it is for.                                                  *)

CONSTANTS Tqls, Main, Threads, Connections, Granted, Roles, Scoped, Ports, MaxGrants, MaxAttempts, MaxCalls
VARIABLES grants, attempts, rows, tql, work, calls

Signs == INSTANCE SignIns

Tokens(g) == [access : 0..Len(g), refresh : 0..Len(g)]
Keeps(tokens, known, g) ==
  /\ tokens \in Tokens(g)
  /\ tokens.access # 0 => g[tokens.access] = known
  /\ tokens.refresh # 0 => g[tokens.refresh] = known

Holders == (UNION {Threads[t] : t \in Tqls}) \cup {"nobody"}
Sessions ==
  [phase : {"closed", "starting", "open"}, row : DOMAIN Connections \cup {"none"}, kind : {"oauth", "sso", "none"},
   key : Signs!Keys \cup {<<>>}, tokens : [access : Nat, refresh : Nat], saved : Nat, holder : Holders]
SignDoings ==
  [at : {"rest", "wants", "ask", "rejected", "refresh", "sign in", "listening", "exchange", "remember"},
   why : {"none", "start", "early", "renew"}, token : Nat, attempt : Nat, code : Nat, again : BOOLEAN]

Busy(w) == w.at \in {"refresh", "sign in", "listening", "exchange", "remember"}

\* What a session has is for its account and role
Sess(s, g) ==
  /\ s \in Sessions
  /\ Keeps(s.tokens, s.key, g)
  /\ s.saved <= Len(g) /\ (s.saved # 0 => g[s.saved] = s.key)
  /\ s.phase # "closed" => s.row \in DOMAIN Connections /\ s.kind # "none" /\ s.key \in Signs!Keys
  /\ s.phase = "closed" => s.holder = "nobody"
  /\ s.phase = "starting" => s.holder = Main
  /\ s.phase = "open" => s.tokens.access # 0
  /\ s.kind = "sso" => s.tokens.refresh = 0 /\ s.saved = 0

\* How far a thread is
Thr(s, w, h, g, a) ==
  /\ w \in SignDoings
  /\ Busy(w) <=> s.holder = h
  /\ s.phase = "closed" => w.at = "rest"
  /\ s.phase = "starting" => w.at = "rest" \/ Busy(w)
  /\ Busy(w) => (w.why = "start" <=> s.phase = "starting") /\ w.why # "none"
  /\ w.at \in {"ask", "rejected"} => w.token \in 1..Len(g) /\ g[w.token] = s.key
  /\ w.at = "rejected" => s.kind = "oauth"
  /\ Busy(w) /\ w.why # "start" => s.kind = "oauth"
  /\ w.at = "refresh" => IF s.phase = "starting" THEN s.saved # 0 ELSE s.tokens.refresh # 0
  /\ w.at = "refresh" => s.kind = "oauth"
  /\ w.at \in {"listening", "exchange"} => w.attempt \in 1..Len(a) /\ a[w.attempt].of = s.key
  /\ w.at = "exchange" /\ s.kind = "oauth" => w.code = w.attempt
  /\ w.at = "remember" => s.tokens.access # 0
  /\ Busy(w) /\ w.why = "renew" /\ w.at # "remember" => s.tokens.access = w.token

\* What is saved with the connection of a session
Svd(t, s, ws, rs) ==
  /\ s.phase # "closed" /\ s.saved # 0 /\ rs[s.row].signIn.by = t => rs[s.row].signIn.refresh = s.saved
  /\ s.phase = "open" /\ s.kind = "oauth" /\ s.tokens.refresh # 0 /\ (\A h \in Threads[t] : ws[h].at # "remember") =>
       s.saved = s.tokens.refresh

Row(c, row, g) ==
  /\ row \in [kind : {"oauth", "sso"}, base : {Connections[c].base}, role : Roles,
              signIn : [of : Signs!AllKeys \cup {<<>>}, refresh : 0..Len(g), by : Tqls \cup {"nobody"}]]
  /\ row.signIn.refresh # 0 => g[row.signIn.refresh] = row.signIn.of
RowsFit(rs, g) == DOMAIN rs = DOMAIN Connections /\ \A c \in DOMAIN Connections : Row(c, rs[c], g)

Rem(remembered, g) ==
  \A k \in Signs!Keys : Keeps(remembered[k], k, g) /\ (remembered[k].access = 0 => remembered[k] = Signs!NoTokens)

Attempts == [of : Signs!Keys, port : Ports]
OneTql(t, q, ws, rs, g, a) ==
  /\ Rem(q.signedIn, g) /\ Sess(q.session, g)
  /\ \A h \in Threads[t] : Thr(q.session, ws[h], h, g, a)
  /\ Svd(t, q.session, ws, rs)

Shape ==
  /\ grants \in Seq(Signs!AllKeys) /\ attempts \in Seq(Attempts) /\ calls \in Nat
  /\ tql \in [Tqls -> [signedIn : [Signs!Keys -> [access : Nat, refresh : Nat]], session : Sessions]]
  /\ DOMAIN work = Tqls /\ \A t \in Tqls : work[t] \in [Threads[t] -> SignDoings]

IInv ==
  /\ Shape /\ RowsFit(rows, grants)
  /\ \A t \in Tqls : OneTql(t, tql[t], work[t], rows, grants, attempts)

-----------------------------------------------------------------------------
More(g, g2) == Len(g) \in Nat /\ Len(g2) \in Nat /\ Len(g) <= Len(g2) /\ \A i \in 1..Len(g) : g2[i] = g[i]

\* A sequence that is appended to has what it had
LEMMA Appended ==
  ASSUME NEW S, NEW g \in Seq(S), NEW x \in S
  PROVE Append(g, x) \in Seq(S) /\ More(g, Append(g, x)) /\ Len(Append(g, x)) = Len(g) + 1 /\ Append(g, x)[Len(g) + 1] = x
BY DEF More

LEMMA Same ==
  ASSUME NEW S, NEW g \in Seq(S)
  PROVE More(g, g)
BY DEF More

LEMMA Lengths ==
  ASSUME NEW S, NEW g \in Seq(S)
  PROVE Len(g) \in Nat
OBVIOUS

\* What fits goes on to fit as more is handed out
LEMMA SessGrows ==
  ASSUME NEW s, NEW g, NEW g2, Sess(s, g), More(g, g2)
  PROVE Sess(s, g2)
<1>1. Keeps(s.tokens, s.key, g2)
  BY DEF Sess, Keeps, More, Tokens
<1>2. s.saved <= Len(g2) /\ (s.saved # 0 => g2[s.saved] = s.key)
  BY DEF Sess, More, Sessions
<1> QED
  BY <1>1, <1>2 DEF Sess

LEMMA ThrGrows ==
  ASSUME NEW s, NEW w, NEW h, NEW g, NEW g2, NEW a, NEW a2, Thr(s, w, h, g, a), More(g, g2), More(a, a2)
  PROVE Thr(s, w, h, g2, a2)
<1>1. w.at \in {"ask", "rejected"} => w.token \in 1..Len(g2) /\ g2[w.token] = s.key
  BY DEF Thr, More
<1>2. w.at \in {"listening", "exchange"} => w.attempt \in 1..Len(a2) /\ a2[w.attempt].of = s.key
  BY DEF Thr, More
<1> QED
  BY <1>1, <1>2 DEF Thr

LEMMA RemGrows ==
  ASSUME NEW r, NEW g, NEW g2, Rem(r, g), More(g, g2)
  PROVE Rem(r, g2)
BY DEF Rem, Keeps, More, Tokens

LEMMA RowsGrow ==
  ASSUME NEW rs, NEW g, NEW g2, RowsFit(rs, g), More(g, g2)
  PROVE RowsFit(rs, g2)
BY DEF RowsFit, Row, More

\* A thread that does nothing goes on as it was while another has the lock
LEMMA OthersFit ==
  ASSUME NEW s, NEW s2, NEW w, NEW g, NEW gr, NEW a, Thr(s, w, g, gr, a), g # "nobody",
         s.holder # g, s2.holder # g, s2.phase = s.phase, s2.key = s.key, s2.kind = s.kind
  PROVE Thr(s2, w, g, gr, a)
BY DEF Thr, Busy

\* A step of one thread, with what the store has left alone
LEMMA StepKeeps ==
  ASSUME Signs!GrantsFit, IInv, NEW t \in Tqls, NEW h \in Threads[t], NEW s2, NEW w2, Signs!Steps(t, h, s2, w2), calls' \in Nat,
         grants' \in Seq(Signs!AllKeys), More(grants, grants'), attempts' \in Seq(Attempts), More(attempts, attempts'), rows' = rows,
         Sess(s2, grants'), Thr(s2, w2, h, grants', attempts'),
         \A g \in Threads[t] \ {h} : Thr(s2, work[t][g], g, grants, attempts),
         Svd(t, s2, [work[t] EXCEPT ![h] = w2], rows)
  PROVE IInv'
<1>1. /\ tql' = [tql EXCEPT ![t] = [tql[t] EXCEPT !.session = s2]]
      /\ work' = [work EXCEPT ![t] = [work[t] EXCEPT ![h] = w2]]
  BY DEF Signs!Steps
<1>2. s2 \in Sessions /\ w2 \in SignDoings
  BY DEF Sess, Thr
<1>3. Shape'
  BY <1>1, <1>2 DEF IInv, Shape
<1>4. RowsFit(rows', grants')
  BY RowsGrow DEF IInv
<1>5. ASSUME NEW u \in Tqls
      PROVE OneTql(u, tql'[u], work'[u], rows', grants', attempts')
  <2>1. OneTql(u, tql[u], work[u], rows, grants, attempts)
    BY DEF IInv
  <2>2. CASE u # t
    <3>1. tql'[u] = tql[u] /\ work'[u] = work[u]
      BY <1>1, <2>2 DEF IInv, Shape
    <3> QED
      BY <3>1, <2>1, SessGrows, ThrGrows, RemGrows DEF OneTql
  <2>3. CASE u = t
    <3>1. tql'[t].session = s2 /\ tql'[t].signedIn = tql[t].signedIn /\ work'[t] = [work[t] EXCEPT ![h] = w2]
      BY <1>1 DEF IInv, Shape
    <3>2. Rem(tql'[t].signedIn, grants')
      BY <3>1, <2>1, <2>3, RemGrows DEF OneTql
    <3>3. ASSUME NEW g \in Threads[t]
          PROVE Thr(s2, work'[t][g], g, grants', attempts')
      <4>1. work[t] \in [Threads[t] -> SignDoings]
        BY DEF IInv, Shape
      <4>2. CASE g = h
        BY <4>1, <4>2, <3>1
      <4>3. CASE g # h
        <5>1. work'[t][g] = work[t][g] /\ Thr(s2, work[t][g], g, grants, attempts)
          BY <4>1, <4>3, <3>1
        <5> QED
          BY <5>1, ThrGrows
      <4> QED
        BY <4>2, <4>3
    <3> QED
      BY <2>3, <3>1, <3>2, <3>3 DEF OneTql
  <2> QED
    BY <2>2, <2>3
<1> QED
  BY <1>3, <1>4, <1>5 DEF IInv

\* What every step of a thread starts from
LEMMA Facts ==
  ASSUME Signs!GrantsFit, IInv, NEW t \in Tqls, NEW h \in Threads[t]
  PROVE /\ grants \in Seq(Signs!AllKeys) /\ attempts \in Seq(Attempts) /\ calls \in Nat
        /\ tql[t].session \in Sessions /\ work[t][h] \in SignDoings /\ work[t] \in [Threads[t] -> SignDoings]
        /\ Sess(tql[t].session, grants) /\ Rem(tql[t].signedIn, grants)
        /\ \A g \in Threads[t] : Thr(tql[t].session, work[t][g], g, grants, attempts)
        /\ Thr(tql[t].session, work[t][h], h, grants, attempts)
        /\ Svd(t, tql[t].session, work[t], rows)
        /\ "nobody" \notin Threads[t] /\ Main \in Threads[t] /\ t # "nobody"
BY DEF IInv, OneTql, Shape, Sess, Signs!GrantsFit

LEMMA SvdStays ==
  ASSUME NEW t, NEW h \in Threads[t], NEW s, NEW s2, NEW ws \in [Threads[t] -> SignDoings], NEW w2, NEW rs, Svd(t, s, ws, rs),
         ws[h].at # "remember", s2.phase = s.phase, s2.kind = s.kind, s2.row = s.row, s2.saved = s.saved, s2.tokens = s.tokens
  PROVE Svd(t, s2, [ws EXCEPT ![h] = w2], rs)
<1>1. (\A g \in Threads[t] : [ws EXCEPT ![h] = w2][g].at # "remember") => (\A g \in Threads[t] : ws[g].at # "remember")
  OBVIOUS
<1> QED
  BY <1>1 DEF Svd

\* A step of a thread that has the lock, or takes it, or lets it go, in the session that is there
LEMMA HolderKeeps ==
  ASSUME Signs!GrantsFit, IInv, NEW t \in Tqls, NEW h \in Threads[t], NEW s2, NEW w2, Signs!Steps(t, h, s2, w2), calls' \in Nat,
         grants' \in Seq(Signs!AllKeys), More(grants, grants'), attempts' \in Seq(Attempts), More(attempts, attempts'), rows' = rows,
         Sess(s2, grants'), Thr(s2, w2, h, grants', attempts'),
         s2.phase = tql[t].session.phase, s2.key = tql[t].session.key, s2.kind = tql[t].session.kind,
         s2.holder \in {h, "nobody"}, tql[t].session.holder \in {h, "nobody"},
         Svd(t, s2, [work[t] EXCEPT ![h] = w2], rows)
  PROVE IInv'
<1>1. ASSUME NEW g \in Threads[t] \ {h}
      PROVE Thr(s2, work[t][g], g, grants, attempts)
  <2>1. Thr(tql[t].session, work[t][g], g, grants, attempts) /\ g # "nobody"
    BY Facts
  <2>2. tql[t].session.holder # g /\ s2.holder # g
    BY <2>1
  <2> QED
    BY <2>1, <2>2, OthersFit
<1> QED
  BY <1>1, StepKeeps

\* The same with nothing handed out, nothing begun in the browser, and what the session has as it was
LEMMA QuietKeeps ==
  ASSUME Signs!GrantsFit, IInv, NEW t \in Tqls, NEW h \in Threads[t], NEW s2, NEW w2, Signs!Steps(t, h, s2, w2), calls' \in Nat,
         UNCHANGED <<grants, attempts, rows>>, work[t][h].at # "remember",
         Sess(s2, grants), Thr(s2, w2, h, grants, attempts),
         s2.phase = tql[t].session.phase, s2.key = tql[t].session.key, s2.kind = tql[t].session.kind, s2.row = tql[t].session.row,
         s2.tokens = tql[t].session.tokens, s2.saved = tql[t].session.saved,
         s2.holder \in {h, "nobody"}, tql[t].session.holder \in {h, "nobody"}
  PROVE IInv'
<1>1. /\ grants \in Seq(Signs!AllKeys) /\ attempts \in Seq(Attempts) /\ work[t] \in [Threads[t] -> SignDoings]
      /\ Svd(t, tql[t].session, work[t], rows)
  BY Facts
<1>2. More(grants, grants) /\ More(attempts, attempts)
  BY <1>1, Same
<1>3. Svd(t, s2, [work[t] EXCEPT ![h] = w2], rows)
  BY <1>1, SvdStays
<1> QED
  BY <1>1, <1>2, <1>3, HolderKeeps

LEMMA ClosedFits ==
  ASSUME NEW g, Len(g) \in Nat
  PROVE Sess(Signs!Closed, g)
<1> DEFINE known == <<>>
<1>3. known \in Signs!Keys \cup {<<>>}
  OBVIOUS
<1>4. Signs!Closed = [phase |-> "closed", row |-> "none", kind |-> "none", key |-> known, tokens |-> [access |-> 0, refresh |-> 0],
                saved |-> 0, holder |-> "nobody"]
  BY DEF Signs!Closed, Signs!NoTokens, Signs!None
<1> HIDE DEF known
<1>1. Signs!Closed \in Sessions
  BY <1>3, <1>4 DEF Sessions, Holders
<1>2. Signs!Closed.tokens = [access |-> 0, refresh |-> 0] /\ Signs!Closed.saved = 0 /\ Signs!Closed.phase = "closed" /\ Signs!Closed.holder = "nobody"
  BY DEF Signs!Closed, Signs!NoTokens, Signs!None
<1>5. Keeps(Signs!Closed.tokens, Signs!Closed.key, g)
  BY <1>2 DEF Keeps, Tokens
<1> QED
  BY <1>1, <1>2, <1>5 DEF Sess

\* A session whose lock is taken or let go is else as it was
LEMMA Held ==
  ASSUME NEW s \in Sessions, NEW holder \in Holders, NEW s2, s2 = [s EXCEPT !.holder = holder]
  PROVE /\ s2.phase = s.phase /\ s2.key = s.key /\ s2.kind = s.kind /\ s2.row = s.row /\ s2.tokens = s.tokens /\ s2.saved = s.saved
        /\ s2.holder = holder /\ s2 \in Sessions
BY DEF Sessions

LEMMA FailKeeps ==
  ASSUME Signs!GrantsFit, IInv, NEW t \in Tqls, NEW h \in Threads[t], Signs!Fails(t, h), UNCHANGED <<grants, attempts, rows, calls>>,
         Busy(work[t][h]), work[t][h].at # "remember"
  PROVE IInv'
<1> DEFINE s == tql[t].session
<1>1. /\ s \in Sessions /\ work[t][h] \in SignDoings /\ Sess(s, grants) /\ Thr(s, work[t][h], h, grants, attempts) /\ calls \in Nat
      /\ grants \in Seq(Signs!AllKeys) /\ attempts \in Seq(Attempts) /\ work[t] \in [Threads[t] -> SignDoings]
      /\ \A g \in Threads[t] : Thr(tql[t].session, work[t][g], g, grants, attempts)
      /\ "nobody" \notin Threads[t]
  BY Facts
<1>2. s.holder = h /\ s.phase # "closed"
  BY <1>1 DEF Thr, Busy
<1>3. CASE s.phase = "starting"
  <2>1. Signs!Steps(t, h, Signs!Closed, Signs!Rests)
    BY <1>3 DEF Signs!Fails
  <2>2. Sess(Signs!Closed, grants)
    BY <1>1, ClosedFits
  <2>3. Thr(Signs!Closed, Signs!Rests, h, grants, attempts)
    BY <1>1 DEF Thr, Signs!Closed, Signs!Rests, Busy, SignDoings, Signs!None
  <2>4. ASSUME NEW g \in Threads[t] \ {h}
        PROVE Thr(Signs!Closed, work[t][g], g, grants, attempts)
    <3>1. Thr(s, work[t][g], g, grants, attempts) /\ g # s.holder /\ work[t][g] \in SignDoings
      BY <1>1, <1>2
    <3>2. ~Busy(work[t][g])
      BY <3>1 DEF Thr
    <3>3. work[t][g].at = "rest"
      BY <3>1, <3>2, <1>3 DEF Thr
    <3> QED
      BY <3>1, <3>2, <3>3, <1>1 DEF Thr, Signs!Closed
  <2>5. Svd(t, Signs!Closed, [work[t] EXCEPT ![h] = Signs!Rests], rows)
    BY DEF Svd, Signs!Closed
  <2>6. More(grants, grants) /\ More(attempts, attempts)
    BY <1>1, Same
  <2> HIDE DEF s
  <2> QED
    BY <2>1, <2>2, <2>3, <2>4, <2>5, <2>6, <1>1, StepKeeps
<1>4. CASE s.phase = "open"
  <2> DEFINE s2 == [s EXCEPT !.holder = "nobody"]
  <2>1. Signs!Steps(t, h, s2, Signs!Rests)
    BY <1>4 DEF Signs!Fails
  <2>5. s2 = [s EXCEPT !.holder = "nobody"]
    OBVIOUS
  <2> HIDE DEF s, s2
  <2>2. /\ s2.phase = s.phase /\ s2.key = s.key /\ s2.kind = s.kind /\ s2.row = s.row /\ s2.tokens = s.tokens /\ s2.saved = s.saved
        /\ s2.holder = "nobody" /\ s2 \in Sessions
    BY <1>1, <2>5, Held DEF Holders
  <2>3. Sess(s2, grants)
    BY <2>2, <1>1, <1>4 DEF Sess
  <2>4. Thr(s2, Signs!Rests, h, grants, attempts)
    <3>1. Signs!Rests \in SignDoings /\ Signs!Rests.at = "rest" /\ ~Busy(Signs!Rests)
      BY DEF Signs!Rests, SignDoings, Busy, Signs!None
    <3> QED
      BY <3>1, <2>2, <1>1, <1>4 DEF Thr
  <2> QED
    BY <2>1, <2>2, <2>3, <2>4, <1>1, <1>2, QuietKeeps DEF s
<1> QED
  BY <1>1, <1>2, <1>3, <1>4 DEF Sessions

-----------------------------------------------------------------------------
\* A thread that goes to another place is else as it was
LEMMA Moved ==
  ASSUME NEW w \in SignDoings, NEW at \in {"rest", "wants", "ask", "rejected", "refresh", "sign in", "listening", "exchange", "remember"},
         NEW why \in {"none", "start", "early", "renew"}, NEW token \in Nat, NEW attempt \in Nat, NEW code \in Nat, NEW again \in BOOLEAN,
         NEW w2, w2 = [w EXCEPT !.at = at, !.why = why, !.token = token, !.attempt = attempt, !.code = code, !.again = again]
  PROVE /\ w2.at = at /\ w2.why = why /\ w2.token = token /\ w2.attempt = attempt /\ w2.code = code /\ w2.again = again
        /\ w2 \in SignDoings
BY DEF SignDoings

\* New tokens, for the account and role of the session, to the thread that has the lock
LEMMA TokensKeep ==
  ASSUME Signs!GrantsFit, IInv, NEW t \in Tqls, NEW h \in Threads[t], Busy(work[t][h]),
         grants' = Append(grants, tql[t].session.key), UNCHANGED <<attempts, rows, calls>>,
         NEW refresh \in 0..Len(grants) + 1, refresh # 0 => grants'[refresh] = tql[t].session.key,
         tql[t].session.kind = "sso" => refresh = 0,
         Signs!Steps(t, h, [tql[t].session EXCEPT !.tokens = [access |-> Len(grants) + 1, refresh |-> refresh]], [work[t][h] EXCEPT !.at = "remember"])
  PROVE IInv'
<1>1. PICK s \in Sessions : s = tql[t].session
  BY Facts
<1>2. PICK w \in SignDoings : w = work[t][h]
  BY Facts
<1> DEFINE tokens == [access |-> Len(grants) + 1, refresh |-> refresh]
           s2 == [s EXCEPT !.tokens = tokens]
           w2 == [w EXCEPT !.at = "remember"]
<1>3. /\ Sess(s, grants) /\ Thr(s, w, h, grants, attempts) /\ Svd(t, s, work[t], rows)
      /\ grants \in Seq(Signs!AllKeys) /\ attempts \in Seq(Attempts) /\ calls \in Nat /\ work[t] \in [Threads[t] -> SignDoings]
  BY <1>1, <1>2, Facts
<1>4. s.holder = h /\ s.phase # "closed" /\ s.key \in Signs!AllKeys /\ Busy(w)
  BY <1>2, <1>3 DEF Thr, Sess, Signs!AllKeys, Busy
<1>5. /\ grants' \in Seq(Signs!AllKeys) /\ More(grants, grants') /\ Len(grants') = Len(grants) + 1
      /\ grants'[Len(grants) + 1] = s.key /\ More(attempts, attempts) /\ Len(grants) \in Nat
  BY <1>1, <1>3, <1>4, Appended, Same
<1>6. tokens \in Tokens(grants') /\ tokens.access = Len(grants) + 1 /\ tokens.refresh = refresh /\ tokens \in [access : Nat, refresh : Nat]
  BY <1>5 DEF Tokens
<1>7. Keeps(tokens, s.key, grants')
  BY <1>1, <1>5, <1>6 DEF Keeps
<1> HIDE DEF tokens
<1>8. /\ s2.phase = s.phase /\ s2.key = s.key /\ s2.kind = s.kind /\ s2.row = s.row /\ s2.holder = s.holder /\ s2.saved = s.saved
      /\ s2.tokens = tokens /\ s2 \in Sessions
  BY <1>6 DEF Sessions
<1>9. w2.at = "remember" /\ w2.why = w.why /\ w2 \in SignDoings
  BY DEF SignDoings
<1>10. Signs!Steps(t, h, s2, w2)
  BY <1>1, <1>2 DEF tokens
<1> HIDE DEF s2, w2
<1>11. Sess(s2, grants')
  <2>1. Sess(s, grants')
    BY <1>3, <1>5, SessGrows
  <2>2. Keeps(s2.tokens, s2.key, grants')
    BY <1>7, <1>8
  <2>3. s2.tokens.access # 0 /\ s2.tokens.refresh = refresh
    BY <1>5, <1>6, <1>8
  <2>4. s2.kind = "sso" => s2.tokens.refresh = 0 /\ s2.saved = 0
    BY <2>1, <2>3, <1>1, <1>8 DEF Sess
  <2> QED
    BY <2>1, <2>2, <2>3, <2>4, <1>8 DEF Sess
<1>12. Thr(s2, w2, h, grants', attempts')
  <2>1. Busy(w2) /\ s2.holder = h /\ s2.phase # "closed"
    BY <1>4, <1>8, <1>9 DEF Busy
  <2>2. w2.why # "none" /\ (w2.why = "start" <=> s2.phase = "starting") /\ (w2.why # "start" => s2.kind = "oauth")
    BY <1>3, <1>4, <1>8, <1>9 DEF Thr
  <2>3. s2.tokens.access # 0
    BY <1>5, <1>6, <1>8
  <2> QED
    BY <2>1, <2>2, <2>3, <1>9 DEF Thr
<1>13. Svd(t, s2, [work[t] EXCEPT ![h] = w2], rows)
  <2>1. [work[t] EXCEPT ![h] = w2][h].at = "remember"
    BY <1>3, <1>9
  <2> QED
    BY <2>1, <1>3, <1>8 DEF Svd
<1> QED
  BY <1>1, <1>3, <1>4, <1>5, <1>8, <1>10, <1>11, <1>12, <1>13, HolderKeeps

LEMMA RefreshKeeps ==
  ASSUME Signs!GrantsFit, IInv, NEW t \in Tqls, NEW h \in Threads[t], Signs!Refresh(t, h)
  PROVE IInv'
<1>1. PICK s \in Sessions : s = tql[t].session
  BY Facts
<1>2. PICK w \in SignDoings : w = work[t][h]
  BY Facts
<1>3. /\ Sess(s, grants) /\ Thr(s, w, h, grants, attempts) /\ w.at = "refresh" /\ calls \in Nat /\ calls' = calls
      /\ grants \in Seq(Signs!AllKeys) /\ UNCHANGED <<attempts, rows, calls>>
  BY <1>1, <1>2, Facts DEF Signs!Refresh
<1>4. s.holder = h /\ s.phase # "closed" /\ s.kind = "oauth" /\ Busy(w) /\ s.key \in Signs!AllKeys
  BY <1>3 DEF Thr, Sess, Signs!AllKeys, Busy
<1>5. CASE Signs!Steps(t, h, s, [w EXCEPT !.at = "sign in"]) /\ UNCHANGED grants
  <2> DEFINE w2 == [w EXCEPT !.at = "sign in"]
  <2>1. w2.at = "sign in" /\ w2.why = w.why /\ w2.token = w.token /\ w2 \in SignDoings
    BY DEF SignDoings
  <2>2. Signs!Steps(t, h, s, w2)
    BY <1>5
  <2> HIDE DEF w2
  <2>3. Thr(s, w2, h, grants, attempts)
    BY <2>1, <1>3, <1>4 DEF Thr, Busy
  <2> QED
    BY <2>2, <2>3, <1>1, <1>2, <1>3, <1>4, <1>5, QuietKeeps
<1>6. ASSUME NEW refresh, refresh = IF s.phase = "starting" THEN s.saved ELSE s.tokens.refresh,
             grants' = Append(grants, grants[refresh]), NEW another \in {refresh, Len(grants) + 1},
             Signs!Steps(t, h, [s EXCEPT !.tokens = [access |-> Len(grants) + 1, refresh |-> another]], [w EXCEPT !.at = "remember"])
      PROVE IInv'
  <2>1. refresh \in 1..Len(grants) /\ grants[refresh] = s.key
    BY <1>3, <1>6 DEF Sess, Thr, Keeps, Tokens, Sessions
  <2>2. /\ More(grants, grants') /\ Len(grants') = Len(grants) + 1 /\ Len(grants) \in Nat
        /\ grants'[Len(grants) + 1] = s.key
    BY <2>1, <1>3, <1>4, <1>6, Appended
  <2>3. another \in 0..Len(grants) + 1 /\ grants'[another] = s.key
    BY <2>1, <2>2 DEF More
  <2> QED
    BY <2>1, <2>3, <1>1, <1>2, <1>3, <1>4, <1>6, TokensKeep
<1> QED
  BY <1>1, <1>2, <1>5, <1>6 DEF Signs!Refresh

LEMMA ListensKeeps ==
  ASSUME Signs!GrantsFit, IInv, NEW t \in Tqls, NEW h \in Threads[t], Signs!Listens(t, h)
  PROVE IInv'
<1>1. PICK s \in Sessions : s = tql[t].session
  BY Facts
<1>2. PICK w \in SignDoings : w = work[t][h]
  BY Facts
<1>3. /\ Sess(s, grants) /\ Thr(s, w, h, grants, attempts) /\ w.at = "sign in" /\ calls \in Nat /\ calls' = calls
      /\ grants \in Seq(Signs!AllKeys) /\ attempts \in Seq(Attempts) /\ UNCHANGED <<grants, rows, calls>> /\ Svd(t, s, work[t], rows)
      /\ work[t] \in [Threads[t] -> SignDoings]
  BY <1>1, <1>2, Facts DEF Signs!Listens
<1>4. s.holder = h /\ s.phase # "closed" /\ Busy(w) /\ s.key \in Signs!Keys
  BY <1>3 DEF Thr, Sess, Busy
<1>5. CASE Signs!Fails(t, h) /\ UNCHANGED attempts
  BY <1>2, <1>3, <1>4, <1>5, FailKeeps
<1>7. attempts \in Seq(Attempts) /\ Len(attempts) \in Nat
  BY Lengths, Facts, Zenon
<1>6. ASSUME NEW port \in Ports, attempts' = Append(attempts, [of |-> s.key, port |-> port]),
             Signs!Steps(t, h, s, [w EXCEPT !.at = "listening", !.attempt = Len(attempts) + 1])
      PROVE IInv'
  <2> DEFINE a == [of |-> s.key, port |-> port]
             w2 == [w EXCEPT !.at = "listening", !.attempt = Len(attempts) + 1]
  <2>1. a \in Attempts /\ a.of = s.key
    BY <1>4 DEF Attempts
  <2>2. attempts' = Append(attempts, a)
    BY <1>6
  <2>3. w2.at = "listening" /\ w2.why = w.why /\ w2.token = w.token /\ w2.attempt = Len(attempts) + 1 /\ w2 \in SignDoings
    <3>1. PICK n \in Nat : n = Len(attempts) + 1
      BY <1>7
    <3>2. w2 = [w EXCEPT !.at = "listening", !.attempt = n]
      BY <3>1
    <3> HIDE DEF w2
    <3> QED
      BY <3>1, <3>2 DEF SignDoings
  <2>4. Signs!Steps(t, h, s, w2)
    BY <1>6
  <2> HIDE DEF a, w2
  <2>5. /\ attempts' \in Seq(Attempts) /\ More(attempts, attempts') /\ Len(attempts') = Len(attempts) + 1
        /\ attempts'[Len(attempts) + 1] = a
    BY <2>1, <2>2, <1>7, Appended, Zenon
  <2>8. More(grants, grants) /\ Len(attempts) \in Nat
    BY <1>3, <1>7, Same, Zenon
  <2>6. Thr(s, w2, h, grants, attempts')
    <3>1. w2.attempt \in 1..Len(attempts') /\ attempts'[w2.attempt].of = s.key
      BY <2>1, <2>3, <2>5, <2>8
    <3> QED
      BY <3>1, <2>3, <1>3, <1>4 DEF Thr, Busy
  <2>7. Svd(t, s, [work[t] EXCEPT ![h] = w2], rows)
    BY <1>2, <1>3, SvdStays
  <2> QED
    BY <2>4, <2>5, <2>6, <2>7, <2>8, <1>1, <1>3, <1>4, HolderKeeps
<1> QED
  BY <1>1, <1>2, <1>5, <1>6 DEF Signs!Listens

LEMMA CaughtKeeps ==
  ASSUME Signs!GrantsFit, IInv, NEW t \in Tqls, NEW h \in Threads[t], NEW a \in 1..Len(attempts),
         work[t][h].at = "listening", Signs!Caught(t, h, a), UNCHANGED <<grants, attempts, rows, calls>>,
         tql[t].session.kind = "oauth" => a = work[t][h].attempt
  PROVE IInv'
<1>1. PICK s \in Sessions : s = tql[t].session
  BY Facts
<1>2. PICK w \in SignDoings : w = work[t][h]
  BY Facts
<1>3. Sess(s, grants) /\ Thr(s, w, h, grants, attempts) /\ calls \in Nat
  BY <1>1, <1>2, Facts
<1>4. s.holder = h /\ Busy(w) /\ w.at = "listening"
  BY <1>2, <1>3 DEF Thr, Busy
<1> DEFINE w2 == [w EXCEPT !.at = "exchange", !.code = a]
<1>5. a \in Nat
  OBVIOUS
<1>6. w2.at = "exchange" /\ w2.why = w.why /\ w2.token = w.token /\ w2.attempt = w.attempt /\ w2.code = a /\ w2 \in SignDoings
  BY <1>5 DEF SignDoings
<1>7. Signs!Steps(t, h, s, w2)
  BY <1>1, <1>2 DEF Signs!Caught
<1> HIDE DEF w2
<1>8. Thr(s, w2, h, grants, attempts)
  <2>1. /\ w.attempt \in 1..Len(attempts) /\ attempts[w.attempt].of = s.key /\ w.why # "none"
        /\ (w.why = "start" <=> s.phase = "starting") /\ (w.why # "start" => s.kind = "oauth") /\ s.phase # "closed"
        /\ (w.why = "renew" => s.tokens.access = w.token)
    BY <1>3, <1>4 DEF Thr
  <2>2. Busy(w2) /\ (s.kind = "oauth" => a = w.attempt)
    BY <1>1, <1>2, <1>6 DEF Busy
  <2> QED
    BY <2>1, <2>2, <1>4, <1>6 DEF Thr
<1> QED
  BY <1>1, <1>2, <1>3, <1>4, <1>7, <1>8, QuietKeeps

LEMMA ArriveKeeps ==
  ASSUME Signs!GrantsFit, IInv, NEW t \in Tqls, NEW h \in Threads[t], NEW a \in 1..Len(attempts), Signs!Arrive(t, h, a) \/ Signs!Catch(t, h, a)
  PROVE IInv'
<1>1. work[t][h].at = "listening" /\ UNCHANGED <<grants, attempts, rows, calls>>
  BY DEF Signs!Arrive, Signs!Catch, Signs!Comes
<1>2. CASE Signs!Caught(t, h, a)
  BY <1>1, <1>2, CaughtKeeps DEF Signs!Arrive, Signs!Catch, Signs!IsAnswer
<1>3. CASE Signs!Fails(t, h)
  BY <1>1, <1>3, FailKeeps DEF Busy
<1> QED
  BY <1>2, <1>3 DEF Signs!Arrive, Signs!Catch

LEMMA TimesOutKeeps ==
  ASSUME Signs!GrantsFit, IInv, NEW t \in Tqls, NEW h \in Threads[t], Signs!TimesOut(t, h)
  PROVE IInv'
BY FailKeeps DEF Signs!TimesOut, Busy

LEMMA ExchangeKeeps ==
  ASSUME Signs!GrantsFit, IInv, NEW t \in Tqls, NEW h \in Threads[t], Signs!Exchange(t, h) \/ Signs!LogIn(t, h)
  PROVE IInv'
<1>1. work[t][h].at = "exchange" /\ UNCHANGED <<attempts, rows, calls>> /\ Busy(work[t][h])
  BY DEF Signs!Exchange, Signs!LogIn, Busy
<1>2. CASE Signs!Fails(t, h) /\ UNCHANGED grants
  BY <1>1, <1>2, FailKeeps
<1>3. ASSUME NEW refresh \in {Signs!None, Len(grants) + 1}, tql[t].session.kind = "sso" => refresh = Signs!None,
             grants' = Append(grants, attempts[work[t][h].attempt].of),
             Signs!Steps(t, h, [tql[t].session EXCEPT !.tokens = [access |-> Len(grants) + 1, refresh |-> refresh]],
                   [work[t][h] EXCEPT !.at = "remember"])
      PROVE IInv'
  <2>1. /\ grants \in Seq(Signs!AllKeys) /\ Len(grants) \in Nat
        /\ Sess(tql[t].session, grants) /\ Thr(tql[t].session, work[t][h], h, grants, attempts)
    BY Facts, Lengths, Zenon
  <2>2. attempts[work[t][h].attempt].of = tql[t].session.key /\ tql[t].session.key \in Signs!AllKeys
    BY <1>1, <2>1 DEF Thr, Sess, Signs!AllKeys
  <2>3. grants' = Append(grants, tql[t].session.key)
    BY <1>3, <2>2
  <2>4. grants'[Len(grants) + 1] = tql[t].session.key
    BY <2>1, <2>2, <2>3, Appended, Zenon
  <2>5. refresh \in 0..Len(grants) + 1 /\ (refresh # 0 => grants'[refresh] = tql[t].session.key)
    BY <2>1, <2>4 DEF Signs!None
  <2> QED
    BY <1>1, <1>3, <2>3, <2>5, TokensKeep DEF Signs!None
<1> QED
  BY <1>2, <1>3 DEF Signs!Exchange, Signs!LogIn, Signs!Taken

-----------------------------------------------------------------------------
\* A step of a thread by itself, whoever has the lock
LEMMA AloneKeeps ==
  ASSUME Signs!GrantsFit, IInv, NEW t \in Tqls, NEW h \in Threads[t], NEW w2, work' = [work EXCEPT ![t][h] = w2], calls' \in Nat,
         UNCHANGED <<grants, attempts, rows, tql>>, work[t][h].at # "remember",
         Thr(tql[t].session, w2, h, grants, attempts)
  PROVE IInv'
<1>1. /\ grants \in Seq(Signs!AllKeys) /\ attempts \in Seq(Attempts) /\ work[t] \in [Threads[t] -> SignDoings]
      /\ Sess(tql[t].session, grants) /\ Svd(t, tql[t].session, work[t], rows)
      /\ \A g \in Threads[t] : Thr(tql[t].session, work[t][g], g, grants, attempts)
  BY Facts
<1>2. More(grants, grants) /\ More(attempts, attempts)
  BY <1>1, Same, Zenon
<1>3. Svd(t, tql[t].session, [work[t] EXCEPT ![h] = w2], rows)
  BY <1>1, SvdStays
<1>4. tql \in [Tqls -> [signedIn : [Signs!Keys -> [access : Nat, refresh : Nat]], session : Sessions]]
  BY DEF IInv, Shape
<1>5. Signs!Steps(t, h, tql[t].session, w2)
  <2>1. tql = [tql EXCEPT ![t].session = tql[t].session]
    BY <1>4
  <2> QED
    BY <2>1 DEF Signs!Steps
<1> QED
  BY <1>1, <1>2, <1>3, <1>5, StepKeeps

LEMMA AskKeeps ==
  ASSUME Signs!GrantsFit, IInv, NEW t \in Tqls, NEW h \in Threads[t], Signs!Ask(t, h)
  PROVE IInv'
<1>1. Thr(tql[t].session, work[t][h], h, grants, attempts) /\ calls \in Nat
  BY Facts
<1>2. Signs!Wants \in SignDoings /\ Signs!Wants.at = "wants" /\ ~Busy(Signs!Wants)
  BY DEF Signs!Wants, Signs!Rests, SignDoings, Busy, Signs!None
<1>3. Thr(tql[t].session, Signs!Wants, h, grants, attempts)
  BY <1>1, <1>2 DEF Thr, Signs!Ask, Busy
<1>4. /\ work' = [work EXCEPT ![t][h] = Signs!Wants] /\ calls' \in Nat /\ UNCHANGED <<grants, attempts, rows, tql>>
      /\ work[t][h].at # "remember"
  BY <1>1 DEF Signs!Ask
<1> QED
  BY <1>3, <1>4, AloneKeeps

LEMMA AnswerKeeps ==
  ASSUME Signs!GrantsFit, IInv, NEW t \in Tqls, NEW h \in Threads[t], Signs!Answer(t, h)
  PROVE IInv'
<1>1. PICK w \in SignDoings : w = work[t][h]
  BY Facts
<1>2. Thr(tql[t].session, w, h, grants, attempts) /\ calls \in Nat /\ w.at = "ask" /\ work[t] \in [Threads[t] -> SignDoings]
  BY <1>1, Facts DEF Signs!Answer
<1>3. CASE work' = [work EXCEPT ![t][h] = Signs!Rests]
  <2>1. Signs!Rests \in SignDoings /\ Signs!Rests.at = "rest" /\ ~Busy(Signs!Rests)
    BY DEF Signs!Rests, SignDoings, Busy, Signs!None
  <2>2. Thr(tql[t].session, Signs!Rests, h, grants, attempts)
    BY <1>2, <2>1 DEF Thr, Busy
  <2> QED
    BY <1>1, <1>2, <1>3, <2>2, AloneKeeps DEF Signs!Answer
<1>4. CASE /\ tql[t].session.kind = "oauth"
           /\ work' = [work EXCEPT ![t][h].at = "rejected", ![t][h].again = TRUE]
  <2> DEFINE w2 == [w EXCEPT !.at = "rejected", !.again = TRUE]
  <2>1. w2.at = "rejected" /\ w2.token = w.token /\ w2 \in SignDoings
    BY DEF SignDoings
  <2>2. work' = [work EXCEPT ![t][h] = w2]
    BY <1>1, <1>2, <1>4 DEF IInv, Shape
  <2> HIDE DEF w2
  <2>3. Thr(tql[t].session, w2, h, grants, attempts)
    BY <1>2, <1>4, <2>1 DEF Thr, Busy
  <2> QED
    BY <1>1, <1>2, <2>2, <2>3, AloneKeeps DEF Signs!Answer
<1> QED
  BY <1>3, <1>4 DEF Signs!Answer

\* The lock is taken, for one reason or the other
LEMMA LockKeeps ==
  ASSUME Signs!GrantsFit, IInv, NEW t \in Tqls, NEW h \in Threads[t], UNCHANGED <<grants, attempts, rows, calls>>,
         tql[t].session.holder = "nobody", tql[t].session.kind = "oauth", work[t][h].at \in {"wants", "rejected"},
         NEW why \in {"early", "renew"}, why = "renew" => tql[t].session.tokens.access = work[t][h].token,
         Signs!Steps(t, h, [tql[t].session EXCEPT !.holder = h],
               [work[t][h] EXCEPT !.at = Signs!Renewal(tql[t].session.tokens.refresh), !.why = why])
  PROVE IInv'
<1>1. PICK s \in Sessions : s = tql[t].session
  BY Facts
<1>2. PICK w \in SignDoings : w = work[t][h]
  BY Facts
<1>3. Sess(s, grants) /\ Thr(s, w, h, grants, attempts) /\ calls \in Nat
  BY <1>1, <1>2, Facts
<1>4. PICK at \in {"sign in", "refresh"} : at = Signs!Renewal(s.tokens.refresh)
  BY DEF Signs!Renewal
<1>5. at = "refresh" => s.tokens.refresh # 0
  BY <1>4 DEF Signs!Renewal, Signs!None
<1> DEFINE s2 == [s EXCEPT !.holder = h]
           w2 == [w EXCEPT !.at = at, !.why = why]
<1>6. s2 = [s EXCEPT !.holder = h] /\ h \in Holders
  BY DEF Holders
<1>7. w2.at = at /\ w2.why = why /\ w2.token = w.token /\ w2 \in SignDoings
  BY DEF SignDoings
<1>8. Signs!Steps(t, h, s2, w2)
  BY <1>1, <1>2, <1>4
<1> HIDE DEF s2, w2
<1>9. /\ s2.phase = s.phase /\ s2.key = s.key /\ s2.kind = s.kind /\ s2.row = s.row /\ s2.tokens = s.tokens /\ s2.saved = s.saved
      /\ s2.holder = h /\ s2 \in Sessions
  BY <1>6 DEF Sessions
<1>10. s.phase = "open"
  BY <1>2, <1>3 DEF Thr, Busy, Sessions
<1>11. Sess(s2, grants)
  BY <1>3, <1>9, <1>10 DEF Sess
<1>12. Busy(w2) /\ at \notin {"wants", "ask", "rejected", "rest", "listening", "exchange", "remember"}
  BY <1>7 DEF Busy
<1>13. Thr(s2, w2, h, grants, attempts)
  <2>1. w2 \in SignDoings /\ w2.why # "none" /\ w2.why # "start" /\ s2.kind = "oauth" /\ s2.holder = h /\ s2.phase = "open"
    BY <1>1, <1>7, <1>9, <1>10
  <2>2. w2.at = "refresh" => s2.tokens.refresh # 0
    BY <1>5, <1>7, <1>9
  <2>3. w2.why = "renew" => s2.tokens.access = w2.token
    BY <1>1, <1>2, <1>7, <1>9
  <2> QED
    BY <2>1, <2>2, <2>3, <1>7, <1>12 DEF Thr
<1> QED
  BY <1>1, <1>2, <1>3, <1>8, <1>9, <1>11, <1>13, QuietKeeps

LEMMA TakeKeeps ==
  ASSUME Signs!GrantsFit, IInv, NEW t \in Tqls, NEW h \in Threads[t], Signs!Take(t, h)
  PROVE IInv'
<1>1. PICK s \in Sessions : s = tql[t].session
  BY Facts
<1>2. PICK w \in SignDoings : w = work[t][h]
  BY Facts
<1>3. /\ Sess(s, grants) /\ Thr(s, w, h, grants, attempts) /\ calls \in Nat /\ UNCHANGED <<grants, attempts, rows, calls>>
      /\ w.at = "wants" /\ s.holder = "nobody"
  BY <1>1, <1>2, Facts DEF Signs!Take
<1>4. CASE Signs!Steps(t, h, s, [w EXCEPT !.at = "ask", !.token = s.tokens.access])
  <2>1. s.phase = "open"
    BY <1>3 DEF Thr, Busy, Sessions
  <2>2. PICK token \in Nat : token = s.tokens.access
    BY DEF Sessions
  <2>3. token \in 1..Len(grants) /\ grants[token] = s.key
    BY <1>3, <2>1, <2>2 DEF Sess, Keeps, Tokens
  <2> DEFINE w2 == [w EXCEPT !.at = "ask", !.token = token]
  <2>4. w2.at = "ask" /\ w2.token = token /\ w2 \in SignDoings
    BY DEF SignDoings
  <2>5. Signs!Steps(t, h, s, w2)
    BY <1>4, <2>2
  <2> HIDE DEF w2
  <2>6. Thr(s, w2, h, grants, attempts)
    BY <1>3, <2>1, <2>3, <2>4 DEF Thr, Busy
  <2> QED
    BY <1>1, <1>2, <1>3, <2>5, <2>6, QuietKeeps
<1>5. CASE /\ s.kind = "oauth"
           /\ Signs!Steps(t, h, [s EXCEPT !.holder = h], [w EXCEPT !.at = Signs!Renewal(s.tokens.refresh), !.why = "early"])
  BY <1>1, <1>2, <1>3, <1>5, LockKeeps
<1> QED
  BY <1>1, <1>2, <1>4, <1>5 DEF Signs!Take

LEMMA RenewKeeps ==
  ASSUME Signs!GrantsFit, IInv, NEW t \in Tqls, NEW h \in Threads[t], Signs!Renew(t, h)
  PROVE IInv'
<1>1. PICK s \in Sessions : s = tql[t].session
  BY Facts
<1>2. PICK w \in SignDoings : w = work[t][h]
  BY Facts
<1>3. /\ Sess(s, grants) /\ Thr(s, w, h, grants, attempts) /\ calls \in Nat /\ UNCHANGED <<grants, attempts, rows, calls>>
      /\ w.at = "rejected" /\ s.holder = "nobody"
  BY <1>1, <1>2, Facts DEF Signs!Renew
<1>4. CASE Signs!Steps(t, h, s, [w EXCEPT !.at = "wants", !.token = Signs!None])
  <2> DEFINE w2 == [w EXCEPT !.at = "wants", !.token = Signs!None]
  <2>1. w2.at = "wants" /\ w2 \in SignDoings
    BY DEF SignDoings, Signs!None
  <2>2. Signs!Steps(t, h, s, w2)
    BY <1>4
  <2> HIDE DEF w2
  <2>3. Thr(s, w2, h, grants, attempts)
    BY <1>3, <2>1 DEF Thr, Busy
  <2> QED
    BY <1>1, <1>2, <1>3, <2>2, <2>3, QuietKeeps
<1>5. CASE /\ s.tokens.access = w.token
           /\ Signs!Steps(t, h, [s EXCEPT !.holder = h], [w EXCEPT !.at = Signs!Renewal(s.tokens.refresh), !.why = "renew"])
  <2>1. s.kind = "oauth"
    BY <1>3 DEF Thr
  <2> QED
    BY <2>1, <1>1, <1>2, <1>3, <1>5, LockKeeps
<1> QED
  BY <1>1, <1>2, <1>4, <1>5 DEF Signs!Renew, Signs!Replaced

-----------------------------------------------------------------------------
\* What a connection has, and what is remembered for it
LEMMA RowFacts ==
  ASSUME Signs!GrantsFit, IInv, NEW c \in DOMAIN Connections
  PROVE /\ Signs!KeyOf(rows[c]) \in Signs!Keys /\ rows[c].kind \in {"oauth", "sso"} /\ Signs!SavedFor(rows[c]) \in 0..Len(grants)
        /\ Signs!SavedFor(rows[c]) # 0 => grants[Signs!SavedFor(rows[c])] = Signs!KeyOf(rows[c]) /\ Signs!SavedFor(rows[c]) = rows[c].signIn.refresh
<1>1. Row(c, rows[c], grants) /\ grants \in Seq(Signs!AllKeys)
  BY DEF IInv, RowsFit, Shape
<1>2. Len(grants) \in Nat
  BY <1>1, Lengths, Zenon
<1>3. rows[c].base = Connections[c].base /\ rows[c].role \in Roles
  BY <1>1 DEF Row
<1>4. Signs!KeyOf(rows[c]) \in Signs!Keys
  BY <1>3 DEF Signs!KeyOf, Signs!Keys
<1> QED
  BY <1>1, <1>2, <1>4 DEF Row, Signs!SavedFor, Signs!None

LEMMA OpenKeeps ==
  ASSUME Signs!GrantsFit, IInv, NEW t \in Tqls, NEW c \in DOMAIN Connections, Signs!Open(t, c)
  PROVE IInv'
<1> DEFINE row == rows[c]
           known == Signs!KeyOf(row)
           oauth == row.kind = "oauth"
           tokens == IF oauth THEN tql[t].signedIn[known] ELSE Signs!NoTokens
           saved == IF oauth THEN Signs!SavedFor(row) ELSE Signs!None
           at == IF row.kind = "sso" THEN "sign in" ELSE IF tql[t].signedIn[known] # Signs!NoTokens THEN "remember" ELSE Signs!Renewal(Signs!SavedFor(row))
           s2 == [Signs!Closed EXCEPT !.phase = "starting", !.row = c, !.kind = row.kind, !.key = known, !.holder = Main,
                    !.tokens = tokens, !.saved = saved]
           w2 == [Signs!Rests EXCEPT !.why = "start", !.at = at]
<1>1. Main \in Threads[t]
  BY DEF Signs!GrantsFit
<1>2. /\ Rem(tql[t].signedIn, grants) /\ grants \in Seq(Signs!AllKeys) /\ attempts \in Seq(Attempts) /\ calls \in Nat
      /\ work[t] \in [Threads[t] -> SignDoings]
      /\ \A g \in Threads[t] : Thr(tql[t].session, work[t][g], g, grants, attempts)
  BY <1>1, Facts
<1>3. /\ known \in Signs!Keys /\ row.kind \in {"oauth", "sso"} /\ saved \in 0..Len(grants) /\ Len(grants) \in Nat
      /\ saved # 0 => grants[saved] = known /\ saved = row.signIn.refresh
  <2>1. Len(grants) \in Nat
    BY <1>2, Lengths, Zenon
  <2> QED
    BY <2>1, RowFacts DEF Signs!None
<1>4. Keeps(tokens, known, grants) /\ (oauth /\ tql[t].signedIn[known] # Signs!NoTokens => tokens.access # 0)
  <2>1. CASE oauth
    <3>1. Keeps(tql[t].signedIn[known], known, grants) /\ (tql[t].signedIn[known].access = 0 => tql[t].signedIn[known] = Signs!NoTokens)
      BY <1>2, <1>3 DEF Rem
    <3> QED
      BY <2>1, <3>1
  <2>2. CASE ~oauth
    <3>1. Signs!NoTokens.access = 0 /\ Signs!NoTokens.refresh = 0 /\ Signs!NoTokens \in Tokens(grants)
      BY <1>3 DEF Signs!NoTokens, Signs!None, Tokens
    <3>2. Keeps(Signs!NoTokens, known, grants)
      BY <3>1 DEF Keeps
    <3> QED
      BY <2>2, <3>2
  <2> QED
    BY <2>1, <2>2
<1>5. row.kind = "sso" => tokens.refresh = 0 /\ saved = 0
  BY DEF Signs!NoTokens, Signs!None
<1>6. /\ at \in {"sign in", "remember", "refresh"}
      /\ at = "refresh" => saved # 0 /\ oauth
      /\ at = "remember" => tokens.access # 0
  <2>1. CASE row.kind = "sso"
    BY <2>1
  <2>2. CASE row.kind = "oauth"
    BY <2>2, <1>4 DEF Signs!Renewal, Signs!None
  <2> QED
    BY <2>1, <2>2, <1>3
<1>7. Signs!Steps(t, Main, s2, w2) /\ UNCHANGED <<grants, attempts, rows>> /\ calls' \in Nat /\ tql[t].session.phase = "closed"
  BY <1>2 DEF Signs!Open
<1>8. s2 = [Signs!Closed EXCEPT !.phase = "starting", !.row = c, !.kind = row.kind, !.key = known, !.holder = Main,
                    !.tokens = tokens, !.saved = saved]
  OBVIOUS
<1>9. w2 = [Signs!Rests EXCEPT !.why = "start", !.at = at]
  OBVIOUS
<1>10. tokens \in [access : Nat, refresh : Nat]
  BY <1>3, <1>4 DEF Keeps, Tokens
<1>12. Main \in Holders
  BY <1>1 DEF Holders
<1>13. saved \in Nat
  BY <1>3
<1> HIDE DEF s2, w2, at, tokens, saved, known
<1>14. Signs!Closed \in Sessions /\ Signs!Rests \in SignDoings
  BY <1>3, ClosedFits DEF Sess, Signs!Rests, SignDoings, Signs!None
<1>15. /\ s2 \in Sessions /\ s2.phase = "starting" /\ s2.row = c /\ s2.kind = row.kind /\ s2.key = known /\ s2.holder = Main
       /\ s2.tokens = tokens /\ s2.saved = saved
       /\ w2 \in SignDoings /\ w2.why = "start" /\ w2.at = at
  <2>1. PICK s \in Sessions : s = Signs!Closed
    BY <1>14
  <2>2. PICK kind \in {"oauth", "sso"} : kind = row.kind
    BY <1>3
  <2>3. PICK w \in SignDoings : w = Signs!Rests
    BY <1>14
  <2>4. s2 = [s EXCEPT !.phase = "starting", !.row = c, !.kind = kind, !.key = known, !.holder = Main, !.tokens = tokens, !.saved = saved]
    BY <1>8, <2>1, <2>2
  <2>5. /\ s2 \in Sessions /\ s2.phase = "starting" /\ s2.row = c /\ s2.kind = kind /\ s2.key = known /\ s2.holder = Main
        /\ s2.tokens = tokens /\ s2.saved = saved
    <3>1. PICK k \in Signs!Keys : k = known
      BY <1>3
    <3>2. PICK ts \in [access : Nat, refresh : Nat], n \in Nat, h \in Holders : ts = tokens /\ n = saved /\ h = Main
      BY <1>10, <1>12, <1>13
    <3>3. s2 = [s EXCEPT !.phase = "starting", !.row = c, !.kind = kind, !.key = k, !.holder = h, !.tokens = ts, !.saved = n]
      BY <2>4, <3>1, <3>2
    <3>4. s2 \in Sessions /\ s2.phase = "starting" /\ s2.row = c /\ s2.kind = kind /\ s2.key = k
      BY <3>3 DEF Sessions
    <3>5. s2.holder = h /\ s2.tokens = ts /\ s2.saved = n
      BY <3>3 DEF Sessions
    <3> QED
      BY <3>1, <3>2, <3>4, <3>5
  <2>6. w2 \in SignDoings /\ w2.why = "start" /\ w2.at = at
    <3>1. PICK a \in {"sign in", "remember", "refresh"} : a = at
      BY <1>6
    <3>2. w2 = [w EXCEPT !.why = "start", !.at = a]
      BY <2>3, <3>1, <1>9
    <3> HIDE DEF at
    <3> QED
      BY <3>1, <3>2 DEF SignDoings
  <2> QED
    BY <2>2, <2>5, <2>6
<1>16. Sess(s2, grants)
  <2>1. Keeps(s2.tokens, s2.key, grants)
    BY <1>4, <1>15
  <2>2. s2.saved <= Len(grants) /\ (s2.saved # 0 => grants[s2.saved] = s2.key)
    BY <1>3, <1>15
  <2> QED
    BY <2>1, <2>2, <1>3, <1>5, <1>15 DEF Sess
<1>17. Thr(s2, w2, Main, grants, attempts)
  BY <1>6, <1>15 DEF Thr, Busy
<1>18. ASSUME NEW g \in Threads[t] \ {Main}
       PROVE Thr(s2, work[t][g], g, grants, attempts)
  <2>1. Thr(tql[t].session, work[t][g], g, grants, attempts)
    BY <1>2
  <2>2. work[t][g].at = "rest" /\ work[t][g] \in SignDoings
    BY <2>1, <1>7 DEF Thr
  <2> QED
    BY <2>2, <1>15 DEF Thr, Busy
<1>19. Svd(t, s2, [work[t] EXCEPT ![Main] = w2], rows)
  BY <1>3, <1>15 DEF Svd
<1>20. More(grants, grants) /\ More(attempts, attempts)
  BY <1>2, Same, Zenon
<1> QED
  BY <1>1, <1>2, <1>7, <1>16, <1>17, <1>18, <1>19, <1>20, StepKeeps

-----------------------------------------------------------------------------
\* Of the others, and of one whose rows only others wrote
LEMMA OthersStay ==
  ASSUME NEW t, NEW q, NEW ws, NEW rs, NEW rs2, NEW g, NEW a, OneTql(t, q, ws, rs, g, a),
         \A c \in DOMAIN Connections : rs2[c].signIn.by = t => rs2[c].signIn = rs[c].signIn
  PROVE OneTql(t, q, ws, rs2, g, a)
<1>1. q.session.phase # "closed" => q.session.row \in DOMAIN Connections
  BY DEF OneTql, Sess
<1>2. Svd(t, q.session, ws, rs2)
  BY <1>1 DEF OneTql, Svd
<1> QED
  BY <1>2 DEF OneTql

LEMMA ForgottenFits ==
  ASSUME NEW g, Len(g) \in Nat
  PROVE /\ Rem([k \in Signs!Keys |-> Signs!NoTokens], g)
        /\ [k \in Signs!Keys |-> Signs!NoTokens] \in [Signs!Keys -> [access : Nat, refresh : Nat]]
<1>1. Signs!NoTokens \in Tokens(g) /\ Signs!NoTokens.access = 0 /\ Signs!NoTokens.refresh = 0 /\ Signs!NoTokens \in [access : Nat, refresh : Nat]
  BY DEF Signs!NoTokens, Signs!None, Tokens
<1>2. \A k \in Signs!Keys : Keeps(Signs!NoTokens, k, g)
  BY <1>1 DEF Keeps
<1> QED
  BY <1>1, <1>2 DEF Rem

LEMMA CloseKeeps ==
  ASSUME Signs!GrantsFit, IInv, NEW t \in Tqls, Signs!Close(t)
  PROVE IInv'
<1>1. /\ grants \in Seq(Signs!AllKeys) /\ attempts \in Seq(Attempts) /\ calls \in Nat
      /\ OneTql(t, tql[t], work[t], rows, grants, attempts) /\ RowsFit(rows, grants)
      /\ tql \in [Tqls -> [signedIn : [Signs!Keys -> [access : Nat, refresh : Nat]], session : Sessions]]
  BY DEF IInv, Shape
<1>2. Len(grants) \in Nat
  BY <1>1, Lengths, Zenon
<1>3. PICK quits \in BOOLEAN :
        tql' = [tql EXCEPT ![t].session = Signs!Closed, ![t].signedIn = IF quits THEN [k \in Signs!Keys |-> Signs!NoTokens] ELSE @]
  BY DEF Signs!Close
<1>4. PICK remembered \in [Signs!Keys -> [access : Nat, refresh : Nat]] :
        Rem(remembered, grants) /\ remembered = IF quits THEN [k \in Signs!Keys |-> Signs!NoTokens] ELSE tql[t].signedIn
  <2>1. Rem(tql[t].signedIn, grants) /\ tql[t].signedIn \in [Signs!Keys -> [access : Nat, refresh : Nat]]
    BY <1>1 DEF OneTql
  <2> QED
    BY <2>1, <1>2, ForgottenFits
<1>5. Signs!Closed \in Sessions /\ Sess(Signs!Closed, grants)
  BY <1>2, ClosedFits DEF Sess
<1>6. tql' = [tql EXCEPT ![t] = [tql[t] EXCEPT !.session = Signs!Closed, !.signedIn = remembered]]
  BY <1>1, <1>3, <1>4
<1>7. /\ tql'[t].session = Signs!Closed /\ tql'[t].signedIn = remembered /\ \A u \in Tqls \ {t} : tql'[u] = tql[u]
      /\ tql' \in [Tqls -> [signedIn : [Signs!Keys -> [access : Nat, refresh : Nat]], session : Sessions]]
  <2>1. PICK q \in [signedIn : [Signs!Keys -> [access : Nat, refresh : Nat]], session : Sessions] : q = tql[t]
    BY <1>1
  <2> DEFINE q2 == [q EXCEPT !.session = Signs!Closed, !.signedIn = remembered]
  <2>2. q2.session = Signs!Closed /\ q2.signedIn = remembered /\ q2 \in [signedIn : [Signs!Keys -> [access : Nat, refresh : Nat]], session : Sessions]
    BY <1>4, <1>5
  <2>3. tql' = [tql EXCEPT ![t] = q2]
    BY <2>1, <1>6
  <2> HIDE DEF q2
  <2> QED
    BY <2>2, <2>3, <1>1
<1>8. UNCHANGED <<grants, attempts, rows, work, calls>>
  BY DEF Signs!Close
<1>9. OneTql(t, tql'[t], work[t], rows, grants, attempts)
  <2>1. ASSUME NEW h \in Threads[t]
        PROVE Thr(Signs!Closed, work[t][h], h, grants, attempts)
    <3>1. Thr(tql[t].session, work[t][h], h, grants, attempts) /\ work[t][h].at = "rest" /\ h # "nobody"
      BY <1>1 DEF OneTql, Signs!Close, Signs!GrantsFit
    <3>2. Signs!Closed.phase = "closed" /\ Signs!Closed.holder = "nobody"
      BY DEF Signs!Closed
    <3> QED
      BY <3>1, <3>2 DEF Thr, Busy
  <2>2. Svd(t, Signs!Closed, work[t], rows)
    BY DEF Svd, Signs!Closed
  <2> QED
    BY <2>1, <2>2, <1>4, <1>5, <1>7 DEF OneTql
<1>10. \A u \in Tqls : OneTql(u, tql'[u], work'[u], rows', grants', attempts')
  BY <1>7, <1>8, <1>9 DEF IInv
<1>11. Shape' /\ RowsFit(rows', grants')
  BY <1>7, <1>8 DEF IInv, Shape
<1> QED
  BY <1>10, <1>11 DEF IInv

\* The rows change
LEMMA RowsKeep ==
  ASSUME Signs!GrantsFit, IInv, NEW c \in DOMAIN Connections, NEW row, rows' = [rows EXCEPT ![c] = row], Row(c, row, grants), UNCHANGED grants
  PROVE RowsFit(rows', grants')
BY DEF IInv, RowsFit

LEMMA EditKeeps ==
  ASSUME Signs!GrantsFit, IInv, NEW c \in DOMAIN Connections, Signs!Edit(c)
  PROVE IInv'
<1>1. PICK role \in Roles : rows' = [rows EXCEPT ![c].role = role]
  BY DEF Signs!Edit
<1>2. DOMAIN rows = DOMAIN Connections /\ Row(c, rows[c], grants)
  BY DEF IInv, RowsFit
<1> DEFINE row == [rows[c] EXCEPT !.role = role]
<1>3. rows' = [rows EXCEPT ![c] = row]
  BY <1>1, <1>2
<1>4. Row(c, row, grants) /\ row.signIn = rows[c].signIn
  BY <1>2 DEF Row
<1> HIDE DEF row
<1>5. UNCHANGED <<grants, attempts, tql, work>> /\ calls' \in Nat
  BY DEF Signs!Edit, IInv, Shape
<1>6. RowsFit(rows', grants')
  BY <1>3, <1>4, <1>5, RowsKeep
<1>7. \A d \in DOMAIN Connections : rows'[d].signIn = rows[d].signIn
  BY <1>2, <1>3, <1>4
<1>8. \A u \in Tqls : OneTql(u, tql'[u], work'[u], rows', grants', attempts')
  <2>1. ASSUME NEW u \in Tqls PROVE OneTql(u, tql[u], work[u], rows', grants, attempts)
    BY <1>7, OthersStay DEF IInv
  <2> QED
    BY <2>1, <1>5
<1>9. Shape'
  BY <1>5 DEF IInv, Shape
<1> QED
  BY <1>6, <1>8, <1>9 DEF IInv

LEMMA SignOutKeeps ==
  ASSUME Signs!GrantsFit, IInv, NEW t \in Tqls, NEW c \in DOMAIN Connections, Signs!SignOut(t, c)
  PROVE IInv'
<1>1. /\ grants \in Seq(Signs!AllKeys) /\ DOMAIN rows = DOMAIN Connections /\ Row(c, rows[c], grants)
      /\ tql \in [Tqls -> [signedIn : [Signs!Keys -> [access : Nat, refresh : Nat]], session : Sessions]]
      /\ OneTql(t, tql[t], work[t], rows, grants, attempts)
  BY DEF IInv, Shape, RowsFit
<1>2. Len(grants) \in Nat
  BY <1>1, Lengths, Zenon
<1>3. UNCHANGED <<grants, attempts, work>> /\ calls' \in Nat
  BY DEF Signs!SignOut, IInv, Shape
<1> DEFINE row == [rows[c] EXCEPT !.signIn = Signs!NotSaved]
           none == [k \in Signs!Keys |-> Signs!NoTokens]
<1>4. rows' = [rows EXCEPT ![c] = row]
  BY <1>1 DEF Signs!SignOut
<1>5. Row(c, row, grants) /\ row.signIn = Signs!NotSaved
  <2>1. PICK nothing : nothing = <<>>
    OBVIOUS
  <2>2. Signs!NotSaved = [of |-> nothing, refresh |-> 0, by |-> "nobody"]
    BY <2>1 DEF Signs!NotSaved, Signs!None
  <2>3. Signs!NotSaved \in [of : Signs!AllKeys \cup {<<>>}, refresh : 0..Len(grants), by : Tqls \cup {"nobody"}]
    <3>1. nothing \in Signs!AllKeys \cup {<<>>}
      BY <2>1
    <3> QED
      BY <1>2, <2>2, <3>1
  <2>4. Signs!NotSaved.refresh = 0
    BY <2>2
  <2> QED
    BY <1>1, <2>3, <2>4 DEF Row
<1>6. Signs!NotSaved.by = "nobody" /\ "nobody" \notin Tqls
  BY DEF Signs!NotSaved, Signs!GrantsFit
<1>7. tql' = [tql EXCEPT ![t] = [tql[t] EXCEPT !.signedIn = none]]
  BY <1>1 DEF Signs!SignOut
<1>8. Rem(none, grants) /\ none \in [Signs!Keys -> [access : Nat, refresh : Nat]]
  BY <1>2, ForgottenFits
<1> HIDE DEF row, none
<1>9. RowsFit(rows', grants')
  BY <1>3, <1>4, <1>5, RowsKeep
<1>10. \A u \in Tqls : \A d \in DOMAIN Connections : rows'[d].signIn.by = u => rows'[d].signIn = rows[d].signIn
  BY <1>1, <1>4, <1>5, <1>6
<1>11. /\ tql'[t].session = tql[t].session /\ tql'[t].signedIn = none /\ \A u \in Tqls \ {t} : tql'[u] = tql[u]
       /\ tql' \in [Tqls -> [signedIn : [Signs!Keys -> [access : Nat, refresh : Nat]], session : Sessions]]
  BY <1>1, <1>7, <1>8
<1>12. ASSUME NEW u \in Tqls
       PROVE OneTql(u, tql'[u], work'[u], rows', grants', attempts')
  <2>1. OneTql(u, tql[u], work[u], rows', grants, attempts)
    BY <1>10, OthersStay DEF IInv
  <2>2. OneTql(u, tql'[u], work[u], rows', grants, attempts)
    BY <2>1, <1>8, <1>11 DEF OneTql
  <2> QED
    BY <2>2, <1>3
<1>13. Shape'
  BY <1>3, <1>11 DEF IInv, Shape
<1> QED
  BY <1>9, <1>12, <1>13 DEF IInv

LEMMA InitKeeps ==
  ASSUME Signs!GrantsFit, Signs!Init
  PROVE IInv
<1>1. grants \in Seq(Signs!AllKeys) /\ Len(grants) \in Nat
  BY Lengths, Zenon DEF Signs!Init, Signs!GrantsFit
<1>2. attempts = <<>> /\ attempts \in Seq(Attempts) /\ calls \in Nat
  BY DEF Signs!Init
<1>3. ASSUME NEW c \in DOMAIN Connections
      PROVE Row(c, rows[c], grants) /\ rows[c].signIn.by = "nobody"
  <2> DEFINE signIn == Connections[c].signIn
  <2>1. /\ signIn \in [of : Signs!AllKeys \cup {<<>>}, refresh : {Signs!None} \cup DOMAIN Granted, by : {"nobody"}]
        /\ Connections[c].role \in Roles /\ Connections[c].kind \in {"oauth", "sso"}
        /\ signIn.refresh # Signs!None => Granted[signIn.refresh] = signIn.of
    BY DEF Signs!GrantsFit
  <2>2. DOMAIN Granted = 1..Len(grants) /\ grants = Granted
    BY DEF Signs!Init, Signs!GrantsFit
  <2> DEFINE ofs == Signs!AllKeys \cup {<<>>}
  <2> HIDE DEF ofs
  <2>3. signIn \in [of : ofs, refresh : 0..Len(grants), by : Tqls \cup {"nobody"}] /\ signIn.by = "nobody"
    BY <2>1, <2>2, <1>1 DEF Signs!None, ofs
  <2>4. rows[c] = [kind |-> Connections[c].kind, base |-> Connections[c].base, role |-> Connections[c].role, signIn |-> signIn]
    BY DEF Signs!Init
  <2> HIDE DEF signIn
  <2>5. rows[c] \in [kind : {"oauth", "sso"}, base : {Connections[c].base}, role : Roles,
                      signIn : [of : ofs, refresh : 0..Len(grants), by : Tqls \cup {"nobody"}]]
    BY <2>1, <2>3, <2>4
  <2>6. rows[c].signIn = signIn
    BY <2>4
  <2> QED
    BY <2>1, <2>2, <2>3, <2>5, <2>6 DEF Row, ofs, Signs!None
<1>4. RowsFit(rows, grants)
  BY <1>3 DEF RowsFit, Signs!Init
<1>5. Signs!Closed \in Sessions /\ Sess(Signs!Closed, grants) /\ Signs!Closed.phase = "closed" /\ Signs!Closed.holder = "nobody"
  BY <1>1, ClosedFits DEF Sess, Signs!Closed
<1>6. Signs!Rests \in SignDoings /\ Signs!Rests.at = "rest" /\ ~Busy(Signs!Rests)
  BY DEF Signs!Rests, SignDoings, Busy, Signs!None
<1>7. PICK none : /\ none = [k \in Signs!Keys |-> Signs!NoTokens]
                  /\ Rem(none, grants) /\ none \in [Signs!Keys -> [access : Nat, refresh : Nat]]
  BY <1>1, ForgottenFits
<1>8. tql = [t \in Tqls |-> [signedIn |-> none, session |-> Signs!Closed]] /\ work = [t \in Tqls |-> [h \in Threads[t] |-> Signs!Rests]]
  BY <1>7 DEF Signs!Init
<1>9. ASSUME NEW t \in Tqls
      PROVE OneTql(t, tql[t], work[t], rows, grants, attempts)
  <2>1. tql[t].session = Signs!Closed /\ tql[t].signedIn = none /\ \A h \in Threads[t] : work[t][h] = Signs!Rests
    BY <1>8
  <2>2. \A h \in Threads[t] : h # "nobody"
    BY DEF Signs!GrantsFit
  <2>3. ASSUME NEW h \in Threads[t]
        PROVE Thr(Signs!Closed, Signs!Rests, h, grants, attempts)
    BY <2>2, <1>5, <1>6 DEF Thr, Signs!Rests
  <2>4. Svd(t, Signs!Closed, work[t], rows)
    BY <1>5 DEF Svd
  <2> QED
    BY <2>1, <2>3, <2>4, <1>5, <1>7 DEF OneTql
<1>10. Shape
  BY <1>1, <1>2, <1>5, <1>6, <1>7, <1>8 DEF Shape
<1> QED
  BY <1>4, <1>9, <1>10 DEF IInv

\* What is written with the connection, if it is
LEMMA StoredFits ==
  ASSUME Signs!GrantsFit, IInv, NEW t \in Tqls, tql[t].session.phase # "closed",
         IF Signs!Saves(tql[t].session) THEN \E fails \in BOOLEAN : rows' = Signs!Stored(tql[t].session, t, fails) ELSE UNCHANGED rows,
         UNCHANGED grants
  PROVE /\ RowsFit(rows', grants')
        /\ \A u \in Tqls \ {t} : \A d \in DOMAIN Connections : rows'[d].signIn.by = u => rows'[d].signIn = rows[d].signIn
        /\ LET s == tql[t].session IN
             IF Signs!Saves(s) THEN rows'[s.row].signIn.by = t => rows'[s.row].signIn.refresh = s.tokens.refresh ELSE rows' = rows
<1>1. PICK s \in Sessions : s = tql[t].session
  BY DEF IInv, Shape
<1>2. /\ Sess(s, grants) /\ DOMAIN rows = DOMAIN Connections /\ "nobody" \notin Tqls /\ RowsFit(rows, grants)
      /\ grants \in Seq(Signs!AllKeys)
  BY <1>1 DEF IInv, OneTql, RowsFit, Signs!GrantsFit, Shape
<1>3. Len(grants) \in Nat
  BY <1>2, Lengths, Zenon
<1>4. s.row \in DOMAIN Connections /\ s.key \in Signs!Keys
  BY <1>1, <1>2 DEF Sess
<1>5. CASE ~Signs!Saves(s)
  BY <1>1, <1>2, <1>5
<1>6. ASSUME Signs!Saves(s), NEW fails \in BOOLEAN, rows' = Signs!Stored(s, t, fails)
      PROVE /\ RowsFit(rows', grants')
            /\ \A u \in Tqls \ {t} : \A d \in DOMAIN Connections : rows'[d].signIn.by = u => rows'[d].signIn = rows[d].signIn
            /\ rows'[s.row].signIn.by = t => rows'[s.row].signIn.refresh = s.tokens.refresh
  <2> DEFINE old == rows[s.row].signIn
             signIn == IF fails THEN [old EXCEPT !.by = "nobody"] ELSE [of |-> s.key, refresh |-> s.tokens.refresh, by |-> t]
             row == [rows[s.row] EXCEPT !.signIn = signIn]
             ofs == Signs!AllKeys \cup {<<>>}
  <2>1. Row(s.row, rows[s.row], grants)
    BY <1>2, <1>4 DEF RowsFit
  <2>2. s.key \in ofs
    BY <1>4 DEF Signs!AllKeys
  <2>3. s.tokens.refresh \in 0..Len(grants) /\ (s.tokens.refresh # 0 => grants[s.tokens.refresh] = s.key)
    BY <1>2 DEF Sess, Keeps, Tokens
  <2>4. rows' = [rows EXCEPT ![s.row] = row]
    BY <1>2, <1>4, <1>6 DEF Signs!Stored
  <2>5. /\ old \in [of : ofs, refresh : 0..Len(grants), by : Tqls \cup {"nobody"}]
        /\ old.refresh # 0 => grants[old.refresh] = old.of
    BY <2>1 DEF Row
  <2> HIDE DEF ofs, old
  <2>6. /\ signIn \in [of : ofs, refresh : 0..Len(grants), by : Tqls \cup {"nobody"}]
        /\ signIn.refresh # 0 => grants[signIn.refresh] = signIn.of
        /\ signIn.by \in {t, "nobody"} /\ (signIn.by = t => signIn.refresh = s.tokens.refresh)
    <3>1. CASE fails
      BY <3>1, <2>5, <1>2
    <3>2. CASE ~fails
      BY <3>2, <2>2, <2>3
    <3> QED
      BY <3>1, <3>2
  <2> HIDE DEF signIn
  <2>7. Row(s.row, row, grants) /\ row.signIn = signIn
    BY <2>1, <2>6 DEF Row, ofs
  <2> HIDE DEF row
  <2>8. RowsFit(rows', grants')
    BY <2>4, <2>7, <1>4, RowsKeep
  <2>9. rows'[s.row] = row /\ \A d \in DOMAIN Connections \ {s.row} : rows'[d] = rows[d]
    BY <2>4, <1>2, <1>4
  <2>10. ASSUME NEW u \in Tqls \ {t}, NEW d \in DOMAIN Connections, rows'[d].signIn.by = u
         PROVE rows'[d].signIn = rows[d].signIn
    <3>1. d # s.row
      BY <2>6, <2>7, <2>9, <2>10, <1>2
    <3> QED
      BY <3>1, <2>9
  <2> QED
    BY <2>6, <2>7, <2>8, <2>9, <2>10
<1> QED
  BY <1>1, <1>5, <1>6

LEMMA RememberKeeps ==
  ASSUME Signs!GrantsFit, IInv, NEW t \in Tqls, NEW h \in Threads[t], Signs!Remember(t, h)
  PROVE IInv'
<1>1. PICK s \in Sessions : s = tql[t].session
  BY Facts
<1>2. PICK w \in SignDoings : w = work[t][h]
  BY Facts
<1>3. /\ Sess(s, grants) /\ Thr(s, w, h, grants, attempts) /\ Svd(t, s, work[t], rows) /\ work[t] \in [Threads[t] -> SignDoings]
      /\ \A g \in Threads[t] : Thr(s, work[t][g], g, grants, attempts) /\ g # "nobody"
      /\ Rem(tql[t].signedIn, grants) /\ OneTql(t, tql[t], work[t], rows, grants, attempts)
  BY <1>1, <1>2, Facts DEF IInv
<1>4. w.at = "remember" /\ UNCHANGED <<grants, attempts, calls>>
  BY <1>2 DEF Signs!Remember
<1>5. Busy(w) /\ s.holder = h /\ s.phase \in {"starting", "open"} /\ s.tokens.access # 0
  BY <1>3, <1>4 DEF Thr, Busy, Sessions
<1>6. s.key \in Signs!Keys /\ s.row \in DOMAIN Connections
  BY <1>3, <1>5 DEF Sess
<1>7. /\ RowsFit(rows', grants')
      /\ \A u \in Tqls \ {t} : \A d \in DOMAIN Connections : rows'[d].signIn.by = u => rows'[d].signIn = rows[d].signIn
      /\ IF Signs!Saves(s) THEN rows'[s.row].signIn.by = t => rows'[s.row].signIn.refresh = s.tokens.refresh ELSE rows' = rows
  <2>1. IF Signs!Saves(s) THEN \E fails \in BOOLEAN : rows' = Signs!Stored(s, t, fails) ELSE UNCHANGED rows
    BY <1>1 DEF Signs!Remember
  <2> QED
    BY <2>1, <1>1, <1>4, <1>5, StoredFits
<1> DEFINE saved == IF Signs!Saves(s) THEN s.tokens.refresh ELSE s.saved
           s2 == [s EXCEPT !.phase = "open", !.holder = "nobody", !.saved = saved]
           remembered == IF s.kind = "oauth" THEN [tql[t].signedIn EXCEPT ![s.key] = s.tokens] ELSE tql[t].signedIn
<1>8. /\ saved \in Nat /\ saved <= Len(grants) /\ (saved # 0 => grants[saved] = s.key)
      /\ s.kind = "sso" => saved = 0
      /\ s.kind = "oauth" /\ s.tokens.refresh # 0 => saved = s.tokens.refresh
  <2>1. CASE Signs!Saves(s)
    BY <2>1, <1>3 DEF Sess, Keeps, Tokens, Signs!Saves, Sessions
  <2>2. CASE ~Signs!Saves(s)
    BY <2>2, <1>3 DEF Sess, Signs!Saves, Sessions, Signs!None
  <2> QED
    BY <2>1, <2>2
<1>9. tql \in [Tqls -> [signedIn : [Signs!Keys -> [access : Nat, refresh : Nat]], session : Sessions]]
  BY DEF IInv, Shape
<1>10. Rem(remembered, grants) /\ remembered \in [Signs!Keys -> [access : Nat, refresh : Nat]]
  <2>1. Keeps(s.tokens, s.key, grants) /\ s.tokens \in [access : Nat, refresh : Nat]
    BY <1>3 DEF Sess, Sessions
  <2> QED
    BY <2>1, <1>3, <1>5, <1>6, <1>9 DEF Rem
<1>11. tql' = [tql EXCEPT ![t] = [tql[t] EXCEPT !.signedIn = remembered, !.session = s2]]
  BY <1>1, <1>9 DEF Signs!Remember
<1> HIDE DEF saved
<1>12. /\ s2.phase = "open" /\ s2.holder = "nobody" /\ s2.saved = saved /\ s2.key = s.key /\ s2.kind = s.kind /\ s2.row = s.row
       /\ s2.tokens = s.tokens /\ s2 \in Sessions
  <2>1. "nobody" \in Holders
    BY DEF Holders
  <2> QED
    BY <2>1, <1>8 DEF Sessions
<1> HIDE DEF s2, remembered
<1>13. /\ tql'[t].session = s2 /\ tql'[t].signedIn = remembered /\ \A u \in Tqls \ {t} : tql'[u] = tql[u]
       /\ tql' \in [Tqls -> [signedIn : [Signs!Keys -> [access : Nat, refresh : Nat]], session : Sessions]]
  BY <1>9, <1>10, <1>11, <1>12
<1>14. Sess(s2, grants)
  <2>1. Keeps(s2.tokens, s2.key, grants)
    BY <1>3, <1>12 DEF Sess
  <2> QED
    BY <2>1, <1>3, <1>5, <1>8, <1>12 DEF Sess
<1>15. DOMAIN work = Tqls /\ \A u \in Tqls : work[u] \in [Threads[u] -> SignDoings]
  BY DEF IInv, Shape
<1>16. PICK ws \in [Threads[t] -> SignDoings] :
         /\ work' = [work EXCEPT ![t] = ws]
         /\ \A g \in Threads[t] : Thr(s2, ws[g], g, grants, attempts)
  <2>1. CASE w.why = "start"
    <3>1. Signs!Wants \in SignDoings /\ Signs!Wants.at = "wants" /\ ~Busy(Signs!Wants)
      BY DEF Signs!Wants, Signs!Rests, SignDoings, Busy, Signs!None
    <3>2. ASSUME NEW g \in Threads[t]
          PROVE Thr(s2, Signs!Wants, g, grants, attempts)
      BY <3>1, <1>3, <1>12 DEF Thr
    <3>3. work' = [work EXCEPT ![t] = [g \in Threads[t] |-> Signs!Wants]]
      BY <2>1, <1>1, <1>2 DEF Signs!Remember
    <3> DEFINE all == [g \in Threads[t] |-> Signs!Wants]
    <3>4. all \in [Threads[t] -> SignDoings]
      BY <3>1
    <3>5. \A g \in Threads[t] : Thr(s2, all[g], g, grants, attempts)
      BY <3>2
    <3>6. work' = [work EXCEPT ![t] = all]
      BY <3>3
    <3> HIDE DEF all
    <3> QED
      BY <3>4, <3>5, <3>6
  <2>2. CASE w.why # "start"
    <3> DEFINE w2 == IF w.why = "early" THEN [w EXCEPT !.at = "ask", !.attempt = Signs!None, !.code = Signs!None, !.token = s.tokens.access]
                     ELSE [w EXCEPT !.at = "wants", !.attempt = Signs!None, !.code = Signs!None, !.token = Signs!None]
    <3>1. work' = [work EXCEPT ![t] = [work[t] EXCEPT ![h] = w2]]
      BY <2>2, <1>1, <1>2 DEF Signs!Remember
    <3>2. PICK token \in Nat : token = s.tokens.access
      BY DEF Sessions
    <3>3. token \in 1..Len(grants) /\ grants[token] = s.key
      BY <3>2, <1>3, <1>5 DEF Sess, Keeps, Tokens
    <3>4. /\ w2 \in SignDoings /\ w2.at \in {"ask", "wants"} /\ (w2.at = "ask" => w2.token = token)
      <4>1. CASE w.why = "early"
        <5>1. w2 = [w EXCEPT !.at = "ask", !.attempt = 0, !.code = 0, !.token = token]
          BY <4>1, <3>2 DEF Signs!None
        <5> HIDE DEF w2
        <5> QED
          BY <5>1 DEF SignDoings
      <4>2. CASE w.why # "early"
        <5>1. w2 = [w EXCEPT !.at = "wants", !.attempt = 0, !.code = 0, !.token = 0]
          BY <4>2 DEF Signs!None
        <5> HIDE DEF w2
        <5> QED
          BY <5>1 DEF SignDoings
      <4> QED
        BY <4>1, <4>2
    <3> HIDE DEF w2
    <3>5. Thr(s2, w2, h, grants, attempts)
      <4>1. h # "nobody" /\ s2.phase = "open" /\ s2.holder = "nobody" /\ s2.key = s.key /\ ~Busy(w2)
        BY <3>4, <1>3, <1>12 DEF Busy
      <4> QED
        BY <4>1, <3>3, <3>4 DEF Thr
    <3>6. s.phase = "open"
      BY <2>2, <1>3, <1>5 DEF Thr
    <3>7. ASSUME NEW g \in Threads[t] \ {h}
          PROVE Thr(s2, work[t][g], g, grants, attempts)
      BY <3>6, <1>3, <1>5, <1>12, OthersFit
    <3>8. [work[t] EXCEPT ![h] = w2] \in [Threads[t] -> SignDoings]
      BY <3>4, <1>3
    <3>9. ASSUME NEW g \in Threads[t]
          PROVE Thr(s2, [work[t] EXCEPT ![h] = w2][g], g, grants, attempts)
      <4>1. CASE g = h
        BY <4>1, <3>5, <1>3
      <4>2. CASE g # h
        <5>1. [work[t] EXCEPT ![h] = w2][g] = work[t][g]
          BY <4>2, <1>3
        <5> QED
          BY <5>1, <4>2, <3>7
      <4> QED
        BY <4>1, <4>2
    <3> QED
      BY <3>1, <3>8, <3>9
  <2> QED
    BY <2>1, <2>2
<1>17. work'[t] = ws /\ \A u \in Tqls \ {t} : work'[u] = work[u]
  BY <1>15, <1>16
<1>18. Svd(t, s2, ws, rows')
  <2>1. s2.saved # 0 /\ rows'[s2.row].signIn.by = t => rows'[s2.row].signIn.refresh = s2.saved
    <3>1. CASE Signs!Saves(s)
      BY <3>1, <1>7, <1>12 DEF saved
    <3>2. CASE ~Signs!Saves(s)
      BY <3>2, <1>3, <1>5, <1>7, <1>12 DEF saved, Svd
    <3> QED
      BY <3>1, <3>2
  <2> QED
    BY <2>1, <1>8, <1>12 DEF Svd
<1>19. OneTql(t, tql'[t], work'[t], rows', grants, attempts)
  BY <1>10, <1>13, <1>14, <1>16, <1>17, <1>18 DEF OneTql
<1>20. ASSUME NEW u \in Tqls \ {t}
       PROVE OneTql(u, tql'[u], work'[u], rows', grants, attempts)
  <2>1. OneTql(u, tql[u], work[u], rows, grants, attempts)
    BY DEF IInv
  <2>2. OneTql(u, tql[u], work[u], rows', grants, attempts)
    BY <2>1, <1>7, OthersStay
  <2> QED
    BY <2>2, <1>13, <1>17
<1>21. Shape'
  BY <1>4, <1>13, <1>15, <1>16, <1>17 DEF IInv, Shape
<1> QED
  BY <1>4, <1>7, <1>19, <1>20, <1>21 DEF IInv

LEMMA StepsKeep ==
  ASSUME Signs!GrantsFit, IInv, [Signs!Next]_(Signs!signVars)
  PROVE IInv'
<1>1. CASE UNCHANGED Signs!signVars
  <2>1. Shape'
    BY <1>1 DEF IInv, Shape, Signs!signVars
  <2> QED
    BY <2>1, <1>1 DEF IInv, Signs!signVars
<1>2. ASSUME NEW t \in Tqls, Signs!Close(t) \/ \E c \in DOMAIN Connections : Signs!Open(t, c) \/ Signs!SignOut(t, c)
      PROVE IInv'
  BY <1>2, CloseKeeps, OpenKeeps, SignOutKeeps
<1>3. ASSUME NEW t \in Tqls, NEW h \in Threads[t],
             Signs!Refresh(t, h) \/ Signs!SignIn(t, h) \/ Signs!SignInBySso(t, h) \/ Signs!TimesOut(t, h) \/ Signs!Exchange(t, h) \/ Signs!LogIn(t, h)
      PROVE IInv'
  BY <1>3, RefreshKeeps, ListensKeeps, TimesOutKeeps, ExchangeKeeps DEF Signs!SignIn, Signs!SignInBySso
<1>4. ASSUME NEW t \in Tqls, NEW h \in Threads[t],
             Signs!Remember(t, h) \/ Signs!Ask(t, h) \/ Signs!Take(t, h) \/ Signs!Answer(t, h) \/ Signs!Renew(t, h)
             \/ \E a \in 1..Len(attempts) : Signs!Arrive(t, h, a) \/ Signs!Catch(t, h, a)
      PROVE IInv'
  BY <1>4, RememberKeeps, AskKeeps, TakeKeeps, AnswerKeeps, RenewKeeps, ArriveKeeps
<1>5. ASSUME NEW c \in DOMAIN Connections, Signs!Edit(c)
      PROVE IInv'
  BY <1>5, EditKeeps
<1> QED
  BY <1>1, <1>2, <1>3, <1>4, <1>5 DEF Signs!Next

\* What the properties say follows
LEMMA Follows ==
  ASSUME Signs!GrantsFit, IInv
  PROVE Signs!RunsAsAsked /\ Signs!OneRenews /\ Signs!EndsByItsOwn /\ Signs!SavedIsTheLast
<1>1. ASSUME NEW t \in Tqls, NEW h \in Threads[t]
      PROVE Thr(tql[t].session, work[t][h], h, grants, attempts)
  BY <1>1, Facts
<1>2. Signs!RunsAsAsked
  BY <1>1 DEF Signs!RunsAsAsked, Thr
<1>3. \A t \in Tqls : \A h \in Threads[t] : Signs!Renewing(t, h) <=> tql[t].session.holder = h
  BY <1>1 DEF Thr, Signs!Renewing, Busy
<1>4. Signs!OneRenews
  <2> SUFFICES ASSUME NEW t \in Tqls, NEW h \in Threads[t], Signs!Renewing(t, h)
               PROVE /\ \A g \in Threads[t] \ {h} : ~Signs!Renewing(t, g)
                     /\ work[t][h].why = "renew" /\ work[t][h].at # "remember" => tql[t].session.tokens.access = work[t][h].token
    BY DEF Signs!OneRenews
  <2>1. \A g \in Threads[t] \ {h} : ~Signs!Renewing(t, g)
    BY <1>3
  <2>2. Thr(tql[t].session, work[t][h], h, grants, attempts) /\ Busy(work[t][h])
    BY <1>1 DEF Signs!Renewing, Busy
  <2> QED
    BY <2>1, <2>2 DEF Thr
<1>5. Signs!EndsByItsOwn
  BY <1>1 DEF Signs!EndsByItsOwn, Thr
<1>6. Signs!SavedIsTheLast
  <2> SUFFICES ASSUME NEW t \in Tqls, tql[t].session.phase = "open", tql[t].session.holder = "nobody", tql[t].session.tokens.refresh # 0,
                      rows[tql[t].session.row].signIn.by = t
               PROVE rows[tql[t].session.row].signIn.refresh = tql[t].session.tokens.refresh
    BY DEF Signs!SavedIsTheLast, Signs!None
  <2>1. Svd(t, tql[t].session, work[t], rows) /\ Sess(tql[t].session, grants)
    BY DEF IInv, OneTql
  <2>2. \A h \in Threads[t] : work[t][h].at # "remember"
    <3>1. ASSUME NEW h \in Threads[t]
          PROVE ~Signs!Renewing(t, h)
      BY <1>3 DEF Signs!GrantsFit
    <3> QED
      BY <3>1 DEF Signs!Renewing
  <2>3. tql[t].session.kind = "oauth"
    BY <2>1 DEF Sess, Sessions
  <2> QED
    BY <2>1, <2>2, <2>3 DEF Svd
<1> QED
  BY <1>2, <1>4, <1>5, <1>6

LEMMA SignInsInvariant ==
  ASSUME Signs!GrantsFit
  PROVE Signs!Spec => []IInv
BY InitKeeps, StepsKeep, PTL DEF Signs!Spec

\* A request goes out with a token for the account and the role its connection had when it was opened
\* (snowflake_oauth.rs start, renewed and remember), whatever was saved with the connection, remembered by
\* the tql or edited since, and whatever came back to the port.
THEOREM RequestsRunAsAsked == ASSUME Signs!GrantsFit PROVE Signs!Spec => []Signs!RunsAsAsked
BY SignInsInvariant, Follows, PTL

\* Of the threads of a tql one renews the session at a time, and one that was refused renews only while
\* the token it was refused with is the one at hand (snowflake_oauth.rs renew).
THEOREM OneThreadRenews == ASSUME Signs!GrantsFit PROVE Signs!Spec => []Signs!OneRenews
BY SignInsInvariant, Follows, PTL

\* A sign-in is ended by its own answer, however late those of others come to its port (snowflake_oauth.rs answered).
THEOREM SignInsEndByTheirOwn == ASSUME Signs!GrantsFit PROVE Signs!Spec => []Signs!EndsByItsOwn
BY SignInsInvariant, Follows, PTL

\* What a tql wrote last with a connection is the token it could renew with, whichever write failed
\* (snowflake_oauth.rs remember).
THEOREM WrittenIsTheLast == ASSUME Signs!GrantsFit PROVE Signs!Spec => []Signs!SavedIsTheLast
BY SignInsInvariant, Follows, PTL
=============================================================================
