------------------------------- MODULE Store -------------------------------
(***************************************************************************)
(* tql's store and key (src/app/store_writer.rs, src/app/encrypter.rs):     *)
(* processes of tql create the store or bring its schema up to date as they *)
(* start, and encrypt secrets with a key the first that needs one writes.   *)
(* SQLite serialises statements and transactions: each is a step here.      *)
(***************************************************************************)
EXTENDS Naturals, Sequences, SequencesExt

CONSTANTS
  Procs,
  Migrations,   \* in order: names of migrations, each for the object of its name
  Skipping,     \* those that look first whether their object is there
  InSchema,     \* the objects the schema creates, in order, for a new store
  MaxStarts,    \* how often a process of tql starts: bounds the model
  MayCrash,
  CrashCreating \* whether a crash may come while the schema is created

\* Migrations have names of their own, there are some, and the schema makes what each is for
SchemaFits ==
  /\ Migrations \in Seq(ToSet(Migrations)) /\ InSchema \in Seq(ToSet(InSchema))
  /\ Migrations # <<>> /\ ToSet(Migrations) \subseteq ToSet(InSchema)
  /\ \A i, j \in DOMAIN Migrations : Migrations[i] = Migrations[j] => i = j

\* each object once, and first of all what the first migration is for, which fails if it is there
CreatedFirst ==
  /\ \A i, j \in DOMAIN InSchema : InSchema[i] = InSchema[j] => i = j
  /\ InSchema[1] = Migrations[1] /\ Migrations[1] \notin Skipping

\* "none" and "empty" are no process, nor a key that one has written
KeysFit == Procs \cap {"none", "empty"} = {}

VARIABLES
  store,  \* whether the file is there, its objects, and the migrations noted as run
  key,    \* the key in its file: the process that wrote it, "empty" or "none"
  secrets,\* the keys that the stored secrets are encrypted with
  proc,   \* what each process is at, the places in order it has left to do, the key it has read
  starts,
  raced   \* whether a process found no key while another set about writing one

storeVars == <<store, key, secrets, proc, starts, raced>>

Off == [at |-> "off", todo |-> {}, key |-> "none"]

Init ==
  /\ \E old \in 0..Len(Migrations) :
       store = [is |-> old > 0,
                has |-> ToSet(SubSeq(Migrations, 1, old)), ran |-> ToSet(SubSeq(Migrations, 1, old))]
  /\ key = "none" /\ secrets = {} /\ raced = FALSE /\ starts = 0
  /\ proc = [p \in Procs |-> Off]

At(p, place) == proc[p].at = place
Goes(p, place, todo) == proc' = [proc EXCEPT ![p] = [@ EXCEPT !.at = place, !.todo = todo]]
Fails(p) == proc' = [proc EXCEPT ![p] = Off]

\* The first of the places left, and those after it
First(p) == CHOOSE i \in proc[p].todo : \A j \in proc[p].todo : i <= j
Rest(p) == proc[p].todo \ {First(p)}

-----------------------------------------------------------------------------
\* StoreWriter::prepare

\* A store that is there is migrated; else its file is created, empty, and then the schema
Prepare(p) ==
  /\ At(p, "off") /\ starts < MaxStarts /\ starts' = starts + 1
  /\ IF store.is THEN Goes(p, "migrating", {}) /\ UNCHANGED store
     ELSE /\ Goes(p, "creating", DOMAIN InSchema)
          /\ store' = [store EXCEPT !.is = TRUE]
  /\ UNCHANGED <<key, secrets, raced>>

\* The next statement of the schema: "create table", which fails for a table that is there,
\* and when all are made the notes that every migration ran, one "insert" each
CreateNext(p) ==
  /\ At(p, "creating")
  /\ \/ /\ proc[p].todo # {} /\ InSchema[First(p)] \in store.has
        /\ Fails(p) /\ UNCHANGED store
     \/ /\ proc[p].todo # {} /\ InSchema[First(p)] \notin store.has
        /\ store' = [store EXCEPT !.has = @ \cup {InSchema[First(p)]}]
        /\ Goes(p, "creating", Rest(p))
     \/ /\ proc[p].todo = {}
        /\ Goes(p, "noting", DOMAIN Migrations) /\ UNCHANGED store
  /\ UNCHANGED <<key, secrets, starts, raced>>

NoteNext(p) ==
  /\ At(p, "noting")
  /\ store' = [store EXCEPT !.ran = @ \cup {Migrations[First(p)]}]
  /\ Goes(p, IF Rest(p) = {} THEN "ready" ELSE "noting", Rest(p))
  /\ UNCHANGED <<key, secrets, starts, raced>>

\* The table of migrations is created if it is not there, and then read
ReadRan(p) ==
  /\ At(p, "migrating")
  /\ LET pending == {i \in DOMAIN Migrations : Migrations[i] \notin store.ran} IN
     Goes(p, IF pending = {} THEN "ready" ELSE "pending", pending)
  /\ UNCHANGED <<store, key, secrets, starts, raced>>

\* The migration and the note that it ran are one transaction
MigrateUnnoted(p) ==
  /\ At(p, "pending")
  /\ LET m == Migrations[First(p)] rest == IF m \in store.has THEN Rest(p) ELSE proc[p].todo IN
     IF m \in store.has /\ m \notin Skipping THEN Fails(p) /\ UNCHANGED store
     ELSE /\ store' = [store EXCEPT !.has = @ \cup {m}, !.ran = IF m \in store.has THEN @ \cup {m} ELSE @]
          /\ Goes(p, IF rest = {} THEN "ready" ELSE "pending", rest)
  /\ UNCHANGED <<key, secrets, starts, raced>>

Migrate(p) ==
  /\ At(p, "pending")
  /\ LET m == Migrations[First(p)] IN
     IF m \in store.has /\ m \notin Skipping THEN Fails(p) /\ UNCHANGED store
     ELSE /\ store' = [store EXCEPT !.has = @ \cup {m}, !.ran = @ \cup {m}]
          /\ Goes(p, IF Rest(p) = {} THEN "ready" ELSE "pending", Rest(p))
  /\ UNCHANGED <<key, secrets, starts, raced>>

-----------------------------------------------------------------------------
\* StoreWriter::create and update with a secret: Encrypter::ensure, then the statement

Writing == \E q \in Procs : proc[q].at \in {"keying", "writing"}
EnsureAnew(p) ==
  /\ At(p, "ready") /\ Goes(p, "keying", {})
  /\ raced' = (raced \/ (key = "none" /\ Writing))
  /\ UNCHANGED <<store, key, secrets, starts>>

Ensure(p) ==
  /\ At(p, "ready")
  /\ Goes(p, IF key = "none" THEN "keying" ELSE "reading", {})
  /\ raced' = (raced \/ (key = "none" /\ Writing))
  /\ UNCHANGED <<store, key, secrets, starts>>

\* write_new_key: the file is emptied, and then written
EmptyKey(p) ==
  /\ At(p, "keying") /\ key' = "empty"
  /\ Goes(p, "writing", {})
  /\ UNCHANGED <<store, secrets, starts, raced>>

WriteKey(p) ==
  /\ At(p, "writing") /\ key' = p /\ Goes(p, "reading", {})
  /\ UNCHANGED <<store, secrets, starts, raced>>

\* A key that is not 32 bytes is an error, and nothing is stored
ReadKey(p) ==
  /\ At(p, "reading")
  /\ proc' = [proc EXCEPT ![p] = [@ EXCEPT !.at = IF key = "empty" THEN "ready" ELSE "saving", !.key = key]]
  /\ UNCHANGED <<store, key, secrets, starts, raced>>

SaveSecret(p) ==
  /\ At(p, "saving") /\ secrets' = secrets \cup {proc[p].key} /\ Goes(p, "ready", {})
  /\ UNCHANGED <<store, key, starts, raced>>

\* The process ends, or dies
Stop(p) ==
  /\ proc[p].at # "off"
  /\ At(p, "ready") \/ MayCrash
  /\ proc[p].at \in {"creating", "noting"} => CrashCreating
  /\ Fails(p)
  /\ UNCHANGED <<store, key, secrets, starts, raced>>

Next == \E p \in Procs :
  \/ Prepare(p) \/ CreateNext(p) \/ NoteNext(p) \/ ReadRan(p) \/ Migrate(p)
  \/ Ensure(p) \/ EmptyKey(p) \/ WriteKey(p) \/ ReadKey(p) \/ SaveSecret(p) \/ Stop(p)

Spec == Init /\ [][Next]_storeVars

-----------------------------------------------------------------------------
\* A process that has prepared the store finds in it everything the schema has
ReadyIsWhole ==
  \A p \in Procs : proc[p].at \in {"ready", "keying", "writing", "reading", "saving"} =>
    ToSet(Migrations) \subseteq store.has

\* However many processes start at once, and wherever those that migrate die: when none is
\* preparing the store, the next to start is not refused by what they left
ComesUpAgain ==
  (\A p \in Procs : proc[p].at \notin {"creating", "noting", "pending"}) =>
    \A m \in ToSet(Migrations) \ store.ran : m \in store.has => m \in Skipping

\* A secret only ever loses its key when a process found none while another was writing one
SecretsReadable == raced \/ secrets \subseteq {key}

StoreSurvives == ReadyIsWhole /\ ComesUpAgain /\ SecretsReadable
=============================================================================
