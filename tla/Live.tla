-------------------------------- MODULE Live --------------------------------
(***************************************************************************)
(* The live directory (app/live.rs): how an open tql is found by an agent, *)
(* how an agent hands it SQL, and how an agent asks it for its screen.     *)
(*                                                                         *)
(* Every open tql keeps a registration file there and holds an flock on    *)
(* it.  Agents are separate processes: they list the registrations, sweep  *)
(* away those whose lock they can take (their process is dead), choose the *)
(* one used last on the connection they name, and talk to it through three *)
(* files that bear its name: the mailbox (.sql), the request (.ask) and    *)
(* the reply (.screen).  Every file operation is a step of its own, so     *)
(* processes interleave between them; a tql may quit or crash anywhere.    *)
(* A file that is opened stays the file it was when it is renamed or       *)
(* removed: so a lock may be taken on a registration that is gone, and SQL *)
(* may be written to a file another agent has made the mailbox by then.    *)
(*                                                                         *)
(* A process id and a counter name the files, so a name stands for one     *)
(* opening of one tql; here it is the element t of Tqls.                   *)
(***************************************************************************)
EXTENDS Integers, Sequences, FiniteSets

CONSTANTS
  Tqls,          \* openings of tql, each with a file name of its own
  Agents,        \* processes that call write-sql-tool or read-screen-tool
  Connections,   \* names of saved connections
  ConnectionOf,  \* the connection each tql is opened on
  FreshenEvery,  \* FRESHEN_EVERY, in ticks of the clock
  MaxTime,       \* bound on the clock
  MaxCalls,      \* bound on the calls an agent makes
  MayQuit,       \* whether a user may close a tql
  MayCrash       \* whether a tql may be killed

ASSUME ConstantsAssumption ==
  /\ ConnectionOf \in [Tqls -> Connections]
  /\ FreshenEvery \in Nat \ {0} /\ MaxTime \in Nat /\ MaxCalls \in Nat
  /\ MayQuit \in BOOLEAN /\ MayCrash \in BOOLEAN
  /\ Tqls \cap Agents = {}

VARIABLES
  \* the files of each tql in the live directory
  registration,  \* whether <t>.json is there
  lock,          \* who holds the flock on it
  modified,      \* its modification time
  unread,        \* <t>.sql.new, written by agents before the rename
  mailbox,       \* <t>.sql
  request,       \* whether <t>.ask is there
  reply,         \* <t>.screen: the number of the screen in it, 0 if absent
  handle,        \* what the file an agent has open for its SQL is called now
  \* the processes that are a tql
  phase,         \* where the process stands
  freshened,     \* when it last touched its registration
  holding,       \* the SQL it read from its mailbox and has not written yet
  editor,        \* every SQL its editor was given, in order
  screens,       \* how many screens it has described for an agent
  \* the processes that are an agent
  at,            \* where the agent's call stands
  call,          \* the tool it calls and the connection it names
  calls,         \* how many calls it has made
  toLook,        \* registrations its listing has still to look at
  seen,          \* the open ones it found
  target,        \* the tql it chose
  \* the clock, and what the properties remember
  now,           \* the time
  lastUse,       \* when its user last used each tql
  told,          \* what each deliver told its agent
  openSince,     \* the tqls open ever since the agent's call began
  asked,         \* how many screens the target had described at the request
  gaveUp,        \* whether a read_screen ever gave up
  handed         \* all that was ever in each mailbox

files  == <<registration, lock, modified, unread, mailbox, request, reply, handle>>
tqls   == <<phase, freshened, holding, editor, screens>>
agents == <<at, call, calls, toLook, seen, target>>
memory == <<lastUse, told, openSince, asked, gaveUp, handed>>
vars   == <<files, tqls, agents, now, memory>>

NoOne  == "no one"
ASSUME NoOneAssumption == NoOne \notin Tqls \cup Agents

NoSQL  == <<"no sql", 0>>
\* What is in a file that is not the whole SQL of one call: nothing yet, or
\* the first of it; and one text written over another
Unwritten == <<"unwritten", 0>>
Mixed     == <<"mixed", 0>>
Pieces    == {Unwritten, Mixed}

NoCall == [tool |-> "none", connection |-> "none"]

Processes  == Tqls \cup Agents
Statements == Agents \X (1 .. MaxCalls)   \* the n-th call of an agent
Contents   == Statements \cup Pieces
Handles    == {"none", "unread", "mailbox", "unlinked"}
Times      == 0 .. MaxTime

Phases == {"closed", "locked", "open", "taking", "describing", "answering",
           "drop_request", "drop_reply", "unlinking", "unlocking",
           "gone", "crashed"}
Alive  == Phases \ {"closed", "gone", "crashed"}
\* Between its rename into place and the removal of its own files
Serving == {"open", "taking", "describing", "answering"}

Sweeping == {"sweep_mailbox", "sweep_request", "sweep_reply",
             "sweep_registration", "swept"}
Steps == {"idle", "looking", "opened", "writing", "truncated", "handing",
          "waiting", "clearing", "asking", "listening", "reading"} \cup Sweeping

Tools == {"deliver", "read_screen"}
Verdicts == {"in the editor", "busy", "not handed over", "not open"}

\* Mutant of SQL: the calls of an agent are not told apart
SQLOfAgent(a) == <<a, 0>>

\* The statement an agent's current deliver carries
SQL(a) == <<a, calls[a]>>

Init ==
  /\ registration = [t \in Tqls |-> FALSE]
  /\ lock = [t \in Tqls |-> NoOne]
  /\ modified = [t \in Tqls |-> 0]
  /\ unread = [t \in Tqls |-> NoSQL]
  /\ mailbox = [t \in Tqls |-> NoSQL]
  /\ request = [t \in Tqls |-> FALSE]
  /\ reply = [t \in Tqls |-> 0]
  /\ handle = [a \in Agents |-> "none"]
  /\ phase = [t \in Tqls |-> "closed"]
  /\ freshened = [t \in Tqls |-> 0]
  /\ holding = [t \in Tqls |-> NoSQL]
  /\ editor = [t \in Tqls |-> <<>>]
  /\ screens = [t \in Tqls |-> 0]
  /\ at = [a \in Agents |-> "idle"]
  /\ call = [a \in Agents |-> NoCall]
  /\ calls = [a \in Agents |-> 0]
  /\ toLook = [a \in Agents |-> {}]
  /\ seen = [a \in Agents |-> {}]
  /\ target = [a \in Agents |-> NoOne]
  /\ now = 0
  /\ lastUse = [t \in Tqls |-> 0]
  /\ told = {}
  /\ openSince = [a \in Agents |-> {}]
  /\ asked = [a \in Agents |-> 0]
  /\ gaveUp = FALSE
  /\ handed = [t \in Tqls |-> {}]

-----------------------------------------------------------------------------
(* The process that is a tql.  It has one thread: it reads its mailbox and *)
(* its requests only when idle, so these steps never overlap one another.  *)

\* Mutant of Lock: the registration is never locked
LockNothing(t) ==
  /\ phase[t] = "closed"
  /\ phase' = [phase EXCEPT ![t] = "locked"]
  /\ UNCHANGED <<files, freshened, holding, editor, screens, agents, now, memory>>

\* Live::register up to the lock: <t>.json.new is written and locked, under
\* a name no agent lists
Lock(t) ==
  /\ phase[t] = "closed"
  /\ phase' = [phase EXCEPT ![t] = "locked"]
  /\ lock' = [lock EXCEPT ![t] = t]
  /\ modified' = [modified EXCEPT ![t] = now]
  /\ lastUse' = [lastUse EXCEPT ![t] = now]
  /\ UNCHANGED <<registration, unread, mailbox, request, reply, handle, freshened,
                 holding, editor, screens, agents, now, told, openSince,
                 asked, gaveUp, handed>>

\* The rest of Live::register: the rename to <t>.json, lock and all
Publish(t) ==
  /\ phase[t] = "locked"
  /\ phase' = [phase EXCEPT ![t] = "open"]
  /\ registration' = [registration EXCEPT ![t] = TRUE]
  /\ freshened' = [freshened EXCEPT ![t] = now]
  /\ UNCHANGED <<lock, modified, unread, mailbox, request, reply, handle, holding,
                 editor, screens, agents, now, memory>>

\* Mutant of Used: the registration is touched one tick too late
UsedTooLate(t) ==
  /\ phase[t] = "open"
  /\ lastUse' = [lastUse EXCEPT ![t] = now]
  /\ \/ now - freshened[t] <= FreshenEvery /\ UNCHANGED <<freshened, modified>>
     \/ /\ now - freshened[t] > FreshenEvery
        /\ freshened' = [freshened EXCEPT ![t] = now]
        /\ modified' = [modified EXCEPT ![t] = now]
  /\ UNCHANGED <<registration, lock, unread, mailbox, request, reply, handle, phase,
                 holding, editor, screens, agents, now, told, openSince,
                 asked, gaveUp, handed>>

\* A key, a paste or a click: Live::used touches the registration, at most
\* once every FreshenEvery
Used(t) ==
  /\ phase[t] = "open"
  /\ lastUse' = [lastUse EXCEPT ![t] = now]
  /\ \/ /\ now - freshened[t] < FreshenEvery
        /\ UNCHANGED <<freshened, modified>>
     \/ /\ now - freshened[t] >= FreshenEvery
        /\ freshened' = [freshened EXCEPT ![t] = now]
        /\ modified' = [modified EXCEPT ![t] = IF registration[t] THEN now ELSE @]
  /\ UNCHANGED <<registration, lock, unread, mailbox, request, reply, handle, phase,
                 holding, editor, screens, agents, now, told, openSince,
                 asked, gaveUp, handed>>

\* Live::take, its read_to_string
ReadMailbox(t) ==
  /\ phase[t] = "open"
  /\ mailbox[t] # NoSQL
  /\ phase' = [phase EXCEPT ![t] = "taking"]
  /\ holding' = [holding EXCEPT ![t] = mailbox[t]]
  /\ UNCHANGED <<files, freshened, editor, screens, agents, now, memory>>

\* The mailbox of t is removed: who has that file open writes to no name
Unlink(t) ==
  /\ mailbox' = [mailbox EXCEPT ![t] = NoSQL]
  /\ handle' = [a \in Agents |->
       IF target[a] = t /\ handle[a] = "mailbox" THEN "unlinked" ELSE handle[a]]

\* Mutant of EmptyMailbox: the mailbox is read and never removed
EmptyNothing(t) ==
  /\ phase[t] = "taking"
  /\ phase' = [phase EXCEPT ![t] = "open"]
  /\ holding' = [holding EXCEPT ![t] = NoSQL]
  /\ editor' = [editor EXCEPT ![t] = Append(@, holding[t])]
  /\ Len(editor[t]) < 2 * MaxCalls
  /\ UNCHANGED <<files, freshened, screens, agents, now, memory>>

\* Mutant of EmptyMailbox: SQL that arrives is taken and never written
EmptyUnwritten(t) ==
  /\ phase[t] = "taking"
  /\ phase' = [phase EXCEPT ![t] = "open"]
  /\ Unlink(t)
  /\ holding' = [holding EXCEPT ![t] = NoSQL]
  /\ UNCHANGED <<registration, lock, modified, unread, request, reply, editor,
                 freshened, screens, agents, now, memory>>

\* Live::take, its remove_file; the browser then writes the SQL in its
\* editor (Browser::write_from_agent)
EmptyMailbox(t) ==
  /\ phase[t] = "taking"
  /\ phase' = [phase EXCEPT ![t] = "open"]
  /\ Unlink(t)
  /\ holding' = [holding EXCEPT ![t] = NoSQL]
  /\ editor' = [editor EXCEPT ![t] = Append(@, holding[t])]
  /\ UNCHANGED <<registration, lock, modified, unread, request, reply,
                 freshened, screens, agents, now, memory>>

\* Browser::answer_agent: nothing to take, a request there, so the browser
\* describes its screen (or refuses to)
Describe(t) ==
  /\ phase[t] = "open"
  /\ mailbox[t] = NoSQL
  /\ request[t]
  /\ phase' = [phase EXCEPT ![t] = "describing"]
  /\ screens' = [screens EXCEPT ![t] = @ + 1]
  /\ UNCHANGED <<files, freshened, holding, editor, agents, now, memory>>

\* Live::answer, up to the rename of the reply into place
WriteReply(t) ==
  /\ phase[t] = "describing"
  /\ phase' = [phase EXCEPT ![t] = "answering"]
  /\ reply' = [reply EXCEPT ![t] = screens[t]]
  /\ UNCHANGED <<registration, lock, modified, unread, mailbox, request, handle,
                 freshened, holding, editor, screens, agents, now, memory>>

\* Mutant of RemoveRequest: an answered request stays, and is answered again
RequestStays(t) ==
  /\ phase[t] = "answering"
  /\ screens[t] < 2 * MaxCalls
  /\ phase' = [phase EXCEPT ![t] = "open"]
  /\ UNCHANGED <<files, freshened, holding, editor, screens, agents, now, memory>>

\* Live::answer, its last line
RemoveRequest(t) ==
  /\ phase[t] = "answering"
  /\ phase' = [phase EXCEPT ![t] = "open"]
  /\ request' = [request EXCEPT ![t] = FALSE]
  /\ UNCHANGED <<registration, lock, modified, unread, mailbox, reply, handle,
                 freshened, holding, editor, screens, agents, now, memory>>

\* Drop for Live, one file after the other: the mailbox,
DropMailbox(t) ==
  /\ MayQuit
  /\ phase[t] = "open"
  /\ phase' = [phase EXCEPT ![t] = "drop_request"]
  /\ Unlink(t)
  /\ openSince' = [a \in Agents |-> openSince[a] \ {t}]
  /\ UNCHANGED <<registration, lock, modified, unread, request, reply,
                 freshened, holding, editor, screens, agents, now, told,
                 lastUse, asked, gaveUp, handed>>

\* the request,
DropRequest(t) ==
  /\ phase[t] = "drop_request"
  /\ phase' = [phase EXCEPT ![t] = "drop_reply"]
  /\ request' = [request EXCEPT ![t] = FALSE]
  /\ UNCHANGED <<registration, lock, modified, unread, mailbox, reply, handle,
                 freshened, holding, editor, screens, agents, now, memory>>

\* the reply,
DropReply(t) ==
  /\ phase[t] = "drop_reply"
  /\ phase' = [phase EXCEPT ![t] = "unlinking"]
  /\ reply' = [reply EXCEPT ![t] = 0]
  /\ UNCHANGED <<registration, lock, modified, unread, mailbox, request, handle,
                 freshened, holding, editor, screens, agents, now, memory>>

\* the registration,
DropRegistration(t) ==
  /\ phase[t] = "unlinking"
  /\ phase' = [phase EXCEPT ![t] = "unlocking"]
  /\ registration' = [registration EXCEPT ![t] = FALSE]
  /\ UNCHANGED <<lock, modified, unread, mailbox, request, reply, handle,
                 freshened, holding, editor, screens, agents, now, memory>>

\* and the lock on what was the registration
Unlock(t) ==
  /\ phase[t] = "unlocking"
  /\ phase' = [phase EXCEPT ![t] = "gone"]
  /\ lock' = [lock EXCEPT ![t] = NoOne]
  /\ UNCHANGED <<registration, modified, unread, mailbox, request, reply, handle,
                 freshened, holding, editor, screens, agents, now, memory>>

\* The process is killed: the system releases its lock, its files stay
Crash(t) ==
  /\ MayCrash
  /\ phase[t] \in Alive
  /\ phase' = [phase EXCEPT ![t] = "crashed"]
  /\ lock' = [lock EXCEPT ![t] = NoOne]
  /\ openSince' = [a \in Agents |-> openSince[a] \ {t}]
  /\ UNCHANGED <<registration, modified, unread, mailbox, request, reply, handle,
                 freshened, holding, editor, screens, agents, now, lastUse,
                 told, asked, gaveUp, handed>>

-----------------------------------------------------------------------------
(* The process that is an agent.  A call lists the registrations and looks *)
(* at them one by one (open_ones), chooses one (chosen), and then delivers *)
(* SQL to it or asks it for its screen.                                    *)

Go(a, from, to) == at[a] = from /\ at' = [at EXCEPT ![a] = to]

Tell(a, verdict) ==
  told' = told \cup
    {[sql |-> SQL(a), verdict |-> verdict, by |-> target[a], open |-> openSince[a]]}

\* A call begins with the listing of the directory
Call(a) ==
  \E tool \in Tools, c \in Connections :
    /\ calls[a] < MaxCalls
    /\ Go(a, "idle", "looking")
    /\ call' = [call EXCEPT ![a] = [tool |-> tool, connection |-> c]]
    /\ calls' = [calls EXCEPT ![a] = @ + 1]
    /\ toLook' = [toLook EXCEPT ![a] = {t \in Tqls : registration[t]}]
    /\ seen' = [seen EXCEPT ![a] = {}]
    /\ target' = [target EXCEPT ![a] = NoOne]
    /\ openSince' = [openSince EXCEPT ![a] =
         {t \in Tqls : phase[t] \in Serving /\ ConnectionOf[t] = c}]
    /\ UNCHANGED <<files, tqls, now, lastUse, told, asked, gaveUp, handed>>

\* A listed registration that is gone by now is passed over
LookMissing(a, t) ==
  /\ at[a] = "looking" /\ t \in toLook[a] /\ ~registration[t]
  /\ toLook' = [toLook EXCEPT ![a] = @ \ {t}]
  /\ UNCHANGED <<files, tqls, at, call, calls, seen, target, now, memory>>

\* The others are opened
LookOpen(a, t) ==
  /\ Go(a, "looking", "opened")
  /\ t \in toLook[a] /\ registration[t]
  /\ toLook' = [toLook EXCEPT ![a] = @ \ {t}]
  /\ target' = [target EXCEPT ![a] = t]
  /\ UNCHANGED <<files, tqls, call, calls, seen, now, memory>>

\* What an agent reads of a registration, if it is still there
Entry(t) ==
  IF registration[t]
  THEN {[tql |-> t, used |-> modified[t], lastUse |-> lastUse[t]]}
  ELSE {}

\* The lock is held: the agent reads the connection and the time of use,
\* unless the registration is gone meanwhile
LookHeld(a) ==
  /\ Go(a, "opened", "looking")
  /\ lock[target[a]] # NoOne
  /\ seen' = [seen EXCEPT ![a] = @ \cup Entry(target[a])]
  /\ target' = [target EXCEPT ![a] = NoOne]
  /\ UNCHANGED <<files, tqls, call, calls, toLook, now, memory>>

\* Mutant of LookFree: sweeps without asking for the lock
LookFreely(a) ==
  /\ Go(a, "opened", "sweep_mailbox")
  /\ lock' = [lock EXCEPT ![target[a]] = a]
  /\ UNCHANGED <<registration, modified, unread, mailbox, request, reply, handle,
                 tqls, call, calls, toLook, seen, target, now, memory>>

\* The lock is free: the agent takes it, to sweep what a tql left; that of a
\* tql that quit too, whose registration is gone since the agent opened it
LookFree(a) ==
  /\ Go(a, "opened", "sweep_mailbox")
  /\ lock[target[a]] = NoOne
  /\ lock' = [lock EXCEPT ![target[a]] = a]
  /\ UNCHANGED <<registration, modified, unread, mailbox, request, reply, handle,
                 tqls, call, calls, toLook, seen, target, now, memory>>

\* The sweep: one leftover after the other,
SweepMailbox(a) ==
  /\ Go(a, "sweep_mailbox", "sweep_request")
  /\ Unlink(target[a])
  /\ UNCHANGED <<registration, lock, modified, unread, request, reply, tqls,
                 call, calls, toLook, seen, target, now, memory>>

SweepRequest(a) ==
  /\ Go(a, "sweep_request", "sweep_reply")
  /\ request' = [request EXCEPT ![target[a]] = FALSE]
  /\ UNCHANGED <<registration, lock, modified, unread, mailbox, reply, handle,
                 tqls, call, calls, toLook, seen, target, now, memory>>

SweepReply(a) ==
  /\ Go(a, "sweep_reply", "sweep_registration")
  /\ reply' = [reply EXCEPT ![target[a]] = 0]
  /\ UNCHANGED <<registration, lock, modified, unread, mailbox, request, handle,
                 tqls, call, calls, toLook, seen, target, now, memory>>

\* the registration,
SweepRegistration(a) ==
  /\ Go(a, "sweep_registration", "swept")
  /\ registration' = [registration EXCEPT ![target[a]] = FALSE]
  /\ UNCHANGED <<lock, modified, unread, mailbox, request, reply, handle, tqls,
                 call, calls, toLook, seen, target, now, memory>>

\* and closing it releases the lock
Release(a) ==
  /\ Go(a, "swept", "looking")
  /\ lock' = [lock EXCEPT ![target[a]] = NoOne]
  /\ target' = [target EXCEPT ![a] = NoOne]
  /\ UNCHANGED <<registration, modified, unread, mailbox, request, reply, handle,
                 tqls, call, calls, toLook, seen, now, memory>>

\* The open ones on the connection the agent names
Candidates(a) == {s \in seen[a] : ConnectionOf[s.tql] = call[a].connection}

\* chosen: the candidate whose registration was touched last, any one of them
\* on a tie
Choose(a) ==
  \E s \in Candidates(a) :
    /\ toLook[a] = {}
    /\ \A other \in Candidates(a) : other.used <= s.used
    /\ Go(a, "looking", IF call[a].tool = "deliver" THEN "writing" ELSE "clearing")
    /\ target' = [target EXCEPT ![a] = s.tql]
    /\ UNCHANGED <<files, tqls, call, calls, toLook, seen, now, memory>>

\* Mutant of ChooseNone: says so as soon as no candidate was found so far
ChooseNoneEarly(a) ==
  /\ Candidates(a) = {}
  /\ Go(a, "looking", "idle")
  /\ Tell(a, "not open")
  /\ UNCHANGED <<files, tqls, call, calls, toLook, seen, target, now, lastUse,
                 openSince, asked, gaveUp, handed>>

\* chosen: no candidate, so the agent is told tql is not open there
ChooseNone(a) ==
  /\ toLook[a] = {} /\ Candidates(a) = {}
  /\ Go(a, "looking", "idle")
  /\ Tell(a, "not open")
  /\ UNCHANGED <<files, tqls, call, calls, toLook, seen, target, now, lastUse,
                 openSince, asked, gaveUp, handed>>

\* Mutant of OpenUnread: the SQL is written to the mailbox itself
OpenMailbox(a) ==
  /\ Go(a, "writing", "truncated")
  /\ mailbox' = [mailbox EXCEPT ![target[a]] = Unwritten]
  /\ handed' = [handed EXCEPT ![target[a]] = @ \cup {Unwritten}]
  /\ handle' = [handle EXCEPT ![a] = "mailbox"]
  /\ UNCHANGED <<registration, lock, modified, unread, request, reply, tqls,
                 call, calls, toLook, seen, target, now, lastUse, told,
                 openSince, asked, gaveUp>>

\* deliver opens <t>.sql.new, and cuts off whatever another agent left there,
OpenUnread(a) ==
  /\ Go(a, "writing", "truncated")
  /\ unread' = [unread EXCEPT ![target[a]] = Unwritten]
  /\ handle' = [handle EXCEPT ![a] = "unread"]
  /\ UNCHANGED <<registration, lock, modified, mailbox, request, reply, tqls,
                 call, calls, toLook, seen, target, now, memory>>

\* What is in a file once sql is written over what another wrote: sql, or if
\* that was longer its end as well
Over(old, sql) == IF old = Unwritten THEN {sql} ELSE {sql, Mixed}

\* writes its SQL there, wherever another agent has moved that file to,
WriteUnread(a) ==
  /\ Go(a, "truncated", "handing")
  /\ handle' = [handle EXCEPT ![a] = "none"]
  /\ \/ /\ handle[a] = "unread"
        /\ \E sql \in Over(unread[target[a]], SQL(a)) :
             unread' = [unread EXCEPT ![target[a]] = sql]
        /\ UNCHANGED <<mailbox, handed>>
     \/ /\ handle[a] = "mailbox"
        /\ \E sql \in Over(mailbox[target[a]], SQL(a)) :
             /\ mailbox' = [mailbox EXCEPT ![target[a]] = sql]
             /\ handed' = [handed EXCEPT ![target[a]] = @ \cup {sql}]
        /\ UNCHANGED unread
     \/ handle[a] = "unlinked" /\ UNCHANGED <<unread, mailbox, handed>>
  /\ UNCHANGED <<registration, lock, modified, request, reply, tqls, call,
                 calls, toLook, seen, target, now, lastUse, told, openSince,
                 asked, gaveUp>>

\* <t>.sql.new becomes the mailbox, and the mailbox there was no file at all
Moved(t) ==
  [b \in Agents |->
     CASE target[b] = t /\ handle[b] = "unread"  -> "mailbox"
       [] target[b] = t /\ handle[b] = "mailbox" -> "unlinked"
       [] OTHER -> handle[b]]

\* Mutant of HandOver: copies <t>.sql.new and leaves it where it was
HandOverCopy(a) ==
  /\ Go(a, "handing", "waiting")
  /\ unread[target[a]] # NoSQL
  /\ mailbox' = [mailbox EXCEPT ![target[a]] = unread[target[a]]]
  /\ handed' = [handed EXCEPT ![target[a]] = @ \cup {unread[target[a]]}]
  /\ UNCHANGED <<registration, lock, modified, unread, request, reply, handle, tqls,
                 call, calls, toLook, seen, target, now, lastUse, told,
                 openSince, asked, gaveUp>>

\* and renames it to the mailbox, whatever was there
HandOver(a) ==
  /\ Go(a, "handing", "waiting")
  /\ unread[target[a]] # NoSQL
  /\ mailbox' = [mailbox EXCEPT ![target[a]] = unread[target[a]]]
  /\ unread' = [unread EXCEPT ![target[a]] = NoSQL]
  /\ handed' = [handed EXCEPT ![target[a]] = @ \cup {unread[target[a]]}]
  /\ handle' = Moved(target[a])
  /\ UNCHANGED <<registration, lock, modified, request, reply, tqls, call,
                 calls, toLook, seen, target, now, lastUse, told, openSince,
                 asked, gaveUp>>

\* Another agent renamed it first: there is nothing to rename
HandOverFails(a) ==
  /\ Go(a, "handing", "idle")
  /\ unread[target[a]] = NoSQL
  /\ Tell(a, "not handed over")
  /\ UNCHANGED <<files, tqls, call, calls, toLook, seen, target, now, lastUse,
                 openSince, asked, gaveUp, handed>>

\* deliver's loop sees no mailbox
PickedUp(a) ==
  /\ Go(a, "waiting", "idle")
  /\ mailbox[target[a]] = NoSQL
  /\ Tell(a, "in the editor")
  /\ UNCHANGED <<files, tqls, call, calls, toLook, seen, target, now, lastUse,
                 openSince, asked, gaveUp, handed>>

\* Mutant of NotPickedUp: the loop has no end
NotPickedUpNever(a) ==
  /\ Go(a, "waiting", "idle")
  /\ mailbox[target[a]] = NoSQL
  /\ Tell(a, "busy")
  /\ UNCHANGED <<files, tqls, call, calls, toLook, seen, target, now, lastUse,
                 openSince, asked, gaveUp, handed>>

\* deliver's loop is over: WAIT_FOR_PICKUP has passed
NotPickedUp(a) ==
  /\ Go(a, "waiting", "idle")
  /\ Tell(a, "busy")
  /\ UNCHANGED <<files, tqls, call, calls, toLook, seen, target, now, lastUse,
                 openSince, asked, gaveUp, handed>>

\* read_screen removes an old reply,
RemoveReply(a) ==
  /\ Go(a, "clearing", "asking")
  /\ reply' = [reply EXCEPT ![target[a]] = 0]
  /\ UNCHANGED <<registration, lock, modified, unread, mailbox, request, handle, tqls,
                 call, calls, toLook, seen, target, now, memory>>

\* writes its request,
WriteRequest(a) ==
  /\ Go(a, "asking", "listening")
  /\ request' = [request EXCEPT ![target[a]] = TRUE]
  /\ asked' = [asked EXCEPT ![a] = screens[target[a]]]
  /\ UNCHANGED <<registration, lock, modified, unread, mailbox, reply, handle, tqls,
                 call, calls, toLook, seen, target, now, lastUse, told,
                 openSince, gaveUp, handed>>

\* reads the reply as soon as there is one
ReadReply(a) ==
  /\ Go(a, "listening", "reading")
  /\ reply[target[a]] # 0
  /\ UNCHANGED <<files, tqls, call, calls, toLook, seen, target, now, memory>>

\* and removes it,
RemoveRead(a) ==
  /\ Go(a, "reading", "idle")
  /\ reply' = [reply EXCEPT ![target[a]] = 0]
  /\ UNCHANGED <<registration, lock, modified, unread, mailbox, request, handle, tqls,
                 call, calls, toLook, seen, target, now, memory>>

\* or gives up after WAIT_FOR_PICKUP and takes its request back
GiveUp(a) ==
  /\ Go(a, "listening", "idle")
  /\ request' = [request EXCEPT ![target[a]] = FALSE]
  /\ gaveUp' = TRUE
  /\ UNCHANGED <<registration, lock, modified, unread, mailbox, reply, handle, tqls,
                 call, calls, toLook, seen, target, now, lastUse, told,
                 openSince, asked, handed>>

-----------------------------------------------------------------------------

\* Time passes.  Registering takes far less than a tick.
Tick ==
  /\ now < MaxTime
  /\ \A t \in Tqls : phase[t] # "locked"
  /\ now' = now + 1
  /\ UNCHANGED <<files, tqls, agents, memory>>

TqlIdle(t) ==
  \/ ReadMailbox(t) \/ EmptyMailbox(t)
  \/ Describe(t) \/ WriteReply(t) \/ RemoveRequest(t)

TqlNext(t) ==
  \/ Lock(t) \/ Publish(t) \/ Used(t) \/ TqlIdle(t)
  \/ DropMailbox(t) \/ DropRequest(t) \/ DropReply(t)
  \/ DropRegistration(t) \/ Unlock(t) \/ Crash(t)

Looking(a) ==
  \/ \E t \in Tqls : LookMissing(a, t) \/ LookOpen(a, t)
  \/ LookHeld(a) \/ LookFree(a)
  \/ SweepMailbox(a) \/ SweepRequest(a) \/ SweepReply(a)
  \/ SweepRegistration(a) \/ Release(a)
  \/ Choose(a) \/ ChooseNone(a)

Delivering(a) ==
  \/ OpenUnread(a) \/ WriteUnread(a) \/ HandOver(a) \/ HandOverFails(a)
  \/ PickedUp(a) \/ NotPickedUp(a)

ReadingScreen(a) ==
  \/ RemoveReply(a) \/ WriteRequest(a)
  \/ ReadReply(a) \/ RemoveRead(a) \/ GiveUp(a)

AgentNext(a) == Call(a) \/ Looking(a) \/ Delivering(a) \/ ReadingScreen(a)

Next ==
  \/ \E t \in Tqls : TqlNext(t)
  \/ \E a \in Agents : AgentNext(a)
  \/ Tick

Spec == Init /\ [][Next]_vars

\* An idle tql looks at its files again and again (Browser::idle, at least
\* four times a second), and an agent's call runs to its end: its loops are
\* bounded by WAIT_FOR_PICKUP.  Nobody has to press a key, quit or crash.
Fairness ==
  /\ \A t \in Tqls : WF_vars(Publish(t) \/ TqlIdle(t))
  /\ \A a \in Agents : WF_vars(Looking(a) \/ Delivering(a) \/ ReadingScreen(a))

FairSpec == Spec /\ Fairness

-----------------------------------------------------------------------------
(* Properties *)

SeenOf == [tql : Tqls, used : Times, lastUse : Times]
ToldOf == [sql : Statements, verdict : Verdicts, by : Tqls \cup {NoOne},
           open : SUBSET Tqls]

\* The type of every variable.
TypeOK ==
  /\ registration \in [Tqls -> BOOLEAN]
  /\ lock \in [Tqls -> Processes \cup {NoOne}]
  /\ modified \in [Tqls -> Times]
  /\ unread \in [Tqls -> Contents \cup {NoSQL}]
  /\ mailbox \in [Tqls -> Contents \cup {NoSQL}]
  /\ request \in [Tqls -> BOOLEAN]
  /\ reply \in [Tqls -> Nat]
  /\ handle \in [Agents -> Handles]
  /\ phase \in [Tqls -> Phases]
  /\ freshened \in [Tqls -> Times]
  /\ holding \in [Tqls -> Contents \cup {NoSQL}]
  /\ editor \in [Tqls -> Seq(Contents)]
  /\ screens \in [Tqls -> Nat]
  /\ at \in [Agents -> Steps]
  /\ call \in [Agents -> [tool : Tools, connection : Connections] \cup {NoCall}]
  /\ calls \in [Agents -> 0 .. MaxCalls]
  /\ toLook \in [Agents -> SUBSET Tqls]
  /\ seen \in [Agents -> SUBSET SeenOf]
  /\ target \in [Agents -> Tqls \cup {NoOne}]
  /\ now \in Times
  /\ lastUse \in [Tqls -> Times]
  /\ told \in SUBSET ToldOf
  /\ openSince \in [Agents -> SUBSET Tqls]
  /\ asked \in [Agents -> Nat]
  /\ gaveUp \in BOOLEAN
  /\ handed \in [Tqls -> SUBSET Contents]

\* An agent sweeps away the files of a tql that crashed or has quit, and no
\* two agents sweep at once: while a tql lives it holds the lock on its
\* registration, from before it can be listed until after it is gone, also
\* for an agent that opened the registration and asks for the lock late.
OnlyTheDeadAreSwept ==
  \A a \in Agents : at[a] \in Sweeping =>
    /\ phase[target[a]] \in {"crashed", "gone"}
    /\ lock[target[a]] = a

\* A tql that serves can always be found: its registration is there and its
\* lock is its own, however many agents list, sweep and crash around it.
ServingIsRegistered ==
  \A t \in Tqls : phase[t] \in Serving => registration[t] /\ lock[t] = t

\* The SQL of one call reaches one editor at most, and that editor once, even
\* when two agents write the same <t>.sql.new before either renames it.
AtMostOnce ==
  \A t, u \in Tqls : \A i \in 1 .. Len(editor[t]), j \in 1 .. Len(editor[u]) :
    editor[t][i] \in Statements /\ editor[t][i] = editor[u][j] => t = u /\ i = j

\* An editor is given an agent's SQL in the order the agent called: an older
\* statement never replaces a newer one of the same agent.
EditorFollowsCalls ==
  \A t \in Tqls : \A i, j \in 1 .. Len(editor[t]) :
    /\ i < j /\ editor[t][i] \in Statements /\ editor[t][j] \in Statements
    /\ editor[t][i][1] = editor[t][j][1]
    => editor[t][i][2] < editor[t][j][2]

\* A tql is handed less than the whole SQL of a call only if two agents call:
\* that of a lone agent is not to be seen before all of it is written.
PiecesTakeTwo ==
  (\E t \in Tqls : handed[t] \cap Pieces # {}) =>
    \E a, b \in Agents : a # b /\ calls[a] # 0 /\ calls[b] # 0

\* "tql is not open" is true when it is said: no tql on that connection was
\* open from the listing to the answer, also when others quit, crash or are
\* being swept meanwhile.
NotOpenIsTrue ==
  \A r \in told : r.verdict = "not open" => r.open = {}

\* The editor of t was given sql
Shows(t, sql) == \E i \in 1 .. Len(editor[t]) : editor[t][i] = sql

\* SQL that left its mailbox for the editor of a tql that is still open is
\* lost for one reason only: something else was in that mailbox too, the SQL
\* of another call or a piece of SQL that two agents were writing.
LostOnlyToOther ==
  \A r \in told :
    r.verdict = "in the editor" /\ phase[r.by] \in Serving =>
      \/ Shows(r.by, r.sql)
      \/ handed[r.by] \ {r.sql} # {}

\* The agent is told its SQL is in the editor (the answer of deliver,
\* app/live.rs:185) once it is there, and not before.
InTheEditorIsTrue ==
  \A r \in told : r.verdict = "in the editor" =>
    Shows(r.by, r.sql)

Chosen(a, s) ==
  /\ at[a] = "looking" /\ at'[a] \in {"writing", "clearing"}
  /\ s \in Candidates(a) /\ s.tql = target'[a]

\* The tql an agent gets was used, at most FreshenEvery before any other on
\* that connection, for all that a registration is touched only so often.
ChosenStep ==
  \A a \in Agents : \A s, other \in Candidates(a) :
    Chosen(a, s) => other.lastUse - s.lastUse < FreshenEvery

\* The tql chosen is the one used last, but for what is not noted yet: no
\* choice falls on one used FreshenEvery or more before another.
ChosenIsNearlyNewest == [][ChosenStep]_vars

\* "With more than one tql open on that connection, the one you used last
\* gets it" (wiki/For-Agents.md).
UsedLastGetsIt ==
  [][\A a \in Agents : \A s, other \in Candidates(a) :
       Chosen(a, s) => other.lastUse <= s.lastUse]_vars

\* A lone agent that never gave up reads a screen described after it asked:
\* the reply of an earlier call is never taken for the answer to this one.
AnswerStep ==
  \A a \in Agents :
    at[a] = "listening" /\ at'[a] = "reading" /\ ~gaveUp /\ (\A b \in Agents \ {a} : calls[b] = 0) =>
      reply[target[a]] > asked[a]

\* A screen a lone agent is told was described after it asked.
AnswerFollowsRequest == [][AnswerStep]_vars

\* Every call of an agent comes back, whatever tql does meanwhile.
CallsReturn == \A a \in Agents : at[a] # "idle" ~> at[a] = "idle"

\* SQL in the mailbox of an open tql does not stay there: the tql takes it,
\* unless it quits or dies first.
MailboxIsEmptied ==
  \A t \in Tqls :
    phase[t] = "open" /\ mailbox[t] # NoSQL ~>
      mailbox[t] = NoSQL \/ phase[t] \notin Serving

\* What makes the invariants above inductive.  An agent in the middle of a
\* call has made one and, past its choice, has a target; a tql that takes SQL
\* holds some;
CallsInProgress ==
  /\ \A a \in Agents : at[a] # "idle" => calls[a] # 0
  /\ \A a \in Agents : at[a] \notin {"idle", "looking"} => target[a] \in Tqls
  /\ \A t \in Tqls : phase[t] = "taking" => holding[t] # NoSQL
  /\ \A a \in Agents : handle[a] # "none" <=> at[a] = "truncated"

\* a tql has its lock for as long as it lives, and one that was never open or
\* has quit has no registration.
LocksAndFiles ==
  /\ \A t \in Tqls : phase[t] \in Alive => lock[t] = t
  /\ \A t \in Tqls :
       phase[t] \in {"closed", "locked", "unlocking", "gone"} => ~registration[t]

\* A tql that an agent found was open then, and is never registered anew.
WasOpen(t) == t \in Tqls /\ phase[t] \notin {"closed", "locked"}

FoundWereOpen ==
  /\ \A a \in Agents : \A s \in seen[a] : WasOpen(s.tql)
  /\ \A a \in Agents : at[a] \notin {"idle", "looking"} => WasOpen(target[a])
  /\ \A r \in told : r.verdict = "in the editor" => WasOpen(r.by)

\* The inductive invariant of this module.
SweepInv ==
  /\ TypeOK
  /\ CallsInProgress
  /\ LocksAndFiles
  /\ FoundWereOpen
  /\ OnlyTheDeadAreSwept
  /\ ServingIsRegistered

\* What the mailbox promises, and the proof obligation that this module
\* implements it: what was handed over and not shown is in the mailbox or in
\* the hands of tql.
Handoff == INSTANCE Handoff WITH
  pending <- [t \in Tqls |-> {mailbox[t], holding[t]} \ {NoSQL}],
  shown <- editor
ImplementsHandoff == Handoff!Spec
=============================================================================
