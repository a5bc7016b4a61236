----------------------------- MODULE LiveProofs -----------------------------
(***************************************************************************)
(* Proofs about tqls and agents, for any number of tqls, agents, calls and *)
(* connections: the types, and what lies in the live directory, with who   *)
(* may take it away; that each statement an agent hands over reaches one   *)
(* editor, once and in the order of its agent's calls, is lost to other    *)
(* SQL only, and the files implement the abstract handoff; and that what   *)
(* an agent is told is so: that no tql is open, that it is given the one   *)
(* used last but for FreshenEvery, and, alone, a new screen.  After that   *)
(* come the loop a tql is in and the MCP server.                           *)
(***************************************************************************)
EXTENDS Live, SequenceTheorems, TLAPS

\* The absence of SQL is not the SQL of any call, and neither is a piece of it.
LEMMA ContentsApart ==
  /\ NoSQL \notin Contents
  /\ Pieces \cap Statements = {}
  /\ Statements \subseteq Contents /\ Pieces \subseteq Contents
<1>1. \A s \in Statements : s[2] \in 1 .. MaxCalls
  BY DEF Statements
<1>2. NoSQL[2] = 0 /\ \A s \in Pieces : s[2] = 0
  BY DEF NoSQL, Pieces, Unwritten, Mixed
<1>3. NoSQL \notin Pieces
  BY DEF NoSQL, Pieces, Unwritten, Mixed
<1> QED
  BY <1>1, <1>2, <1>3, ConstantsAssumption DEF Contents

\* The SQL of a call in progress is a statement.
LEMMA SQLIsStatement ==
  ASSUME TypeOK, CallsInProgress, NEW a \in Agents, at[a] # "idle"
  PROVE  SQL(a) \in Statements
<1>1. calls[a] \in 1 .. MaxCalls
  BY ConstantsAssumption DEF TypeOK, CallsInProgress
<1> QED
  BY <1>1 DEF SQL, Statements

\* What an agent reads of a registration is about the tql it looked at.
LEMMA EntryIs ==
  ASSUME NEW t, NEW s \in Entry(t)
  PROVE  s = [tql |-> t, used |-> modified[t], lastUse |-> lastUse[t]] /\ s.tql = t
BY DEF Entry

\* A call begins with nothing found.
LEMMA CallBegins ==
  ASSUME TypeOK, NEW a \in Agents, Call(a)
  PROVE  /\ at'[a] = "looking" /\ seen'[a] = {} /\ told' = told
         /\ \A b \in Agents : b # a =>
              at'[b] = at[b] /\ seen'[b] = seen[b] /\ target'[b] = target[b] /\ calls'[b] = calls[b]
<1>1. DOMAIN at = Agents /\ DOMAIN seen = Agents /\ DOMAIN target = Agents /\ DOMAIN calls = Agents
  BY DEF TypeOK
<1>2. /\ at' = [at EXCEPT ![a] = "looking"] /\ seen' = [seen EXCEPT ![a] = {}]
      /\ target' = [target EXCEPT ![a] = NoOne] /\ calls' = [calls EXCEPT ![a] = @ + 1]
      /\ told' = told
  BY DEF Call, Go
<1> QED
  BY <1>1, <1>2

\* The initial state satisfies the invariant.
LEMMA InitInv == Init => SweepInv
<1> SUFFICES ASSUME Init PROVE SweepInv
  OBVIOUS
<1>1. TypeOK
  <2>1. /\ registration \in [Tqls -> BOOLEAN]
        /\ lock \in [Tqls -> Processes \cup {NoOne}]
        /\ modified \in [Tqls -> Times]
        /\ unread \in [Tqls -> Contents \cup {NoSQL}]
        /\ mailbox \in [Tqls -> Contents \cup {NoSQL}]
        /\ request \in [Tqls -> BOOLEAN]
        /\ reply \in [Tqls -> Nat]
        /\ handle \in [Agents -> Handles]
        /\ phase \in [Tqls -> Phases]
        /\ freshened \in [Tqls -> Times]
    BY ConstantsAssumption DEF Init, Times, Phases, Handles
  <2>2. /\ holding \in [Tqls -> Contents \cup {NoSQL}]
        /\ editor \in [Tqls -> Seq(Contents)]
        /\ screens \in [Tqls -> Nat]
        /\ at \in [Agents -> Steps]
        /\ call \in [Agents -> [tool : Tools, connection : Connections] \cup {NoCall}]
        /\ calls \in [Agents -> 0 .. MaxCalls]
    BY ConstantsAssumption DEF Init, Steps
  <2>3. /\ toLook \in [Agents -> SUBSET Tqls]
        /\ seen \in [Agents -> SUBSET SeenOf]
        /\ target \in [Agents -> Tqls \cup {NoOne}]
    BY DEF Init
  <2>4. now \in Times /\ lastUse \in [Tqls -> Times]
    BY ConstantsAssumption DEF Init, Times
  <2>5. told \in SUBSET ToldOf
    BY DEF Init
  <2>6. /\ openSince \in [Agents -> SUBSET Tqls]
        /\ asked \in [Agents -> Nat]
        /\ gaveUp \in BOOLEAN
        /\ handed \in [Tqls -> SUBSET Contents]
    BY DEF Init
  <2> QED
    BY <2>1, <2>2, <2>3, <2>4, <2>5, <2>6 DEF TypeOK
<1> QED
  BY <1>1 DEF Init, SweepInv, CallsInProgress, LocksAndFiles, FoundWereOpen,
     OnlyTheDeadAreSwept, ServingIsRegistered, Alive, Phases, Serving, Sweeping

\* Every step keeps every variable in its type: one case for each action of
\* a tql, of an agent, and of the clock.
LEMMA TypeStep == TypeOK /\ CallsInProgress /\ [Next]_vars => TypeOK'
<1> SUFFICES ASSUME TypeOK, CallsInProgress, [Next]_vars PROVE TypeOK'
  OBVIOUS
<1> USE ConstantsAssumption, ContentsApart
    DEF TypeOK, Handles, Sweeping, files, tqls, agents, memory
<1>1. ASSUME NEW t \in Tqls, Lock(t) PROVE TypeOK'
  BY <1>1 DEF Lock, Phases, Processes
<1>2. ASSUME NEW t \in Tqls, Publish(t) PROVE TypeOK'
  BY <1>2 DEF Publish, Phases, Processes
<1>3. ASSUME NEW t \in Tqls, Used(t) PROVE TypeOK'
  <2>1. CASE UNCHANGED <<freshened, modified>>
    BY <1>3, <2>1 DEF Used
  <2>2. CASE /\ freshened' = [freshened EXCEPT ![t] = now]
             /\ modified' = [modified EXCEPT ![t] = IF registration[t] THEN now ELSE @]
    <3>1. modified' \in [Tqls -> Times] /\ freshened' \in [Tqls -> Times]
      BY <2>2
    <3> QED
      BY <1>3, <3>1 DEF Used
  <2> QED
    BY <1>3, <2>1, <2>2 DEF Used
<1>4. ASSUME NEW t \in Tqls, ReadMailbox(t) PROVE TypeOK'
  BY <1>4 DEF ReadMailbox, Phases, Processes
<1>5. ASSUME NEW t \in Tqls, EmptyMailbox(t) PROVE TypeOK'
  <2>1. holding[t] \in Contents
    BY <1>5 DEF EmptyMailbox, CallsInProgress
  <2>2. Append(editor[t], holding[t]) \in Seq(Contents)
    BY <2>1
  <2>3. editor' \in [Tqls -> Seq(Contents)]
    BY <1>5, <2>2 DEF EmptyMailbox
  <2>4. holding' \in [Tqls -> Contents \cup {NoSQL}]
    BY <1>5 DEF EmptyMailbox
  <2>5. /\ mailbox' \in [Tqls -> Contents \cup {NoSQL}]
        /\ handle' \in [Agents -> Handles]
    BY <1>5 DEF EmptyMailbox, Unlink
  <2> QED
    BY <1>5, <2>3, <2>4, <2>5 DEF EmptyMailbox, Phases
<1>6. ASSUME NEW t \in Tqls, Describe(t) PROVE TypeOK'
  BY <1>6 DEF Describe, Phases, Processes
<1>7. ASSUME NEW t \in Tqls, WriteReply(t) PROVE TypeOK'
  BY <1>7 DEF WriteReply, Phases, Processes
<1>8. ASSUME NEW t \in Tqls, RemoveRequest(t) PROVE TypeOK'
  BY <1>8 DEF RemoveRequest, Phases, Processes
<1>9. ASSUME NEW t \in Tqls, DropMailbox(t) PROVE TypeOK'
  BY <1>9 DEF DropMailbox, Unlink, Phases, Processes
<1>10. ASSUME NEW t \in Tqls, DropRequest(t) PROVE TypeOK'
  BY <1>10 DEF DropRequest, Phases, Processes
<1>10b. ASSUME NEW t \in Tqls, DropReply(t) PROVE TypeOK'
  BY <1>10b DEF DropReply, Phases, Processes
<1>11. ASSUME NEW t \in Tqls, DropRegistration(t) PROVE TypeOK'
  BY <1>11 DEF DropRegistration, Phases, Processes
<1>11b. ASSUME NEW t \in Tqls, Unlock(t) PROVE TypeOK'
  BY <1>11b DEF Unlock, Phases, Processes
<1>12. ASSUME NEW t \in Tqls, Crash(t) PROVE TypeOK'
  BY <1>12 DEF Crash, Phases, Processes
<1>13. ASSUME NEW a \in Agents, NEW t \in Tqls, LookMissing(a, t) PROVE TypeOK'
  BY <1>13 DEF LookMissing, Go, Steps, Processes, SeenOf
<1>13b. ASSUME NEW a \in Agents, NEW t \in Tqls, LookOpen(a, t) PROVE TypeOK'
  BY <1>13b DEF LookOpen, Go, Steps, Processes, SeenOf
<1>14. ASSUME NEW a \in Agents, LookHeld(a) PROVE TypeOK'
  <2>1. target[a] \in Tqls
    BY <1>14 DEF LookHeld, Go, CallsInProgress
  <2>2. Entry(target[a]) \subseteq SeenOf
    BY <2>1 DEF Entry, SeenOf
  <2>3. seen' \in [Agents -> SUBSET SeenOf]
    BY <1>14, <2>2 DEF LookHeld
  <2> QED
    BY <1>14, <2>3 DEF LookHeld, Go, Steps
<1>15. ASSUME NEW a \in Agents, LookFree(a) PROVE TypeOK'
  BY <1>15 DEF LookFree, Go, Steps, Processes, SeenOf
<1>16. ASSUME NEW a \in Agents, Call(a) PROVE TypeOK'
  <2>1. PICK tool \in Tools, c \in Connections :
          /\ calls[a] < MaxCalls
          /\ Go(a, "idle", "looking")
          /\ call' = [call EXCEPT ![a] = [tool |-> tool, connection |-> c]]
          /\ calls' = [calls EXCEPT ![a] = @ + 1]
          /\ toLook' = [toLook EXCEPT ![a] = {t \in Tqls : registration[t]}]
          /\ seen' = [seen EXCEPT ![a] = {}]
          /\ target' = [target EXCEPT ![a] = NoOne]
          /\ openSince' = [openSince EXCEPT ![a] =
               {t \in Tqls : phase[t] \in Serving /\ ConnectionOf[t] = c}]
          /\ UNCHANGED <<files, tqls, now, lastUse, told, asked, gaveUp, handed>>
    BY <1>16 DEF Call
  <2>2. call' \in [Agents -> [tool : Tools, connection : Connections] \cup {NoCall}]
    BY <2>1
  <2>3. calls' \in [Agents -> 0 .. MaxCalls] /\ at' \in [Agents -> Steps]
    BY <2>1 DEF Go, Steps
  <2> QED
    BY <2>1, <2>2, <2>3
<1>17. ASSUME NEW a \in Agents, SweepMailbox(a) PROVE TypeOK'
  BY <1>17 DEF SweepMailbox, Unlink, Go, Steps, Processes
<1>17b. ASSUME NEW a \in Agents, SweepRequest(a) PROVE TypeOK'
  BY <1>17b DEF SweepRequest, Go, Steps, Processes
<1>17c. ASSUME NEW a \in Agents, SweepReply(a) PROVE TypeOK'
  BY <1>17c DEF SweepReply, Go, Steps, Processes
<1>18. ASSUME NEW a \in Agents, SweepRegistration(a) PROVE TypeOK'
  BY <1>18 DEF SweepRegistration, Go, Steps, Processes
<1>18b. ASSUME NEW a \in Agents, Release(a) PROVE TypeOK'
  BY <1>18b DEF Release, Go, Steps, Processes
<1>19. ASSUME NEW a \in Agents, Choose(a) PROVE TypeOK'
  <2>1. PICK s \in Candidates(a) :
          /\ Go(a, "looking", IF call[a].tool = "deliver" THEN "writing" ELSE "clearing")
          /\ target' = [target EXCEPT ![a] = s.tql]
          /\ UNCHANGED <<files, tqls, call, calls, toLook, seen, now, memory>>
    BY <1>19 DEF Choose
  <2>2. s.tql \in Tqls
    BY <2>1 DEF Candidates, SeenOf
  <2>3. at' \in [Agents -> Steps]
    BY <2>1 DEF Go, Steps
  <2> QED
    BY <2>1, <2>2, <2>3
<1>20. ASSUME NEW a \in Agents, ChooseNone(a) PROVE TypeOK'
  <2>1. SQL(a) \in Statements
    BY <1>20, SQLIsStatement DEF ChooseNone, Go
  <2>2. [sql |-> SQL(a), verdict |-> "not open", by |-> target[a], open |-> openSince[a]] \in ToldOf
    BY <2>1 DEF ToldOf, Verdicts
  <2>3. told' \in SUBSET ToldOf
    BY <1>20, <2>2 DEF ChooseNone, Tell
  <2> QED
    BY <1>20, <2>3 DEF ChooseNone, Go, Steps
<1>21. ASSUME NEW a \in Agents, OpenUnread(a) PROVE TypeOK'
  BY <1>21 DEF OpenUnread, Go, Steps, Pieces
<1>21b. ASSUME NEW a \in Agents, WriteUnread(a) PROVE TypeOK'
  <2>1. SQL(a) \in Statements
    BY <1>21b, SQLIsStatement DEF WriteUnread, Go
  <2>2. \A old : \A sql \in Over(old, SQL(a)) : sql \in Contents
    BY <2>1 DEF Over, Pieces
  <2>3. /\ unread' \in [Tqls -> Contents \cup {NoSQL}]
        /\ mailbox' \in [Tqls -> Contents \cup {NoSQL}]
        /\ handed' \in [Tqls -> SUBSET Contents]
    <3>1. CASE handle[a] = "unread"
      <4>1. PICK sql \in Over(unread[target[a]], SQL(a)) :
              unread' = [unread EXCEPT ![target[a]] = sql]
        BY <1>21b, <3>1 DEF WriteUnread
      <4>2. sql \in Contents
        BY <2>2
      <4>3. mailbox' = mailbox /\ handed' = handed
        BY <1>21b, <3>1 DEF WriteUnread
      <4> QED
        BY <4>1, <4>2, <4>3
    <3>2. CASE handle[a] = "mailbox"
      <4>1. PICK sql \in Over(mailbox[target[a]], SQL(a)) :
              /\ mailbox' = [mailbox EXCEPT ![target[a]] = sql]
              /\ handed' = [handed EXCEPT ![target[a]] = @ \cup {sql}]
              /\ unread' = unread
        BY <1>21b, <3>2 DEF WriteUnread
      <4>2. sql \in Contents
        BY <2>2
      <4>3. target[a] \in Tqls
        BY <1>21b DEF WriteUnread, Go, CallsInProgress
      <4>4. handed'[target[a]] = handed[target[a]] \cup {sql}
        BY <4>1, <4>3
      <4> QED
        BY <4>1, <4>2, <4>3, <4>4
    <3>3. CASE handle[a] = "unlinked"
      BY <1>21b, <3>3 DEF WriteUnread
    <3> QED
      BY <1>21b, <3>1, <3>2, <3>3 DEF WriteUnread
  <2> QED
    BY <1>21b, <2>3 DEF WriteUnread, Go, Steps
<1>22. ASSUME NEW a \in Agents, HandOver(a) PROVE TypeOK'
  <2>1. target[a] \in Tqls
    BY <1>22 DEF HandOver, Go, CallsInProgress
  <2>2. unread[target[a]] \in Contents
    BY <1>22, <2>1 DEF HandOver
  <2>3. handed' \in [Tqls -> SUBSET Contents]
    BY <1>22, <2>1, <2>2 DEF HandOver
  <2>4. handle' \in [Agents -> Handles]
    BY <1>22 DEF HandOver, Moved
  <2> QED
    BY <1>22, <2>1, <2>2, <2>3, <2>4 DEF HandOver, Go, Steps
<1>23. ASSUME NEW a \in Agents, HandOverFails(a) PROVE TypeOK'
  <2>1. SQL(a) \in Statements
    BY <1>23, SQLIsStatement DEF HandOverFails, Go
  <2>2. [sql |-> SQL(a), verdict |-> "not handed over", by |-> target[a], open |-> openSince[a]] \in ToldOf
    BY <2>1 DEF ToldOf, Verdicts
  <2>3. told' \in SUBSET ToldOf
    BY <1>23, <2>2 DEF HandOverFails, Tell
  <2> QED
    BY <1>23, <2>3 DEF HandOverFails, Go, Steps
<1>24. ASSUME NEW a \in Agents, PickedUp(a) PROVE TypeOK'
  <2>1. SQL(a) \in Statements
    BY <1>24, SQLIsStatement DEF PickedUp, Go
  <2>2. [sql |-> SQL(a), verdict |-> "in the editor", by |-> target[a], open |-> openSince[a]] \in ToldOf
    BY <2>1 DEF ToldOf, Verdicts
  <2>3. told' \in SUBSET ToldOf
    BY <1>24, <2>2 DEF PickedUp, Tell
  <2> QED
    BY <1>24, <2>3 DEF PickedUp, Go, Steps
<1>25. ASSUME NEW a \in Agents, NotPickedUp(a) PROVE TypeOK'
  <2>1. SQL(a) \in Statements
    BY <1>25, SQLIsStatement DEF NotPickedUp, Go
  <2>2. [sql |-> SQL(a), verdict |-> "busy", by |-> target[a], open |-> openSince[a]] \in ToldOf
    BY <2>1 DEF ToldOf, Verdicts
  <2>3. told' \in SUBSET ToldOf
    BY <1>25, <2>2 DEF NotPickedUp, Tell
  <2> QED
    BY <1>25, <2>3 DEF NotPickedUp, Go, Steps
<1>26. ASSUME NEW a \in Agents, RemoveReply(a) PROVE TypeOK'
  BY <1>26 DEF RemoveReply, Go, Steps, Processes
<1>27. ASSUME NEW a \in Agents, WriteRequest(a) PROVE TypeOK'
  <2>1. target[a] \in Tqls
    BY <1>27 DEF WriteRequest, Go, CallsInProgress
  <2> QED
    BY <1>27, <2>1 DEF WriteRequest, Go, Steps
<1>28. ASSUME NEW a \in Agents, ReadReply(a) PROVE TypeOK'
  BY <1>28 DEF ReadReply, Go, Steps, Processes
<1>29. ASSUME NEW a \in Agents, RemoveRead(a) PROVE TypeOK'
  BY <1>29 DEF RemoveRead, Go, Steps, Processes
<1>30. ASSUME NEW a \in Agents, GiveUp(a) PROVE TypeOK'
  BY <1>30 DEF GiveUp, Go, Steps, Processes
<1>31. CASE Tick
  BY <1>31 DEF Tick, Times
<1>32. CASE UNCHANGED vars
  BY <1>32 DEF vars
<1> QED
  BY <1>1, <1>2, <1>3, <1>4, <1>5, <1>6, <1>7, <1>8, <1>9, <1>10, <1>10b, <1>11, <1>11b, <1>12, <1>13, <1>13b, <1>14, <1>15, <1>16, <1>17, <1>17b, <1>17c, <1>18, <1>18b, <1>19, <1>20, <1>21, <1>21b, <1>22, <1>23, <1>24, <1>25, <1>26, <1>27, <1>28, <1>29, <1>30, <1>31, <1>32
  DEF Next, TqlNext, TqlIdle, AgentNext, Looking, Delivering, ReadingScreen

\* A tql that was open is never registered anew, and it serves only if it
\* has served ever since.
LEMMA OpenNeverAgain ==
  ASSUME TypeOK, [Next]_vars
  PROVE  \A u \in Tqls : WasOpen(u) =>
           WasOpen(u)' /\ (phase'[u] \in Serving => phase[u] \in Serving)
<1> DEFINE Kept == \A u \in Tqls : WasOpen(u) =>
                     WasOpen(u)' /\ (phase'[u] \in Serving => phase[u] \in Serving)
<1> USE DEF TypeOK, WasOpen, Serving, Phases, Alive, files, tqls, agents, memory
<1>1. ASSUME NEW t \in Tqls, Lock(t) PROVE Kept
  BY <1>1 DEF Lock
<1>2. ASSUME NEW t \in Tqls, Publish(t) PROVE Kept
  BY <1>2 DEF Publish
<1>3. ASSUME NEW t \in Tqls, Used(t) PROVE Kept
  BY <1>3 DEF Used
<1>4. ASSUME NEW t \in Tqls, ReadMailbox(t) PROVE Kept
  BY <1>4 DEF ReadMailbox
<1>5. ASSUME NEW t \in Tqls, EmptyMailbox(t) PROVE Kept
  BY <1>5 DEF EmptyMailbox
<1>6. ASSUME NEW t \in Tqls, Describe(t) PROVE Kept
  BY <1>6 DEF Describe
<1>7. ASSUME NEW t \in Tqls, WriteReply(t) PROVE Kept
  BY <1>7 DEF WriteReply
<1>8. ASSUME NEW t \in Tqls, RemoveRequest(t) PROVE Kept
  BY <1>8 DEF RemoveRequest
<1>9. ASSUME NEW t \in Tqls, DropMailbox(t) PROVE Kept
  BY <1>9 DEF DropMailbox
<1>10. ASSUME NEW t \in Tqls, DropRequest(t) PROVE Kept
  BY <1>10 DEF DropRequest
<1>10b. ASSUME NEW t \in Tqls, DropReply(t) PROVE Kept
  BY <1>10b DEF DropReply
<1>11. ASSUME NEW t \in Tqls, DropRegistration(t) PROVE Kept
  BY <1>11 DEF DropRegistration
<1>11b. ASSUME NEW t \in Tqls, Unlock(t) PROVE Kept
  BY <1>11b DEF Unlock
<1>12. ASSUME NEW t \in Tqls, Crash(t) PROVE Kept
  BY <1>12 DEF Crash
<1>13. ASSUME NEW a \in Agents, NEW t \in Tqls, LookMissing(a, t) PROVE Kept
  BY <1>13 DEF LookMissing, Go
<1>13b. ASSUME NEW a \in Agents, NEW t \in Tqls, LookOpen(a, t) PROVE Kept
  BY <1>13b DEF LookOpen, Go
<1>14. ASSUME NEW a \in Agents, LookHeld(a) PROVE Kept
  BY <1>14 DEF LookHeld, Entry, Go
<1>15. ASSUME NEW a \in Agents, LookFree(a) PROVE Kept
  BY <1>15 DEF LookFree, Go
<1>16. ASSUME NEW a \in Agents, Call(a) PROVE Kept
  BY <1>16 DEF Call, Go
<1>17. ASSUME NEW a \in Agents, SweepMailbox(a) PROVE Kept
  BY <1>17 DEF SweepMailbox, Go
<1>17b. ASSUME NEW a \in Agents, SweepRequest(a) PROVE Kept
  BY <1>17b DEF SweepRequest, Go
<1>17c. ASSUME NEW a \in Agents, SweepReply(a) PROVE Kept
  BY <1>17c DEF SweepReply, Go
<1>18. ASSUME NEW a \in Agents, SweepRegistration(a) PROVE Kept
  BY <1>18 DEF SweepRegistration, Go
<1>18b. ASSUME NEW a \in Agents, Release(a) PROVE Kept
  BY <1>18b DEF Release, Go
<1>19. ASSUME NEW a \in Agents, Choose(a) PROVE Kept
  BY <1>19 DEF Choose, Go
<1>20. ASSUME NEW a \in Agents, ChooseNone(a) PROVE Kept
  BY <1>20 DEF ChooseNone, Go, Tell
<1>21. ASSUME NEW a \in Agents, OpenUnread(a) PROVE Kept
  BY <1>21 DEF OpenUnread, Go
<1>21b. ASSUME NEW a \in Agents, WriteUnread(a) PROVE Kept
  BY <1>21b DEF WriteUnread, Go
<1>22. ASSUME NEW a \in Agents, HandOver(a) PROVE Kept
  BY <1>22 DEF HandOver, Go
<1>23. ASSUME NEW a \in Agents, HandOverFails(a) PROVE Kept
  BY <1>23 DEF HandOverFails, Go, Tell
<1>24. ASSUME NEW a \in Agents, PickedUp(a) PROVE Kept
  BY <1>24 DEF PickedUp, Go, Tell
<1>25. ASSUME NEW a \in Agents, NotPickedUp(a) PROVE Kept
  BY <1>25 DEF NotPickedUp, Go, Tell
<1>26. ASSUME NEW a \in Agents, RemoveReply(a) PROVE Kept
  BY <1>26 DEF RemoveReply, Go
<1>27. ASSUME NEW a \in Agents, WriteRequest(a) PROVE Kept
  BY <1>27 DEF WriteRequest, Go
<1>28. ASSUME NEW a \in Agents, ReadReply(a) PROVE Kept
  BY <1>28 DEF ReadReply, Go
<1>29. ASSUME NEW a \in Agents, RemoveRead(a) PROVE Kept
  BY <1>29 DEF RemoveRead, Go
<1>30. ASSUME NEW a \in Agents, GiveUp(a) PROVE Kept
  BY <1>30 DEF GiveUp, Go
<1>31. CASE Tick
  BY <1>31 DEF Tick
<1>32. CASE UNCHANGED vars
  BY <1>32 DEF vars
<1> QED
  BY <1>1, <1>2, <1>3, <1>4, <1>5, <1>6, <1>7, <1>8, <1>9, <1>10, <1>10b, <1>11, <1>11b, <1>12, <1>13, <1>13b, <1>14, <1>15, <1>16, <1>17, <1>17b, <1>17c, <1>18, <1>18b, <1>19, <1>20, <1>21, <1>21b, <1>22, <1>23, <1>24, <1>25, <1>26, <1>27, <1>28, <1>29, <1>30, <1>31, <1>32
  DEF Next, TqlNext, TqlIdle, AgentNext, Looking, Delivering, ReadingScreen

\* An agent waits once SQL was renamed, and goes on waiting; it is told that
\* its SQL is in the editor when it finds the mailbox empty.
LEMMA WaitingAndTold ==
  ASSUME TypeOK, [Next]_vars
  PROVE  /\ \A b \in Agents : at'[b] = "waiting" =>
              \/ at[b] = "waiting" /\ target'[b] = target[b] /\ calls'[b] = calls[b]
              \/ HandOver(b)
         /\ \A r \in told' : r.verdict = "in the editor" =>
              \/ r \in told
              \/ \E b \in Agents : PickedUp(b) /\ r.by = target[b] /\ r.sql = SQL(b)
<1> DEFINE Waiting == \A b \in Agents : at'[b] = "waiting" =>
                        \/ at[b] = "waiting" /\ target'[b] = target[b] /\ calls'[b] = calls[b]
                        \/ HandOver(b)
           Told == \A r \in told' : r.verdict = "in the editor" =>
                     \/ r \in told
                     \/ \E b \in Agents : PickedUp(b) /\ r.by = target[b] /\ r.sql = SQL(b)
<1> USE DEF TypeOK, files, tqls, agents, memory
<1>1. ASSUME NEW t \in Tqls, Lock(t) PROVE Waiting /\ Told
  BY <1>1 DEF Lock
<1>2. ASSUME NEW t \in Tqls, Publish(t) PROVE Waiting /\ Told
  BY <1>2 DEF Publish
<1>3. ASSUME NEW t \in Tqls, Used(t) PROVE Waiting /\ Told
  BY <1>3 DEF Used
<1>4. ASSUME NEW t \in Tqls, ReadMailbox(t) PROVE Waiting /\ Told
  BY <1>4 DEF ReadMailbox
<1>5. ASSUME NEW t \in Tqls, EmptyMailbox(t) PROVE Waiting /\ Told
  BY <1>5 DEF EmptyMailbox
<1>6. ASSUME NEW t \in Tqls, Describe(t) PROVE Waiting /\ Told
  BY <1>6 DEF Describe
<1>7. ASSUME NEW t \in Tqls, WriteReply(t) PROVE Waiting /\ Told
  BY <1>7 DEF WriteReply
<1>8. ASSUME NEW t \in Tqls, RemoveRequest(t) PROVE Waiting /\ Told
  BY <1>8 DEF RemoveRequest
<1>9. ASSUME NEW t \in Tqls, DropMailbox(t) PROVE Waiting /\ Told
  BY <1>9 DEF DropMailbox
<1>10. ASSUME NEW t \in Tqls, DropRequest(t) PROVE Waiting /\ Told
  BY <1>10 DEF DropRequest
<1>10b. ASSUME NEW t \in Tqls, DropReply(t) PROVE Waiting /\ Told
  BY <1>10b DEF DropReply
<1>11. ASSUME NEW t \in Tqls, DropRegistration(t) PROVE Waiting /\ Told
  BY <1>11 DEF DropRegistration
<1>11b. ASSUME NEW t \in Tqls, Unlock(t) PROVE Waiting /\ Told
  BY <1>11b DEF Unlock
<1>12. ASSUME NEW t \in Tqls, Crash(t) PROVE Waiting /\ Told
  BY <1>12 DEF Crash
<1>13. ASSUME NEW a \in Agents, NEW t \in Tqls, LookMissing(a, t) PROVE Waiting /\ Told
  BY <1>13 DEF LookMissing, Go
<1>13b. ASSUME NEW a \in Agents, NEW t \in Tqls, LookOpen(a, t) PROVE Waiting /\ Told
  BY <1>13b DEF LookOpen, Go
<1>14. ASSUME NEW a \in Agents, LookHeld(a) PROVE Waiting /\ Told
  BY <1>14 DEF LookHeld, Entry, Go
<1>15. ASSUME NEW a \in Agents, LookFree(a) PROVE Waiting /\ Told
  BY <1>15 DEF LookFree, Go
<1>16. ASSUME NEW a \in Agents, Call(a) PROVE Waiting /\ Told
  <2>1. \A b \in Agents : b # a => at'[b] = at[b] /\ target'[b] = target[b] /\ calls'[b] = calls[b]
    BY <1>16, CallBegins
  <2>2. at'[a] = "looking" /\ told' = told
    BY <1>16, CallBegins
  <2> QED
    BY <2>1, <2>2
<1>17. ASSUME NEW a \in Agents, SweepMailbox(a) PROVE Waiting /\ Told
  BY <1>17 DEF SweepMailbox, Go
<1>17b. ASSUME NEW a \in Agents, SweepRequest(a) PROVE Waiting /\ Told
  BY <1>17b DEF SweepRequest, Go
<1>17c. ASSUME NEW a \in Agents, SweepReply(a) PROVE Waiting /\ Told
  BY <1>17c DEF SweepReply, Go
<1>18. ASSUME NEW a \in Agents, SweepRegistration(a) PROVE Waiting /\ Told
  BY <1>18 DEF SweepRegistration, Go
<1>18b. ASSUME NEW a \in Agents, Release(a) PROVE Waiting /\ Told
  BY <1>18b DEF Release, Go
<1>19. ASSUME NEW a \in Agents, Choose(a) PROVE Waiting /\ Told
  BY <1>19 DEF Choose, Go
<1>20. ASSUME NEW a \in Agents, ChooseNone(a) PROVE Waiting /\ Told
  <2> DEFINE new == [sql |-> SQL(a), verdict |-> "not open", by |-> target[a], open |-> openSince[a]]
  <2>1. told' = told \cup {new} /\ new.verdict = "not open"
    BY <1>20 DEF ChooseNone, Tell
  <2>2. \A r \in told' : r.verdict = "in the editor" => r \in told
    BY <2>1
  <2> QED
    BY <1>20, <2>2 DEF ChooseNone, Go
<1>21. ASSUME NEW a \in Agents, OpenUnread(a) PROVE Waiting /\ Told
  BY <1>21 DEF OpenUnread, Go
<1>21b. ASSUME NEW a \in Agents, WriteUnread(a) PROVE Waiting /\ Told
  BY <1>21b DEF WriteUnread, Go
<1>22. ASSUME NEW a \in Agents, HandOver(a) PROVE Waiting /\ Told
  BY <1>22 DEF HandOver, Go
<1>23. ASSUME NEW a \in Agents, HandOverFails(a) PROVE Waiting /\ Told
  <2> DEFINE new == [sql |-> SQL(a), verdict |-> "not handed over", by |-> target[a], open |-> openSince[a]]
  <2>1. told' = told \cup {new} /\ new.verdict = "not handed over"
    BY <1>23 DEF HandOverFails, Tell
  <2>2. \A r \in told' : r.verdict = "in the editor" => r \in told
    BY <2>1
  <2> QED
    BY <1>23, <2>2 DEF HandOverFails, Go
<1>24. ASSUME NEW a \in Agents, PickedUp(a) PROVE Waiting /\ Told
  <2> DEFINE new == [sql |-> SQL(a), verdict |-> "in the editor", by |-> target[a], open |-> openSince[a]]
  <2>1. told' = told \cup {new}
    BY <1>24 DEF PickedUp, Tell
  <2>2. ASSUME NEW r \in told' PROVE r \in told \/ (r.by = target[a] /\ r.sql = SQL(a))
    <3>1. CASE r \in told
      BY <3>1
    <3>2. CASE r = new
      BY <3>2
    <3> QED
      BY <2>1, <3>1, <3>2
  <2> QED
    BY <1>24, <2>2 DEF PickedUp, Go
<1>25. ASSUME NEW a \in Agents, NotPickedUp(a) PROVE Waiting /\ Told
  <2> DEFINE new == [sql |-> SQL(a), verdict |-> "busy", by |-> target[a], open |-> openSince[a]]
  <2>1. told' = told \cup {new} /\ new.verdict = "busy"
    BY <1>25 DEF NotPickedUp, Tell
  <2>2. \A r \in told' : r.verdict = "in the editor" => r \in told
    BY <2>1
  <2> QED
    BY <1>25, <2>2 DEF NotPickedUp, Go
<1>26. ASSUME NEW a \in Agents, RemoveReply(a) PROVE Waiting /\ Told
  BY <1>26 DEF RemoveReply, Go
<1>27. ASSUME NEW a \in Agents, WriteRequest(a) PROVE Waiting /\ Told
  BY <1>27 DEF WriteRequest, Go
<1>28. ASSUME NEW a \in Agents, ReadReply(a) PROVE Waiting /\ Told
  BY <1>28 DEF ReadReply, Go
<1>29. ASSUME NEW a \in Agents, RemoveRead(a) PROVE Waiting /\ Told
  BY <1>29 DEF RemoveRead, Go
<1>30. ASSUME NEW a \in Agents, GiveUp(a) PROVE Waiting /\ Told
  BY <1>30 DEF GiveUp, Go
<1>31. CASE Tick
  BY <1>31 DEF Tick
<1>32. CASE UNCHANGED vars
  BY <1>32 DEF vars
<1> QED
  BY <1>1, <1>2, <1>3, <1>4, <1>5, <1>6, <1>7, <1>8, <1>9, <1>10, <1>10b, <1>11, <1>11b, <1>12, <1>13, <1>13b, <1>14, <1>15, <1>16, <1>17, <1>17b, <1>17c, <1>18, <1>18b, <1>19, <1>20, <1>21, <1>21b, <1>22, <1>23, <1>24, <1>25, <1>26, <1>27, <1>28, <1>29, <1>30, <1>31, <1>32
  DEF Next, TqlNext, TqlIdle, AgentNext, Looking, Delivering, ReadingScreen

\* A listed registration whose lock is held, or that an agent chose or swept,
\* is of a tql that was open.
LEMMA FoundStep ==
  ASSUME TypeOK, LocksAndFiles, FoundWereOpen, [Next]_vars
  PROVE  FoundWereOpen'
<1> DEFINE StillOpen(t) == t \in Tqls /\ phase'[t] \notin {"closed", "locked"}
<1>b. \A t : WasOpen(t) => StillOpen(t)
  BY OpenNeverAgain DEF WasOpen
<1>c. /\ \A b \in Agents : \A s \in seen[b] : WasOpen(s.tql)
      /\ \A b \in Agents : at[b] \notin {"idle", "looking"} => WasOpen(target[b])
      /\ \A r \in told : r.verdict = "in the editor" => WasOpen(r.by)
  BY DEF FoundWereOpen
<1>d. \A r \in told' : r.verdict = "in the editor" => StillOpen(r.by)
  <2> SUFFICES ASSUME NEW r \in told', r.verdict = "in the editor", r \notin told
               PROVE  StillOpen(r.by)
    BY <1>b, <1>c
  <2>1. PICK b \in Agents : PickedUp(b) /\ r.by = target[b]
    BY WaitingAndTold
  <2> QED
    BY <1>b, <1>c, <2>1 DEF PickedUp, Go
<1> DEFINE Found == /\ \A b \in Agents : \A s \in seen'[b] : StillOpen(s.tql)
                    /\ \A b \in Agents : at'[b] \notin {"idle", "looking"} => StillOpen(target'[b])
<1>e. Found => FoundWereOpen'
  BY <1>d DEF FoundWereOpen, WasOpen
<1>f. /\ \A b \in Agents : \A s \in seen[b] : StillOpen(s.tql)
      /\ \A b \in Agents : at[b] \notin {"idle", "looking"} => StillOpen(target[b])
  BY <1>b, <1>c
<1> HIDE DEF StillOpen
<1> USE <1>b, <1>c DEF TypeOK, files, tqls, agents, memory
<1>1. ASSUME NEW t \in Tqls, Lock(t) PROVE Found
  BY <1>1 DEF Lock
<1>2. ASSUME NEW t \in Tqls, Publish(t) PROVE Found
  BY <1>2 DEF Publish
<1>3. ASSUME NEW t \in Tqls, Used(t) PROVE Found
  BY <1>3 DEF Used
<1>4. ASSUME NEW t \in Tqls, ReadMailbox(t) PROVE Found
  BY <1>4 DEF ReadMailbox
<1>5. ASSUME NEW t \in Tqls, EmptyMailbox(t) PROVE Found
  BY <1>5 DEF EmptyMailbox
<1>6. ASSUME NEW t \in Tqls, Describe(t) PROVE Found
  BY <1>6 DEF Describe
<1>7. ASSUME NEW t \in Tqls, WriteReply(t) PROVE Found
  BY <1>7 DEF WriteReply
<1>8. ASSUME NEW t \in Tqls, RemoveRequest(t) PROVE Found
  BY <1>8 DEF RemoveRequest
<1>9. ASSUME NEW t \in Tqls, DropMailbox(t) PROVE Found
  BY <1>9 DEF DropMailbox
<1>10. ASSUME NEW t \in Tqls, DropRequest(t) PROVE Found
  BY <1>10 DEF DropRequest
<1>10b. ASSUME NEW t \in Tqls, DropReply(t) PROVE Found
  BY <1>10b DEF DropReply
<1>11. ASSUME NEW t \in Tqls, DropRegistration(t) PROVE Found
  BY <1>11 DEF DropRegistration
<1>11b. ASSUME NEW t \in Tqls, Unlock(t) PROVE Found
  BY <1>11b DEF Unlock
<1>12. ASSUME NEW t \in Tqls, Crash(t) PROVE Found
  BY <1>12 DEF Crash
<1>13. ASSUME NEW a \in Agents, NEW t \in Tqls, LookMissing(a, t) PROVE Found
  BY <1>13 DEF LookMissing, Go
<1>13b. ASSUME NEW a \in Agents, NEW t \in Tqls, LookOpen(a, t) PROVE Found
  <2>1. WasOpen(t)
    BY <1>13b DEF LookOpen, WasOpen, LocksAndFiles
  <2> QED
    BY <1>13b, <2>1 DEF LookOpen, Go
<1>14. ASSUME NEW a \in Agents, LookHeld(a) PROVE Found
  <2>1. WasOpen(target[a])
    BY <1>14 DEF LookHeld, Go
  <2>2. ASSUME NEW b \in Agents, NEW s \in seen'[b] PROVE StillOpen(s.tql)
    <3>1. s \in seen[b] \cup Entry(target[a])
      BY <1>14 DEF LookHeld
    <3>2. CASE s \in seen[b]
      BY <3>2
    <3>3. CASE s \in Entry(target[a])
      <4>1. s.tql = target[a]
        BY <3>3, EntryIs
      <4> QED
        BY <2>1, <4>1
    <3> QED
      BY <3>1, <3>2, <3>3
  <2>3. \A b \in Agents : at'[b] \notin {"idle", "looking"} =>
          at[b] \notin {"idle", "looking"} /\ target'[b] = target[b]
    BY <1>14 DEF LookHeld, Go
  <2> QED
    BY <2>2, <2>3
<1>15. ASSUME NEW a \in Agents, LookFree(a) PROVE Found
  BY <1>15 DEF LookFree, Go
<1>16. ASSUME NEW a \in Agents, Call(a) PROVE Found
  <2>1. \A b \in Agents : b # a => at'[b] = at[b] /\ target'[b] = target[b] /\ seen'[b] = seen[b]
    BY <1>16, CallBegins
  <2>2. at'[a] = "looking" /\ seen'[a] = {}
    BY <1>16, CallBegins
  <2> QED
    BY <1>f, <2>1, <2>2
<1>17. ASSUME NEW a \in Agents, SweepMailbox(a) PROVE Found
  BY <1>17 DEF SweepMailbox, Go
<1>17b. ASSUME NEW a \in Agents, SweepRequest(a) PROVE Found
  BY <1>17b DEF SweepRequest, Go
<1>17c. ASSUME NEW a \in Agents, SweepReply(a) PROVE Found
  BY <1>17c DEF SweepReply, Go
<1>18. ASSUME NEW a \in Agents, SweepRegistration(a) PROVE Found
  BY <1>18 DEF SweepRegistration, Go
<1>18b. ASSUME NEW a \in Agents, Release(a) PROVE Found
  BY <1>18b DEF Release, Go
<1>19. ASSUME NEW a \in Agents, Choose(a) PROVE Found
  <2>1. PICK s \in seen[a] : target' = [target EXCEPT ![a] = s.tql]
    BY <1>19 DEF Choose, Candidates
  <2>2. ASSUME NEW b \in Agents, at'[b] \notin {"idle", "looking"} PROVE StillOpen(target'[b])
    <3>1. CASE b = a
      BY <2>1, <3>1
    <3>2. CASE b # a
      BY <1>19, <2>1, <2>2, <3>2 DEF Choose, Go
    <3> QED
      BY <3>1, <3>2
  <2>3. seen' = seen
    BY <1>19 DEF Choose
  <2> QED
    BY <2>2, <2>3
<1>20. ASSUME NEW a \in Agents, ChooseNone(a) PROVE Found
  <2>2. \A b \in Agents : at'[b] \notin {"idle", "looking"} => at[b] \notin {"idle", "looking"}
    BY <1>20 DEF ChooseNone, Go
  <2>3. seen' = seen /\ target' = target
    BY <1>20 DEF ChooseNone
  <2>5. \A b \in Agents : at'[b] \notin {"idle", "looking"} => StillOpen(target'[b])
    BY <2>2, <2>3
  <2> QED
    BY <2>3, <2>5
<1>21. ASSUME NEW a \in Agents, OpenUnread(a) PROVE Found
  BY <1>21 DEF OpenUnread, Go
<1>21b. ASSUME NEW a \in Agents, WriteUnread(a) PROVE Found
  BY <1>21b DEF WriteUnread, Go
<1>22. ASSUME NEW a \in Agents, HandOver(a) PROVE Found
  BY <1>22 DEF HandOver, Go
<1>23. ASSUME NEW a \in Agents, HandOverFails(a) PROVE Found
  <2>2. \A b \in Agents : at'[b] \notin {"idle", "looking"} => at[b] \notin {"idle", "looking"}
    BY <1>23 DEF HandOverFails, Go
  <2>3. seen' = seen /\ target' = target
    BY <1>23 DEF HandOverFails
  <2>5. \A b \in Agents : at'[b] \notin {"idle", "looking"} => StillOpen(target'[b])
    BY <2>2, <2>3
  <2> QED
    BY <2>3, <2>5
<1>24. ASSUME NEW a \in Agents, PickedUp(a) PROVE Found
  <2>2. \A b \in Agents : at'[b] \notin {"idle", "looking"} => at[b] \notin {"idle", "looking"}
    BY <1>24 DEF PickedUp, Go
  <2>3. seen' = seen /\ target' = target /\ WasOpen(target[a])
    BY <1>24 DEF PickedUp, Go
  <2>5. \A b \in Agents : at'[b] \notin {"idle", "looking"} => StillOpen(target'[b])
    BY <2>2, <2>3
  <2> QED
    BY <2>3, <2>5
<1>25. ASSUME NEW a \in Agents, NotPickedUp(a) PROVE Found
  <2>2. \A b \in Agents : at'[b] \notin {"idle", "looking"} => at[b] \notin {"idle", "looking"}
    BY <1>25 DEF NotPickedUp, Go
  <2>3. seen' = seen /\ target' = target
    BY <1>25 DEF NotPickedUp
  <2>5. \A b \in Agents : at'[b] \notin {"idle", "looking"} => StillOpen(target'[b])
    BY <2>2, <2>3
  <2> QED
    BY <2>3, <2>5
<1>26. ASSUME NEW a \in Agents, RemoveReply(a) PROVE Found
  BY <1>26 DEF RemoveReply, Go
<1>27. ASSUME NEW a \in Agents, WriteRequest(a) PROVE Found
  BY <1>27 DEF WriteRequest, Go
<1>28. ASSUME NEW a \in Agents, ReadReply(a) PROVE Found
  BY <1>28 DEF ReadReply, Go
<1>29. ASSUME NEW a \in Agents, RemoveRead(a) PROVE Found
  BY <1>29 DEF RemoveRead, Go
<1>30. ASSUME NEW a \in Agents, GiveUp(a) PROVE Found
  BY <1>30 DEF GiveUp, Go
<1>31. CASE Tick
  <2>1. seen' = seen /\ at' = at /\ target' = target
    BY <1>31 DEF Tick
  <2> QED
    BY <1>e, <1>f, <2>1
<1>32. CASE UNCHANGED vars
  <2>1. seen' = seen /\ at' = at /\ target' = target
    BY <1>32 DEF vars
  <2> QED
    BY <1>e, <1>f, <2>1
<1> QED
  BY <1>e, <1>1, <1>2, <1>3, <1>4, <1>5, <1>6, <1>7, <1>8, <1>9, <1>10, <1>10b, <1>11, <1>11b, <1>12, <1>13, <1>13b, <1>14, <1>15, <1>16, <1>17, <1>17b, <1>17c, <1>18, <1>18b, <1>19, <1>20, <1>21, <1>21b, <1>22, <1>23, <1>24, <1>25, <1>26, <1>27, <1>28, <1>29, <1>30, <1>31, <1>32
  DEF Next, TqlNext, TqlIdle, AgentNext, Looking, Delivering, ReadingScreen

\* An agent has made a call while it is in one, with a target once it looks at
\* one or has chosen it, and has a file open just between opening and writing.
LEMMA CallsStep ==
  ASSUME TypeOK, CallsInProgress, [Next]_vars
  PROVE  CallsInProgress'
<1> DEFINE Kept == CallsInProgress'
<1> USE ConstantsAssumption DEF TypeOK, CallsInProgress, Sweeping, files, tqls, agents, memory
<1>1. ASSUME NEW t \in Tqls, Lock(t) PROVE Kept
  BY <1>1 DEF Lock
<1>2. ASSUME NEW t \in Tqls, Publish(t) PROVE Kept
  BY <1>2 DEF Publish
<1>3. ASSUME NEW t \in Tqls, Used(t) PROVE Kept
  BY <1>3 DEF Used
<1>4. ASSUME NEW t \in Tqls, ReadMailbox(t) PROVE Kept
  BY <1>4 DEF ReadMailbox
<1>5. ASSUME NEW t \in Tqls, EmptyMailbox(t) PROVE Kept
  BY <1>5 DEF EmptyMailbox, Unlink
<1>6. ASSUME NEW t \in Tqls, Describe(t) PROVE Kept
  BY <1>6 DEF Describe
<1>7. ASSUME NEW t \in Tqls, WriteReply(t) PROVE Kept
  BY <1>7 DEF WriteReply
<1>8. ASSUME NEW t \in Tqls, RemoveRequest(t) PROVE Kept
  BY <1>8 DEF RemoveRequest
<1>9. ASSUME NEW t \in Tqls, DropMailbox(t) PROVE Kept
  BY <1>9 DEF DropMailbox, Unlink
<1>10. ASSUME NEW t \in Tqls, DropRequest(t) PROVE Kept
  BY <1>10 DEF DropRequest
<1>10b. ASSUME NEW t \in Tqls, DropReply(t) PROVE Kept
  BY <1>10b DEF DropReply
<1>11. ASSUME NEW t \in Tqls, DropRegistration(t) PROVE Kept
  BY <1>11 DEF DropRegistration
<1>11b. ASSUME NEW t \in Tqls, Unlock(t) PROVE Kept
  BY <1>11b DEF Unlock
<1>12. ASSUME NEW t \in Tqls, Crash(t) PROVE Kept
  BY <1>12 DEF Crash
<1>13. ASSUME NEW a \in Agents, NEW t \in Tqls, LookMissing(a, t) PROVE Kept
  BY <1>13 DEF LookMissing, Go
<1>13b. ASSUME NEW a \in Agents, NEW t \in Tqls, LookOpen(a, t) PROVE Kept
  BY <1>13b DEF LookOpen, Go
<1>14. ASSUME NEW a \in Agents, LookHeld(a) PROVE Kept
  BY <1>14 DEF LookHeld, Entry, Go
<1>15. ASSUME NEW a \in Agents, LookFree(a) PROVE Kept
  BY <1>15 DEF LookFree, Go
<1>16. ASSUME NEW a \in Agents, Call(a) PROVE Kept
  BY <1>16 DEF Call, Go
<1>17. ASSUME NEW a \in Agents, SweepMailbox(a) PROVE Kept
  BY <1>17 DEF SweepMailbox, Unlink, Go
<1>17b. ASSUME NEW a \in Agents, SweepRequest(a) PROVE Kept
  BY <1>17b DEF SweepRequest, Go
<1>17c. ASSUME NEW a \in Agents, SweepReply(a) PROVE Kept
  BY <1>17c DEF SweepReply, Go
<1>18. ASSUME NEW a \in Agents, SweepRegistration(a) PROVE Kept
  BY <1>18 DEF SweepRegistration, Go
<1>18b. ASSUME NEW a \in Agents, Release(a) PROVE Kept
  BY <1>18b DEF Release, Go
<1>19. ASSUME NEW a \in Agents, Choose(a) PROVE Kept
  BY <1>19 DEF Choose, Go, Candidates, SeenOf
<1>20. ASSUME NEW a \in Agents, ChooseNone(a) PROVE Kept
  BY <1>20 DEF ChooseNone, Go
<1>21. ASSUME NEW a \in Agents, OpenUnread(a) PROVE Kept
  BY <1>21 DEF OpenUnread, Go
<1>21b. ASSUME NEW a \in Agents, WriteUnread(a) PROVE Kept
  BY <1>21b DEF WriteUnread, Go
<1>22. ASSUME NEW a \in Agents, HandOver(a) PROVE Kept
  BY <1>22 DEF HandOver, Moved, Go
<1>23. ASSUME NEW a \in Agents, HandOverFails(a) PROVE Kept
  BY <1>23 DEF HandOverFails, Go
<1>24. ASSUME NEW a \in Agents, PickedUp(a) PROVE Kept
  BY <1>24 DEF PickedUp, Go
<1>25. ASSUME NEW a \in Agents, NotPickedUp(a) PROVE Kept
  BY <1>25 DEF NotPickedUp, Go
<1>26. ASSUME NEW a \in Agents, RemoveReply(a) PROVE Kept
  BY <1>26 DEF RemoveReply, Go
<1>27. ASSUME NEW a \in Agents, WriteRequest(a) PROVE Kept
  BY <1>27 DEF WriteRequest, Go
<1>28. ASSUME NEW a \in Agents, ReadReply(a) PROVE Kept
  BY <1>28 DEF ReadReply, Go
<1>29. ASSUME NEW a \in Agents, RemoveRead(a) PROVE Kept
  BY <1>29 DEF RemoveRead, Go
<1>30. ASSUME NEW a \in Agents, GiveUp(a) PROVE Kept
  BY <1>30 DEF GiveUp, Go
<1>31. CASE Tick
  BY <1>31 DEF Tick
<1>32. CASE UNCHANGED vars
  BY <1>32 DEF vars
<1> QED
  BY <1>1, <1>2, <1>3, <1>4, <1>5, <1>6, <1>7, <1>8, <1>9, <1>10, <1>10b, <1>11, <1>11b, <1>12, <1>13, <1>13b, <1>14, <1>15, <1>16, <1>17, <1>17b, <1>17c, <1>18, <1>18b, <1>19, <1>20, <1>21, <1>21b, <1>22, <1>23, <1>24, <1>25, <1>26, <1>27, <1>28, <1>29, <1>30, <1>31, <1>32
  DEF Next, TqlNext, TqlIdle, AgentNext, Looking, Delivering, ReadingScreen

\* Every step keeps the rest of the invariant: a tql changes its own lock and
\* registration only, and an agent takes a lock only from a crashed tql, since
\* a registration whose lock is free is one that a crash left.
LEMMA SweepStep ==
  ASSUME SweepInv, [Next]_vars
  PROVE  /\ CallsInProgress' /\ LocksAndFiles' /\ FoundWereOpen'
         /\ OnlyTheDeadAreSwept' /\ ServingIsRegistered'
<1> DEFINE Kept == /\ LocksAndFiles'
                   /\ OnlyTheDeadAreSwept'
                   /\ ServingIsRegistered'
<1>a. /\ TypeOK /\ LocksAndFiles
      /\ OnlyTheDeadAreSwept /\ ServingIsRegistered
  BY DEF SweepInv
<1>b. \A a \in Agents : at[a] \notin {"idle", "looking"} => WasOpen(target[a])
  BY DEF SweepInv, FoundWereOpen
<1>c. FoundWereOpen' /\ CallsInProgress'
  BY FoundStep, CallsStep DEF SweepInv
<1>d. \A a \in Agents : at[a] \notin {"idle", "looking"} => target[a] \in Tqls
  BY DEF SweepInv, CallsInProgress
<1>e. ASSUME registration' = registration, lock' = lock, phase' = phase, target' = target,
             \A b \in Agents : at'[b] \in Sweeping => at'[b] = at[b]
      PROVE  Kept
  BY <1>a, <1>e DEF LocksAndFiles, OnlyTheDeadAreSwept, ServingIsRegistered
<1>2. ASSUME NEW t \in Tqls, Publish(t) PROVE Kept
  <2>1. /\ phase[t] = "locked" /\ phase' = [phase EXCEPT ![t] = "open"]
        /\ registration' = [registration EXCEPT ![t] = TRUE]
        /\ lock' = lock /\ target' = target /\ at' = at
    BY <1>2 DEF Publish, agents
  <2>2. \A b \in Agents : at[b] \in Sweeping => phase'[target[b]] = phase[target[b]]
    BY <1>a, <2>1 DEF OnlyTheDeadAreSwept
  <2>3. OnlyTheDeadAreSwept'
    BY <1>a, <2>1, <2>2 DEF OnlyTheDeadAreSwept
  <2>4. LocksAndFiles' /\ ServingIsRegistered'
    BY <1>a, <2>1 DEF LocksAndFiles, ServingIsRegistered, TypeOK, Phases, Alive, Serving
  <2> QED
    BY <2>3, <2>4
<1>20. ASSUME NEW a \in Agents, ChooseNone(a) PROVE Kept
  <2>1. registration' = registration /\ lock' = lock /\ phase' = phase /\ target' = target
    BY <1>20 DEF ChooseNone, files, tqls
  <2>2. \A b \in Agents : at'[b] \in Sweeping => at'[b] = at[b]
    BY <1>a, <1>20 DEF ChooseNone, Go, Sweeping, TypeOK
  <2> QED
    BY <1>e, <2>1, <2>2
<1>23. ASSUME NEW a \in Agents, HandOverFails(a) PROVE Kept
  <2>1. registration' = registration /\ lock' = lock /\ phase' = phase /\ target' = target
    BY <1>23 DEF HandOverFails, files, tqls
  <2>2. \A b \in Agents : at'[b] \in Sweeping => at'[b] = at[b]
    BY <1>a, <1>23 DEF HandOverFails, Go, Sweeping, TypeOK
  <2> QED
    BY <1>e, <2>1, <2>2
<1>24. ASSUME NEW a \in Agents, PickedUp(a) PROVE Kept
  <2>1. registration' = registration /\ lock' = lock /\ phase' = phase /\ target' = target
    BY <1>24 DEF PickedUp, files, tqls
  <2>2. \A b \in Agents : at'[b] \in Sweeping => at'[b] = at[b]
    BY <1>a, <1>24 DEF PickedUp, Go, Sweeping, TypeOK
  <2> QED
    BY <1>e, <2>1, <2>2
<1>31. CASE Tick
  <2>1. registration' = registration /\ lock' = lock /\ phase' = phase /\ target' = target
    BY <1>31 DEF Tick, files, tqls, agents
  <2>2. \A b \in Agents : at'[b] \in Sweeping => at'[b] = at[b]
    BY <1>31 DEF Tick, agents
  <2> QED
    BY <1>c, <1>e, <2>1, <2>2
<1>32. CASE UNCHANGED vars
  <2>1. registration' = registration /\ lock' = lock /\ phase' = phase /\ target' = target
    BY <1>32 DEF vars, files, tqls, agents
  <2>2. \A b \in Agents : at'[b] \in Sweeping => at'[b] = at[b]
    BY <1>32 DEF vars, agents
  <2> QED
    BY <1>c, <1>e, <2>1, <2>2
<1> USE <1>a, <1>d
    DEF TypeOK, LocksAndFiles, OnlyTheDeadAreSwept, ServingIsRegistered,
        Alive, Serving, Phases, Processes, Sweeping, files, tqls, agents, memory
<1>1. ASSUME NEW t \in Tqls, Lock(t) PROVE Kept
  BY <1>1 DEF Lock
<1>3. ASSUME NEW t \in Tqls, Used(t) PROVE Kept
  BY <1>3 DEF Used
<1>4. ASSUME NEW t \in Tqls, ReadMailbox(t) PROVE Kept
  BY <1>4 DEF ReadMailbox
<1>5. ASSUME NEW t \in Tqls, EmptyMailbox(t) PROVE Kept
  BY <1>5 DEF EmptyMailbox, Unlink
<1>6. ASSUME NEW t \in Tqls, Describe(t) PROVE Kept
  BY <1>6 DEF Describe
<1>7. ASSUME NEW t \in Tqls, WriteReply(t) PROVE Kept
  BY <1>7 DEF WriteReply
<1>8. ASSUME NEW t \in Tqls, RemoveRequest(t) PROVE Kept
  BY <1>8 DEF RemoveRequest
<1>9. ASSUME NEW t \in Tqls, DropMailbox(t) PROVE Kept
  BY <1>9 DEF DropMailbox, Unlink
<1>10. ASSUME NEW t \in Tqls, DropRequest(t) PROVE Kept
  BY <1>10 DEF DropRequest
<1>10b. ASSUME NEW t \in Tqls, DropReply(t) PROVE Kept
  BY <1>10b DEF DropReply
<1>11. ASSUME NEW t \in Tqls, DropRegistration(t) PROVE Kept
  BY <1>11 DEF DropRegistration
<1>11b. ASSUME NEW t \in Tqls, Unlock(t) PROVE Kept
  BY <1>11b DEF Unlock
<1>12. ASSUME NEW t \in Tqls, Crash(t) PROVE Kept
  BY <1>12 DEF Crash
<1>13. ASSUME NEW a \in Agents, NEW t \in Tqls, LookMissing(a, t) PROVE Kept
  BY <1>13 DEF LookMissing, Go
<1>13b. ASSUME NEW a \in Agents, NEW t \in Tqls, LookOpen(a, t) PROVE Kept
  BY <1>13b DEF LookOpen, Go
<1>14. ASSUME NEW a \in Agents, LookHeld(a) PROVE Kept
  BY <1>14 DEF LookHeld, Entry, Go
<1>15. ASSUME NEW a \in Agents, LookFree(a) PROVE Kept
  <2> DEFINE t == target[a]
  <2>0. at[a] = "opened" /\ lock[t] = NoOne /\ t \in Tqls
    BY <1>15 DEF LookFree, Go
  <2>1. phase[t] \in {"crashed", "gone"}
    <3>1. phase[t] \notin {"closed", "locked"}
      BY <1>b, <2>0 DEF WasOpen
    <3>2. phase[t] \notin Alive
      BY <2>0, NoOneAssumption
    <3> QED
      BY <2>0, <3>1, <3>2
  <2>3. LocksAndFiles' /\ ServingIsRegistered'
    BY <1>15, <2>1 DEF LookFree
  <2>4. OnlyTheDeadAreSwept'
    <3> SUFFICES ASSUME NEW b \in Agents, at'[b] \in Sweeping
                 PROVE  phase'[target'[b]] \in {"crashed", "gone"} /\ lock'[target'[b]] = b
      OBVIOUS
    <3>1. CASE b = a
      BY <1>15, <1>b, <2>1, <3>1 DEF LookFree, Go, WasOpen
    <3>2. CASE b # a
      <4>1. /\ at[b] \in Sweeping
            /\ target[b] \in Tqls /\ lock[target[b]] = b
            /\ phase[target[b]] \in {"crashed", "gone"}
        <5>1. at'[b] = at[b]
          BY <1>15, <3>2 DEF LookFree, Go
        <5> QED
          BY <5>1
      <4>2. target[b] # t
        BY <1>15, <4>1, NoOneAssumption DEF LookFree
      <4> QED
        BY <1>15, <3>2, <4>1, <4>2 DEF LookFree, Go
    <3> QED
      BY <3>1, <3>2
  <2> QED
    BY <2>3, <2>4
<1>16. ASSUME NEW a \in Agents, Call(a) PROVE Kept
  BY <1>16 DEF Call, Go
<1>17. ASSUME NEW a \in Agents, SweepMailbox(a) PROVE Kept
  BY <1>17 DEF SweepMailbox, Unlink, Go
<1>17b. ASSUME NEW a \in Agents, SweepRequest(a) PROVE Kept
  BY <1>17b DEF SweepRequest, Go
<1>17c. ASSUME NEW a \in Agents, SweepReply(a) PROVE Kept
  BY <1>17c DEF SweepReply, Go
<1>18. ASSUME NEW a \in Agents, SweepRegistration(a) PROVE Kept
  BY <1>18 DEF SweepRegistration, Go
<1>18b. ASSUME NEW a \in Agents, Release(a) PROVE Kept
  BY <1>18b DEF Release, Go
<1>19. ASSUME NEW a \in Agents, Choose(a) PROVE Kept
  BY <1>19 DEF Choose, Go
<1>21. ASSUME NEW a \in Agents, OpenUnread(a) PROVE Kept
  BY <1>21 DEF OpenUnread, Go
<1>21b. ASSUME NEW a \in Agents, WriteUnread(a) PROVE Kept
  BY <1>21b DEF WriteUnread, Go
<1>22. ASSUME NEW a \in Agents, HandOver(a) PROVE Kept
  BY <1>22 DEF HandOver, Moved, Go
<1>25. ASSUME NEW a \in Agents, NotPickedUp(a) PROVE Kept
  BY <1>25 DEF NotPickedUp, Go
<1>26. ASSUME NEW a \in Agents, RemoveReply(a) PROVE Kept
  BY <1>26 DEF RemoveReply, Go
<1>27. ASSUME NEW a \in Agents, WriteRequest(a) PROVE Kept
  BY <1>27 DEF WriteRequest, Go
<1>28. ASSUME NEW a \in Agents, ReadReply(a) PROVE Kept
  BY <1>28 DEF ReadReply, Go
<1>29. ASSUME NEW a \in Agents, RemoveRead(a) PROVE Kept
  BY <1>29 DEF RemoveRead, Go
<1>30. ASSUME NEW a \in Agents, GiveUp(a) PROVE Kept
  BY <1>30 DEF GiveUp, Go
<1> QED
  BY <1>c, <1>1, <1>2, <1>3, <1>4, <1>5, <1>6, <1>7, <1>8, <1>9, <1>10, <1>10b, <1>11, <1>11b, <1>12, <1>13, <1>13b, <1>14, <1>15, <1>16, <1>17, <1>17b, <1>17c, <1>18, <1>18b, <1>19, <1>20, <1>21, <1>21b, <1>22, <1>23, <1>24, <1>25, <1>26, <1>27, <1>28, <1>29, <1>30, <1>31, <1>32
  DEF Next, TqlNext, TqlIdle, AgentNext, Looking, Delivering, ReadingScreen

\* The invariant holds in every reachable state.
THEOREM SweepInvariant == Spec => []SweepInv
<1>1. Init => SweepInv
  BY InitInv
<1>2. SweepInv /\ [Next]_vars => SweepInv'
  <2> SUFFICES ASSUME SweepInv, [Next]_vars PROVE SweepInv'
    OBVIOUS
  <2>1. TypeOK'
    BY TypeStep DEF SweepInv
  <2> QED
    BY <2>1, SweepStep DEF SweepInv
<1> QED
  BY <1>1, <1>2, PTL DEF Spec

\* Every variable is of its type in every reachable state (app/live.rs:30-94,
\* 101-197).
THEOREM TypeCorrect == Spec => []TypeOK
<1>1. SweepInv => TypeOK
  BY DEF SweepInv
<1> QED
  BY <1>1, SweepInvariant, PTL

\* However many tqls open, quit and crash while however many agents list,
\* look and sweep: only what a crashed tql left is ever swept away
\* (open_ones, app/live.rs:114-119).
THEOREM OnlyTheDead == Spec => []OnlyTheDeadAreSwept
<1>1. SweepInv => OnlyTheDeadAreSwept
  BY DEF SweepInv
<1> QED
  BY <1>1, SweepInvariant, PTL

\* A tql that serves can be found by every agent, at every moment: it is
\* registered and its lock is its own (Live::register, app/live.rs:31-52).
THEOREM AlwaysRegistered == Spec => []ServingIsRegistered
<1>1. SweepInv => ServingIsRegistered
  BY DEF SweepInv
<1> QED
  BY <1>1, SweepInvariant, PTL

-----------------------------------------------------------------------------
\* SQL lies unread for the one call that wrote it and is about to rename it:
\* after its rename, or its failure to, there is nothing of it to rename
UnreadIsHanded ==
  \A t \in Tqls : unread[t] \in Statements =>
    LET a == unread[t][1]
    IN  at[a] = "handing" /\ target[a] = t /\ unread[t] = SQL(a)

\* what was ever handed over went to one tql and is not unread; and of the
\* call in progress it is only past the write, whoever renamed the file
HandedOnce ==
  /\ \A t, u \in Tqls : \A s \in Statements : s \in handed[t] /\ s \in handed[u] => t = u
  /\ \A t, u \in Tqls : unread[u] \in Statements => unread[u] \notin handed[t]
  /\ \A t \in Tqls : \A s \in handed[t] : s \in Statements =>
       /\ s[2] <= calls[s[1]]
       /\ s[2] = calls[s[1]] => at[s[1]] \in {"idle", "handing", "waiting"}

\* what is on its way to an editor, or in it, was handed to that tql
HasBeenHanded ==
  \A t \in Tqls :
    /\ mailbox[t] \in handed[t] \cup {NoSQL}
    /\ holding[t] \in handed[t] \cup {NoSQL}
    /\ \A i \in 1 .. Len(editor[t]) : editor[t][i] \in handed[t]

\* sql was handed over after all of its agent's SQL that the editor of t has
Follows(t, sql) ==
  \A i \in 1 .. Len(editor[t]) :
    editor[t][i] \in Statements /\ editor[t][i][1] = sql[1] => editor[t][i][2] < sql[2]

\* and what is on its way comes after what is in the editor.
ComesAfter ==
  \A t \in Tqls :
    /\ mailbox[t] \in Statements => Follows(t, mailbox[t])
    /\ holding[t] \in Statements => Follows(t, holding[t])

HandInv ==
  /\ SweepInv
  /\ UnreadIsHanded
  /\ HandedOnce
  /\ HasBeenHanded
  /\ ComesAfter
  /\ EditorFollowsCalls

\* The SQL an agent waits for is in the mailbox or in the editor, or
\* there has been other SQL.
IsThere(t, sql) ==
  phase[t] \in Serving => mailbox[t] = sql \/ Shows(t, sql) \/ handed[t] \ {sql} # {}

WaitsForIt == \A a \in Agents : at[a] = "waiting" => IsThere(target[a], SQL(a))

LostInv ==
  /\ HandInv
  /\ WaitsForIt
  /\ LostOnlyToOther

-----------------------------------------------------------------------------
(* What a step does to SQL on its way *)

\* Two statements of one agent with one number are the same.
LEMMA SameStatement ==
  ASSUME NEW s \in Statements, NEW u \in Statements, s[1] = u[1], s[2] = u[2]
  PROVE  s = u
BY DEF Statements

\* An agent goes on with its call, but renames nothing
GoesOn(a) ==
  \/ at'[a] = at[a] /\ target'[a] = target[a] /\ calls'[a] = calls[a]
  \/ at[a] = "idle" /\ calls'[a] = calls[a] + 1
  \/ /\ at[a] \notin {"idle", "handing"} /\ calls'[a] = calls[a]
     /\ at[a] = "waiting" => at'[a] = "idle"
  \/ at[a] = "handing" /\ at'[a] = "idle" /\ calls'[a] = calls[a] /\ unread[target[a]] = NoSQL

\* A step that hands nothing over and shows nothing: it loses SQL at most,
\* and who has a file open to write to keeps it
Quiet ==
  /\ UNCHANGED <<unread, holding, editor, handed>>
  /\ mailbox' = mailbox \/ \E t \in Tqls : mailbox' = [mailbox EXCEPT ![t] = NoSQL]
  /\ \A a \in Agents : GoesOn(a)
  /\ \A a \in Agents :
       handle'[a] = handle[a] \/ (handle[a] = "mailbox" /\ handle'[a] = "unlinked")
  /\ \A a \in Agents :
       at[a] = "truncated" => at'[a] = "truncated" /\ target'[a] = target[a]

\* Every step is quiet, or one of the five that move SQL on its way.
LEMMA QuietOrMoves ==
  ASSUME SweepInv, [Next]_vars
  PROVE  \/ Quiet
         \/ \E a \in Agents : OpenUnread(a) \/ WriteUnread(a) \/ HandOver(a)
         \/ \E t \in Tqls : ReadMailbox(t) \/ EmptyMailbox(t)
<1>a. TypeOK /\ CallsInProgress
  BY DEF SweepInv
<1> USE <1>a DEF TypeOK, CallsInProgress, Quiet, GoesOn, files, tqls, agents, memory
<1>1. ASSUME NEW t \in Tqls, Lock(t) PROVE Quiet
  BY <1>1 DEF Lock
<1>2. ASSUME NEW t \in Tqls, Publish(t) PROVE Quiet
  BY <1>2 DEF Publish
<1>3. ASSUME NEW t \in Tqls, Used(t) PROVE Quiet
  BY <1>3 DEF Used
<1>4. ASSUME NEW t \in Tqls, Describe(t) PROVE Quiet
  BY <1>4 DEF Describe
<1>5. ASSUME NEW t \in Tqls, WriteReply(t) PROVE Quiet
  BY <1>5 DEF WriteReply
<1>6. ASSUME NEW t \in Tqls, RemoveRequest(t) PROVE Quiet
  BY <1>6 DEF RemoveRequest
<1>7. ASSUME NEW t \in Tqls, DropMailbox(t) PROVE Quiet
  BY <1>7 DEF DropMailbox, Unlink
<1>8. ASSUME NEW t \in Tqls, DropRequest(t) PROVE Quiet
  BY <1>8 DEF DropRequest
<1>8b. ASSUME NEW t \in Tqls, DropReply(t) PROVE Quiet
  BY <1>8b DEF DropReply
<1>9. ASSUME NEW t \in Tqls, DropRegistration(t) PROVE Quiet
  BY <1>9 DEF DropRegistration
<1>9b. ASSUME NEW t \in Tqls, Unlock(t) PROVE Quiet
  BY <1>9b DEF Unlock
<1>10. ASSUME NEW t \in Tqls, Crash(t) PROVE Quiet
  BY <1>10 DEF Crash
<1>11. ASSUME NEW a \in Agents, NEW t \in Tqls, LookMissing(a, t) PROVE Quiet
  BY <1>11 DEF LookMissing, Go
<1>11b. ASSUME NEW a \in Agents, NEW t \in Tqls, LookOpen(a, t) PROVE Quiet
  BY <1>11b DEF LookOpen, Go
<1>12. ASSUME NEW a \in Agents, LookHeld(a) PROVE Quiet
  BY <1>12 DEF LookHeld, Entry, Go
<1>13. ASSUME NEW a \in Agents, LookFree(a) PROVE Quiet
  BY <1>13 DEF LookFree, Go
<1>14. ASSUME NEW a \in Agents, Call(a) PROVE Quiet
  BY <1>14 DEF Call, Go
<1>15. ASSUME NEW a \in Agents, SweepMailbox(a) PROVE Quiet
  BY <1>15 DEF SweepMailbox, Unlink, Go
<1>15b. ASSUME NEW a \in Agents, SweepRequest(a) PROVE Quiet
  BY <1>15b DEF SweepRequest, Go
<1>15c. ASSUME NEW a \in Agents, SweepReply(a) PROVE Quiet
  BY <1>15c DEF SweepReply, Go
<1>16. ASSUME NEW a \in Agents, SweepRegistration(a) PROVE Quiet
  BY <1>16 DEF SweepRegistration, Go
<1>16b. ASSUME NEW a \in Agents, Release(a) PROVE Quiet
  BY <1>16b DEF Release, Go
<1>17. ASSUME NEW a \in Agents, Choose(a) PROVE Quiet
  BY <1>17 DEF Choose, Go
<1>18. ASSUME NEW a \in Agents, ChooseNone(a) PROVE Quiet
  BY <1>18 DEF ChooseNone, Go, Tell
<1>19. ASSUME NEW a \in Agents, HandOverFails(a) PROVE Quiet
  BY <1>19 DEF HandOverFails, Go, Tell
<1>20. ASSUME NEW a \in Agents, PickedUp(a) PROVE Quiet
  BY <1>20 DEF PickedUp, Go, Tell
<1>21. ASSUME NEW a \in Agents, NotPickedUp(a) PROVE Quiet
  BY <1>21 DEF NotPickedUp, Go, Tell
<1>22. ASSUME NEW a \in Agents, RemoveReply(a) PROVE Quiet
  BY <1>22 DEF RemoveReply, Go
<1>23. ASSUME NEW a \in Agents, WriteRequest(a) PROVE Quiet
  BY <1>23 DEF WriteRequest, Go
<1>24. ASSUME NEW a \in Agents, ReadReply(a) PROVE Quiet
  BY <1>24 DEF ReadReply, Go
<1>25. ASSUME NEW a \in Agents, RemoveRead(a) PROVE Quiet
  BY <1>25 DEF RemoveRead, Go
<1>26. ASSUME NEW a \in Agents, GiveUp(a) PROVE Quiet
  BY <1>26 DEF GiveUp, Go
<1>27. CASE Tick
  BY <1>27 DEF Tick
<1>28. CASE UNCHANGED vars
  BY <1>28 DEF vars
<1> QED
  BY <1>1, <1>2, <1>3, <1>4, <1>5, <1>6, <1>7, <1>8, <1>8b, <1>9, <1>9b, <1>10, <1>11, <1>11b, <1>12, <1>13, <1>14, <1>15, <1>15b, <1>15c, <1>16, <1>16b, <1>17, <1>18, <1>19, <1>20, <1>21, <1>22, <1>23, <1>24, <1>25, <1>26, <1>27, <1>28
  DEF Next, TqlNext, TqlIdle, AgentNext, Looking, Delivering, ReadingScreen

\* Of the call an agent is in, nothing was handed over before its write: all
\* that was handed over of its SQL is older.
LEMMA CurrentIsNewest ==
  ASSUME HandInv, NEW a \in Agents, at[a] = "truncated"
  PROVE  \A t \in Tqls : \A s \in handed[t] :
           s \in Statements /\ s[1] = a => s[2] < calls[a]
<1> SUFFICES ASSUME NEW t \in Tqls, NEW s \in handed[t], s \in Statements, s[1] = a
             PROVE  s[2] < calls[a]
  OBVIOUS
<1>1. s[2] <= calls[a] /\ s[2] # calls[a]
  BY DEF HandInv, HandedOnce
<1>2. s[2] \in Int /\ calls[a] \in Int
  BY ConstantsAssumption DEF Statements, HandInv, SweepInv, TypeOK
<1> QED
  BY <1>1, <1>2

\* A statement that lies unread is the current one of an agent about to
\* rename it, and newer than all of that agent's that were handed over.
LEMMA UnreadIsNewest ==
  ASSUME HandInv, NEW u \in Tqls, unread[u] \in Statements
  PROVE  /\ unread[u][1] \in Agents
         /\ \A t \in Tqls : \A s \in handed[t] :
              s \in Statements /\ s[1] = unread[u][1] => s[2] < unread[u][2]
<1>2. unread[u][1] \in Agents /\ unread[u][2] = calls[unread[u][1]]
  BY DEF HandInv, UnreadIsHanded, SQL, Statements
<1>3. ASSUME NEW t \in Tqls, NEW s \in handed[t], s \in Statements, s[1] = unread[u][1]
      PROVE  s[2] < unread[u][2]
  <2>2. s[2] <= unread[u][2] /\ s # unread[u]
    BY <1>2, <1>3 DEF HandInv, HandedOnce
  <2>3. s[2] # unread[u][2]
    BY <1>3, <2>2, SameStatement
  <2>4. s[2] \in Int /\ unread[u][2] \in Int
    BY <1>3 DEF Statements
  <2> QED
    BY <2>2, <2>3, <2>4
<1> QED
  BY <1>2, <1>3

-----------------------------------------------------------------------------
(* Each statement once, and in order *)

LEMMA HandInit == Init => HandInv
<1> SUFFICES ASSUME Init PROVE HandInv
  OBVIOUS
<1>1. /\ \A t \in Tqls : unread[t] = NoSQL /\ mailbox[t] = NoSQL /\ holding[t] = NoSQL
      /\ \A t \in Tqls : editor[t] = <<>> /\ handed[t] = {}
  BY DEF Init
<1>2. \A t \in Tqls : 1 .. Len(editor[t]) = {}
  BY <1>1
<1>3. UnreadIsHanded /\ HandedOnce
  BY <1>1, ContentsApart DEF UnreadIsHanded, HandedOnce
<1>4. HasBeenHanded /\ ComesAfter /\ EditorFollowsCalls
  BY <1>1, <1>2 DEF HasBeenHanded, ComesAfter, Follows, EditorFollowsCalls
<1> QED
  BY <1>3, <1>4, InitInv DEF HandInv

\* A step that moves nothing keeps the invariant: the call of which a
\* statement lies unread goes on only by a rename.
LEMMA QuietKeepsHandInv ==
  ASSUME HandInv, SweepInv', Quiet
  PROVE  HandInv'
<1>a. TypeOK /\ CallsInProgress /\ TypeOK'
  BY DEF HandInv, SweepInv
<1>b. /\ unread' = unread /\ holding' = holding /\ editor' = editor /\ handed' = handed
      /\ \A t \in Tqls : mailbox'[t] \in {mailbox[t], NoSQL}
      /\ \A a \in Agents : GoesOn(a)
  BY <1>a DEF Quiet, TypeOK
<1>1. UnreadIsHanded'
  <2> SUFFICES ASSUME NEW t \in Tqls, unread[t] \in Statements
               PROVE  /\ at'[unread[t][1]] = "handing"
                      /\ target'[unread[t][1]] = t
                      /\ unread[t] = <<unread[t][1], calls'[unread[t][1]]>>
    BY <1>b DEF UnreadIsHanded, SQL
  <2>1. unread[t][1] \in Agents
    BY UnreadIsNewest
  <2>2. /\ at[unread[t][1]] = "handing" /\ target[unread[t][1]] = t
        /\ unread[t] # NoSQL
        /\ unread[t] = <<unread[t][1], calls[unread[t][1]]>>
    BY ContentsApart DEF HandInv, UnreadIsHanded, SQL
  <2> QED
    BY <1>b, <2>1, <2>2 DEF GoesOn
<1>2. HandedOnce'
  <2>1. ASSUME NEW t \in Tqls, NEW s \in handed[t], s \in Statements
        PROVE  /\ s[2] <= calls'[s[1]]
               /\ s[2] = calls'[s[1]] => at'[s[1]] \in {"idle", "handing", "waiting"}
    <3>1. s[1] \in Agents /\ s[2] \in Int
      BY <2>1 DEF Statements
    <3>2. calls[s[1]] \in Int
      BY <1>a, <3>1 DEF TypeOK
    <3>3. /\ s[2] <= calls[s[1]]
          /\ s[2] = calls[s[1]] => at[s[1]] \in {"idle", "handing", "waiting"}
      BY <2>1 DEF HandInv, HandedOnce
    <3> QED
      BY <1>b, <3>1, <3>2, <3>3 DEF GoesOn
  <2> QED
    BY <1>b, <2>1 DEF HandInv, HandedOnce
<1>3. HasBeenHanded' /\ ComesAfter' /\ EditorFollowsCalls'
  BY <1>b, ContentsApart DEF HandInv, HasBeenHanded, ComesAfter, Follows, EditorFollowsCalls
<1> QED
  BY <1>1, <1>2, <1>3 DEF HandInv

\* Opening <t>.sql.new: what another agent left there is gone.
LEMMA OpenKeepsHandInv ==
  ASSUME HandInv, SweepInv', NEW a \in Agents, OpenUnread(a)
  PROVE  HandInv'
<1>a. TypeOK /\ CallsInProgress
  BY DEF HandInv, SweepInv
<1>b. /\ at[a] = "writing" /\ at' = [at EXCEPT ![a] = "truncated"]
      /\ unread' = [unread EXCEPT ![target[a]] = Unwritten]
      /\ UNCHANGED <<mailbox, holding, editor, calls, target, handed>>
  BY DEF OpenUnread, Go, tqls, memory
<1>c. Unwritten \notin Statements
  BY ContentsApart DEF Pieces
<1>d. \A t \in Tqls : unread'[t] \in Statements => unread'[t] = unread[t]
  BY <1>a, <1>b, <1>c DEF TypeOK
<1>1. UnreadIsHanded'
  <2> SUFFICES ASSUME NEW t \in Tqls, unread'[t] \in Statements
               PROVE  /\ at'[unread[t][1]] = "handing"
                      /\ target[unread[t][1]] = t
                      /\ unread[t] = SQL(unread[t][1])
    BY <1>b, <1>d DEF UnreadIsHanded, SQL
  <2>1. unread[t] \in Statements
    BY <1>d
  <2>2. at[unread[t][1]] = "handing" /\ target[unread[t][1]] = t /\ unread[t] = SQL(unread[t][1])
    BY <2>1 DEF HandInv, UnreadIsHanded
  <2> QED
    BY <1>a, <1>b, <2>1, <2>2, UnreadIsNewest DEF TypeOK
<1>2. HandedOnce'
  <2>1. ASSUME NEW t \in Tqls, NEW s \in handed[t], s \in Statements
        PROVE  /\ s[2] <= calls[s[1]]
               /\ s[2] = calls[s[1]] => at'[s[1]] \in {"idle", "handing", "waiting"}
    <3>1. s[1] \in Agents
      BY <2>1 DEF Statements
    <3> QED
      BY <1>a, <1>b, <2>1, <3>1 DEF HandInv, HandedOnce, TypeOK
  <2> QED
    BY <1>b, <1>d, <2>1 DEF HandInv, HandedOnce
<1>3. HasBeenHanded' /\ ComesAfter' /\ EditorFollowsCalls'
  BY <1>b DEF HandInv, HasBeenHanded, ComesAfter, Follows, EditorFollowsCalls
<1> QED
  BY <1>1, <1>2, <1>3 DEF HandInv

\* What a write does, in <t>.sql.new or in the mailbox that file is by now
LEMMA WhatIsWritten ==
  ASSUME TypeOK, CallsInProgress, NEW a \in Agents, WriteUnread(a)
  PROVE  /\ at[a] = "truncated" /\ at' = [at EXCEPT ![a] = "handing"]
         /\ handle' = [handle EXCEPT ![a] = "none"]
         /\ target[a] \in Tqls /\ SQL(a) \in Statements
         /\ UNCHANGED <<holding, editor, calls, target>>
         /\ \/ /\ handle[a] = "unread"
               /\ \E sql \in Over(unread[target[a]], SQL(a)) :
                    unread' = [unread EXCEPT ![target[a]] = sql]
               /\ mailbox' = mailbox /\ handed' = handed
            \/ /\ unread' = unread /\ handle[a] = "mailbox"
               /\ \E sql \in Over(mailbox[target[a]], SQL(a)) :
                    /\ mailbox' = [mailbox EXCEPT ![target[a]] = sql]
                    /\ handed' = [handed EXCEPT ![target[a]] = @ \cup {sql}]
            \/ handle[a] = "unlinked" /\ UNCHANGED <<unread, mailbox, handed>>
<1>1. at[a] = "truncated"
  BY DEF WriteUnread, Go
<1> QED
  BY <1>1, SQLIsStatement DEF WriteUnread, Go, tqls, CallsInProgress

\* What is written is the SQL of the call, or a piece.
LEMMA OverIs ==
  ASSUME NEW old, NEW sql, NEW new \in Over(old, sql)
  PROVE  new = sql \/ (new = Mixed /\ old # Unwritten)
BY DEF Over

\* Writing: the agent has handed over nothing of this call.
LEMMA WriteKeepsHandInv ==
  ASSUME HandInv, SweepInv', NEW a \in Agents, WriteUnread(a)
  PROVE  HandInv'
<1> DEFINE t0 == target[a]
           now0 == SQL(a)
<1>a. TypeOK /\ CallsInProgress
  BY DEF HandInv, SweepInv
<1>b. /\ at[a] = "truncated" /\ at' = [at EXCEPT ![a] = "handing"]
      /\ t0 \in Tqls /\ now0 \in Statements /\ now0[1] = a /\ now0[2] = calls[a]
      /\ UNCHANGED <<holding, editor, calls, target>>
  BY <1>a, WhatIsWritten DEF SQL
<1>c. Mixed \notin Statements /\ now0 # Mixed /\ now0 # NoSQL
  BY <1>b, ContentsApart DEF Pieces
<1>d. \A t \in Tqls : now0 \notin handed[t]
  BY <1>b DEF HandInv, HandedOnce
<1>e. \A t \in Tqls : unread[t] # now0
  BY <1>b DEF HandInv, UnreadIsHanded
<1>f. \A s \in Statements : s[1] \in Agents
  BY DEF Statements
<1>g. \A b \in Agents : at[b] \in {"idle", "handing", "waiting"} => at'[b] = at[b]
  BY <1>a, <1>b DEF TypeOK
<1>h. at'[a] = "handing"
  BY <1>a, <1>b DEF TypeOK
<1>1. CASE /\ \E sql \in Over(unread[t0], now0) : unread' = [unread EXCEPT ![t0] = sql]
           /\ mailbox' = mailbox /\ handed' = handed
  <2>1. \A t \in Tqls : unread'[t] \in Statements =>
          unread'[t] = unread[t] \/ (t = t0 /\ unread'[t] = now0)
    BY <1>1, <1>a, <1>b, <1>c, OverIs DEF TypeOK
  <2> HIDE DEF t0, now0
  <2>2. UnreadIsHanded'
    <3> SUFFICES ASSUME NEW t \in Tqls, unread'[t] \in Statements
                 PROVE  /\ at'[unread'[t][1]] = "handing"
                        /\ target[unread'[t][1]] = t
                        /\ unread'[t] = SQL(unread'[t][1])
      BY <1>b DEF UnreadIsHanded, SQL
    <3>1. CASE t = t0 /\ unread'[t] = now0
      BY <1>b, <1>h, <3>1 DEF t0, now0
    <3>2. CASE unread'[t] = unread[t]
      <4>1. at[unread[t][1]] = "handing" /\ target[unread[t][1]] = t /\ unread[t] = SQL(unread[t][1])
        BY <3>2 DEF HandInv, UnreadIsHanded
      <4> QED
        BY <1>f, <1>g, <3>2, <4>1
    <3> QED
      BY <2>1, <3>1, <3>2
  <2>3. HandedOnce'
    <3>1. \A t \in Tqls, s \in Statements : s \in handed[t] =>
            /\ s[2] <= calls[s[1]]
            /\ s[2] = calls[s[1]] => at'[s[1]] \in {"idle", "handing", "waiting"}
      BY <1>f, <1>g DEF HandInv, HandedOnce
    <3>2. \A t, u \in Tqls : unread'[u] \in Statements => unread'[u] \notin handed[t]
      BY <1>d, <2>1 DEF HandInv, HandedOnce
    <3> QED
      BY <1>1, <1>b, <3>1, <3>2 DEF HandInv, HandedOnce
  <2>4. HasBeenHanded' /\ ComesAfter' /\ EditorFollowsCalls'
    BY <1>1, <1>b DEF HandInv, HasBeenHanded, ComesAfter, Follows, EditorFollowsCalls
  <2> QED
    BY <2>2, <2>3, <2>4 DEF HandInv
<1>2. CASE /\ unread' = unread
           /\ \E sql \in Over(mailbox[t0], now0) :
                /\ mailbox' = [mailbox EXCEPT ![t0] = sql]
                /\ handed' = [handed EXCEPT ![t0] = @ \cup {sql}]
  <2> PICK sql \in Over(mailbox[t0], now0) :
        /\ mailbox' = [mailbox EXCEPT ![t0] = sql]
        /\ handed' = [handed EXCEPT ![t0] = @ \cup {sql}]
    BY <1>2
  <2>1. sql = now0 \/ sql = Mixed
    BY OverIs
  <2>2. /\ \A t \in Tqls : mailbox'[t] = IF t = t0 THEN sql ELSE mailbox[t]
        /\ \A t \in Tqls : handed'[t] = IF t = t0 THEN handed[t0] \cup {sql} ELSE handed[t]
    BY <1>a DEF TypeOK
  <2> HIDE DEF t0, now0
  <2>3. UnreadIsHanded'
    <3> SUFFICES ASSUME NEW t \in Tqls, unread[t] \in Statements
                 PROVE  /\ at'[unread[t][1]] = "handing"
                        /\ target[unread[t][1]] = t
                        /\ unread[t] = SQL(unread[t][1])
      BY <1>2, <1>b DEF UnreadIsHanded, SQL
    <3>1. at[unread[t][1]] = "handing" /\ target[unread[t][1]] = t /\ unread[t] = SQL(unread[t][1])
      BY DEF HandInv, UnreadIsHanded
    <3> QED
      BY <1>f, <1>g, <3>1
  <2>4. HandedOnce'
    <3>1. ASSUME NEW t \in Tqls, NEW s \in Statements, s \in handed'[t]
          PROVE  /\ s[2] <= calls[s[1]]
                 /\ s[2] = calls[s[1]] => at'[s[1]] \in {"idle", "handing", "waiting"}
      <4>1. CASE s = now0
        <5>1. calls[a] \in Int
          BY <1>a DEF TypeOK
        <5> QED
          BY <1>b, <1>h, <4>1, <5>1
      <4>2. CASE s \in handed[t]
        BY <1>f, <1>g, <4>2 DEF HandInv, HandedOnce
      <4> QED
        BY <1>c, <2>1, <2>2, <3>1, <4>1, <4>2
    <3>2. ASSUME NEW t \in Tqls, NEW u \in Tqls, unread[u] \in Statements PROVE unread[u] \notin handed'[t]
      <4>1. unread[u] \notin handed[t] /\ unread[u] # sql
        BY <1>c, <1>e, <2>1, <3>2 DEF HandInv, HandedOnce
      <4> QED
        BY <2>2, <4>1
    <3>3. ASSUME NEW t \in Tqls, NEW u \in Tqls, NEW s \in Statements, s \in handed'[t], s \in handed'[u]
          PROVE  t = u
      <4>1. CASE s = now0
        BY <1>d, <2>2, <3>3, <4>1
      <4>2. CASE s # now0
        <5>1. s # sql
          BY <1>c, <2>1, <4>2
        <5> QED
          BY <2>2, <3>3, <5>1 DEF HandInv, HandedOnce
      <4> QED
        BY <4>1, <4>2
    <3> QED
      BY <1>2, <1>b, <3>1, <3>2, <3>3 DEF HandedOnce
  <2>5. HasBeenHanded'
    BY <1>b, <2>2 DEF HandInv, HasBeenHanded
  <2>6. ComesAfter'
    <3>1. ASSUME sql \in Statements, NEW i \in 1 .. Len(editor[t0]),
                 editor[t0][i] \in Statements, editor[t0][i][1] = sql[1]
          PROVE  editor[t0][i][2] < sql[2]
      <4>1. editor[t0][i] \in handed[t0]
        BY <1>b DEF HandInv, HasBeenHanded
      <4>2. sql = now0
        BY <1>c, <2>1, <3>1
      <4> QED
        BY <1>b, <3>1, <4>1, <4>2, CurrentIsNewest
    <3> QED
      BY <1>b, <2>2, <3>1 DEF HandInv, ComesAfter, Follows
  <2>7. EditorFollowsCalls'
    BY <1>b DEF HandInv, EditorFollowsCalls
  <2> QED
    BY <2>3, <2>4, <2>5, <2>6, <2>7 DEF HandInv
<1>3. CASE UNCHANGED <<unread, mailbox, handed>>
  <2>1. \A t \in Tqls, s \in Statements : s \in handed[t] =>
          /\ s[2] <= calls[s[1]]
          /\ s[2] = calls[s[1]] => at'[s[1]] \in {"idle", "handing", "waiting"}
    BY <1>f, <1>g DEF HandInv, HandedOnce
  <2>2. UnreadIsHanded'
    BY <1>3, <1>b, <1>f, <1>g DEF HandInv, UnreadIsHanded, SQL
  <2>3. HandedOnce'
    BY <1>3, <1>b, <2>1 DEF HandInv, HandedOnce
  <2>4. HasBeenHanded' /\ ComesAfter' /\ EditorFollowsCalls'
    BY <1>3, <1>b DEF HandInv, HasBeenHanded, ComesAfter, Follows, EditorFollowsCalls
  <2> QED
    BY <2>2, <2>3, <2>4 DEF HandInv
<1> QED
  BY <1>1, <1>2, <1>3, <1>a, WhatIsWritten

\* The rename: what it moves is newer than all its agent has handed over.
LEMMA HandOverKeepsHandInv ==
  ASSUME HandInv, SweepInv', NEW a \in Agents, HandOver(a)
  PROVE  HandInv'
<1> DEFINE t0 == target[a]
           sql == unread[t0]
<1>a. TypeOK /\ CallsInProgress
  BY DEF HandInv, SweepInv
<1>b. /\ at[a] = "handing" /\ at' = [at EXCEPT ![a] = "waiting"]
      /\ sql # NoSQL
      /\ mailbox' = [mailbox EXCEPT ![t0] = sql]
      /\ unread' = [unread EXCEPT ![t0] = NoSQL]
      /\ handed' = [handed EXCEPT ![t0] = @ \cup {sql}]
      /\ UNCHANGED <<holding, editor, calls, target>>
  BY DEF HandOver, Go, tqls
<1>c. t0 \in Tqls
  BY <1>a, <1>b DEF CallsInProgress
<1>d. sql \in Statements =>
        /\ sql[1] \in Agents
        /\ \A t \in Tqls : \A s \in handed[t] : s \in Statements /\ s[1] = sql[1] => s[2] < sql[2]
  BY <1>c, UnreadIsNewest
<1>e. sql \in Statements =>
        at[sql[1]] = "handing" /\ target[sql[1]] = t0 /\ sql = <<sql[1], calls[sql[1]]>>
  BY <1>c DEF HandInv, UnreadIsHanded, SQL
<1>f. \A t \in Tqls : handed'[t] = IF t = t0 THEN handed[t0] \cup {sql} ELSE handed[t]
  BY <1>a, <1>b DEF TypeOK
<1>g. \A t \in Tqls : unread'[t] = IF t = t0 THEN NoSQL ELSE unread[t]
  BY <1>a, <1>b DEF TypeOK
<1>h. \A t \in Tqls : mailbox'[t] = IF t = t0 THEN sql ELSE mailbox[t]
  BY <1>a, <1>b DEF TypeOK
<1>i. NoSQL \notin Statements
  BY ContentsApart
<1>j. \A s \in Statements : s[1] \in Agents
  BY DEF Statements
<1>k. \A b \in Agents : at'[b] = IF b = a THEN "waiting" ELSE at[b]
  BY <1>a, <1>b DEF TypeOK
<1> HIDE DEF t0, sql
<1>1. UnreadIsHanded'
  <2> SUFFICES ASSUME NEW t \in Tqls, unread'[t] \in Statements
               PROVE  /\ at'[unread'[t][1]] = "handing"
                      /\ target[unread'[t][1]] = t
                      /\ unread'[t] = SQL(unread'[t][1])
    BY <1>b DEF UnreadIsHanded, SQL
  <2>1. t # t0 /\ unread'[t] = unread[t]
    BY <1>g, <1>i
  <2>2. at[unread[t][1]] = "handing" /\ target[unread[t][1]] = t /\ unread[t] = SQL(unread[t][1])
    BY <2>1 DEF HandInv, UnreadIsHanded
  <2>3. unread[t][1] \in Agents /\ unread[t][1] # a
    BY <1>j, <2>1, <2>2 DEF t0
  <2> QED
    BY <1>k, <2>1, <2>2, <2>3
<1>2. HandedOnce'
  <2>1. sql \in Statements => \A t \in Tqls : sql \notin handed[t]
    BY <1>c DEF HandInv, HandedOnce, sql
  <2>2. ASSUME NEW t \in Tqls, NEW u \in Tqls, NEW s \in Statements, s \in handed'[t], s \in handed'[u]
        PROVE  t = u
    BY <1>f, <2>1, <2>2 DEF HandInv, HandedOnce
  <2>3. ASSUME NEW t \in Tqls, NEW u \in Tqls, unread'[u] \in Statements PROVE unread'[u] \notin handed'[t]
    <3>1. u # t0 /\ unread'[u] = unread[u]
      BY <1>g, <1>i, <2>3
    <3>2. unread[u] \notin handed[t]
      BY <2>3, <3>1 DEF HandInv, HandedOnce
    <3>3. unread[u] # sql
      BY <1>c, <1>e, <2>3, <3>1 DEF HandInv, UnreadIsHanded
    <3> QED
      BY <1>f, <3>1, <3>2, <3>3
  <2>4. ASSUME NEW t \in Tqls, NEW s \in Statements, s \in handed'[t]
        PROVE  /\ s[2] <= calls[s[1]]
               /\ s[2] = calls[s[1]] => at'[s[1]] \in {"idle", "handing", "waiting"}
    <3>1. CASE s = sql
      <4>1. s[2] = calls[s[1]] /\ calls[s[1]] \in Int
        BY <1>a, <1>d, <1>e, <3>1 DEF TypeOK
      <4> QED
        BY <1>k, <1>d, <1>e, <3>1, <4>1
    <3>2. CASE s # sql
      <4>1. s \in handed[t]
        BY <1>f, <2>4, <3>2
      <4> QED
        BY <1>j, <1>k, <4>1 DEF HandInv, HandedOnce
    <3> QED
      BY <3>1, <3>2
  <2> QED
    BY <1>b, <2>2, <2>3, <2>4 DEF HandedOnce
<1>3. HasBeenHanded'
  BY <1>b, <1>f, <1>h DEF HandInv, HasBeenHanded
<1>4. ComesAfter'
  <2>1. ASSUME sql \in Statements, NEW i \in 1 .. Len(editor[t0]),
               editor[t0][i] \in Statements, editor[t0][i][1] = sql[1]
        PROVE  editor[t0][i][2] < sql[2]
    BY <1>c, <1>d, <2>1 DEF HandInv, HasBeenHanded
  <2> QED
    BY <1>b, <1>c, <1>h, <2>1 DEF HandInv, ComesAfter, Follows
<1>5. EditorFollowsCalls'
  BY <1>b DEF HandInv, EditorFollowsCalls
<1> QED
  BY <1>1, <1>2, <1>3, <1>4, <1>5 DEF HandInv

\* Reading the mailbox moves nothing away from it.
LEMMA ReadKeepsHandInv ==
  ASSUME HandInv, SweepInv', NEW t \in Tqls, ReadMailbox(t)
  PROVE  HandInv'
<1>a. /\ holding' = [holding EXCEPT ![t] = mailbox[t]]
      /\ UNCHANGED <<unread, mailbox, editor, at, calls, target, handed>>
  BY DEF ReadMailbox, files, agents, memory
<1>1. \A u \in Tqls : holding'[u] = IF u = t THEN mailbox[t] ELSE holding[u]
  BY <1>a DEF HandInv, SweepInv, TypeOK
<1>2. UnreadIsHanded' /\ HandedOnce' /\ EditorFollowsCalls'
  BY <1>a DEF HandInv, UnreadIsHanded, SQL, HandedOnce, EditorFollowsCalls
<1>3. HasBeenHanded'
  BY <1>a, <1>1 DEF HandInv, HasBeenHanded
<1>4. ComesAfter'
  BY <1>a, <1>1 DEF HandInv, ComesAfter, Follows
<1> QED
  BY <1>2, <1>3, <1>4 DEF HandInv

\* Emptying the mailbox shows what was read, after all it follows.
LEMMA EmptyKeepsHandInv ==
  ASSUME HandInv, SweepInv', NEW t \in Tqls, EmptyMailbox(t)
  PROVE  HandInv'
<1>a. TypeOK /\ CallsInProgress
  BY DEF HandInv, SweepInv
<1>b. /\ phase[t] = "taking"
      /\ mailbox' = [mailbox EXCEPT ![t] = NoSQL]
      /\ holding' = [holding EXCEPT ![t] = NoSQL]
      /\ editor' = [editor EXCEPT ![t] = Append(@, holding[t])]
      /\ UNCHANGED <<unread, at, calls, target, handed>>
  BY DEF EmptyMailbox, Unlink, agents, memory
<1>c. holding[t] # NoSQL /\ holding[t] \in Contents /\ holding[t] \in handed[t]
  BY <1>a, <1>b DEF CallsInProgress, TypeOK, HandInv, HasBeenHanded
<1>d. editor[t] \in Seq(Contents) /\ Len(editor[t]) \in Nat
  BY <1>a DEF TypeOK
<1>e. /\ editor'[t] = Append(editor[t], holding[t])
      /\ Len(editor'[t]) = Len(editor[t]) + 1
      /\ \A i \in 1 .. Len(editor[t]) : editor'[t][i] = editor[t][i]
      /\ editor'[t][Len(editor[t]) + 1] = holding[t]
  BY <1>a, <1>b, <1>c, <1>d DEF TypeOK
<1>f. \A u \in Tqls : u # t => /\ editor'[u] = editor[u] /\ mailbox'[u] = mailbox[u]
                              /\ holding'[u] = holding[u]
  BY <1>a, <1>b DEF TypeOK
<1>g. mailbox'[t] = NoSQL /\ holding'[t] = NoSQL
  BY <1>a, <1>b DEF TypeOK
<1>1. UnreadIsHanded' /\ HandedOnce'
  BY <1>b DEF HandInv, UnreadIsHanded, SQL, HandedOnce
<1>2. HasBeenHanded'
  <2>1. \A i \in 1 .. Len(editor'[t]) : editor'[t][i] \in handed[t]
    BY <1>c, <1>d, <1>e DEF HandInv, HasBeenHanded
  <2> QED
    BY <1>b, <1>f, <1>g, <2>1 DEF HandInv, HasBeenHanded
<1>3. ComesAfter'
  BY <1>f, <1>g, ContentsApart DEF HandInv, ComesAfter, Follows
<1>4. EditorFollowsCalls'
  <2> SUFFICES ASSUME NEW u \in Tqls,
                      NEW i \in 1 .. Len(editor'[u]), NEW j \in 1 .. Len(editor'[u]),
                      i < j, editor'[u][i] \in Statements, editor'[u][j] \in Statements,
                      editor'[u][i][1] = editor'[u][j][1]
               PROVE  editor'[u][i][2] < editor'[u][j][2]
    BY DEF EditorFollowsCalls
  <2>1. CASE u # t
    BY <1>f, <2>1 DEF HandInv, EditorFollowsCalls
  <2>2. CASE u = t /\ j \in 1 .. Len(editor[t])
    <3>1. i \in 1 .. Len(editor[t])
      BY <1>d, <2>2
    <3> QED
      BY <1>e, <2>2, <3>1 DEF HandInv, EditorFollowsCalls
  <2>3. CASE u = t /\ j = Len(editor[t]) + 1
    <3>1. i \in 1 .. Len(editor[t])
      BY <1>d, <2>3
    <3>2. Follows(t, holding[t])
      BY <1>e, <2>3 DEF HandInv, ComesAfter
    <3> QED
      BY <1>e, <2>3, <3>1, <3>2 DEF Follows
  <2> QED
    BY <1>d, <1>e, <2>1, <2>2, <2>3
<1> QED
  BY <1>1, <1>2, <1>3, <1>4 DEF HandInv

LEMMA HandStep == HandInv /\ [Next]_vars => HandInv'
<1> SUFFICES ASSUME HandInv, [Next]_vars PROVE HandInv'
  OBVIOUS
<1>1. SweepInv'
  BY TypeStep, SweepStep DEF HandInv, SweepInv
<1>2. \/ Quiet
      \/ \E a \in Agents : OpenUnread(a) \/ WriteUnread(a) \/ HandOver(a)
      \/ \E t \in Tqls : ReadMailbox(t) \/ EmptyMailbox(t)
  BY QuietOrMoves DEF HandInv
<1> QED
  BY <1>1, <1>2, QuietKeepsHandInv, OpenKeepsHandInv, WriteKeepsHandInv, HandOverKeepsHandInv,
     ReadKeepsHandInv, EmptyKeepsHandInv

\* The invariant holds in every reachable state.
THEOREM HandInvariant == Spec => []HandInv
BY HandInit, HandStep, PTL DEF Spec

\* Two agents may write the same <t>.sql.new before either renames it, a tql
\* may be swept and another opened: no statement is in two editors, or twice
\* in one (deliver and Live::take, app/live.rs:64-68, 171-197).
THEOREM HandedAtMostOnce == Spec => []AtMostOnce
<1>1. HandInv => AtMostOnce
  <2> SUFFICES ASSUME HandInv, NEW t \in Tqls, NEW u \in Tqls,
                      NEW i \in 1 .. Len(editor[t]), NEW j \in 1 .. Len(editor[u]),
                      editor[t][i] \in Statements, editor[t][i] = editor[u][j]
               PROVE  t = u /\ i = j
    BY DEF AtMostOnce
  <2>1. t = u
    BY DEF HandInv, HasBeenHanded, HandedOnce
  <2>3. editor[t][i][2] \in Int
    BY DEF Statements
  <2>4. ~ (i < j) /\ ~ (j < i)
    BY <2>1, <2>3 DEF HandInv, EditorFollowsCalls
  <2> QED
    BY <2>1, <2>4
<1> QED
  BY <1>1, HandInvariant, PTL

\* An editor shows the statements of one agent in the order of its calls
\* (app/live.rs:64-68, 171-197).
THEOREM ShownInOrder == Spec => []EditorFollowsCalls
<1>1. HandInv => EditorFollowsCalls
  BY DEF HandInv
<1> QED
  BY <1>1, HandInvariant, PTL

-----------------------------------------------------------------------------
(* Less than the whole SQL of a call *)

\* Two agents have called
Two == \E a, b \in Agents : a # b /\ calls[a] # 0 /\ calls[b] # 0

\* <t>.sql.new lies unwritten for an agent that has it open only; and it takes
\* two agents to write one file, or to write to the mailbox.
FilesOpen ==
  /\ \A a \in Agents : handle[a] \in {"mailbox", "unlinked"} => Two
  /\ \A a \in Agents : handle[a] = "unread" => unread[target[a]] # NoSQL
  /\ \A t \in Tqls : unread[t] = Unwritten =>
       Two \/ \E a \in Agents : handle[a] = "unread" /\ target[a] = t
  /\ \A t \in Tqls : unread[t] = Mixed => Two

PieceInv == HandInv /\ FilesOpen /\ PiecesTakeTwo

\* Who has called has called.
LEMMA TwoStays ==
  ASSUME SweepInv, [Next]_vars, Two
  PROVE  Two'
<1>1. \A a \in Agents : calls[a] # 0 => calls'[a] # 0
  <2>1. CASE Quiet
    BY <2>1 DEF Quiet, GoesOn, SweepInv, TypeOK
  <2>2. ASSUME NEW a \in Agents, OpenUnread(a) \/ WriteUnread(a) \/ HandOver(a) PROVE calls' = calls
    BY <2>2 DEF OpenUnread, WriteUnread, HandOver
  <2>3. ASSUME NEW t \in Tqls, ReadMailbox(t) \/ EmptyMailbox(t) PROVE calls' = calls
    BY <2>3 DEF ReadMailbox, EmptyMailbox, agents
  <2> QED
    BY <2>1, <2>2, <2>3, QuietOrMoves
<1> QED
  BY <1>1 DEF Two

\* Two agents that are in the middle of a call have called.
LEMMA TwoAreIt ==
  ASSUME CallsInProgress, NEW a \in Agents, NEW b \in Agents, a # b, at[a] # "idle", at[b] # "idle"
  PROVE  Two
BY DEF CallsInProgress, Two

\* What is put in a mailbox, if it is a piece, took two.
LEMMA PieceHanded ==
  ASSUME TypeOK, PiecesTakeTwo, NEW t \in Tqls, NEW sql, sql \in Pieces => Two', Two => Two',
         handed' = [handed EXCEPT ![t] = @ \cup {sql}]
  PROVE  PiecesTakeTwo'
<1>1. ASSUME NEW u \in Tqls, handed'[u] \cap Pieces # {} PROVE Two'
  <2>1. CASE handed[u] \cap Pieces # {}
    BY <2>1 DEF PiecesTakeTwo, Two
  <2>2. CASE handed[u] \cap Pieces = {}
    <3>1. handed'[u] \subseteq handed[u] \cup {sql}
      BY DEF TypeOK
    <3> QED
      BY <1>1, <2>2, <3>1
  <2> QED
    BY <2>1, <2>2
<1> QED
  BY <1>1 DEF PiecesTakeTwo, Two

LEMMA PieceStep == PieceInv /\ [Next]_vars => PieceInv'
<1> SUFFICES ASSUME PieceInv, [Next]_vars PROVE FilesOpen' /\ PiecesTakeTwo'
  BY HandStep DEF PieceInv
<1>a. SweepInv /\ TypeOK /\ CallsInProgress /\ HandInv
  BY DEF PieceInv, HandInv, SweepInv
<1>b. /\ \A a \in Agents : handle[a] \in {"mailbox", "unlinked"} => Two
      /\ \A a \in Agents : handle[a] = "unread" => unread[target[a]] # NoSQL
      /\ \A t \in Tqls : unread[t] = Unwritten =>
           Two \/ \E a \in Agents : handle[a] = "unread" /\ target[a] = t
      /\ \A t \in Tqls : unread[t] = Mixed => Two
      /\ PiecesTakeTwo
  BY DEF PieceInv, FilesOpen
<1>c. Two => Two'
  BY <1>a, TwoStays
<1>d. \A a \in Agents : handle[a] # "none" => at[a] = "truncated" /\ target[a] \in Tqls
  BY <1>a DEF CallsInProgress
<1>e. Unwritten # NoSQL /\ Mixed # NoSQL /\ Unwritten # Mixed
  BY DEF Unwritten, Mixed, NoSQL
<1>f. \A a, b \in Agents : a # b /\ at[a] # "idle" /\ at[b] # "idle" => Two
  BY <1>a, TwoAreIt
<1>g. handed' = handed => PiecesTakeTwo'
  BY <1>b, <1>c DEF PiecesTakeTwo, Two
<1> HIDE DEF Two
<1>1. CASE Quiet
  <2>1. /\ unread' = unread /\ handed' = handed
        /\ \A a \in Agents : handle'[a] = handle[a] \/ (handle[a] = "mailbox" /\ handle'[a] = "unlinked")
        /\ \A a \in Agents : handle[a] = "unread" => target'[a] = target[a] /\ handle'[a] = "unread"
    BY <1>1, <1>d DEF Quiet
  <2>2. \A a \in Agents : handle'[a] = "unread" => handle[a] = "unread"
    BY <2>1
  <2>3. \A a \in Agents : handle'[a] \in {"mailbox", "unlinked"} => handle[a] \in {"mailbox", "unlinked"}
    BY <2>1
  <2> QED
    BY <1>b, <1>c, <1>g, <2>1, <2>2, <2>3 DEF FilesOpen
<1>2. ASSUME NEW a \in Agents, OpenUnread(a) PROVE FilesOpen' /\ PiecesTakeTwo'
  <2>1. /\ at[a] = "writing" /\ target' = target /\ handed' = handed
        /\ unread' = [unread EXCEPT ![target[a]] = Unwritten]
        /\ handle' = [handle EXCEPT ![a] = "unread"]
    BY <1>2 DEF OpenUnread, Go, memory
  <2>2. target[a] \in Tqls
    BY <1>a, <2>1 DEF CallsInProgress
  <2>3. /\ \A b \in Agents : handle'[b] = IF b = a THEN "unread" ELSE handle[b]
        /\ \A t \in Tqls : unread'[t] = IF t = target[a] THEN Unwritten ELSE unread[t]
    BY <1>a, <2>1 DEF TypeOK
  <2>4. \A b \in Agents : handle'[b] = "unread" => unread'[target[b]] # NoSQL
    BY <1>b, <1>d, <1>e, <2>2, <2>3
  <2>5. \A t \in Tqls : unread'[t] = Unwritten =>
          Two \/ \E b \in Agents : handle'[b] = "unread" /\ target[b] = t
    BY <1>b, <2>3
  <2>6. \A t \in Tqls : unread'[t] = Mixed => Two
    BY <1>b, <1>e, <2>3
  <2> QED
    BY <1>b, <1>c, <1>g, <2>1, <2>3, <2>4, <2>5, <2>6 DEF FilesOpen
<1>3. ASSUME NEW a \in Agents, WriteUnread(a) PROVE FilesOpen' /\ PiecesTakeTwo'
  <2> DEFINE t0 == target[a]
  <2>1. /\ at[a] = "truncated" /\ target' = target /\ t0 \in Tqls
        /\ SQL(a) \in Statements
        /\ handle' = [handle EXCEPT ![a] = "none"]
    BY <1>a, <1>3, WhatIsWritten
  <2>2. \A b \in Agents : handle'[b] = IF b = a THEN "none" ELSE handle[b]
    BY <1>a, <2>1 DEF TypeOK
  <2>3. SQL(a) # NoSQL /\ SQL(a) \notin Pieces
    BY <2>1, ContentsApart
  <2>4. CASE /\ handle[a] = "unread" /\ handed' = handed
             /\ \E sql \in Over(unread[t0], SQL(a)) : unread' = [unread EXCEPT ![t0] = sql]
    <3> PICK sql \in Over(unread[t0], SQL(a)) : unread' = [unread EXCEPT ![t0] = sql]
      BY <2>4
    <3>1. \A t \in Tqls : unread'[t] = IF t = t0 THEN sql ELSE unread[t]
      BY <1>a DEF TypeOK
    <3>2. sql = SQL(a) \/ (sql = Mixed /\ unread[t0] # Unwritten)
      BY OverIs
    <3>3. sql = Mixed => Two
      <4>1. CASE unread[t0] \in Statements
        <5>1. unread[t0][1] \in Agents /\ at[unread[t0][1]] = "handing"
          BY <1>a, <2>1, <4>1, UnreadIsNewest DEF HandInv, UnreadIsHanded
        <5> QED
          BY <1>f, <2>1, <5>1
      <4>2. CASE unread[t0] \notin Statements
        <5>1. unread[t0] \in Pieces
          BY <1>a, <1>b, <2>1, <2>4, <4>2 DEF TypeOK, Contents
        <5>2. sql = Mixed => unread[t0] = Mixed
          BY <2>3, <3>2, <5>1 DEF Pieces
        <5> QED
          BY <1>b, <2>1, <5>2
      <4> QED
        BY <4>1, <4>2
    <3>4. sql # NoSQL /\ sql # Unwritten
      BY <1>e, <2>3, <3>2 DEF Pieces
    <3> HIDE DEF t0
    <3>5. \A b \in Agents : handle'[b] = "unread" => unread'[target[b]] # NoSQL
      BY <1>b, <1>d, <2>2, <3>1, <3>4
    <3>6. \A t \in Tqls : unread'[t] = Unwritten =>
            Two \/ \E b \in Agents : handle'[b] = "unread" /\ target[b] = t
      BY <1>b, <2>2, <3>1, <3>4 DEF t0
    <3>7. \A t \in Tqls : unread'[t] = Mixed => Two
      BY <1>b, <3>1, <3>3
    <3> QED
      BY <1>b, <1>c, <1>g, <2>1, <2>2, <2>4, <3>5, <3>6, <3>7 DEF FilesOpen
  <2>5. CASE /\ unread' = unread /\ handle[a] \in {"mailbox", "unlinked"}
    <3>1. Two'
      BY <1>b, <1>c, <2>5
    <3>2. PiecesTakeTwo'
      BY <3>1 DEF PiecesTakeTwo, Two
    <3> QED
      BY <1>b, <2>1, <2>2, <2>5, <3>1, <3>2 DEF FilesOpen
  <2> QED
    BY <1>a, <1>3, <2>4, <2>5, WhatIsWritten
<1>4. ASSUME NEW a \in Agents, HandOver(a) PROVE FilesOpen' /\ PiecesTakeTwo'
  <2> DEFINE t0 == target[a]
             sql == unread[t0]
  <2>1. /\ at[a] = "handing" /\ target' = target
        /\ unread' = [unread EXCEPT ![t0] = NoSQL]
        /\ handed' = [handed EXCEPT ![t0] = @ \cup {sql}]
        /\ handle' = Moved(t0)
    BY <1>4 DEF HandOver, Go
  <2>2. t0 \in Tqls
    BY <1>a, <2>1 DEF CallsInProgress
  <2>3. \A b \in Agents : handle[b] = "unread" /\ target[b] = t0 => Two
    BY <1>d, <1>f, <2>1
  <2>4. \A b \in Agents :
          /\ handle'[b] \in {"mailbox", "unlinked"} =>
               handle[b] \in {"mailbox", "unlinked"} \/ (handle[b] = "unread" /\ target[b] = t0)
          /\ handle'[b] = "unread" => handle[b] = "unread" /\ target[b] # t0
          /\ handle[b] = "unread" /\ target[b] # t0 => handle'[b] = "unread"
    BY <2>1 DEF Moved
  <2>5. \A t \in Tqls : unread'[t] = IF t = t0 THEN NoSQL ELSE unread[t]
    BY <1>a, <2>1 DEF TypeOK
  <2>6. sql \in Pieces => Two
    BY <1>b, <2>2, <2>3 DEF Pieces
  <2> HIDE DEF t0, sql
  <2>7. \A b \in Agents : handle'[b] = "unread" => unread'[target[b]] # NoSQL
    BY <1>b, <1>d, <2>4, <2>5
  <2>8. \A t \in Tqls : unread'[t] = Unwritten =>
          Two \/ \E b \in Agents : handle'[b] = "unread" /\ target[b] = t
    BY <1>b, <1>e, <2>4, <2>5
  <2>9. \A t \in Tqls : unread'[t] = Mixed => Two
    BY <1>b, <1>e, <2>5
  <2>10. \A b \in Agents : handle'[b] \in {"mailbox", "unlinked"} => Two
    BY <1>b, <2>3, <2>4
  <2>11. PiecesTakeTwo'
    BY <1>a, <1>b, <1>c, <2>1, <2>2, <2>6, PieceHanded
  <2> QED
    BY <1>c, <2>1, <2>7, <2>8, <2>9, <2>10, <2>11 DEF FilesOpen
<1>5. ASSUME NEW t \in Tqls, ReadMailbox(t) PROVE FilesOpen' /\ PiecesTakeTwo'
  <2>1. UNCHANGED <<unread, handle, target, handed>>
    BY <1>5 DEF ReadMailbox, files, agents, memory
  <2> QED
    BY <1>b, <1>c, <1>g, <2>1 DEF FilesOpen
<1>6. ASSUME NEW t \in Tqls, EmptyMailbox(t) PROVE FilesOpen' /\ PiecesTakeTwo'
  <2>1. unread' = unread /\ target' = target /\ handed' = handed
    BY <1>6 DEF EmptyMailbox, agents, memory
  <2>2. \A b \in Agents : handle'[b] = handle[b] \/ (handle[b] = "mailbox" /\ handle'[b] = "unlinked")
    BY <1>6 DEF EmptyMailbox, Unlink
  <2>3. \A b \in Agents : handle'[b] = "unread" <=> handle[b] = "unread"
    BY <2>2
  <2>4. \A b \in Agents : handle'[b] \in {"mailbox", "unlinked"} => handle[b] \in {"mailbox", "unlinked"}
    BY <2>2
  <2> QED
    BY <1>b, <1>c, <1>g, <2>1, <2>3, <2>4 DEF FilesOpen
<1> QED
  BY <1>1, <1>2, <1>3, <1>4, <1>5, <1>6, <1>a, QuietOrMoves

\* An agent that is alone hands over whole SQL only: its own is in <t>.sql.new
\* to the end before the rename, and tql never sees less (deliver,
\* app/live.rs:177-180).
THEOREM WholeUnlessTwo == Spec => []PiecesTakeTwo
<1>1. Init => PieceInv
  <2> SUFFICES ASSUME Init PROVE FilesOpen /\ PiecesTakeTwo
    BY HandInit DEF PieceInv
  <2>1. /\ \A a \in Agents : handle[a] = "none"
        /\ \A t \in Tqls : unread[t] = NoSQL /\ handed[t] = {}
    BY DEF Init
  <2>2. Unwritten # NoSQL /\ Mixed # NoSQL
    BY DEF Unwritten, Mixed, NoSQL
  <2>3. FilesOpen
    BY <2>1, <2>2 DEF FilesOpen
  <2>4. PiecesTakeTwo
    BY <2>1 DEF PiecesTakeTwo
  <2> QED
    BY <2>3, <2>4
<1>2. PieceInv => PiecesTakeTwo
  BY DEF PieceInv
<1> QED
  BY <1>1, <1>2, PieceStep, PTL DEF Spec

-----------------------------------------------------------------------------
(* What is lost, and to what *)

\* Where SQL is put, removed or dropped, and by which step: only a rename
\* puts another statement in the mailbox, and of the steps that empty it one
\* shows the SQL and the others are about a tql that serves no more.
MailboxStep(t) ==
  \/ mailbox'[t] = mailbox[t]
  \/ mailbox'[t] \in handed'[t]
  \/ EmptyMailbox(t)
  \/ phase'[t] \notin Serving

LEMMA MailboxSteps ==
  ASSUME SweepInv, [Next]_vars
  PROVE  \A u \in Tqls : MailboxStep(u)
<1> DEFINE Kept == \A u \in Tqls : MailboxStep(u)
<1>a. TypeOK /\ CallsInProgress /\ OnlyTheDeadAreSwept
  BY DEF SweepInv
<1> USE <1>a DEF TypeOK, MailboxStep, Serving, files, tqls, agents, memory
<1>1. ASSUME NEW t \in Tqls, Lock(t) PROVE Kept
  BY <1>1 DEF Lock
<1>2. ASSUME NEW t \in Tqls, Publish(t) PROVE Kept
  BY <1>2 DEF Publish
<1>3. ASSUME NEW t \in Tqls, Used(t) PROVE Kept
  BY <1>3 DEF Used
<1>4. ASSUME NEW t \in Tqls, ReadMailbox(t) PROVE Kept
  BY <1>4 DEF ReadMailbox
<1>5. ASSUME NEW t \in Tqls, EmptyMailbox(t) PROVE Kept
  <2>1. \A u \in Tqls : u # t => mailbox'[u] = mailbox[u]
    BY <1>5 DEF EmptyMailbox, Unlink
  <2> QED
    BY <1>5, <2>1
<1>6. ASSUME NEW t \in Tqls, Describe(t) PROVE Kept
  BY <1>6 DEF Describe
<1>7. ASSUME NEW t \in Tqls, WriteReply(t) PROVE Kept
  BY <1>7 DEF WriteReply
<1>8. ASSUME NEW t \in Tqls, RemoveRequest(t) PROVE Kept
  BY <1>8 DEF RemoveRequest
<1>9. ASSUME NEW t \in Tqls, DropMailbox(t) PROVE Kept
  BY <1>9 DEF DropMailbox, Unlink
<1>10. ASSUME NEW t \in Tqls, DropRequest(t) PROVE Kept
  BY <1>10 DEF DropRequest
<1>10b. ASSUME NEW t \in Tqls, DropReply(t) PROVE Kept
  BY <1>10b DEF DropReply
<1>11. ASSUME NEW t \in Tqls, DropRegistration(t) PROVE Kept
  BY <1>11 DEF DropRegistration
<1>11b. ASSUME NEW t \in Tqls, Unlock(t) PROVE Kept
  BY <1>11b DEF Unlock
<1>12. ASSUME NEW t \in Tqls, Crash(t) PROVE Kept
  BY <1>12 DEF Crash
<1>13. ASSUME NEW a \in Agents, NEW t \in Tqls, LookMissing(a, t) PROVE Kept
  BY <1>13 DEF LookMissing, Go
<1>13b. ASSUME NEW a \in Agents, NEW t \in Tqls, LookOpen(a, t) PROVE Kept
  BY <1>13b DEF LookOpen, Go
<1>14. ASSUME NEW a \in Agents, LookHeld(a) PROVE Kept
  BY <1>14 DEF LookHeld, Entry, Go
<1>15. ASSUME NEW a \in Agents, LookFree(a) PROVE Kept
  BY <1>15 DEF LookFree, Go
<1>16. ASSUME NEW a \in Agents, Call(a) PROVE Kept
  BY <1>16 DEF Call, Go
<1>17. ASSUME NEW a \in Agents, SweepMailbox(a) PROVE Kept
  <2>1. at[a] \in Sweeping
    BY <1>17 DEF SweepMailbox, Go, Sweeping
  <2>2. phase[target[a]] \in {"crashed", "gone"}
    BY <2>1 DEF OnlyTheDeadAreSwept
  <2> QED
    BY <1>17, <2>2 DEF SweepMailbox, Unlink
<1>17b. ASSUME NEW a \in Agents, SweepRequest(a) PROVE Kept
  BY <1>17b DEF SweepRequest, Go
<1>17c. ASSUME NEW a \in Agents, SweepReply(a) PROVE Kept
  BY <1>17c DEF SweepReply, Go
<1>18. ASSUME NEW a \in Agents, SweepRegistration(a) PROVE Kept
  BY <1>18 DEF SweepRegistration, Go
<1>18b. ASSUME NEW a \in Agents, Release(a) PROVE Kept
  BY <1>18b DEF Release, Go
<1>19. ASSUME NEW a \in Agents, Choose(a) PROVE Kept
  BY <1>19 DEF Choose, Go
<1>20. ASSUME NEW a \in Agents, ChooseNone(a) PROVE Kept
  BY <1>20 DEF ChooseNone, Go, Tell
<1>21. ASSUME NEW a \in Agents, OpenUnread(a) PROVE Kept
  BY <1>21 DEF OpenUnread, Go
<1>21b. ASSUME NEW a \in Agents, WriteUnread(a) PROVE Kept
  <2>1. target[a] \in Tqls
    BY <1>21b DEF WriteUnread, Go, CallsInProgress
  <2>2. CASE mailbox' = mailbox
    BY <2>2
  <2>3. CASE \E sql \in Over(mailbox[target[a]], SQL(a)) :
               /\ mailbox' = [mailbox EXCEPT ![target[a]] = sql]
               /\ handed' = [handed EXCEPT ![target[a]] = @ \cup {sql}]
    BY <2>1, <2>3
  <2> QED
    BY <1>21b, <1>a, <2>2, <2>3, WhatIsWritten
<1>22. ASSUME NEW a \in Agents, HandOver(a) PROVE Kept
  <2>1. target[a] \in Tqls
    BY <1>22 DEF HandOver, Go, CallsInProgress
  <2>2. handed'[target[a]] = handed[target[a]] \cup {unread[target[a]]}
    BY <1>22, <2>1 DEF HandOver
  <2> QED
    BY <1>22, <2>2 DEF HandOver
<1>23. ASSUME NEW a \in Agents, HandOverFails(a) PROVE Kept
  BY <1>23 DEF HandOverFails, Go, Tell
<1>24. ASSUME NEW a \in Agents, PickedUp(a) PROVE Kept
  BY <1>24 DEF PickedUp, Go, Tell
<1>25. ASSUME NEW a \in Agents, NotPickedUp(a) PROVE Kept
  BY <1>25 DEF NotPickedUp, Go, Tell
<1>26. ASSUME NEW a \in Agents, RemoveReply(a) PROVE Kept
  BY <1>26 DEF RemoveReply, Go
<1>27. ASSUME NEW a \in Agents, WriteRequest(a) PROVE Kept
  BY <1>27 DEF WriteRequest, Go
<1>28. ASSUME NEW a \in Agents, ReadReply(a) PROVE Kept
  BY <1>28 DEF ReadReply, Go
<1>29. ASSUME NEW a \in Agents, RemoveRead(a) PROVE Kept
  BY <1>29 DEF RemoveRead, Go
<1>30. ASSUME NEW a \in Agents, GiveUp(a) PROVE Kept
  BY <1>30 DEF GiveUp, Go
<1>31. CASE Tick
  BY <1>31 DEF Tick
<1>32. CASE UNCHANGED vars
  BY <1>32 DEF vars
<1> QED
  BY <1>1, <1>2, <1>3, <1>4, <1>5, <1>6, <1>7, <1>8, <1>9, <1>10, <1>10b, <1>11, <1>11b, <1>12, <1>13, <1>13b, <1>14, <1>15, <1>16, <1>17, <1>17b, <1>17c, <1>18, <1>18b, <1>19, <1>20, <1>21, <1>21b, <1>22, <1>23, <1>24, <1>25, <1>26, <1>27, <1>28, <1>29, <1>30, <1>31, <1>32
  DEF Next, TqlNext, TqlIdle, AgentNext, Looking, Delivering, ReadingScreen

\* What was handed over or shown stays so.
LEMMA NothingForgotten ==
  ASSUME SweepInv, [Next]_vars
  PROVE  \A u \in Tqls :
           /\ handed[u] \subseteq handed'[u]
           /\ Len(editor[u]) <= Len(editor'[u])
           /\ \A i \in 1 .. Len(editor[u]) : editor'[u][i] = editor[u][i]
<1>a. TypeOK /\ CallsInProgress
  BY DEF SweepInv
<1>b. \A u \in Tqls : editor[u] \in Seq(Contents) /\ Len(editor[u]) \in Nat
  BY <1>a DEF TypeOK
<1>1. CASE Quiet
  BY <1>1, <1>b DEF Quiet
<1>2. ASSUME NEW a \in Agents, OpenUnread(a) \/ WriteUnread(a) \/ HandOver(a)
      PROVE  editor' = editor /\ \A u \in Tqls : handed[u] \subseteq handed'[u]
  <2>0. CASE OpenUnread(a)
    BY <2>0 DEF OpenUnread, tqls, memory
  <2>1. CASE WriteUnread(a)
    <3>1. editor' = editor /\ target[a] \in Tqls
      BY <1>a, <2>1, WhatIsWritten
    <3>2. CASE handed' = handed
      BY <3>1, <3>2
    <3>3. CASE \E sql \in Over(mailbox[target[a]], SQL(a)) : handed' = [handed EXCEPT ![target[a]] = @ \cup {sql}]
      BY <1>a, <3>1, <3>3 DEF TypeOK
    <3> QED
      BY <1>a, <2>1, <3>2, <3>3, WhatIsWritten
  <2>2. CASE HandOver(a)
    <3>1. /\ editor' = editor
          /\ handed' = [handed EXCEPT ![target[a]] = @ \cup {unread[target[a]]}]
      BY <2>2 DEF HandOver, tqls
    <3> QED
      BY <3>1, <1>a DEF TypeOK
  <2> QED
    BY <1>2, <2>0, <2>1, <2>2
<1>3. ASSUME NEW t \in Tqls, ReadMailbox(t)
      PROVE  editor' = editor /\ handed' = handed
  BY <1>3 DEF ReadMailbox, memory
<1>4. ASSUME NEW t \in Tqls, EmptyMailbox(t)
      PROVE  \A u \in Tqls :
               /\ handed[u] \subseteq handed'[u]
               /\ Len(editor[u]) <= Len(editor'[u])
               /\ \A i \in 1 .. Len(editor[u]) : editor'[u][i] = editor[u][i]
  <2>1. holding[t] \in Contents
    BY <1>4, <1>a DEF EmptyMailbox, CallsInProgress, TypeOK
  <2>2. editor'[t] = Append(editor[t], holding[t]) /\ handed' = handed
    BY <1>4, <1>a DEF EmptyMailbox, TypeOK, memory
  <2>3. \A u \in Tqls : u # t => editor'[u] = editor[u]
    BY <1>4, <1>a DEF EmptyMailbox, TypeOK
  <2>4. /\ Len(editor[t]) <= Len(editor'[t])
        /\ \A i \in 1 .. Len(editor[t]) : editor'[t][i] = editor[t][i]
    BY <1>b, <2>1, <2>2
  <2> QED
    BY <1>b, <2>2, <2>3, <2>4
<1> QED
  BY <1>b, <1>1, <1>2, <1>3, <1>4, QuietOrMoves

\* The SQL an agent waits for stays where it is, or is shown, or gives way to
\* other SQL, or its tql serves no more.
LEMMA IsThereStays ==
  ASSUME HandInv, [Next]_vars, NEW t, WasOpen(t), NEW sql \in Statements, IsThere(t, sql)
  PROVE  IsThere(t, sql)'
<1> USE DEF WasOpen
<1>a. TypeOK /\ CallsInProgress /\ SweepInv
  BY DEF HandInv, SweepInv
<1> SUFFICES ASSUME phase'[t] \in Serving
             PROVE  mailbox'[t] = sql \/ Shows(t, sql)' \/ handed'[t] \ {sql} # {}
  BY DEF IsThere
<1>b. phase[t] \in Serving
  BY <1>a, OpenNeverAgain
<1>c. /\ handed[t] \subseteq handed'[t]
      /\ Len(editor[t]) <= Len(editor'[t])
      /\ \A i \in 1 .. Len(editor[t]) : editor'[t][i] = editor[t][i]
  BY <1>a, NothingForgotten
<1>d. Len(editor[t]) \in Nat /\ Len(editor'[t]) \in Nat
  <2>1. TypeOK'
    BY <1>a, TypeStep
  <2> QED
    BY <1>a, <2>1 DEF TypeOK
<1>1. CASE Shows(t, sql)
  BY <1>1, <1>c, <1>d DEF Shows
<1>2. CASE handed[t] \ {sql} # {}
  BY <1>2, <1>c
<1>3. CASE mailbox[t] = sql /\ mailbox'[t] # mailbox[t]
  <2>1. CASE mailbox'[t] \in handed'[t]
    BY <1>3, <2>1
  <2>2. CASE EmptyMailbox(t)
    <3>1. holding[t] # NoSQL /\ holding[t] \in handed[t] /\ holding[t] \in Contents
      BY <1>a, <2>2 DEF EmptyMailbox, HandInv, CallsInProgress, HasBeenHanded, TypeOK
    <3>2. CASE holding[t] # sql
      BY <3>1, <3>2, <1>c
    <3>3. CASE holding[t] = sql
      <4>1. editor[t] \in Seq(Contents) /\ editor'[t] = Append(editor[t], sql)
        BY <1>a, <2>2, <3>3 DEF EmptyMailbox, TypeOK
      <4>2. Len(editor[t]) + 1 \in 1 .. Len(editor'[t]) /\ editor'[t][Len(editor[t]) + 1] = sql
        BY <4>1, <1>d
      <4> QED
        BY <4>2 DEF Shows
    <3> QED
      BY <3>2, <3>3
  <2> QED
    BY <1>3, <1>a, <2>1, <2>2, MailboxSteps DEF MailboxStep
<1> QED
  BY <1>1, <1>2, <1>3, <1>b DEF IsThere

LEMMA LostStep == LostInv /\ [Next]_vars => LostInv'
<1> SUFFICES ASSUME LostInv, [Next]_vars PROVE LostInv'
  OBVIOUS
<1>a. HandInv /\ FoundWereOpen /\ SweepInv /\ TypeOK /\ CallsInProgress
  BY DEF LostInv, HandInv, SweepInv
<1>b. HandInv' /\ TypeOK'
  BY <1>a, HandStep DEF HandInv, SweepInv
<1>c. \A u \in Tqls : /\ handed[u] \subseteq handed'[u]
                     /\ Len(editor[u]) \in Nat /\ Len(editor'[u]) \in Nat
                     /\ Len(editor[u]) <= Len(editor'[u])
                     /\ \A i \in 1 .. Len(editor[u]) : editor'[u][i] = editor[u][i]
  BY <1>a, <1>b, NothingForgotten DEF TypeOK
<1>d. ASSUME NEW u \in Tqls, NEW q, Shows(u, q)
      PROVE  \E i \in 1 .. Len(editor'[u]) : editor'[u][i] = q
  BY <1>c, <1>d DEF Shows
<1>1. WaitsForIt'
  <2> SUFFICES ASSUME NEW b \in Agents, at'[b] = "waiting"
               PROVE  IsThere(target[b], SQL(b))'
    BY DEF WaitsForIt
  <2>1. CASE at[b] = "waiting" /\ target'[b] = target[b] /\ calls'[b] = calls[b]
    <3>1. IsThere(target[b], SQL(b)) /\ WasOpen(target[b]) /\ SQL(b) \in Statements
      BY <1>a, <2>1, SQLIsStatement DEF LostInv, WaitsForIt, FoundWereOpen
    <3> DEFINE t == target[b]
               sql == SQL(b)
    <3>2. target'[b] = t /\ SQL(b)' = sql
      BY <2>1 DEF SQL
    <3>3. \A u, q : WasOpen(u) /\ q \in Statements /\ IsThere(u, q) =>
            (phase'[u] \in Serving => mailbox'[u] = q \/ Shows(u, q)' \/ handed'[u] \ {q} # {})
      BY <1>a, IsThereStays DEF IsThere
    <3> QED
      BY <3>1, <3>2, <3>3 DEF IsThere, Shows
  <2>2. CASE HandOver(b)
    <3>1. /\ target[b] \in Tqls /\ target' = target /\ calls' = calls
          /\ mailbox'[target[b]] = unread[target[b]]
          /\ unread[target[b]] \in handed'[target[b]]
      BY <1>a, <2>2 DEF HandOver, Go, CallsInProgress, TypeOK
    <3>2. SQL(b)' = SQL(b)
      BY <3>1 DEF SQL
    <3> QED
      BY <3>1, <3>2 DEF IsThere
  <2> QED
    BY <1>a, <2>1, <2>2, WaitingAndTold
<1>2. LostOnlyToOther'
  <2> SUFFICES ASSUME NEW r \in told', r.verdict = "in the editor", phase'[r.by] \in Serving
               PROVE  Shows(r.by, r.sql)' \/ handed'[r.by] \ {r.sql} # {}
    BY DEF LostOnlyToOther
  <2>1. r.by \in Tqls /\ WasOpen(r.by)
    <3>1. r \in told \/ \E b \in Agents : PickedUp(b) /\ r.by = target[b] /\ r.sql = SQL(b)
      BY <1>a, WaitingAndTold
    <3> QED
      BY <1>a, <3>1 DEF FoundWereOpen, WasOpen, PickedUp, Go
  <2>2. phase[r.by] \in Serving
    BY <1>a, <2>1, OpenNeverAgain
  <2>3. Shows(r.by, r.sql) \/ handed[r.by] \ {r.sql} # {}
    <3>1. CASE r \in told
      BY <2>2, <3>1 DEF LostInv, LostOnlyToOther
    <3>2. ASSUME NEW b \in Agents, PickedUp(b), r.by = target[b], r.sql = SQL(b)
          PROVE  Shows(r.by, r.sql) \/ handed[r.by] \ {r.sql} # {}
      <4>1. at[b] = "waiting" /\ mailbox[r.by] = NoSQL
        BY <3>2 DEF PickedUp, Go
      <4>2. r.sql \in Statements /\ r.sql # NoSQL
        BY <1>a, <3>2, <4>1, SQLIsStatement, ContentsApart
      <4> QED
        BY <2>2, <3>2, <4>1, <4>2 DEF LostInv, WaitsForIt, IsThere
    <3> QED
      BY <1>a, <3>1, <3>2, WaitingAndTold
  <2>4. handed[r.by] \subseteq handed'[r.by]
    BY <1>c, <2>1
  <2>5. Shows(r.by, r.sql) => \E i \in 1 .. Len(editor'[r.by]) : editor'[r.by][i] = r.sql
    BY <1>d, <2>1
  <2> QED
    BY <2>3, <2>4, <2>5 DEF Shows
<1> QED
  BY <1>b, <1>1, <1>2 DEF LostInv

\* While a tql serves, SQL that left its mailbox unseen gave way to other SQL
\* (deliver, app/live.rs:177-192; Live::take, app/live.rs:64-68).
THEOREM LostToOtherOnly == Spec => []LostOnlyToOther
<1>1. Init => LostInv
  BY HandInit DEF Init, LostInv, WaitsForIt, LostOnlyToOther
<1>2. LostInv => LostOnlyToOther
  BY DEF LostInv
<1> QED
  BY <1>1, <1>2, LostStep, PTL DEF Spec

-----------------------------------------------------------------------------
(* The files implement the abstract handoff *)

\* What the refinement takes for pending.
Pending == [t \in Tqls |-> {mailbox[t], holding[t]} \ {NoSQL}]

\* A step that hands nothing over and shows nothing loses what was pending
\* for one tql, or changes nothing that the handoff speaks of.
LEMMA QuietImplements ==
  ASSUME HandInv, Quiet
  PROVE  [Handoff!Next]_(Handoff!vars)
<1>a. TypeOK
  BY DEF HandInv, SweepInv
<1>b. holding' = holding /\ editor' = editor /\ handed' = handed
  BY DEF Quiet
<1>1. CASE mailbox' = mailbox
  BY <1>1, <1>b DEF Handoff!vars
<1>2. ASSUME NEW t \in Tqls, mailbox' = [mailbox EXCEPT ![t] = NoSQL]
      PROVE  Handoff!Lose(t)
  <2> DEFINE kept == {holding[t]} \ {NoSQL}
  <2>1. kept \in SUBSET Pending[t]
    BY DEF Pending
  <2>2. Pending' = [Pending EXCEPT ![t] = kept]
    BY <1>a, <1>b, <1>2 DEF Pending, TypeOK
  <2> QED
    BY <1>b, <2>1, <2>2 DEF Handoff!Lose, Pending
<1> QED
  BY <1>1, <1>2 DEF Quiet, Handoff!Next

\* Something put in the mailbox of t, a statement newer than all its agent
\* has handed over or a piece: what the tql has read may still be shown.
LEMMA PutImplements ==
  ASSUME HandInv, NEW t \in Tqls, NEW sql \in Contents,
         sql \in Statements => Handoff!Newest(sql),
         mailbox' = [mailbox EXCEPT ![t] = sql],
         handed' = [handed EXCEPT ![t] = @ \cup {sql}],
         UNCHANGED <<holding, editor>>
  PROVE  Handoff!Next
<1> DEFINE kept == {holding[t]} \ {NoSQL}
<1>a. TypeOK
  BY DEF HandInv, SweepInv
<1>b. sql # NoSQL
  BY ContentsApart
<1>1. kept \in SUBSET Pending[t]
  BY DEF Pending
<1>2. Pending' = [Pending EXCEPT ![t] = kept \cup {sql}]
  <2>1. /\ mailbox'[t] = sql /\ holding' = holding
        /\ \A u \in Tqls : u # t => mailbox'[u] = mailbox[u]
    BY <1>a DEF TypeOK
  <2>2. {sql, holding[t]} \ {NoSQL} = kept \cup {sql}
    BY <1>b
  <2> QED
    BY <2>1, <2>2 DEF Pending
<1>3. Handoff!Hand(t, sql)
  BY <1>1, <1>2 DEF Handoff!Hand, Pending
<1> QED
  BY <1>3 DEF Handoff!Next, Contents

\* The rename hands over what is there; it replaces what is in the mailbox.
LEMMA HandOverImplements ==
  ASSUME HandInv, NEW a \in Agents, HandOver(a)
  PROVE  Handoff!Next
<1>a. TypeOK /\ CallsInProgress
  BY DEF HandInv, SweepInv
<1>b. /\ at[a] = "handing" /\ unread[target[a]] # NoSQL
      /\ mailbox' = [mailbox EXCEPT ![target[a]] = unread[target[a]]]
      /\ handed' = [handed EXCEPT ![target[a]] = @ \cup {unread[target[a]]}]
      /\ UNCHANGED <<holding, editor>>
  BY DEF HandOver, Go, tqls
<1>c. target[a] \in Tqls /\ unread[target[a]] \in Contents
  BY <1>a, <1>b DEF CallsInProgress, TypeOK
<1>d. unread[target[a]] \in Statements => Handoff!Newest(unread[target[a]])
  BY <1>c, UnreadIsNewest DEF Handoff!Newest
<1> QED
  BY <1>b, <1>c, <1>d, PutImplements

\* A write where the mailbox is by now hands over too; any other is not seen.
LEMMA WriteImplements ==
  ASSUME HandInv, NEW a \in Agents, WriteUnread(a)
  PROVE  [Handoff!Next]_(Handoff!vars)
<1>a. TypeOK /\ CallsInProgress
  BY DEF HandInv, SweepInv
<1>b. /\ at[a] = "truncated" /\ target[a] \in Tqls /\ SQL(a) \in Statements
      /\ UNCHANGED <<holding, editor>>
  BY <1>a, WhatIsWritten
<1>1. CASE mailbox' = mailbox /\ handed' = handed
  BY <1>b, <1>1 DEF Handoff!vars
<1>2. ASSUME NEW sql \in Over(mailbox[target[a]], SQL(a)),
             mailbox' = [mailbox EXCEPT ![target[a]] = sql],
             handed' = [handed EXCEPT ![target[a]] = @ \cup {sql}]
      PROVE  Handoff!Next
  <2>1. sql = SQL(a) \/ sql = Mixed
    BY OverIs
  <2>2. sql \in Contents
    BY <1>b, <2>1, ContentsApart DEF Pieces
  <2>3. sql \in Statements => Handoff!Newest(sql)
    <3>1. Mixed \notin Statements
      BY ContentsApart DEF Pieces
    <3>2. SQL(a)[1] = a /\ SQL(a)[2] = calls[a]
      BY DEF SQL
    <3>3. Handoff!Newest(SQL(a))
      BY <1>b, <3>2, CurrentIsNewest DEF Handoff!Newest
    <3> QED
      BY <2>1, <3>1, <3>3
  <2> QED
    BY <1>b, <1>2, <2>2, <2>3, PutImplements
<1> QED
  BY <1>1, <1>2, <1>a, WhatIsWritten

\* Emptying the mailbox shows what was read from it, and what had come to the
\* mailbox meanwhile is lost.
LEMMA EmptyImplements ==
  ASSUME HandInv, NEW t \in Tqls, EmptyMailbox(t)
  PROVE  Handoff!Next
<1>a. TypeOK /\ CallsInProgress
  BY DEF HandInv, SweepInv
<1>b. /\ phase[t] = "taking"
      /\ mailbox' = [mailbox EXCEPT ![t] = NoSQL]
      /\ holding' = [holding EXCEPT ![t] = NoSQL]
      /\ editor' = [editor EXCEPT ![t] = Append(@, holding[t])]
      /\ handed' = handed
  BY DEF EmptyMailbox, Unlink, memory
<1>c. holding[t] # NoSQL /\ holding[t] \in Contents
  BY <1>a, <1>b DEF CallsInProgress, TypeOK
<1>1. holding[t] \in Pending[t]
  BY <1>c DEF Pending
<1>2. Pending' = [Pending EXCEPT ![t] = {}]
  BY <1>a, <1>b DEF Pending, TypeOK
<1>3. ASSUME NEW s \in Contents, s = holding[t] PROVE Handoff!Show(t, s)
  BY <1>b, <1>1, <1>2, <1>3 DEF Handoff!Show, Pending
<1> QED
  BY <1>c, <1>3 DEF Handoff!Next, Contents

\* Reading the mailbox loses at most what was read before it.
LEMMA ReadImplements ==
  ASSUME HandInv, NEW t \in Tqls, ReadMailbox(t)
  PROVE  Handoff!Next
<1>a. TypeOK
  BY DEF HandInv, SweepInv
<1>b. holding' = [holding EXCEPT ![t] = mailbox[t]] /\ UNCHANGED <<mailbox, editor, handed>>
  BY DEF ReadMailbox, files, memory
<1> DEFINE kept == {mailbox[t]} \ {NoSQL}
<1>1. kept \in SUBSET Pending[t]
  BY DEF Pending
<1>2. Pending' = [Pending EXCEPT ![t] = kept]
  BY <1>a, <1>b DEF Pending, TypeOK
<1>3. Handoff!Lose(t)
  BY <1>b, <1>1, <1>2 DEF Handoff!Lose, Pending
<1> QED
  BY <1>3 DEF Handoff!Next

\* The mailbox, the renames, the sweeps and the crashes of the live directory
\* keep the promise of the abstract handoff (app/live.rs:64-68, 101-197).
THEOREM KeepsThePromise == Spec => ImplementsHandoff
<1>1. Init => Handoff!Init
  BY DEF Init, Handoff!Init
<1>2. HandInv /\ [Next]_vars => [Handoff!Next]_(Handoff!vars)
  <2> SUFFICES ASSUME HandInv, [Next]_vars PROVE [Handoff!Next]_(Handoff!vars)
    OBVIOUS
  <2>1. ASSUME NEW a \in Agents, OpenUnread(a) PROVE UNCHANGED Handoff!vars
    BY <2>1 DEF OpenUnread, tqls, memory, Handoff!vars
  <2> QED
    BY <2>1, QuietOrMoves, QuietImplements, WriteImplements, HandOverImplements, EmptyImplements,
       ReadImplements
    DEF HandInv
<1> QED
  BY <1>1, <1>2, HandInvariant, PTL DEF Spec, ImplementsHandoff, Handoff!Spec

-----------------------------------------------------------------------------
\* An agent is not done with its listing
Finding == {"looking", "opened"} \cup Sweeping

\* A tql open since a call began serves still, and as long as the agent looks
\* for one it is among those to look at or those found, or it is looked at now
OpenAreFound ==
  \A a \in Agents : \A t \in openSince[a] :
    /\ phase[t] \in Serving
    /\ at[a] \in Finding =>
         /\ ConnectionOf[t] = call[a].connection
         /\ \/ t \in toLook[a] \/ \E s \in seen[a] : s.tql = t
            \/ at[a] = "opened" /\ target[a] = t

NotOpenInv ==
  /\ SweepInv
  /\ OpenAreFound
  /\ NotOpenIsTrue

\* A registration was touched, at most FreshenEvery before its tql was used
UseIsNoted ==
  \A t \in Tqls :
    /\ modified[t] <= lastUse[t] /\ lastUse[t] < modified[t] + FreshenEvery
    /\ lastUse[t] <= now
    /\ phase[t] = "locked" => modified[t] = now
    /\ phase[t] \in Serving => freshened[t] = modified[t]

\* and so it was when an agent read its time; an agent reads each one once
FoundOnce ==
  \A a \in Agents :
    /\ at[a] = "opened" => target[a] \notin toLook[a]
    /\ \A s \in seen[a] :
         /\ s.used <= s.lastUse /\ s.lastUse < s.used + FreshenEvery
         /\ s.tql \notin toLook[a]
         /\ at[a] = "opened" => s.tql # target[a]
         /\ \A other \in seen[a] : other.tql = s.tql => other = s

ChosenInv ==
  /\ SweepInv
  /\ UseIsNoted
  /\ FoundOnce

\* Only a has ever called, and waited for every screen
Alone(a) == ~gaveUp /\ \A b \in Agents \ {a} : calls[b] = 0

\* A screen is asked for, or being described
Pends(t) ==
  \/ phase[t] = "describing"
  \/ request[t] /\ phase[t] \in {"closed", "locked", "open", "taking"}

\* What a lone agent gets: a screen is asked for and described only while it
\* listens for it, with no older reply in the way
Promise(a) ==
  /\ \A t \in Tqls : Pends(t) =>
       at[a] = "listening" /\ target[a] = t /\ reply[t] = 0
  /\ \A t \in Tqls : phase[t] = "describing" => asked[a] < screens[t]
  /\ at[a] = "asking" => reply[target[a]] = 0
  /\ at[a] = "listening" =>
       /\ asked[a] <= screens[target[a]]
       /\ reply[target[a]] # 0 => asked[a] < reply[target[a]]

AsksAlone == \A a \in Agents : Alone(a) => Promise(a)

AnswerInv ==
  /\ SweepInv
  /\ AsksAlone

-----------------------------------------------------------------------------
(* No tql is open when an agent is told so *)

\* What a listing finds stays found: only a tql that quits or dies leaves the
\* open ones, and no look passes over one that serves, since it is registered
\* and its lock is its own.
LEMMA OpenStep ==
  ASSUME NotOpenInv, [Next]_vars
  PROVE  OpenAreFound'
<1> DEFINE Kept == OpenAreFound'
<1>a. TypeOK
  BY DEF NotOpenInv, SweepInv
<1>b. OpenAreFound /\ ServingIsRegistered
  BY DEF NotOpenInv, SweepInv
<1> USE <1>a, NoOneAssumption DEF TypeOK, OpenAreFound, ServingIsRegistered, Serving, Phases, Alive, Finding, Sweeping, Steps, files, tqls, agents, memory
<1>1. ASSUME NEW t \in Tqls, Lock(t) PROVE Kept
  BY <1>1, <1>b DEF Lock
<1>2. ASSUME NEW t \in Tqls, Publish(t) PROVE Kept
  BY <1>2, <1>b DEF Publish
<1>3. ASSUME NEW t \in Tqls, Used(t) PROVE Kept
  BY <1>3, <1>b DEF Used
<1>4. ASSUME NEW t \in Tqls, ReadMailbox(t) PROVE Kept
  BY <1>4, <1>b DEF ReadMailbox
<1>5. ASSUME NEW t \in Tqls, EmptyMailbox(t) PROVE Kept
  BY <1>5, <1>b DEF EmptyMailbox
<1>6. ASSUME NEW t \in Tqls, Describe(t) PROVE Kept
  BY <1>6, <1>b DEF Describe
<1>7. ASSUME NEW t \in Tqls, WriteReply(t) PROVE Kept
  BY <1>7, <1>b DEF WriteReply
<1>8. ASSUME NEW t \in Tqls, RemoveRequest(t) PROVE Kept
  BY <1>8, <1>b DEF RemoveRequest
<1>9. ASSUME NEW t \in Tqls, DropMailbox(t) PROVE Kept
  BY <1>9, <1>b DEF DropMailbox
<1>10. ASSUME NEW t \in Tqls, DropRequest(t) PROVE Kept
  BY <1>10, <1>b DEF DropRequest
<1>10b. ASSUME NEW t \in Tqls, DropReply(t) PROVE Kept
  BY <1>10b, <1>b DEF DropReply
<1>11. ASSUME NEW t \in Tqls, DropRegistration(t) PROVE Kept
  BY <1>11, <1>b DEF DropRegistration
<1>11b. ASSUME NEW t \in Tqls, Unlock(t) PROVE Kept
  BY <1>11b, <1>b DEF Unlock
<1>12. ASSUME NEW t \in Tqls, Crash(t) PROVE Kept
  BY <1>12, <1>b DEF Crash
<1>13. ASSUME NEW a \in Agents, NEW t \in Tqls, LookMissing(a, t) PROVE Kept
  BY <1>13, <1>b DEF LookMissing, Go
<1>13b. ASSUME NEW a \in Agents, NEW t \in Tqls, LookOpen(a, t) PROVE Kept
  BY <1>13b, <1>b DEF LookOpen, Go
<1>14. ASSUME NEW a \in Agents, LookHeld(a) PROVE Kept
  <2> DEFINE t == target[a]
  <2>1. /\ at[a] = "opened" /\ at' = [at EXCEPT ![a] = "looking"]
        /\ seen' = [seen EXCEPT ![a] = @ \cup Entry(t)]
        /\ target' = [target EXCEPT ![a] = NoOne]
        /\ UNCHANGED <<phase, call, toLook, openSince>>
    BY <1>14 DEF LookHeld, Go
  <2>2. ASSUME NEW b \in Agents, NEW u \in openSince[b], at'[b] \in Finding
        PROVE  \/ u \in toLook[b] \/ \E s \in seen'[b] : s.tql = u
               \/ at'[b] = "opened" /\ target'[b] = u
    <3>1. CASE b # a
      <4>1. at'[b] = at[b] /\ seen'[b] = seen[b] /\ target'[b] = target[b]
        BY <2>1, <3>1
      <4>2. u \in toLook[b] \/ (\E s \in seen[b] : s.tql = u) \/ (at[b] = "opened" /\ target[b] = u)
        BY <1>b, <2>2, <4>1
      <4> QED
        BY <4>1, <4>2
    <3>2. CASE b = a
      <4>1. u \in toLook[a] \/ (\E s \in seen[a] : s.tql = u) \/ t = u
        BY <1>b, <2>1, <3>2
      <4>2. CASE t = u
        <5>1. registration[u]
          BY <1>b, <3>2
        <5>2. Entry(t) = {[tql |-> t, used |-> modified[t], lastUse |-> lastUse[t]]}
          BY <4>2, <5>1 DEF Entry
        <5>3. [tql |-> t, used |-> modified[t], lastUse |-> lastUse[t]] \in seen'[a]
          BY <2>1, <5>2
        <5> QED
          BY <3>2, <4>2, <5>3
      <4>3. seen[a] \subseteq seen'[a]
        BY <2>1
      <4> QED
        BY <3>2, <4>1, <4>2, <4>3
    <3> QED
      BY <3>1, <3>2
  <2>3. \A b \in Agents : at'[b] \in Finding => at[b] \in Finding
    BY <2>1
  <2> QED
    BY <1>b, <2>1, <2>2, <2>3
<1>15. ASSUME NEW a \in Agents, LookFree(a) PROVE Kept
  BY <1>15, <1>b DEF LookFree, Go
<1>16. ASSUME NEW a \in Agents, Call(a) PROVE Kept
  BY <1>16, <1>b DEF Call, Go
<1>17. ASSUME NEW a \in Agents, SweepMailbox(a) PROVE Kept
  BY <1>17, <1>b DEF SweepMailbox, Go
<1>17b. ASSUME NEW a \in Agents, SweepRequest(a) PROVE Kept
  BY <1>17b, <1>b DEF SweepRequest, Go
<1>17c. ASSUME NEW a \in Agents, SweepReply(a) PROVE Kept
  BY <1>17c, <1>b DEF SweepReply, Go
<1>18. ASSUME NEW a \in Agents, SweepRegistration(a) PROVE Kept
  BY <1>18, <1>b DEF SweepRegistration, Go
<1>18b. ASSUME NEW a \in Agents, Release(a) PROVE Kept
  BY <1>18b, <1>b DEF Release, Go
<1>19. ASSUME NEW a \in Agents, Choose(a) PROVE Kept
  BY <1>19, <1>b DEF Choose, Go
<1>20. ASSUME NEW a \in Agents, ChooseNone(a) PROVE Kept
  <2>1. /\ UNCHANGED <<phase, call, toLook, seen, openSince, target>>
        /\ \A b \in Agents : at'[b] \in Finding => at'[b] = at[b]
    BY <1>20 DEF ChooseNone, Go
  <2> QED
    BY <1>b, <2>1
<1>21. ASSUME NEW a \in Agents, OpenUnread(a) PROVE Kept
  BY <1>21, <1>b DEF OpenUnread, Go
<1>21b. ASSUME NEW a \in Agents, WriteUnread(a) PROVE Kept
  BY <1>21b, <1>b DEF WriteUnread, Go
<1>22. ASSUME NEW a \in Agents, HandOver(a) PROVE Kept
  BY <1>22, <1>b DEF HandOver, Go
<1>23. ASSUME NEW a \in Agents, HandOverFails(a) PROVE Kept
  <2>1. /\ UNCHANGED <<phase, call, toLook, seen, openSince, target>>
        /\ \A b \in Agents : at'[b] \in Finding => at'[b] = at[b]
    BY <1>23 DEF HandOverFails, Go
  <2> QED
    BY <1>b, <2>1
<1>24. ASSUME NEW a \in Agents, PickedUp(a) PROVE Kept
  <2>1. /\ UNCHANGED <<phase, call, toLook, seen, openSince, target>>
        /\ \A b \in Agents : at'[b] \in Finding => at'[b] = at[b]
    BY <1>24 DEF PickedUp, Go
  <2> QED
    BY <1>b, <2>1
<1>25. ASSUME NEW a \in Agents, NotPickedUp(a) PROVE Kept
  BY <1>25, <1>b DEF NotPickedUp, Go
<1>26. ASSUME NEW a \in Agents, RemoveReply(a) PROVE Kept
  BY <1>26, <1>b DEF RemoveReply, Go
<1>27. ASSUME NEW a \in Agents, WriteRequest(a) PROVE Kept
  BY <1>27, <1>b DEF WriteRequest, Go
<1>28. ASSUME NEW a \in Agents, ReadReply(a) PROVE Kept
  BY <1>28, <1>b DEF ReadReply, Go
<1>29. ASSUME NEW a \in Agents, RemoveRead(a) PROVE Kept
  BY <1>29, <1>b DEF RemoveRead, Go
<1>30. ASSUME NEW a \in Agents, GiveUp(a) PROVE Kept
  BY <1>30, <1>b DEF GiveUp, Go
<1>31. CASE Tick
  BY <1>31, <1>b DEF Tick
<1>32. CASE UNCHANGED vars
  BY <1>32, <1>b DEF vars
<1> QED
  BY <1>1, <1>2, <1>3, <1>4, <1>5, <1>6, <1>7, <1>8, <1>9, <1>10, <1>10b, <1>11, <1>11b, <1>12, <1>13, <1>13b, <1>14, <1>15, <1>16, <1>17, <1>17b, <1>17c, <1>18, <1>18b, <1>19, <1>20, <1>21, <1>21b, <1>22, <1>23, <1>24, <1>25, <1>26, <1>27, <1>28, <1>29, <1>30, <1>31, <1>32
  DEF Next, TqlNext, TqlIdle, AgentNext, Looking, Delivering, ReadingScreen

\* Who says that no tql is open.
LEMMA NotOpenSaid ==
  ASSUME TypeOK, [Next]_vars
  PROVE  \A r \in told' : r.verdict = "not open" =>
           r \in told \/ \E b \in Agents : ChooseNone(b) /\ r.open = openSince[b]
<1> DEFINE Said == \A r \in told' : r.verdict = "not open" =>
                     r \in told \/ \E b \in Agents : ChooseNone(b) /\ r.open = openSince[b]
<1> USE DEF memory
<1>1. ASSUME NEW t \in Tqls, Lock(t) PROVE Said
  BY <1>1 DEF Lock
<1>2. ASSUME NEW t \in Tqls, Publish(t) PROVE Said
  BY <1>2 DEF Publish
<1>3. ASSUME NEW t \in Tqls, Used(t) PROVE Said
  BY <1>3 DEF Used
<1>4. ASSUME NEW t \in Tqls, ReadMailbox(t) PROVE Said
  BY <1>4 DEF ReadMailbox
<1>5. ASSUME NEW t \in Tqls, EmptyMailbox(t) PROVE Said
  BY <1>5 DEF EmptyMailbox
<1>6. ASSUME NEW t \in Tqls, Describe(t) PROVE Said
  BY <1>6 DEF Describe
<1>7. ASSUME NEW t \in Tqls, WriteReply(t) PROVE Said
  BY <1>7 DEF WriteReply
<1>8. ASSUME NEW t \in Tqls, RemoveRequest(t) PROVE Said
  BY <1>8 DEF RemoveRequest
<1>9. ASSUME NEW t \in Tqls, DropMailbox(t) PROVE Said
  BY <1>9 DEF DropMailbox
<1>10. ASSUME NEW t \in Tqls, DropRequest(t) PROVE Said
  BY <1>10 DEF DropRequest
<1>10b. ASSUME NEW t \in Tqls, DropReply(t) PROVE Said
  BY <1>10b DEF DropReply
<1>11. ASSUME NEW t \in Tqls, DropRegistration(t) PROVE Said
  BY <1>11 DEF DropRegistration
<1>11b. ASSUME NEW t \in Tqls, Unlock(t) PROVE Said
  BY <1>11b DEF Unlock
<1>12. ASSUME NEW t \in Tqls, Crash(t) PROVE Said
  BY <1>12 DEF Crash
<1>13. ASSUME NEW a \in Agents, NEW t \in Tqls, LookMissing(a, t) PROVE Said
  BY <1>13 DEF LookMissing, Go
<1>13b. ASSUME NEW a \in Agents, NEW t \in Tqls, LookOpen(a, t) PROVE Said
  BY <1>13b DEF LookOpen, Go
<1>14. ASSUME NEW a \in Agents, LookHeld(a) PROVE Said
  BY <1>14 DEF LookHeld, Entry, Go
<1>15. ASSUME NEW a \in Agents, LookFree(a) PROVE Said
  BY <1>15 DEF LookFree, Go
<1>16. ASSUME NEW a \in Agents, Call(a) PROVE Said
  BY <1>16 DEF Call, Go
<1>17. ASSUME NEW a \in Agents, SweepMailbox(a) PROVE Said
  BY <1>17 DEF SweepMailbox, Go
<1>17b. ASSUME NEW a \in Agents, SweepRequest(a) PROVE Said
  BY <1>17b DEF SweepRequest, Go
<1>17c. ASSUME NEW a \in Agents, SweepReply(a) PROVE Said
  BY <1>17c DEF SweepReply, Go
<1>18. ASSUME NEW a \in Agents, SweepRegistration(a) PROVE Said
  BY <1>18 DEF SweepRegistration, Go
<1>18b. ASSUME NEW a \in Agents, Release(a) PROVE Said
  BY <1>18b DEF Release, Go
<1>19. ASSUME NEW a \in Agents, Choose(a) PROVE Said
  BY <1>19 DEF Choose, Go
<1>20. ASSUME NEW a \in Agents, ChooseNone(a) PROVE Said
  <2> DEFINE new == [sql |-> SQL(a), verdict |-> "not open", by |-> target[a], open |-> openSince[a]]
  <2>1. told' = told \cup {new}
    BY <1>20 DEF ChooseNone, Tell
  <2>2. ASSUME NEW r \in told', r.verdict = "not open"
        PROVE  r.open = openSince[a] \/ r \in told
    <3>1. CASE r \in told
      BY <3>1
    <3>2. CASE r = new
      BY <2>2, <3>2
    <3> QED
      BY <2>1, <3>1, <3>2
  <2> QED
    BY <1>20, <2>2
<1>21. ASSUME NEW a \in Agents, OpenUnread(a) PROVE Said
  BY <1>21 DEF OpenUnread, Go
<1>21b. ASSUME NEW a \in Agents, WriteUnread(a) PROVE Said
  BY <1>21b DEF WriteUnread, Go
<1>22. ASSUME NEW a \in Agents, HandOver(a) PROVE Said
  BY <1>22 DEF HandOver, Go
<1>23. ASSUME NEW a \in Agents, HandOverFails(a) PROVE Said
  <2> DEFINE new == [sql |-> SQL(a), verdict |-> "not handed over", by |-> target[a], open |-> openSince[a]]
  <2>1. told' = told \cup {new}
    BY <1>23 DEF HandOverFails, Tell
  <2>2. ASSUME NEW r \in told', r.verdict = "not open"
        PROVE  r \in told
    <3>1. CASE r \in told
      BY <3>1
    <3>2. CASE r = new
      BY <2>2, <3>2
    <3> QED
      BY <2>1, <3>1, <3>2
  <2> QED
    BY <1>23, <2>2
<1>24. ASSUME NEW a \in Agents, PickedUp(a) PROVE Said
  <2> DEFINE new == [sql |-> SQL(a), verdict |-> "in the editor", by |-> target[a], open |-> openSince[a]]
  <2>1. told' = told \cup {new}
    BY <1>24 DEF PickedUp, Tell
  <2>2. ASSUME NEW r \in told', r.verdict = "not open"
        PROVE  r \in told
    <3>1. CASE r \in told
      BY <3>1
    <3>2. CASE r = new
      BY <2>2, <3>2
    <3> QED
      BY <2>1, <3>1, <3>2
  <2> QED
    BY <1>24, <2>2
<1>25. ASSUME NEW a \in Agents, NotPickedUp(a) PROVE Said
  <2> DEFINE new == [sql |-> SQL(a), verdict |-> "busy", by |-> target[a], open |-> openSince[a]]
  <2>1. told' = told \cup {new}
    BY <1>25 DEF NotPickedUp, Tell
  <2>2. ASSUME NEW r \in told', r.verdict = "not open"
        PROVE  r \in told
    <3>1. CASE r \in told
      BY <3>1
    <3>2. CASE r = new
      BY <2>2, <3>2
    <3> QED
      BY <2>1, <3>1, <3>2
  <2> QED
    BY <1>25, <2>2
<1>26. ASSUME NEW a \in Agents, RemoveReply(a) PROVE Said
  BY <1>26 DEF RemoveReply, Go
<1>27. ASSUME NEW a \in Agents, WriteRequest(a) PROVE Said
  BY <1>27 DEF WriteRequest, Go
<1>28. ASSUME NEW a \in Agents, ReadReply(a) PROVE Said
  BY <1>28 DEF ReadReply, Go
<1>29. ASSUME NEW a \in Agents, RemoveRead(a) PROVE Said
  BY <1>29 DEF RemoveRead, Go
<1>30. ASSUME NEW a \in Agents, GiveUp(a) PROVE Said
  BY <1>30 DEF GiveUp, Go
<1>31. CASE Tick
  BY <1>31 DEF Tick
<1>32. CASE UNCHANGED vars
  BY <1>32 DEF vars
<1> QED
  BY <1>1, <1>2, <1>3, <1>4, <1>5, <1>6, <1>7, <1>8, <1>9, <1>10, <1>10b, <1>11, <1>11b, <1>12, <1>13, <1>13b, <1>14, <1>15, <1>16, <1>17, <1>17b, <1>17c, <1>18, <1>18b, <1>19, <1>20, <1>21, <1>21b, <1>22, <1>23, <1>24, <1>25, <1>26, <1>27, <1>28, <1>29, <1>30, <1>31, <1>32
  DEF Next, TqlNext, TqlIdle, AgentNext, Looking, Delivering, ReadingScreen

LEMMA NotOpenStep == NotOpenInv /\ [Next]_vars => NotOpenInv'
<1> SUFFICES ASSUME NotOpenInv, [Next]_vars PROVE NotOpenInv'
  OBVIOUS
<1>a. TypeOK /\ OpenAreFound /\ NotOpenIsTrue
  BY DEF NotOpenInv, SweepInv
<1>1. SweepInv' /\ OpenAreFound'
  BY TypeStep, SweepStep, OpenStep DEF NotOpenInv, SweepInv
<1>2. ASSUME NEW a \in Agents, ChooseNone(a) PROVE openSince[a] = {}
  <2>1. at[a] = "looking" /\ toLook[a] = {} /\ Candidates(a) = {}
    BY <1>2 DEF ChooseNone, Go
  <2>2. ASSUME NEW t \in openSince[a] PROVE FALSE
    <3>1. PICK s \in seen[a] : s.tql = t
      BY <1>a, <2>1 DEF OpenAreFound, Finding
    <3>2. ConnectionOf[s.tql] = call[a].connection
      BY <1>a, <2>1, <3>1 DEF OpenAreFound, Finding
    <3> QED
      BY <2>1, <3>2 DEF Candidates
  <2> QED
    BY <2>2
<1>3. NotOpenIsTrue'
  <2> SUFFICES ASSUME NEW r \in told', r.verdict = "not open" PROVE r.open = {}
    BY DEF NotOpenIsTrue
  <2>1. r \in told \/ \E a \in Agents : ChooseNone(a) /\ r.open = openSince[a]
    BY <1>a, NotOpenSaid
  <2> QED
    BY <1>a, <1>2, <2>1 DEF NotOpenIsTrue
<1> QED
  BY <1>1, <1>3 DEF NotOpenInv

\* However tqls open, quit, crash and are swept while the agent looks: that no
\* tql is open on a connection is said when none was open from the listing to
\* the answer (open_ones and chosen, app/live.rs:101-150).
THEOREM NotOpenIsSaidTruly == Spec => []NotOpenIsTrue
<1>1. Init => NotOpenInv
  BY InitInv DEF Init, NotOpenInv, OpenAreFound, NotOpenIsTrue
<1>2. NotOpenInv => NotOpenIsTrue
  BY DEF NotOpenInv
<1> QED
  BY <1>1, <1>2, NotOpenStep, PTL DEF Spec

-----------------------------------------------------------------------------
(* The tql used last, but for what is not noted yet *)

\* A registration is touched whenever its tql is used FreshenEvery or more
\* after the last touch, and registering takes no time.
LEMMA UseStep ==
  ASSUME ChosenInv, [Next]_vars
  PROVE  UseIsNoted'
<1> DEFINE Kept == UseIsNoted'
<1>a. TypeOK
  BY DEF ChosenInv, SweepInv
<1>b. UseIsNoted /\ ServingIsRegistered
  BY DEF ChosenInv, SweepInv
<1>c. /\ FreshenEvery \in Nat \ {0} /\ now \in Nat
      /\ \A t \in Tqls : modified[t] \in Nat /\ lastUse[t] \in Nat /\ freshened[t] \in Nat
  BY <1>a, ConstantsAssumption DEF TypeOK, Times
<1> USE <1>a, <1>c DEF TypeOK, UseIsNoted, ServingIsRegistered, Serving, files, tqls, agents, memory
<1>1. ASSUME NEW t \in Tqls, Lock(t) PROVE Kept
  BY <1>1, <1>b DEF Lock
<1>2. ASSUME NEW t \in Tqls, Publish(t) PROVE Kept
  BY <1>2, <1>b DEF Publish
<1>3. ASSUME NEW t \in Tqls, Used(t) PROVE Kept
  BY <1>3, <1>b DEF Used
<1>4. ASSUME NEW t \in Tqls, ReadMailbox(t) PROVE Kept
  BY <1>4, <1>b DEF ReadMailbox
<1>5. ASSUME NEW t \in Tqls, EmptyMailbox(t) PROVE Kept
  BY <1>5, <1>b DEF EmptyMailbox
<1>6. ASSUME NEW t \in Tqls, Describe(t) PROVE Kept
  BY <1>6, <1>b DEF Describe
<1>7. ASSUME NEW t \in Tqls, WriteReply(t) PROVE Kept
  BY <1>7, <1>b DEF WriteReply
<1>8. ASSUME NEW t \in Tqls, RemoveRequest(t) PROVE Kept
  BY <1>8, <1>b DEF RemoveRequest
<1>9. ASSUME NEW t \in Tqls, DropMailbox(t) PROVE Kept
  BY <1>9, <1>b DEF DropMailbox
<1>10. ASSUME NEW t \in Tqls, DropRequest(t) PROVE Kept
  BY <1>10, <1>b DEF DropRequest
<1>10b. ASSUME NEW t \in Tqls, DropReply(t) PROVE Kept
  BY <1>10b, <1>b DEF DropReply
<1>11. ASSUME NEW t \in Tqls, DropRegistration(t) PROVE Kept
  BY <1>11, <1>b DEF DropRegistration
<1>11b. ASSUME NEW t \in Tqls, Unlock(t) PROVE Kept
  BY <1>11b, <1>b DEF Unlock
<1>12. ASSUME NEW t \in Tqls, Crash(t) PROVE Kept
  BY <1>12, <1>b DEF Crash
<1>13. ASSUME NEW a \in Agents, NEW t \in Tqls, LookMissing(a, t) PROVE Kept
  BY <1>13, <1>b DEF LookMissing, Go
<1>13b. ASSUME NEW a \in Agents, NEW t \in Tqls, LookOpen(a, t) PROVE Kept
  BY <1>13b, <1>b DEF LookOpen, Go
<1>14. ASSUME NEW a \in Agents, LookHeld(a) PROVE Kept
  BY <1>14, <1>b DEF LookHeld, Entry, Go
<1>15. ASSUME NEW a \in Agents, LookFree(a) PROVE Kept
  BY <1>15, <1>b DEF LookFree, Go
<1>16. ASSUME NEW a \in Agents, Call(a) PROVE Kept
  BY <1>16, <1>b DEF Call, Go
<1>17. ASSUME NEW a \in Agents, SweepMailbox(a) PROVE Kept
  BY <1>17, <1>b DEF SweepMailbox, Go
<1>17b. ASSUME NEW a \in Agents, SweepRequest(a) PROVE Kept
  BY <1>17b, <1>b DEF SweepRequest, Go
<1>17c. ASSUME NEW a \in Agents, SweepReply(a) PROVE Kept
  BY <1>17c, <1>b DEF SweepReply, Go
<1>18. ASSUME NEW a \in Agents, SweepRegistration(a) PROVE Kept
  BY <1>18, <1>b DEF SweepRegistration, Go
<1>18b. ASSUME NEW a \in Agents, Release(a) PROVE Kept
  BY <1>18b, <1>b DEF Release, Go
<1>19. ASSUME NEW a \in Agents, Choose(a) PROVE Kept
  BY <1>19, <1>b DEF Choose, Go
<1>20. ASSUME NEW a \in Agents, ChooseNone(a) PROVE Kept
  BY <1>20, <1>b DEF ChooseNone, Go
<1>21. ASSUME NEW a \in Agents, OpenUnread(a) PROVE Kept
  BY <1>21, <1>b DEF OpenUnread, Go
<1>21b. ASSUME NEW a \in Agents, WriteUnread(a) PROVE Kept
  BY <1>21b, <1>b DEF WriteUnread, Go
<1>22. ASSUME NEW a \in Agents, HandOver(a) PROVE Kept
  BY <1>22, <1>b DEF HandOver, Go
<1>23. ASSUME NEW a \in Agents, HandOverFails(a) PROVE Kept
  BY <1>23, <1>b DEF HandOverFails, Go
<1>24. ASSUME NEW a \in Agents, PickedUp(a) PROVE Kept
  BY <1>24, <1>b DEF PickedUp, Go
<1>25. ASSUME NEW a \in Agents, NotPickedUp(a) PROVE Kept
  BY <1>25, <1>b DEF NotPickedUp, Go
<1>26. ASSUME NEW a \in Agents, RemoveReply(a) PROVE Kept
  BY <1>26, <1>b DEF RemoveReply, Go
<1>27. ASSUME NEW a \in Agents, WriteRequest(a) PROVE Kept
  BY <1>27, <1>b DEF WriteRequest, Go
<1>28. ASSUME NEW a \in Agents, ReadReply(a) PROVE Kept
  BY <1>28, <1>b DEF ReadReply, Go
<1>29. ASSUME NEW a \in Agents, RemoveRead(a) PROVE Kept
  BY <1>29, <1>b DEF RemoveRead, Go
<1>30. ASSUME NEW a \in Agents, GiveUp(a) PROVE Kept
  BY <1>30, <1>b DEF GiveUp, Go
<1>31. CASE Tick
  BY <1>31, <1>b DEF Tick
<1>32. CASE UNCHANGED vars
  BY <1>32, <1>b DEF vars
<1> QED
  BY <1>1, <1>2, <1>3, <1>4, <1>5, <1>6, <1>7, <1>8, <1>9, <1>10, <1>10b, <1>11, <1>11b, <1>12, <1>13, <1>13b, <1>14, <1>15, <1>16, <1>17, <1>17b, <1>17c, <1>18, <1>18b, <1>19, <1>20, <1>21, <1>21b, <1>22, <1>23, <1>24, <1>25, <1>26, <1>27, <1>28, <1>29, <1>30, <1>31, <1>32
  DEF Next, TqlNext, TqlIdle, AgentNext, Looking, Delivering, ReadingScreen

\* An agent looks at each listed registration once, and what it reads of it
\* was noted.
LEMMA FoundOnceStep ==
  ASSUME ChosenInv, [Next]_vars
  PROVE  FoundOnce'
<1> DEFINE Kept == FoundOnce'
<1>a. TypeOK
  BY DEF ChosenInv, SweepInv
<1>c. \A a \in Agents : at[a] = "opened" => target[a] \in Tqls
  BY DEF ChosenInv, SweepInv, CallsInProgress
<1>b. UseIsNoted /\ FoundOnce
  BY DEF ChosenInv
<1> USE <1>a DEF TypeOK, FoundOnce, files, tqls, agents, memory
<1>1. ASSUME NEW t \in Tqls, Lock(t) PROVE Kept
  BY <1>1, <1>b DEF Lock
<1>2. ASSUME NEW t \in Tqls, Publish(t) PROVE Kept
  BY <1>2, <1>b DEF Publish
<1>3. ASSUME NEW t \in Tqls, Used(t) PROVE Kept
  BY <1>3, <1>b DEF Used
<1>4. ASSUME NEW t \in Tqls, ReadMailbox(t) PROVE Kept
  BY <1>4, <1>b DEF ReadMailbox
<1>5. ASSUME NEW t \in Tqls, EmptyMailbox(t) PROVE Kept
  BY <1>5, <1>b DEF EmptyMailbox
<1>6. ASSUME NEW t \in Tqls, Describe(t) PROVE Kept
  BY <1>6, <1>b DEF Describe
<1>7. ASSUME NEW t \in Tqls, WriteReply(t) PROVE Kept
  BY <1>7, <1>b DEF WriteReply
<1>8. ASSUME NEW t \in Tqls, RemoveRequest(t) PROVE Kept
  BY <1>8, <1>b DEF RemoveRequest
<1>9. ASSUME NEW t \in Tqls, DropMailbox(t) PROVE Kept
  BY <1>9, <1>b DEF DropMailbox
<1>10. ASSUME NEW t \in Tqls, DropRequest(t) PROVE Kept
  BY <1>10, <1>b DEF DropRequest
<1>10b. ASSUME NEW t \in Tqls, DropReply(t) PROVE Kept
  BY <1>10b, <1>b DEF DropReply
<1>11. ASSUME NEW t \in Tqls, DropRegistration(t) PROVE Kept
  BY <1>11, <1>b DEF DropRegistration
<1>11b. ASSUME NEW t \in Tqls, Unlock(t) PROVE Kept
  BY <1>11b, <1>b DEF Unlock
<1>12. ASSUME NEW t \in Tqls, Crash(t) PROVE Kept
  BY <1>12, <1>b DEF Crash
<1>13. ASSUME NEW a \in Agents, NEW t \in Tqls, LookMissing(a, t) PROVE Kept
  BY <1>13, <1>b DEF LookMissing, Go
<1>13b. ASSUME NEW a \in Agents, NEW t \in Tqls, LookOpen(a, t) PROVE Kept
  BY <1>13b, <1>b DEF LookOpen, Go
<1>14. ASSUME NEW a \in Agents, LookHeld(a) PROVE Kept
  <2> DEFINE t == target[a]
  <2>1. /\ at[a] = "opened" /\ at' = [at EXCEPT ![a] = "looking"]
        /\ seen' = [seen EXCEPT ![a] = @ \cup Entry(t)]
        /\ UNCHANGED toLook /\ target' = [target EXCEPT ![a] = NoOne]
        /\ t \in Tqls
    BY <1>14, <1>c DEF LookHeld, Go
  <2>2. \A s \in Entry(t) : /\ s.tql = t
                          /\ s.used <= s.lastUse /\ s.lastUse < s.used + FreshenEvery
    BY <1>b, <2>1, EntryIs DEF UseIsNoted
  <2>3. \A s, other \in Entry(t) : s = other
    BY DEF Entry
  <2> HIDE DEF t
  <2>4. ASSUME NEW b \in Agents, NEW s \in seen'[b]
        PROVE  /\ s.used <= s.lastUse /\ s.lastUse < s.used + FreshenEvery
               /\ s.tql \notin toLook'[b]
               /\ at'[b] = "opened" => s.tql # target'[b]
               /\ \A other \in seen'[b] : other.tql = s.tql => other = s
    <3>1. CASE b # a
      <4>1. at'[b] = at[b] /\ seen'[b] = seen[b] /\ target'[b] = target[b]
        BY <2>1, <3>1
      <4> QED
        BY <1>b, <2>1, <2>4, <4>1
    <3>2. CASE b = a
      <4>1. s \in seen[a] \cup Entry(t) /\ seen'[b] = seen[a] \cup Entry(t) /\ at'[b] = "looking"
        BY <2>1, <2>4, <3>2
      <4>2. t \notin toLook[a] /\ \A r \in seen[a] : r.tql # t
        BY <1>b, <2>1 DEF t
      <4>3. CASE s \in Entry(t)
        BY <2>1, <2>2, <2>3, <3>2, <4>1, <4>2, <4>3
      <4>4. CASE s \in seen[a]
        BY <1>b, <2>1, <2>2, <3>2, <4>1, <4>2, <4>4
      <4> QED
        BY <4>1, <4>3, <4>4
    <3> QED
      BY <3>1, <3>2
  <2>5. \A b \in Agents : at'[b] = "opened" => target'[b] \notin toLook'[b]
    BY <1>b, <2>1
  <2> QED
    BY <2>4, <2>5
<1>15. ASSUME NEW a \in Agents, LookFree(a) PROVE Kept
  BY <1>15, <1>b DEF LookFree, Go
<1>16. ASSUME NEW a \in Agents, Call(a) PROVE Kept
  BY <1>16, <1>b DEF Call, Go
<1>17. ASSUME NEW a \in Agents, SweepMailbox(a) PROVE Kept
  BY <1>17, <1>b DEF SweepMailbox, Go
<1>17b. ASSUME NEW a \in Agents, SweepRequest(a) PROVE Kept
  BY <1>17b, <1>b DEF SweepRequest, Go
<1>17c. ASSUME NEW a \in Agents, SweepReply(a) PROVE Kept
  BY <1>17c, <1>b DEF SweepReply, Go
<1>18. ASSUME NEW a \in Agents, SweepRegistration(a) PROVE Kept
  BY <1>18, <1>b DEF SweepRegistration, Go
<1>18b. ASSUME NEW a \in Agents, Release(a) PROVE Kept
  BY <1>18b, <1>b DEF Release, Go
<1>19. ASSUME NEW a \in Agents, Choose(a) PROVE Kept
  BY <1>19, <1>b DEF Choose, Go
<1>20. ASSUME NEW a \in Agents, ChooseNone(a) PROVE Kept
  BY <1>20, <1>b DEF ChooseNone, Go
<1>21. ASSUME NEW a \in Agents, OpenUnread(a) PROVE Kept
  BY <1>21, <1>b DEF OpenUnread, Go
<1>21b. ASSUME NEW a \in Agents, WriteUnread(a) PROVE Kept
  BY <1>21b, <1>b DEF WriteUnread, Go
<1>22. ASSUME NEW a \in Agents, HandOver(a) PROVE Kept
  BY <1>22, <1>b DEF HandOver, Go
<1>23. ASSUME NEW a \in Agents, HandOverFails(a) PROVE Kept
  BY <1>23, <1>b DEF HandOverFails, Go
<1>24. ASSUME NEW a \in Agents, PickedUp(a) PROVE Kept
  BY <1>24, <1>b DEF PickedUp, Go
<1>25. ASSUME NEW a \in Agents, NotPickedUp(a) PROVE Kept
  BY <1>25, <1>b DEF NotPickedUp, Go
<1>26. ASSUME NEW a \in Agents, RemoveReply(a) PROVE Kept
  BY <1>26, <1>b DEF RemoveReply, Go
<1>27. ASSUME NEW a \in Agents, WriteRequest(a) PROVE Kept
  BY <1>27, <1>b DEF WriteRequest, Go
<1>28. ASSUME NEW a \in Agents, ReadReply(a) PROVE Kept
  BY <1>28, <1>b DEF ReadReply, Go
<1>29. ASSUME NEW a \in Agents, RemoveRead(a) PROVE Kept
  BY <1>29, <1>b DEF RemoveRead, Go
<1>30. ASSUME NEW a \in Agents, GiveUp(a) PROVE Kept
  BY <1>30, <1>b DEF GiveUp, Go
<1>31. CASE Tick
  BY <1>31, <1>b DEF Tick
<1>32. CASE UNCHANGED vars
  BY <1>32, <1>b DEF vars
<1> QED
  BY <1>1, <1>2, <1>3, <1>4, <1>5, <1>6, <1>7, <1>8, <1>9, <1>10, <1>10b, <1>11, <1>11b, <1>12, <1>13, <1>13b, <1>14, <1>15, <1>16, <1>17, <1>17b, <1>17c, <1>18, <1>18b, <1>19, <1>20, <1>21, <1>21b, <1>22, <1>23, <1>24, <1>25, <1>26, <1>27, <1>28, <1>29, <1>30, <1>31, <1>32
  DEF Next, TqlNext, TqlIdle, AgentNext, Looking, Delivering, ReadingScreen

LEMMA ChosenInvStep == ChosenInv /\ [Next]_vars => ChosenInv'
BY TypeStep, SweepStep, UseStep, FoundOnceStep DEF ChosenInv, SweepInv

\* Only Choose goes from looking to a tool's first step.
LEMMA OnlyChooseChooses ==
  ASSUME TypeOK, [Next]_vars
  PROVE  \A b \in Agents :
           at[b] = "looking" /\ at'[b] \in {"writing", "clearing"} => Choose(b)
<1> DEFINE Only == \A b \in Agents :
                     at[b] = "looking" /\ at'[b] \in {"writing", "clearing"} => Choose(b)
<1> USE DEF TypeOK, agents
<1>1. ASSUME NEW t \in Tqls, Lock(t) PROVE Only
  BY <1>1 DEF Lock
<1>2. ASSUME NEW t \in Tqls, Publish(t) PROVE Only
  BY <1>2 DEF Publish
<1>3. ASSUME NEW t \in Tqls, Used(t) PROVE Only
  BY <1>3 DEF Used
<1>4. ASSUME NEW t \in Tqls, ReadMailbox(t) PROVE Only
  BY <1>4 DEF ReadMailbox
<1>5. ASSUME NEW t \in Tqls, EmptyMailbox(t) PROVE Only
  BY <1>5 DEF EmptyMailbox
<1>6. ASSUME NEW t \in Tqls, Describe(t) PROVE Only
  BY <1>6 DEF Describe
<1>7. ASSUME NEW t \in Tqls, WriteReply(t) PROVE Only
  BY <1>7 DEF WriteReply
<1>8. ASSUME NEW t \in Tqls, RemoveRequest(t) PROVE Only
  BY <1>8 DEF RemoveRequest
<1>9. ASSUME NEW t \in Tqls, DropMailbox(t) PROVE Only
  BY <1>9 DEF DropMailbox
<1>10. ASSUME NEW t \in Tqls, DropRequest(t) PROVE Only
  BY <1>10 DEF DropRequest
<1>10b. ASSUME NEW t \in Tqls, DropReply(t) PROVE Only
  BY <1>10b DEF DropReply
<1>11. ASSUME NEW t \in Tqls, DropRegistration(t) PROVE Only
  BY <1>11 DEF DropRegistration
<1>11b. ASSUME NEW t \in Tqls, Unlock(t) PROVE Only
  BY <1>11b DEF Unlock
<1>12. ASSUME NEW t \in Tqls, Crash(t) PROVE Only
  BY <1>12 DEF Crash
<1>13. ASSUME NEW a \in Agents, NEW t \in Tqls, LookMissing(a, t) PROVE Only
  BY <1>13 DEF LookMissing, Go
<1>13b. ASSUME NEW a \in Agents, NEW t \in Tqls, LookOpen(a, t) PROVE Only
  BY <1>13b DEF LookOpen, Go
<1>14. ASSUME NEW a \in Agents, LookHeld(a) PROVE Only
  BY <1>14 DEF LookHeld, Entry, Go
<1>15. ASSUME NEW a \in Agents, LookFree(a) PROVE Only
  BY <1>15 DEF LookFree, Go
<1>16. ASSUME NEW a \in Agents, Call(a) PROVE Only
  BY <1>16 DEF Call, Go
<1>17. ASSUME NEW a \in Agents, SweepMailbox(a) PROVE Only
  BY <1>17 DEF SweepMailbox, Go
<1>17b. ASSUME NEW a \in Agents, SweepRequest(a) PROVE Only
  BY <1>17b DEF SweepRequest, Go
<1>17c. ASSUME NEW a \in Agents, SweepReply(a) PROVE Only
  BY <1>17c DEF SweepReply, Go
<1>18. ASSUME NEW a \in Agents, SweepRegistration(a) PROVE Only
  BY <1>18 DEF SweepRegistration, Go
<1>18b. ASSUME NEW a \in Agents, Release(a) PROVE Only
  BY <1>18b DEF Release, Go
<1>19. ASSUME NEW a \in Agents, Choose(a) PROVE Only
  <2>1. \A b \in Agents : b # a => at'[b] = at[b]
    BY <1>19 DEF Choose, Go
  <2> QED
    BY <1>19, <2>1
<1>20. ASSUME NEW a \in Agents, ChooseNone(a) PROVE Only
  BY <1>20 DEF ChooseNone, Go
<1>21. ASSUME NEW a \in Agents, OpenUnread(a) PROVE Only
  BY <1>21 DEF OpenUnread, Go
<1>21b. ASSUME NEW a \in Agents, WriteUnread(a) PROVE Only
  BY <1>21b DEF WriteUnread, Go
<1>22. ASSUME NEW a \in Agents, HandOver(a) PROVE Only
  BY <1>22 DEF HandOver, Go
<1>23. ASSUME NEW a \in Agents, HandOverFails(a) PROVE Only
  BY <1>23 DEF HandOverFails, Go
<1>24. ASSUME NEW a \in Agents, PickedUp(a) PROVE Only
  BY <1>24 DEF PickedUp, Go
<1>25. ASSUME NEW a \in Agents, NotPickedUp(a) PROVE Only
  BY <1>25 DEF NotPickedUp, Go
<1>26. ASSUME NEW a \in Agents, RemoveReply(a) PROVE Only
  BY <1>26 DEF RemoveReply, Go
<1>27. ASSUME NEW a \in Agents, WriteRequest(a) PROVE Only
  BY <1>27 DEF WriteRequest, Go
<1>28. ASSUME NEW a \in Agents, ReadReply(a) PROVE Only
  BY <1>28 DEF ReadReply, Go
<1>29. ASSUME NEW a \in Agents, RemoveRead(a) PROVE Only
  BY <1>29 DEF RemoveRead, Go
<1>30. ASSUME NEW a \in Agents, GiveUp(a) PROVE Only
  BY <1>30 DEF GiveUp, Go
<1>31. CASE Tick
  BY <1>31 DEF Tick
<1>32. CASE UNCHANGED vars
  BY <1>32 DEF vars
<1> QED
  BY <1>1, <1>2, <1>3, <1>4, <1>5, <1>6, <1>7, <1>8, <1>9, <1>10, <1>10b, <1>11, <1>11b, <1>12, <1>13, <1>13b, <1>14, <1>15, <1>16, <1>17, <1>17b, <1>17c, <1>18, <1>18b, <1>19, <1>20, <1>21, <1>21b, <1>22, <1>23, <1>24, <1>25, <1>26, <1>27, <1>28, <1>29, <1>30, <1>31, <1>32
  DEF Next, TqlNext, TqlIdle, AgentNext, Looking, Delivering, ReadingScreen

\* The step that chooses takes the one whose registration was touched last;
\* every other was used less than FreshenEvery after it was touched.
LEMMA ChoosesNearlyNewest == ChosenInv /\ [Next]_vars => ChosenStep
<1> SUFFICES ASSUME ChosenInv, [Next]_vars, NEW a \in Agents,
                    NEW s \in Candidates(a), NEW other \in Candidates(a), Chosen(a, s)
             PROVE  other.lastUse - s.lastUse < FreshenEvery
  BY DEF ChosenStep
<1>a. TypeOK /\ FoundOnce
  BY DEF ChosenInv, SweepInv
<1>b. s \in seen[a] /\ other \in seen[a] /\ at[a] = "looking" /\ at'[a] \in {"writing", "clearing"}
      /\ s.tql = target'[a]
  BY DEF Candidates, Chosen
<1>c. /\ s.used \in Nat /\ s.lastUse \in Nat /\ other.used \in Nat /\ other.lastUse \in Nat
      /\ FreshenEvery \in Nat
  <2>1. s \in SeenOf /\ other \in SeenOf
    BY <1>a, <1>b DEF TypeOK
  <2>2. Times \subseteq Nat
    BY ConstantsAssumption DEF Times
  <2>3. /\ s.used \in Times /\ s.lastUse \in Times
        /\ other.used \in Times /\ other.lastUse \in Times
    BY <2>1 DEF SeenOf
  <2> QED
    BY <2>2, <2>3, ConstantsAssumption
<1>d. Choose(a)
  BY <1>a, <1>b, OnlyChooseChooses
<1>1. PICK c \in Candidates(a) : c.tql = target'[a] /\ \A u \in Candidates(a) : u.used <= c.used
  BY <1>a, <1>d DEF Choose, TypeOK
<1>2. c = s
  BY <1>a, <1>b, <1>1 DEF FoundOnce, Candidates
<1>3. other.used <= s.used
  BY <1>1, <1>2
<1>4. other.lastUse < other.used + FreshenEvery /\ s.used <= s.lastUse
  BY <1>a, <1>b DEF FoundOnce
<1> QED
  BY <1>c, <1>3, <1>4

\* The tql an agent gets was used at most FreshenEvery before any other on
\* that connection (Live::used, app/live.rs:54-62; chosen, app/live.rs:132-150).
THEOREM NearlyNewestIsChosen == Spec => ChosenIsNearlyNewest
<1>1. Init => ChosenInv
  <2> SUFFICES ASSUME Init PROVE UseIsNoted /\ FoundOnce
    BY InitInv DEF ChosenInv
  <2> QED
    BY ConstantsAssumption DEF Init, UseIsNoted, FoundOnce, Serving
<1>2. ChosenInv /\ [Next]_vars => [ChosenStep]_vars
  BY ChoosesNearlyNewest
<1> QED
  BY <1>1, <1>2, ChosenInvStep, PTL DEF Spec, ChosenIsNearlyNewest

-----------------------------------------------------------------------------
(* A lone agent gets the screen it asked for *)

\* An agent that is alone after a step was alone before, and no other agent
\* took it.
LEMMA StaysAlone ==
  ASSUME TypeOK, [Next]_vars, NEW lone \in Agents, Alone(lone)'
  PROVE  Alone(lone)
<1> DEFINE Kept == (gaveUp => gaveUp') /\ \A b \in Agents : calls[b] <= calls'[b]
<1>a. \A b \in Agents : calls[b] \in Nat
  BY ConstantsAssumption DEF TypeOK
<1>b. Kept
  <2> USE <1>a DEF TypeOK, agents, memory
  <2>1. ASSUME NEW t \in Tqls, Lock(t) PROVE Kept
    BY <2>1 DEF Lock
  <2>2. ASSUME NEW t \in Tqls, Publish(t) PROVE Kept
    BY <2>2 DEF Publish
  <2>3. ASSUME NEW t \in Tqls, Used(t) PROVE Kept
    BY <2>3 DEF Used
  <2>4. ASSUME NEW t \in Tqls, ReadMailbox(t) PROVE Kept
    BY <2>4 DEF ReadMailbox
  <2>5. ASSUME NEW t \in Tqls, EmptyMailbox(t) PROVE Kept
    BY <2>5 DEF EmptyMailbox
  <2>6. ASSUME NEW t \in Tqls, Describe(t) PROVE Kept
    BY <2>6 DEF Describe
  <2>7. ASSUME NEW t \in Tqls, WriteReply(t) PROVE Kept
    BY <2>7 DEF WriteReply
  <2>8. ASSUME NEW t \in Tqls, RemoveRequest(t) PROVE Kept
    BY <2>8 DEF RemoveRequest
  <2>9. ASSUME NEW t \in Tqls, DropMailbox(t) PROVE Kept
    BY <2>9 DEF DropMailbox
  <2>10. ASSUME NEW t \in Tqls, DropRequest(t) PROVE Kept
    BY <2>10 DEF DropRequest
  <2>10b. ASSUME NEW t \in Tqls, DropReply(t) PROVE Kept
    BY <2>10b DEF DropReply
  <2>11. ASSUME NEW t \in Tqls, DropRegistration(t) PROVE Kept
    BY <2>11 DEF DropRegistration
  <2>11b. ASSUME NEW t \in Tqls, Unlock(t) PROVE Kept
    BY <2>11b DEF Unlock
  <2>12. ASSUME NEW t \in Tqls, Crash(t) PROVE Kept
    BY <2>12 DEF Crash
  <2>13. ASSUME NEW a \in Agents, NEW t \in Tqls, LookMissing(a, t) PROVE Kept
    BY <2>13 DEF LookMissing, Go
  <2>13b. ASSUME NEW a \in Agents, NEW t \in Tqls, LookOpen(a, t) PROVE Kept
    BY <2>13b DEF LookOpen, Go
  <2>14. ASSUME NEW a \in Agents, LookHeld(a) PROVE Kept
    BY <2>14 DEF LookHeld, Entry, Go
  <2>15. ASSUME NEW a \in Agents, LookFree(a) PROVE Kept
    BY <2>15 DEF LookFree, Go
  <2>16. ASSUME NEW a \in Agents, Call(a) PROVE Kept
    BY <2>16 DEF Call, Go
  <2>17. ASSUME NEW a \in Agents, SweepMailbox(a) PROVE Kept
    BY <2>17 DEF SweepMailbox, Go
  <2>17b. ASSUME NEW a \in Agents, SweepRequest(a) PROVE Kept
    BY <2>17b DEF SweepRequest, Go
  <2>17c. ASSUME NEW a \in Agents, SweepReply(a) PROVE Kept
    BY <2>17c DEF SweepReply, Go
  <2>18. ASSUME NEW a \in Agents, SweepRegistration(a) PROVE Kept
    BY <2>18 DEF SweepRegistration, Go
  <2>18b. ASSUME NEW a \in Agents, Release(a) PROVE Kept
    BY <2>18b DEF Release, Go
  <2>19. ASSUME NEW a \in Agents, Choose(a) PROVE Kept
    BY <2>19 DEF Choose, Go
  <2>20. ASSUME NEW a \in Agents, ChooseNone(a) PROVE Kept
    <3>1. calls' = calls /\ gaveUp' = gaveUp
      BY <2>20 DEF ChooseNone
    <3> QED
      BY <3>1
  <2>21. ASSUME NEW a \in Agents, OpenUnread(a) PROVE Kept
    BY <2>21 DEF OpenUnread, Go
  <2>21b. ASSUME NEW a \in Agents, WriteUnread(a) PROVE Kept
    BY <2>21b DEF WriteUnread, Go
  <2>22. ASSUME NEW a \in Agents, HandOver(a) PROVE Kept
    BY <2>22 DEF HandOver, Go
  <2>23. ASSUME NEW a \in Agents, HandOverFails(a) PROVE Kept
    <3>1. calls' = calls /\ gaveUp' = gaveUp
      BY <2>23 DEF HandOverFails
    <3> QED
      BY <3>1
  <2>24. ASSUME NEW a \in Agents, PickedUp(a) PROVE Kept
    <3>1. calls' = calls /\ gaveUp' = gaveUp
      BY <2>24 DEF PickedUp
    <3> QED
      BY <3>1
  <2>25. ASSUME NEW a \in Agents, NotPickedUp(a) PROVE Kept
    <3>1. calls' = calls /\ gaveUp' = gaveUp
      BY <2>25 DEF NotPickedUp
    <3> QED
      BY <3>1
  <2>26. ASSUME NEW a \in Agents, RemoveReply(a) PROVE Kept
    BY <2>26 DEF RemoveReply, Go
  <2>27. ASSUME NEW a \in Agents, WriteRequest(a) PROVE Kept
    BY <2>27 DEF WriteRequest, Go
  <2>28. ASSUME NEW a \in Agents, ReadReply(a) PROVE Kept
    BY <2>28 DEF ReadReply, Go
  <2>29. ASSUME NEW a \in Agents, RemoveRead(a) PROVE Kept
    BY <2>29 DEF RemoveRead, Go
  <2>30. ASSUME NEW a \in Agents, GiveUp(a) PROVE Kept
    BY <2>30 DEF GiveUp, Go
  <2>31. CASE Tick
    BY <2>31 DEF Tick
  <2>32. CASE UNCHANGED vars
    BY <2>32 DEF vars
  <2> QED
    BY <2>1, <2>2, <2>3, <2>4, <2>5, <2>6, <2>7, <2>8, <2>9, <2>10, <2>10b, <2>11, <2>11b, <2>12, <2>13, <2>13b, <2>14, <2>15, <2>16, <2>17, <2>17b, <2>17c, <2>18, <2>18b, <2>19, <2>20, <2>21, <2>21b, <2>22, <2>23, <2>24, <2>25, <2>26, <2>27, <2>28, <2>29, <2>30, <2>31, <2>32
    DEF Next, TqlNext, TqlIdle, AgentNext, Looking, Delivering, ReadingScreen
<1> QED
  BY <1>a, <1>b DEF Alone

\* Every step keeps what a lone agent may rely on.
LEMMA AsksStep ==
  ASSUME AnswerInv, [Next]_vars
  PROVE  AsksAlone'
<1> SUFFICES ASSUME NEW o \in Agents, Alone(o)'
             PROVE  (Promise(o))'
  BY DEF AsksAlone, Promise
<1> DEFINE Kept == (Promise(o))'
<1>a. TypeOK /\ CallsInProgress
  BY DEF AnswerInv, SweepInv
<1>b. Promise(o) /\ Alone(o)
  BY <1>a, StaysAlone DEF AnswerInv, AsksAlone, Promise
<1>c. ASSUME NEW b \in Agents, b # o PROVE at[b] = "idle"
  BY <1>a, <1>b, <1>c DEF CallsInProgress, Alone
<1>d. \A t \in Tqls : reply[t] \in Nat /\ screens[t] \in Nat
  BY <1>a DEF TypeOK
<1>e. asked[o] \in Nat /\ at[o] \notin {"idle", "looking"} => target[o] \in Tqls
  BY <1>a DEF TypeOK, CallsInProgress
<1> USE <1>a, <1>d, <1>e DEF TypeOK, Promise, Pends, files, tqls, agents, memory
<1>1. ASSUME NEW t \in Tqls, Lock(t) PROVE Kept
  BY <1>1, <1>b DEF Lock
<1>2. ASSUME NEW t \in Tqls, Publish(t) PROVE Kept
  BY <1>2, <1>b DEF Publish
<1>3. ASSUME NEW t \in Tqls, Used(t) PROVE Kept
  BY <1>3, <1>b DEF Used
<1>4. ASSUME NEW t \in Tqls, ReadMailbox(t) PROVE Kept
  BY <1>4, <1>b DEF ReadMailbox
<1>5. ASSUME NEW t \in Tqls, EmptyMailbox(t) PROVE Kept
  BY <1>5, <1>b DEF EmptyMailbox
<1>6. ASSUME NEW t \in Tqls, Describe(t) PROVE Kept
  BY <1>6, <1>b DEF Describe
<1>7. ASSUME NEW t \in Tqls, WriteReply(t) PROVE Kept
  BY <1>7, <1>b DEF WriteReply
<1>8. ASSUME NEW t \in Tqls, RemoveRequest(t) PROVE Kept
  BY <1>8, <1>b DEF RemoveRequest
<1>9. ASSUME NEW t \in Tqls, DropMailbox(t) PROVE Kept
  BY <1>9, <1>b DEF DropMailbox
<1>10. ASSUME NEW t \in Tqls, DropRequest(t) PROVE Kept
  BY <1>10, <1>b DEF DropRequest
<1>10b. ASSUME NEW t \in Tqls, DropReply(t) PROVE Kept
  BY <1>10b, <1>b DEF DropReply
<1>11. ASSUME NEW t \in Tqls, DropRegistration(t) PROVE Kept
  BY <1>11, <1>b DEF DropRegistration
<1>11b. ASSUME NEW t \in Tqls, Unlock(t) PROVE Kept
  BY <1>11b, <1>b DEF Unlock
<1>12. ASSUME NEW t \in Tqls, Crash(t) PROVE Kept
  BY <1>12, <1>b DEF Crash
<1>13. ASSUME NEW a \in Agents, NEW t \in Tqls, LookMissing(a, t) PROVE Kept
  BY <1>13, <1>b DEF LookMissing, Go
<1>13b. ASSUME NEW a \in Agents, NEW t \in Tqls, LookOpen(a, t) PROVE Kept
  BY <1>13b, <1>b DEF LookOpen, Go
<1>14. ASSUME NEW a \in Agents, LookHeld(a) PROVE Kept
  BY <1>14, <1>b DEF LookHeld, Entry, Go
<1>15. ASSUME NEW a \in Agents, LookFree(a) PROVE Kept
  BY <1>15, <1>b DEF LookFree, Go
<1>16. ASSUME NEW a \in Agents, Call(a) PROVE Kept
  <2>1. a = o
    BY <1>16 DEF Call, Alone
  <2> QED
    BY <1>16, <1>b, <2>1 DEF Call, Go
<1>17. ASSUME NEW a \in Agents, SweepMailbox(a) PROVE Kept
  <2>1. a = o
    BY <1>17, <1>c DEF SweepMailbox, Go
  <2> QED
    BY <1>17, <1>b, <2>1 DEF SweepMailbox, Go
<1>17b. ASSUME NEW a \in Agents, SweepRequest(a) PROVE Kept
  <2>1. a = o
    BY <1>17b, <1>c DEF SweepRequest, Go
  <2> QED
    BY <1>17b, <1>b, <2>1 DEF SweepRequest, Go
<1>17c. ASSUME NEW a \in Agents, SweepReply(a) PROVE Kept
  <2>1. a = o
    BY <1>17c, <1>c DEF SweepReply, Go
  <2> QED
    BY <1>17c, <1>b, <2>1 DEF SweepReply, Go
<1>18. ASSUME NEW a \in Agents, SweepRegistration(a) PROVE Kept
  <2>1. a = o
    BY <1>18, <1>c DEF SweepRegistration, Go
  <2> QED
    BY <1>18, <1>b, <2>1 DEF SweepRegistration, Go
<1>18b. ASSUME NEW a \in Agents, Release(a) PROVE Kept
  <2>1. a = o
    BY <1>18b, <1>c DEF Release, Go
  <2> QED
    BY <1>18b, <1>b, <2>1 DEF Release, Go
<1>19. ASSUME NEW a \in Agents, Choose(a) PROVE Kept
  <2>1. a = o
    BY <1>19, <1>c DEF Choose, Go
  <2> QED
    BY <1>19, <1>b, <2>1 DEF Choose, Go
<1>20. ASSUME NEW a \in Agents, ChooseNone(a) PROVE Kept
  <2>1. a = o
    BY <1>20, <1>c DEF ChooseNone, Go
  <2> QED
    BY <1>20, <1>b, <2>1 DEF ChooseNone, Go
<1>21. ASSUME NEW a \in Agents, OpenUnread(a) PROVE Kept
  <2>1. a = o
    BY <1>21, <1>c DEF OpenUnread, Go
  <2> QED
    BY <1>21, <1>b, <2>1 DEF OpenUnread, Go
<1>21b. ASSUME NEW a \in Agents, WriteUnread(a) PROVE Kept
  <2>1. a = o
    BY <1>21b, <1>c DEF WriteUnread, Go
  <2> QED
    BY <1>21b, <1>b, <2>1 DEF WriteUnread, Go
<1>22. ASSUME NEW a \in Agents, HandOver(a) PROVE Kept
  <2>1. a = o
    BY <1>22, <1>c DEF HandOver, Go
  <2> QED
    BY <1>22, <1>b, <2>1 DEF HandOver, Go
<1>23. ASSUME NEW a \in Agents, HandOverFails(a) PROVE Kept
  <2>1. a = o
    BY <1>23, <1>c DEF HandOverFails, Go
  <2> QED
    BY <1>23, <1>b, <2>1 DEF HandOverFails, Go
<1>24. ASSUME NEW a \in Agents, PickedUp(a) PROVE Kept
  <2>1. a = o
    BY <1>24, <1>c DEF PickedUp, Go
  <2> QED
    BY <1>24, <1>b, <2>1 DEF PickedUp, Go
<1>25. ASSUME NEW a \in Agents, NotPickedUp(a) PROVE Kept
  <2>1. a = o
    BY <1>25, <1>c DEF NotPickedUp, Go
  <2> QED
    BY <1>25, <1>b, <2>1 DEF NotPickedUp, Go
<1>26. ASSUME NEW a \in Agents, RemoveReply(a) PROVE Kept
  <2>1. a = o
    BY <1>26, <1>c DEF RemoveReply, Go
  <2> QED
    BY <1>26, <1>b, <2>1 DEF RemoveReply, Go
<1>27. ASSUME NEW a \in Agents, WriteRequest(a) PROVE Kept
  <2>1. a = o
    BY <1>27, <1>c DEF WriteRequest, Go
  <2> QED
    BY <1>27, <1>b, <2>1 DEF WriteRequest, Go
<1>28. ASSUME NEW a \in Agents, ReadReply(a) PROVE Kept
  <2>1. a = o
    BY <1>28, <1>c DEF ReadReply, Go
  <2> QED
    BY <1>28, <1>b, <2>1 DEF ReadReply, Go
<1>29. ASSUME NEW a \in Agents, RemoveRead(a) PROVE Kept
  <2>1. a = o
    BY <1>29, <1>c DEF RemoveRead, Go
  <2> QED
    BY <1>29, <1>b, <2>1 DEF RemoveRead, Go
<1>30. ASSUME NEW a \in Agents, GiveUp(a) PROVE Kept
  BY <1>30 DEF GiveUp, Alone
<1>31. CASE Tick
  BY <1>31, <1>b DEF Tick
<1>32. CASE UNCHANGED vars
  BY <1>32, <1>b DEF vars
<1> QED
  BY <1>1, <1>2, <1>3, <1>4, <1>5, <1>6, <1>7, <1>8, <1>9, <1>10, <1>10b, <1>11, <1>11b, <1>12, <1>13, <1>13b, <1>14, <1>15, <1>16, <1>17, <1>17b, <1>17c, <1>18, <1>18b, <1>19, <1>20, <1>21, <1>21b, <1>22, <1>23, <1>24, <1>25, <1>26, <1>27, <1>28, <1>29, <1>30, <1>31, <1>32
  DEF Next, TqlNext, TqlIdle, AgentNext, Looking, Delivering, ReadingScreen

LEMMA AnswerInvStep == AnswerInv /\ [Next]_vars => AnswerInv'
BY TypeStep, SweepStep, AsksStep DEF AnswerInv, SweepInv

\* An agent reads a reply only where there is one.
LEMMA OnlyRepliesAreRead ==
  ASSUME TypeOK, [Next]_vars
  PROVE  \A b \in Agents :
           at[b] = "listening" /\ at'[b] = "reading" => reply[target[b]] # 0
<1> DEFINE Only == \A b \in Agents :
                     at[b] = "listening" /\ at'[b] = "reading" => reply[target[b]] # 0
<1> USE DEF TypeOK, agents
<1>1. ASSUME NEW t \in Tqls, Lock(t) PROVE Only
  BY <1>1 DEF Lock
<1>2. ASSUME NEW t \in Tqls, Publish(t) PROVE Only
  BY <1>2 DEF Publish
<1>3. ASSUME NEW t \in Tqls, Used(t) PROVE Only
  BY <1>3 DEF Used
<1>4. ASSUME NEW t \in Tqls, ReadMailbox(t) PROVE Only
  BY <1>4 DEF ReadMailbox
<1>5. ASSUME NEW t \in Tqls, EmptyMailbox(t) PROVE Only
  BY <1>5 DEF EmptyMailbox
<1>6. ASSUME NEW t \in Tqls, Describe(t) PROVE Only
  BY <1>6 DEF Describe
<1>7. ASSUME NEW t \in Tqls, WriteReply(t) PROVE Only
  BY <1>7 DEF WriteReply
<1>8. ASSUME NEW t \in Tqls, RemoveRequest(t) PROVE Only
  BY <1>8 DEF RemoveRequest
<1>9. ASSUME NEW t \in Tqls, DropMailbox(t) PROVE Only
  BY <1>9 DEF DropMailbox
<1>10. ASSUME NEW t \in Tqls, DropRequest(t) PROVE Only
  BY <1>10 DEF DropRequest
<1>10b. ASSUME NEW t \in Tqls, DropReply(t) PROVE Only
  BY <1>10b DEF DropReply
<1>11. ASSUME NEW t \in Tqls, DropRegistration(t) PROVE Only
  BY <1>11 DEF DropRegistration
<1>11b. ASSUME NEW t \in Tqls, Unlock(t) PROVE Only
  BY <1>11b DEF Unlock
<1>12. ASSUME NEW t \in Tqls, Crash(t) PROVE Only
  BY <1>12 DEF Crash
<1>13. ASSUME NEW a \in Agents, NEW t \in Tqls, LookMissing(a, t) PROVE Only
  BY <1>13 DEF LookMissing, Go
<1>13b. ASSUME NEW a \in Agents, NEW t \in Tqls, LookOpen(a, t) PROVE Only
  BY <1>13b DEF LookOpen, Go
<1>14. ASSUME NEW a \in Agents, LookHeld(a) PROVE Only
  BY <1>14 DEF LookHeld, Entry, Go
<1>15. ASSUME NEW a \in Agents, LookFree(a) PROVE Only
  BY <1>15 DEF LookFree, Go
<1>16. ASSUME NEW a \in Agents, Call(a) PROVE Only
  BY <1>16 DEF Call, Go
<1>17. ASSUME NEW a \in Agents, SweepMailbox(a) PROVE Only
  BY <1>17 DEF SweepMailbox, Go
<1>17b. ASSUME NEW a \in Agents, SweepRequest(a) PROVE Only
  BY <1>17b DEF SweepRequest, Go
<1>17c. ASSUME NEW a \in Agents, SweepReply(a) PROVE Only
  BY <1>17c DEF SweepReply, Go
<1>18. ASSUME NEW a \in Agents, SweepRegistration(a) PROVE Only
  BY <1>18 DEF SweepRegistration, Go
<1>18b. ASSUME NEW a \in Agents, Release(a) PROVE Only
  BY <1>18b DEF Release, Go
<1>19. ASSUME NEW a \in Agents, Choose(a) PROVE Only
  <2>1. \A b \in Agents : at'[b] # "reading" \/ at'[b] = at[b]
    BY <1>19 DEF Choose, Go
  <2> QED
    BY <2>1
<1>20. ASSUME NEW a \in Agents, ChooseNone(a) PROVE Only
  <2>1. \A b \in Agents : at'[b] # "reading" \/ at'[b] = at[b]
    BY <1>20 DEF ChooseNone, Go
  <2> QED
    BY <2>1
<1>21. ASSUME NEW a \in Agents, OpenUnread(a) PROVE Only
  BY <1>21 DEF OpenUnread, Go
<1>21b. ASSUME NEW a \in Agents, WriteUnread(a) PROVE Only
  BY <1>21b DEF WriteUnread, Go
<1>22. ASSUME NEW a \in Agents, HandOver(a) PROVE Only
  BY <1>22 DEF HandOver, Go
<1>23. ASSUME NEW a \in Agents, HandOverFails(a) PROVE Only
  <2>1. \A b \in Agents : at'[b] # "reading" \/ at'[b] = at[b]
    BY <1>23 DEF HandOverFails, Go
  <2> QED
    BY <2>1
<1>24. ASSUME NEW a \in Agents, PickedUp(a) PROVE Only
  <2>1. \A b \in Agents : at'[b] # "reading" \/ at'[b] = at[b]
    BY <1>24 DEF PickedUp, Go
  <2> QED
    BY <2>1
<1>25. ASSUME NEW a \in Agents, NotPickedUp(a) PROVE Only
  <2>1. \A b \in Agents : at'[b] # "reading" \/ at'[b] = at[b]
    BY <1>25 DEF NotPickedUp, Go
  <2> QED
    BY <2>1
<1>26. ASSUME NEW a \in Agents, RemoveReply(a) PROVE Only
  BY <1>26 DEF RemoveReply, Go
<1>27. ASSUME NEW a \in Agents, WriteRequest(a) PROVE Only
  BY <1>27 DEF WriteRequest, Go
<1>28. ASSUME NEW a \in Agents, ReadReply(a) PROVE Only
  BY <1>28 DEF ReadReply, Go
<1>29. ASSUME NEW a \in Agents, RemoveRead(a) PROVE Only
  BY <1>29 DEF RemoveRead, Go
<1>30. ASSUME NEW a \in Agents, GiveUp(a) PROVE Only
  BY <1>30 DEF GiveUp, Go
<1>31. CASE Tick
  BY <1>31 DEF Tick
<1>32. CASE UNCHANGED vars
  BY <1>32 DEF vars
<1> QED
  BY <1>1, <1>2, <1>3, <1>4, <1>5, <1>6, <1>7, <1>8, <1>9, <1>10, <1>10b, <1>11, <1>11b, <1>12, <1>13, <1>13b, <1>14, <1>15, <1>16, <1>17, <1>17b, <1>17c, <1>18, <1>18b, <1>19, <1>20, <1>21, <1>21b, <1>22, <1>23, <1>24, <1>25, <1>26, <1>27, <1>28, <1>29, <1>30, <1>31, <1>32
  DEF Next, TqlNext, TqlIdle, AgentNext, Looking, Delivering, ReadingScreen

\* A lone agent that never gave up is told of a screen described after it asked:
\* no reply to an earlier call is taken for the answer (Live::answer,
\* app/live.rs:74-82; read_screen, app/live.rs:152-169).
THEOREM AnswerIsNew == Spec => AnswerFollowsRequest
<1>1. Init => AnswerInv
  BY InitInv DEF Init, AnswerInv, AsksAlone, Promise, Pends
<1>2. AnswerInv /\ [Next]_vars => [AnswerStep]_vars
  <2> SUFFICES ASSUME AnswerInv, [Next]_vars, NEW a \in Agents,
                      at[a] = "listening", at'[a] = "reading", Alone(a)
               PROVE  reply[target[a]] > asked[a]
    BY DEF AnswerStep, Alone
  <2>a. TypeOK /\ CallsInProgress
    BY DEF AnswerInv, SweepInv
  <2>1. reply[target[a]] # 0
    BY <2>a, OnlyRepliesAreRead
  <2>2. asked[a] < reply[target[a]]
    BY <2>1 DEF AnswerInv, AsksAlone, Promise
  <2>3. target[a] \in Tqls /\ asked[a] \in Nat /\ reply[target[a]] \in Nat
    BY <2>a DEF TypeOK, CallsInProgress
  <2> QED
    BY <2>2, <2>3
<1> QED
  BY <1>1, <1>2, AnswerInvStep, PTL DEF Spec, AnswerFollowsRequest

-----------------------------------------------------------------------------
(* The loop every tql is in, of EventLoop, for any events and whatever the  *)
(* app does with them: every event is given to it, once and in order, and   *)
(* what is shown while nothing happens is as the app is.                    *)

CONSTANTS Events, MaxEvents, MaxWork
VARIABLES came, loop, app, screen

Loops == INSTANCE EventLoop

\* What an input is made of: an event, or an escape and what joins it
Part(from, cm) ==
  \/ \E n \in 1..Len(cm) : from = <<n>> /\ Loops!IsInput(cm[n])
  \/ \E n \in 1..Len(cm) : n + 1 <= Len(cm) /\ from = <<n, n + 1>> /\ cm[n] = "escape" /\ Loops!Joins(cm[n + 1])
Begin(from) == from[1]
End(from) == from[Len(from)]

Taken == [from : Seq(Nat), exits : BOOLEAN]
Fits(inputs, cm, read) ==
  /\ inputs \in Seq(Taken)
  /\ \A i \in 1..Len(inputs) : Part(inputs[i].from, cm) /\ End(inputs[i].from) <= read
  /\ \A i, j \in 1..Len(inputs) : i < j => End(inputs[i].from) < Begin(inputs[j].from)

\* The events that were given, of those read
Has(inputs, n) == \E i \in 1..Len(inputs) : n \in {Begin(inputs[i].from), End(inputs[i].from)}
GivenAll(inputs, cm, read) == \A n \in 1..read : Has(inputs, n) <=> Loops!IsInput(cm[n])

Goon(inputs) == \A i \in 1..Len(inputs) : ~inputs[i].exits
LastEnds(inputs) == \A i \in 1..Len(inputs) : inputs[i].exits => i = Len(inputs)
Later(inputs, from) == \A i \in 1..Len(inputs) : End(inputs[i].from) < Begin(from)
UpTo(inputs, from) == \A i \in 1..Len(inputs) : End(inputs[i].from) <= End(from)
Adds(more, inputs, from) == \A n : Has(more, n) <=> Has(inputs, n) \/ n \in {Begin(from), End(from)}

LoopTyped ==
  /\ came \in Seq(Events)
  /\ loop \in [at : {"poll", "escape", "wait", "ended"}, read : 0..Len(came), dirty : BOOLEAN]
  /\ app \in [inputs : Seq(Taken), state : Nat, repaint : BOOLEAN, work : Nat]
  /\ screen \in Nat

LoopInv ==
  /\ LoopTyped
  /\ Fits(app.inputs, came, loop.read)
  /\ LastEnds(app.inputs) /\ (loop.at # "ended" => Goon(app.inputs))
  /\ loop.at \in {"poll", "wait"} => GivenAll(app.inputs, came, loop.read)
  /\ loop.at \in {"escape", "ended"} => loop.read > 0 /\ GivenAll(app.inputs, came, loop.read - 1)
  /\ loop.at = "escape" => came[loop.read] = "escape" /\ \A i \in 1..Len(app.inputs) : End(app.inputs[i].from) < loop.read
  /\ ~loop.dirty => screen = app.state /\ ~app.repaint
  /\ loop.at = "wait" => ~loop.dirty
  /\ loop.at \in {"escape", "ended"} => loop.dirty

-----------------------------------------------------------------------------
LEMMA AppendIs ==
  ASSUME NEW S, NEW s \in Seq(S), NEW x \in S
  PROVE /\ Append(s, x) \in Seq(S) /\ Len(Append(s, x)) = Len(s) + 1 /\ Append(s, x)[Len(s) + 1] = x
        /\ \A i \in 1..Len(s) : Append(s, x)[i] = s[i]
        /\ Len(s) \in Nat
OBVIOUS

LEMMA OneIs ==
  ASSUME NEW n \in Nat
  PROVE <<n>> \in Seq(Nat) /\ Begin(<<n>>) = n /\ End(<<n>>) = n
BY DEF Begin, End

LEMMA TwoIs ==
  ASSUME NEW n \in Nat
  PROVE <<n, n + 1>> \in Seq(Nat) /\ Begin(<<n, n + 1>>) = n /\ End(<<n, n + 1>>) = n + 1
BY DEF Begin, End

LEMMA PartIs ==
  ASSUME NEW cm, Len(cm) \in Nat, NEW from, Part(from, cm)
  PROVE /\ from \in Seq(Nat) /\ Begin(from) \in Nat /\ End(from) \in Nat /\ Begin(from) <= End(from) /\ 0 < Begin(from)
        /\ End(from) <= Len(cm)
<1>1. ASSUME NEW n \in 1..Len(cm), from = <<n>>
      PROVE from \in Seq(Nat) /\ Begin(from) = n /\ End(from) = n
  BY <1>1, OneIs
<1>2. ASSUME NEW n \in 1..Len(cm), n + 1 <= Len(cm), from = <<n, n + 1>>
      PROVE from \in Seq(Nat) /\ Begin(from) = n /\ End(from) = n + 1
  BY <1>2, TwoIs
<1> QED
  BY <1>1, <1>2 DEF Part

\* One more input, of events that come after those of the others
LEMMA GivenOne ==
  ASSUME NEW cm, Len(cm) \in Nat, NEW inputs, NEW read \in Nat, NEW read2 \in Nat, read <= read2, Fits(inputs, cm, read),
         NEW from, Part(from, cm), End(from) <= read2, NEW exits \in BOOLEAN,
         Later(inputs, from), Goon(inputs), NEW more, more = Loops!Given(inputs, from, exits)
  PROVE /\ Fits(more, cm, read2) /\ Adds(more, inputs, from) /\ UpTo(more, from)
        /\ LastEnds(more) /\ (exits \/ Goon(more))
<1> DEFINE x == [from |-> from, exits |-> exits]
<1>1. inputs \in Seq(Taken) /\ Len(inputs) \in Nat
  BY DEF Fits
<1>2. /\ from \in Seq(Nat) /\ Begin(from) \in Nat /\ End(from) \in Nat /\ Begin(from) <= End(from)
  BY PartIs
<1>3. x \in Taken /\ x.from = from /\ x.exits = exits
  BY <1>2 DEF Taken
<1>4. more = Append(inputs, x)
  BY DEF Loops!Given
<1> HIDE DEF x
<1>5. /\ more \in Seq(Taken) /\ Len(more) = Len(inputs) + 1 /\ more[Len(inputs) + 1] = x
      /\ \A i \in 1..Len(inputs) : more[i] = inputs[i]
  BY <1>1, <1>3, <1>4, AppendIs
<1>6. ASSUME NEW i \in 1..Len(more)
      PROVE (i \in 1..Len(inputs) /\ more[i] = inputs[i]) \/ (i = Len(inputs) + 1 /\ more[i] = x)
  BY <1>1, <1>5
<1>7. ASSUME NEW i \in 1..Len(inputs)
      PROVE /\ Part(inputs[i].from, cm) /\ End(inputs[i].from) \in Nat /\ Begin(inputs[i].from) \in Nat
            /\ End(inputs[i].from) <= read /\ End(inputs[i].from) < Begin(from)
  <2>1. Part(inputs[i].from, cm) /\ End(inputs[i].from) <= read
    BY DEF Fits
  <2>2. PICK f : f = inputs[i].from
    OBVIOUS
  <2>3. Begin(f) \in Nat /\ End(f) \in Nat
    BY <2>1, <2>2, PartIs
  <2> QED
    BY <2>1, <2>2, <2>3 DEF Later
<1>8. \A i \in 1..Len(more) : Part(more[i].from, cm) /\ End(more[i].from) <= read2 /\ End(more[i].from) <= End(from)
  <2> TAKE i \in 1..Len(more)
  <2>1. CASE i \in 1..Len(inputs) /\ more[i] = inputs[i]
    BY <2>1, <1>2, <1>7
  <2>2. CASE more[i] = x
    BY <2>2, <1>2, <1>3
  <2> QED
    BY <2>1, <2>2, <1>6
<1>9. \A i, j \in 1..Len(more) : i < j => End(more[i].from) < Begin(more[j].from)
  <2> SUFFICES ASSUME NEW i \in 1..Len(more), NEW j \in 1..Len(more), i < j PROVE End(more[i].from) < Begin(more[j].from)
    OBVIOUS
  <2>1. i \in 1..Len(inputs) /\ more[i] = inputs[i]
    BY <1>1, <1>5
  <2>2. CASE j \in 1..Len(inputs) /\ more[j] = inputs[j]
    BY <2>1, <2>2 DEF Fits
  <2>3. CASE more[j] = x
    BY <2>1, <2>3, <1>3, <1>7
  <2> QED
    BY <2>2, <2>3, <1>6
<1>10. \A n : Has(more, n) <=> Has(inputs, n) \/ n \in {Begin(from), End(from)}
  <2> TAKE n
  <2>1. ASSUME Has(more, n) PROVE Has(inputs, n) \/ n \in {Begin(from), End(from)}
    <3>1. PICK i \in 1..Len(more) : n \in {Begin(more[i].from), End(more[i].from)}
      BY <2>1 DEF Has
    <3> QED
      BY <3>1, <1>3, <1>6 DEF Has
  <2>2. ASSUME Has(inputs, n) PROVE Has(more, n)
    <3>1. PICK i \in 1..Len(inputs) : n \in {Begin(inputs[i].from), End(inputs[i].from)}
      BY <2>2 DEF Has
    <3>2. i \in 1..Len(more) /\ more[i] = inputs[i]
      BY <1>1, <1>5
    <3> QED
      BY <3>1, <3>2 DEF Has
  <2>3. ASSUME n \in {Begin(from), End(from)} PROVE Has(more, n)
    <3>1. Len(inputs) + 1 \in 1..Len(more) /\ more[Len(inputs) + 1].from = from
      BY <1>1, <1>3, <1>5
    <3> QED
      BY <3>1, <2>3 DEF Has
  <2> QED
    BY <2>1, <2>2, <2>3
<1>11. LastEnds(more)
  <2> SUFFICES ASSUME NEW i \in 1..Len(more), more[i].exits PROVE i = Len(more)
    BY DEF LastEnds
  <2>1. ~(i \in 1..Len(inputs) /\ more[i] = inputs[i])
    BY DEF Goon
  <2> QED
    BY <2>1, <1>5, <1>6
<1>12. ASSUME ~exits PROVE Goon(more)
  BY <1>3, <1>6, <1>12 DEF Goon
<1>13. Fits(more, cm, read2) /\ UpTo(more, from)
  BY <1>5, <1>8, <1>9 DEF Fits, UpTo
<1>14. Adds(more, inputs, from)
  BY <1>10 DEF Adds
<1> QED
  BY <1>11, <1>12, <1>13, <1>14

\* The app was given what it is given, and the loop goes on or ends
LEMMA GoesKeeps ==
  ASSUME LoopTyped, NEW inputs, NEW exits \in BOOLEAN, NEW read \in 1..Len(came), Loops!Goes(exits, read), Loops!Changed(inputs),
         UNCHANGED <<came, screen>>, Fits(inputs, came, read), LastEnds(inputs), exits \/ Goon(inputs),
         GivenAll(inputs, came, IF exits THEN read - 1 ELSE read)
  PROVE LoopInv'
<1>1. PICK more \in {0, 1} : \E repaint \in {app.repaint, app.repaint \/ more = 1} :
        app' = [app EXCEPT !.inputs = inputs, !.state = @ + more, !.repaint = repaint]
  BY DEF Loops!Changed
<1>2. PICK repaint \in {app.repaint, app.repaint \/ more = 1} :
        app' = [app EXCEPT !.inputs = inputs, !.state = @ + more, !.repaint = repaint]
  BY <1>1
<1>3. repaint \in BOOLEAN
  BY DEF LoopTyped
<1>4. inputs \in Seq(Taken)
  BY DEF Fits
<1>5. app' \in [inputs : Seq(Taken), state : Nat, repaint : BOOLEAN, work : Nat] /\ app'.inputs = inputs
  <2>1. PICK a \in [inputs : Seq(Taken), state : Nat, repaint : BOOLEAN, work : Nat] : a = app
    BY DEF LoopTyped
  <2>2. PICK state \in Nat : state = a.state + more
    OBVIOUS
  <2>3. app' = [a EXCEPT !.inputs = inputs, !.state = state, !.repaint = repaint]
    BY <1>2, <2>1, <2>2
  <2> QED
    BY <2>3, <1>3, <1>4
<1>6. /\ loop'.at = (IF exits THEN "ended" ELSE "poll") /\ loop'.read = read /\ loop'.dirty
      /\ loop' \in [at : {"poll", "escape", "wait", "ended"}, read : 0..Len(came), dirty : BOOLEAN]
  BY DEF Loops!Goes, LoopTyped
<1>7. LoopTyped'
  BY <1>5, <1>6 DEF LoopTyped
<1>8. Fits(app'.inputs, came', loop'.read) /\ LastEnds(app'.inputs) /\ (loop'.at # "ended" => Goon(app'.inputs))
  BY <1>5, <1>6
<1>9. GivenAll(app'.inputs, came', IF exits THEN read - 1 ELSE read)
  BY <1>5
<1> QED
  BY <1>6, <1>7, <1>8, <1>9 DEF LoopInv

\* An input that is made of what was read last
LEMMA GivesOne ==
  ASSUME LoopInv, NEW read \in Nat, NEW inputs, Fits(inputs, came, read), Goon(inputs), GivenAll(inputs, came, read),
         read + 1 <= Len(came), Loops!IsInput(came[read + 1]), NEW exits \in BOOLEAN,
         NEW more, more = Loops!Given(inputs, <<read + 1>>, exits)
  PROVE /\ Fits(more, came, read + 1) /\ GivenAll(more, came, read + 1) /\ LastEnds(more) /\ (exits \/ Goon(more))
<1> DEFINE from == <<read + 1>>
<1>1. Len(came) \in Nat /\ read + 1 \in Nat /\ read + 1 \in 1..Len(came) /\ read <= read + 1
  BY DEF LoopInv, LoopTyped
<1>2. Begin(from) = read + 1 /\ End(from) = read + 1 /\ Part(from, came) /\ End(from) <= read + 1
  BY <1>1, OneIs DEF Part
<1>3. more = Loops!Given(inputs, from, exits)
  OBVIOUS
<1> HIDE DEF from
<1>4. Later(inputs, from)
  <2>1. ASSUME NEW i \in 1..Len(inputs) PROVE End(inputs[i].from) < Begin(from)
    <3>1. Part(inputs[i].from, came) /\ End(inputs[i].from) <= read
      BY DEF Fits
    <3>2. PICK f : f = inputs[i].from
      OBVIOUS
    <3>3. End(f) \in Nat
      BY <3>1, <3>2, <1>1, PartIs
    <3> QED
      BY <3>1, <3>2, <3>3, <1>2
  <2> QED
    BY <2>1 DEF Later
<1>5. /\ Fits(more, came, read + 1) /\ Adds(more, inputs, from)
      /\ LastEnds(more) /\ (exits \/ Goon(more))
  BY <1>1, <1>2, <1>3, <1>4, GivenOne
<1>6. GivenAll(more, came, read + 1)
  <2> SUFFICES ASSUME NEW n \in 1..read + 1 PROVE Has(more, n) <=> Loops!IsInput(came[n])
    BY DEF GivenAll
  <2>1. CASE n = read + 1
    BY <2>1, <1>2, <1>5 DEF Adds
  <2>2. CASE n \in 1..read
    BY <2>2, <1>2, <1>5 DEF GivenAll, Adds
  <2> QED
    BY <2>1, <2>2, <1>1
<1> QED
  BY <1>5, <1>6

\* An event that is no input, read after those that were given
LEMMA GivesNone ==
  ASSUME LoopInv, NEW read \in Nat, NEW inputs, Fits(inputs, came, read), GivenAll(inputs, came, read),
         read + 1 <= Len(came), ~Loops!IsInput(came[read + 1])
  PROVE Fits(inputs, came, read + 1) /\ GivenAll(inputs, came, read + 1)
<1>1. Len(came) \in Nat
  BY DEF LoopInv, LoopTyped
<1>2. ASSUME NEW i \in 1..Len(inputs)
      PROVE End(inputs[i].from) \in 0..read /\ Begin(inputs[i].from) \in 0..read
  <2>1. Part(inputs[i].from, came) /\ End(inputs[i].from) <= read
    BY DEF Fits
  <2>2. PICK f : f = inputs[i].from
    OBVIOUS
  <2>3. End(f) \in Nat /\ Begin(f) \in Nat /\ Begin(f) <= End(f)
    BY <2>1, <2>2, <1>1, PartIs
  <2> QED
    BY <2>1, <2>2, <2>3
<1>3. Fits(inputs, came, read + 1)
  BY <1>2 DEF Fits
<1>4. ~Has(inputs, read + 1)
  BY <1>2 DEF Has
<1>5. GivenAll(inputs, came, read + 1)
  <2> SUFFICES ASSUME NEW n \in 1..read + 1 PROVE Has(inputs, n) <=> Loops!IsInput(came[n])
    BY DEF GivenAll
  <2>1. CASE n = read + 1
    BY <2>1, <1>4
  <2>2. CASE n \in 1..read
    BY <2>2 DEF GivenAll
  <2> QED
    BY <2>1, <2>2
<1> QED
  BY <1>3, <1>5

LEMMA GivenLess ==
  ASSUME NEW inputs, NEW cm, NEW read \in Nat, GivenAll(inputs, cm, read + 1)
  PROVE GivenAll(inputs, cm, read)
BY DEF GivenAll

\* While an escape is looked after, it has not been given, and all before it have
LEMMA AtEscape ==
  ASSUME LoopInv, loop.at = "escape"
  PROVE \E read \in Nat :
          /\ loop.read = read + 1 /\ read + 1 <= Len(came) /\ Len(came) \in Nat /\ came[read + 1] = "escape" /\ Loops!IsInput(came[read + 1])
          /\ Fits(app.inputs, came, read) /\ GivenAll(app.inputs, came, read) /\ Goon(app.inputs)
<1>1. PICK read \in Nat : loop.read = read + 1
  <2>1. loop.read \in Nat /\ loop.read > 0
    BY DEF LoopInv, LoopTyped
  <2>2. loop.read - 1 \in Nat /\ loop.read = loop.read - 1 + 1
    BY <2>1
  <2> QED
    BY <2>2
<1>2. /\ read + 1 <= Len(came) /\ Len(came) \in Nat /\ came[read + 1] = "escape" /\ GivenAll(app.inputs, came, read)
      /\ Goon(app.inputs) /\ Fits(app.inputs, came, read + 1) /\ \A i \in 1..Len(app.inputs) : End(app.inputs[i].from) < read + 1
  <2>1. loop.read - 1 = read
    BY <1>1
  <2> QED
    BY <1>1, <2>1 DEF LoopInv, LoopTyped
<1>3. Loops!IsInput(came[read + 1])
  BY <1>2 DEF Loops!IsInput, Loops!Inputs, Loops!Keys
<1>4. ASSUME NEW i \in 1..Len(app.inputs) PROVE End(app.inputs[i].from) <= read
  <2>1. Part(app.inputs[i].from, came) /\ End(app.inputs[i].from) < read + 1
    BY <1>2 DEF Fits
  <2>2. PICK f : f = app.inputs[i].from
    OBVIOUS
  <2>3. End(f) \in Nat
    BY <2>1, <2>2, <1>2, PartIs
  <2> QED
    BY <2>1, <2>2, <2>3
<1>5. Fits(app.inputs, came, read)
  BY <1>2, <1>4 DEF Fits
<1> QED
  BY <1>1, <1>2, <1>3, <1>5

LEMMA ReadKeeps ==
  ASSUME LoopInv, Loops!Read
  PROVE LoopInv'
<1>1. PICK read \in Nat : read = loop.read
  BY DEF LoopInv, LoopTyped
<1>2. /\ read + 1 <= Len(came) /\ read + 1 \in 1..Len(came) /\ Len(came) \in Nat /\ UNCHANGED <<came, screen>> /\ LoopTyped
      /\ Fits(app.inputs, came, read) /\ GivenAll(app.inputs, came, read) /\ Goon(app.inputs) /\ LastEnds(app.inputs)
  BY <1>1 DEF Loops!Read, Loops!Unread, LoopInv, LoopTyped
<1>3. ASSUME Loops!IsInput(came[read + 1]), NEW exits \in BOOLEAN, Loops!Goes(exits, read + 1), Loops!Changed(Loops!Given(app.inputs, <<read + 1>>, exits))
      PROVE LoopInv'
  <2>1. PICK more : more = Loops!Given(app.inputs, <<read + 1>>, exits)
    OBVIOUS
  <2>2. Fits(more, came, read + 1) /\ GivenAll(more, came, read + 1) /\ LastEnds(more) /\ (exits \/ Goon(more))
    BY <2>1, <1>2, <1>3, GivesOne
  <2>3. GivenAll(more, came, IF exits THEN read + 1 - 1 ELSE read + 1)
    <3>1. read + 1 - 1 = read
      OBVIOUS
    <3> QED
      BY <3>1, <2>2, GivenLess
  <2>4. Loops!Changed(more)
    BY <2>1, <1>3
  <2> QED
    BY <2>2, <2>3, <2>4, <1>2, <1>3, GoesKeeps
<1>4. ASSUME ~Loops!IsInput(came[read + 1]), Loops!Goes(FALSE, read + 1), UNCHANGED app
      PROVE LoopInv'
  <2>1. Fits(app.inputs, came, read + 1) /\ GivenAll(app.inputs, came, read + 1)
    BY <1>2, <1>4, GivesNone
  <2>2. /\ loop'.at = "poll" /\ loop'.read = read + 1 /\ loop'.dirty
        /\ loop' \in [at : {"poll", "escape", "wait", "ended"}, read : 0..Len(came), dirty : BOOLEAN]
    BY <1>2, <1>4 DEF Loops!Goes
  <2>3. LoopTyped'
    BY <1>2, <1>4, <2>2 DEF LoopTyped
  <2> QED
    BY <1>2, <1>4, <2>1, <2>2, <2>3 DEF LoopInv
<1> QED
  BY <1>1, <1>3, <1>4 DEF Loops!Read, Loops!Event

LEMMA ReadEscapeKeeps ==
  ASSUME LoopInv, Loops!ReadEscape
  PROVE LoopInv'
<1>1. PICK read \in Nat : read = loop.read
  BY DEF LoopInv, LoopTyped
<1>2. /\ read + 1 <= Len(came) /\ read + 1 \in 1..Len(came) /\ Len(came) \in Nat /\ UNCHANGED <<came, app, screen>> /\ LoopTyped
      /\ Fits(app.inputs, came, read) /\ GivenAll(app.inputs, came, read) /\ Goon(app.inputs) /\ LastEnds(app.inputs)
      /\ came[read + 1] = "escape"
  BY <1>1 DEF Loops!ReadEscape, Loops!Unread, LoopInv, LoopTyped, Loops!Event
<1>3. /\ loop'.at = "escape" /\ loop'.read = read + 1 /\ loop'.dirty /\ loop'.read - 1 = read
      /\ loop' \in [at : {"poll", "escape", "wait", "ended"}, read : 0..Len(came), dirty : BOOLEAN]
  BY <1>1, <1>2 DEF Loops!ReadEscape
<1>4. LoopTyped'
  BY <1>2, <1>3 DEF LoopTyped
<1>5. ASSUME NEW i \in 1..Len(app.inputs) PROVE End(app.inputs[i].from) <= read /\ End(app.inputs[i].from) < read + 1
  <2>1. Part(app.inputs[i].from, came) /\ End(app.inputs[i].from) <= read
    BY <1>2 DEF Fits
  <2>2. PICK f : f = app.inputs[i].from
    OBVIOUS
  <2>3. End(f) \in Nat
    BY <2>1, <2>2, <1>2, PartIs
  <2> QED
    BY <2>1, <2>2, <2>3
<1>6. Fits(app.inputs, came, read + 1)
  <2>1. ASSUME NEW i \in 1..Len(app.inputs) PROVE End(app.inputs[i].from) <= read + 1
    <3>1. Part(app.inputs[i].from, came)
      BY <1>2 DEF Fits
    <3>2. PICK f : f = app.inputs[i].from
      OBVIOUS
    <3>3. End(f) \in Nat
      BY <3>1, <3>2, <1>2, PartIs
    <3> QED
      BY <3>2, <3>3, <1>5
  <2> QED
    BY <2>1, <1>2 DEF Fits
<1> QED
  BY <1>2, <1>3, <1>4, <1>5, <1>6 DEF LoopInv

LEMMA AloneKeeps ==
  ASSUME LoopInv, Loops!Alone
  PROVE LoopInv'
<1>1. PICK read \in Nat :
        /\ loop.read = read + 1 /\ read + 1 <= Len(came) /\ Len(came) \in Nat /\ Loops!IsInput(came[read + 1])
        /\ Fits(app.inputs, came, read) /\ GivenAll(app.inputs, came, read) /\ Goon(app.inputs)
  BY AtEscape DEF Loops!Alone
<1>2. PICK exits \in BOOLEAN : Loops!Goes(exits, read + 1) /\ Loops!Changed(Loops!Given(app.inputs, <<read + 1>>, exits))
  BY <1>1 DEF Loops!Alone
<1>3. PICK more : more = Loops!Given(app.inputs, <<read + 1>>, exits)
  OBVIOUS
<1>4. Fits(more, came, read + 1) /\ GivenAll(more, came, read + 1) /\ LastEnds(more) /\ (exits \/ Goon(more))
  BY <1>1, <1>3, GivesOne
<1>5. GivenAll(more, came, IF exits THEN read + 1 - 1 ELSE read + 1)
  <2>1. read + 1 - 1 = read
    OBVIOUS
  <2> QED
    BY <2>1, <1>4, GivenLess
<1>6. Loops!Changed(more) /\ UNCHANGED <<came, screen>> /\ LoopTyped /\ read + 1 \in 1..Len(came)
  BY <1>1, <1>2, <1>3 DEF Loops!Alone, LoopInv
<1> QED
  BY <1>2, <1>4, <1>5, <1>6, GoesKeeps

LEMMA FollowKeeps ==
  ASSUME LoopInv, Loops!Follow
  PROVE LoopInv'
<1>1. PICK read \in Nat :
        /\ loop.read = read + 1 /\ read + 1 <= Len(came) /\ Len(came) \in Nat /\ Loops!IsInput(came[read + 1])
        /\ came[read + 1] = "escape"
        /\ Fits(app.inputs, came, read) /\ GivenAll(app.inputs, came, read) /\ Goon(app.inputs)
  BY AtEscape DEF Loops!Follow
<1>2. PICK next \in Nat : next = read + 1
  OBVIOUS
<1>3. next + 1 <= Len(came) /\ next + 1 \in 1..Len(came) /\ UNCHANGED <<came, screen>> /\ LoopTyped /\ read <= next + 1 /\ next + 1 \in Nat
  BY <1>1, <1>2 DEF Loops!Follow, Loops!Unread, LoopInv, LoopTyped
<1>4. ASSUME Loops!Joins(came[next + 1]), NEW exits \in BOOLEAN, Loops!Goes(exits, next + 1), Loops!Changed(Loops!Given(app.inputs, <<next, next + 1>>, exits))
      PROVE LoopInv'
  <2> DEFINE from == <<next, next + 1>>
  <2>1. Begin(from) = next /\ End(from) = next + 1 /\ Part(from, came) /\ End(from) <= next + 1
    BY <1>1, <1>2, <1>3, <1>4, TwoIs DEF Part
  <2>2. PICK more : more = Loops!Given(app.inputs, from, exits)
    OBVIOUS
  <2>3. Loops!Changed(more)
    BY <1>4, <2>2
  <2> HIDE DEF from
  <2>4. Later(app.inputs, from)
    <3>1. ASSUME NEW i \in 1..Len(app.inputs) PROVE End(app.inputs[i].from) < Begin(from)
      <4>1. Part(app.inputs[i].from, came) /\ End(app.inputs[i].from) <= read
        BY <1>1 DEF Fits
      <4>2. PICK f : f = app.inputs[i].from
        OBVIOUS
      <4>3. End(f) \in Nat
        BY <4>1, <4>2, <1>1, PartIs
      <4> QED
        BY <4>1, <4>2, <4>3, <2>1, <1>2
    <3> QED
      BY <3>1 DEF Later
  <2>5. /\ Fits(more, came, next + 1) /\ Adds(more, app.inputs, from) /\ LastEnds(more) /\ (exits \/ Goon(more))
    BY <1>1, <1>3, <2>1, <2>2, <2>4, GivenOne
  <2>6. GivenAll(more, came, next + 1)
    <3> SUFFICES ASSUME NEW n \in 1..next + 1 PROVE Has(more, n) <=> Loops!IsInput(came[n])
      BY DEF GivenAll
    <3>1. CASE n \in {next, next + 1}
      <4>1. Loops!IsInput(came[next]) /\ Loops!IsInput(came[next + 1])
        BY <1>1, <1>2, <1>4 DEF Loops!Joins, Loops!IsInput, Loops!Inputs, Loops!Keys
      <4> QED
        BY <3>1, <4>1, <2>1, <2>5 DEF Adds
    <3>2. CASE n \in 1..read
      BY <3>2, <2>1, <2>5, <1>1, <1>2 DEF GivenAll, Adds
    <3> QED
      BY <3>1, <3>2, <1>2
  <2>7. GivenAll(more, came, IF exits THEN next + 1 - 1 ELSE next + 1)
    <3>1. next + 1 - 1 = next
      OBVIOUS
    <3> QED
      BY <3>1, <2>6, GivenLess
  <2> QED
    BY <2>3, <2>5, <2>7, <1>3, <1>4, GoesKeeps
<1>5. ASSUME NEW first \in BOOLEAN, NEW exits \in BOOLEAN,
             LET given == Loops!Given(app.inputs, <<next>>, first) IN
             IF first \/ ~Loops!IsInput(came[next + 1])
             THEN exits = first /\ Loops!Goes(first, next + 1) /\ Loops!Changed(given)
             ELSE Loops!Goes(exits, next + 1) /\ Loops!Changed(Loops!Given(given, <<next + 1>>, exits))
      PROVE LoopInv'
  <2>1. PICK given : given = Loops!Given(app.inputs, <<next>>, first)
    OBVIOUS
  <2>2. Fits(given, came, next) /\ GivenAll(given, came, next) /\ LastEnds(given) /\ (first \/ Goon(given))
    BY <2>1, <1>1, <1>2, GivesOne
  <2>3. IF first \/ ~Loops!IsInput(came[next + 1])
        THEN exits = first /\ Loops!Goes(first, next + 1) /\ Loops!Changed(given)
        ELSE Loops!Goes(exits, next + 1) /\ Loops!Changed(Loops!Given(given, <<next + 1>>, exits))
    BY <1>5, <2>1
  <2>4. CASE first
    <3>1. Fits(given, came, next + 1)
      <4>1. ASSUME NEW i \in 1..Len(given) PROVE End(given[i].from) <= next + 1
        <5>1. Part(given[i].from, came) /\ End(given[i].from) <= next
          BY <2>2 DEF Fits
        <5>2. PICK f : f = given[i].from
          OBVIOUS
        <5>3. End(f) \in Nat
          BY <5>1, <5>2, <1>1, PartIs
        <5> QED
          BY <5>1, <5>2, <5>3
      <4> QED
        BY <4>1, <2>2 DEF Fits
    <3>2. GivenAll(given, came, IF first THEN next + 1 - 1 ELSE next + 1)
      <4>1. next + 1 - 1 = next
        OBVIOUS
      <4> QED
        BY <4>1, <2>2, <2>4
    <3>3. Loops!Goes(first, next + 1) /\ Loops!Changed(given)
      BY <2>3, <2>4
    <3> QED
      BY <2>2, <3>1, <3>2, <3>3, <1>3, GoesKeeps
  <2>5. CASE ~first /\ ~Loops!IsInput(came[next + 1])
    <3>1. Fits(given, came, next + 1) /\ GivenAll(given, came, next + 1)
      BY <2>2, <2>5, <1>3, GivesNone
    <3>2. GivenAll(given, came, IF first THEN next + 1 - 1 ELSE next + 1)
      BY <3>1, <2>5
    <3>3. Loops!Goes(first, next + 1) /\ Loops!Changed(given)
      BY <2>3, <2>5
    <3> QED
      BY <2>2, <3>1, <3>2, <3>3, <1>3, GoesKeeps
  <2>6. CASE ~first /\ Loops!IsInput(came[next + 1])
    <3>1. PICK more : more = Loops!Given(given, <<next + 1>>, exits)
      OBVIOUS
    <3>2. Fits(more, came, next + 1) /\ GivenAll(more, came, next + 1) /\ LastEnds(more) /\ (exits \/ Goon(more))
      BY <3>1, <2>2, <2>6, <1>3, GivesOne
    <3>3. GivenAll(more, came, IF exits THEN next + 1 - 1 ELSE next + 1)
      <4>1. next + 1 - 1 = next
        OBVIOUS
      <4> QED
        BY <4>1, <3>2, GivenLess
    <3>4. Loops!Goes(exits, next + 1) /\ Loops!Changed(more)
      BY <2>3, <2>6, <3>1
    <3> QED
      BY <3>2, <3>3, <3>4, <1>3, GoesKeeps
  <2> QED
    BY <2>4, <2>5, <2>6
<1> QED
  BY <1>1, <1>2, <1>4, <1>5 DEF Loops!Follow, Loops!Event

\* One more event behaves as the others
LEMMA PartStays ==
  ASSUME NEW cm \in Seq(Events), NEW event \in Events, NEW from, Part(from, cm), NEW more, more = Append(cm, event)
  PROVE Part(from, more)
<1>1. Len(more) = Len(cm) + 1 /\ Len(cm) \in Nat /\ \A i \in 1..Len(cm) : more[i] = cm[i]
  BY AppendIs
<1>2. ASSUME NEW n \in 1..Len(cm), from = <<n>>, Loops!IsInput(cm[n])
      PROVE Part(from, more)
  <2>1. n \in 1..Len(more) /\ Loops!IsInput(more[n])
    BY <1>1, <1>2
  <2> QED
    BY <2>1, <1>2 DEF Part
<1>3. ASSUME NEW n \in 1..Len(cm), n + 1 <= Len(cm), from = <<n, n + 1>>, cm[n] = "escape", Loops!Joins(cm[n + 1])
      PROVE Part(from, more)
  <2>1. n \in 1..Len(more) /\ n + 1 <= Len(more) /\ n + 1 \in 1..Len(cm)
    BY <1>1, <1>3
  <2>2. more[n] = cm[n] /\ more[n + 1] = cm[n + 1]
    BY <1>1, <2>1
  <2> QED
    BY <2>1, <2>2, <1>3 DEF Part
<1> QED
  BY <1>2, <1>3 DEF Part

LEMMA ComeKeeps ==
  ASSUME LoopInv, Loops!Come
  PROVE LoopInv'
<1>1. PICK event \in Events : came' = Append(came, event)
  BY DEF Loops!Come
<1>2. UNCHANGED <<loop, app, screen>> /\ loop.at # "ended"
  BY DEF Loops!Come
<1>3. came \in Seq(Events) /\ loop.read \in 0..Len(came) /\ Len(came) \in Nat
  BY DEF LoopInv, LoopTyped
<1>4. /\ came' \in Seq(Events) /\ Len(came') = Len(came) + 1 /\ \A i \in 1..Len(came) : came'[i] = came[i]
  BY <1>1, <1>3, AppendIs
<1>5. LoopTyped'
  <2>1. loop' \in [at : {"poll", "escape", "wait", "ended"}, read : 0..Len(came'), dirty : BOOLEAN]
    <3>1. 0..Len(came) \subseteq 0..Len(came')
      BY <1>3, <1>4
    <3> QED
      BY <3>1, <1>2 DEF LoopInv, LoopTyped
  <2> QED
    BY <2>1, <1>2, <1>4 DEF LoopInv, LoopTyped
<1>6. Fits(app.inputs, came', loop.read)
  <2>1. ASSUME NEW i \in 1..Len(app.inputs) PROVE Part(app.inputs[i].from, came')
    <3>1. PICK from : from = app.inputs[i].from
      OBVIOUS
    <3>2. Part(from, came)
      BY <3>1 DEF LoopInv, Fits
    <3> QED
      BY <3>1, <3>2, <1>1, <1>3, PartStays
  <2> QED
    BY <2>1 DEF LoopInv, Fits
<1>7. ASSUME NEW read \in Nat, read <= Len(came), GivenAll(app.inputs, came, read)
      PROVE GivenAll(app.inputs, came', read)
  <2>1. ASSUME NEW n \in 1..read PROVE came'[n] = came[n]
    BY <1>3, <1>4, <1>7
  <2> QED
    BY <2>1, <1>7 DEF GivenAll
<1>8. loop.at \in {"poll", "wait"} => GivenAll(app.inputs, came', loop.read)
  BY <1>3, <1>7 DEF LoopInv
<1>9. loop.at \in {"escape", "ended"} => loop.read > 0 /\ GivenAll(app.inputs, came', loop.read - 1)
  <2> SUFFICES ASSUME loop.at \in {"escape", "ended"} PROVE loop.read > 0 /\ GivenAll(app.inputs, came', loop.read - 1)
    OBVIOUS
  <2>1. loop.read > 0 /\ GivenAll(app.inputs, came, loop.read - 1)
    BY DEF LoopInv
  <2>2. loop.read - 1 \in Nat /\ loop.read - 1 <= Len(came)
    BY <2>1, <1>3
  <2> QED
    BY <2>1, <2>2, <1>7
<1>10. loop.at = "escape" => came'[loop.read] = "escape"
  BY <1>3, <1>4, <1>9 DEF LoopInv
<1> QED
  BY <1>2, <1>5, <1>6, <1>8, <1>9, <1>10 DEF LoopInv

LEMMA DrawKeeps ==
  ASSUME LoopInv, Loops!Draw
  PROVE LoopInv'
<1>1. came' = came /\ screen' = app.state /\ loop.at = "poll" /\ loop' = [loop EXCEPT !.dirty = FALSE] /\ app' = [app EXCEPT !.repaint = FALSE]
  BY DEF Loops!Draw
<1>2. /\ loop'.at = "poll" /\ loop'.read = loop.read /\ ~loop'.dirty
      /\ loop' \in [at : {"poll", "escape", "wait", "ended"}, read : 0..Len(came), dirty : BOOLEAN]
  BY <1>1 DEF LoopInv, LoopTyped
<1>3. /\ app'.inputs = app.inputs /\ app'.state = app.state /\ ~app'.repaint
      /\ app' \in [inputs : Seq(Taken), state : Nat, repaint : BOOLEAN, work : Nat]
  BY <1>1 DEF LoopInv, LoopTyped
<1>4. LoopTyped'
  BY <1>1, <1>2, <1>3 DEF LoopInv, LoopTyped
<1> QED
  BY <1>1, <1>2, <1>3, <1>4 DEF LoopInv

LEMMA WorkKeeps ==
  ASSUME LoopInv, Loops!Work
  PROVE LoopInv'
<1>1. UNCHANGED <<came, screen>> /\ loop.at = "poll" /\ ~loop.dirty
  BY DEF Loops!Work
<1>2. ASSUME loop' = [loop EXCEPT !.dirty = TRUE], NEW repaint \in {app.repaint, TRUE},
             app' = [app EXCEPT !.state = @ + 1, !.repaint = repaint, !.work = @ + 1]
      PROVE LoopInv'
  <2>1. /\ loop'.at = "poll" /\ loop'.read = loop.read /\ loop'.dirty
        /\ loop' \in [at : {"poll", "escape", "wait", "ended"}, read : 0..Len(came), dirty : BOOLEAN]
    BY <1>1, <1>2 DEF LoopInv, LoopTyped
  <2>2. PICK a \in [inputs : Seq(Taken), state : Nat, repaint : BOOLEAN, work : Nat] : a = app
    BY DEF LoopInv, LoopTyped
  <2>3. PICK state \in Nat, work \in Nat : state = a.state + 1 /\ work = a.work + 1
    OBVIOUS
  <2>4. repaint \in BOOLEAN
    BY <1>2, <2>2
  <2>5. app' = [a EXCEPT !.state = state, !.repaint = repaint, !.work = work]
    BY <1>2, <2>2, <2>3
  <2>6. app'.inputs = app.inputs /\ app' \in [inputs : Seq(Taken), state : Nat, repaint : BOOLEAN, work : Nat]
    BY <2>2, <2>4, <2>5
  <2>7. LoopTyped'
    BY <2>1, <2>6, <1>1 DEF LoopInv, LoopTyped
  <2> QED
    BY <2>1, <2>6, <2>7, <1>1 DEF LoopInv
<1>3. ASSUME loop' = [loop EXCEPT !.at = "wait"], UNCHANGED app
      PROVE LoopInv'
  <2>1. /\ loop'.at = "wait" /\ loop'.read = loop.read /\ ~loop'.dirty
        /\ loop' \in [at : {"poll", "escape", "wait", "ended"}, read : 0..Len(came), dirty : BOOLEAN]
    BY <1>1, <1>3 DEF LoopInv, LoopTyped
  <2>2. LoopTyped'
    BY <2>1, <1>1, <1>3 DEF LoopInv, LoopTyped
  <2> QED
    BY <2>1, <2>2, <1>1, <1>3 DEF LoopInv
<1> QED
  BY <1>2, <1>3 DEF Loops!Work

LEMMA WakesKeeps ==
  ASSUME LoopInv, Loops!Wakes
  PROVE LoopInv'
<1>1. UNCHANGED <<came, app, screen>> /\ loop.at = "wait" /\ loop' = [loop EXCEPT !.at = "poll"]
  BY DEF Loops!Wakes
<1>2. /\ loop'.at = "poll" /\ loop'.read = loop.read /\ loop'.dirty = loop.dirty
      /\ loop' \in [at : {"poll", "escape", "wait", "ended"}, read : 0..Len(came), dirty : BOOLEAN]
  BY <1>1 DEF LoopInv, LoopTyped
<1>3. LoopTyped'
  BY <1>1, <1>2 DEF LoopInv, LoopTyped
<1> QED
  BY <1>1, <1>2, <1>3 DEF LoopInv

LEMMA LoopBegins ==
  ASSUME Loops!Init
  PROVE LoopInv
<1>1. came = <<>> /\ loop = [at |-> "poll", read |-> 0, dirty |-> TRUE] /\ screen = 0
      /\ app = [inputs |-> <<>>, state |-> 1, repaint |-> FALSE, work |-> 0]
  BY DEF Loops!Init
<1>2. LoopTyped
  BY <1>1 DEF LoopTyped
<1>3. Len(app.inputs) = 0 /\ loop.read = 0 /\ loop.at = "poll" /\ loop.dirty /\ app.inputs \in Seq(Taken)
  BY <1>1
<1>4. Fits(app.inputs, came, loop.read) /\ GivenAll(app.inputs, came, loop.read) /\ LastEnds(app.inputs) /\ Goon(app.inputs)
  BY <1>3 DEF Fits, GivenAll, LastEnds, Goon
<1> QED
  BY <1>2, <1>3, <1>4 DEF LoopInv

LEMMA LoopStays ==
  ASSUME LoopInv, [Loops!Next]_(Loops!loopVars)
  PROVE LoopInv'
<1>1. ASSUME UNCHANGED Loops!loopVars PROVE LoopInv'
  <2>1. UNCHANGED <<came, loop, app, screen>>
    BY <1>1 DEF Loops!loopVars
  <2>2. LoopTyped'
    BY <2>1 DEF LoopInv, LoopTyped
  <2> QED
    BY <2>1, <2>2 DEF LoopInv
<1> QED
  BY <1>1, ComeKeeps, ReadKeeps, ReadEscapeKeeps, FollowKeeps, AloneKeeps, DrawKeeps, WorkKeeps, WakesKeeps DEF Loops!Next

LEMMA LoopHolds == Loops!Spec => []LoopInv
<1>1. Loops!Init => LoopInv
  BY LoopBegins
<1>2. LoopInv /\ [Loops!Next]_(Loops!loopVars) => LoopInv'
  BY LoopStays
<1> QED
  BY <1>1, <1>2, PTL DEF Loops!Spec

-----------------------------------------------------------------------------
\* What the indices of an input's events are
LEMMA FromIs ==
  ASSUME LoopInv, NEW i \in 1..Len(app.inputs), NEW from, from = app.inputs[i].from
  PROVE /\ from \in Seq(Nat) /\ Len(from) \in {1, 2} /\ DOMAIN from = 1..Len(from)
        /\ Len(from) = 2 => from[2] = from[1] + 1 /\ came[from[1]] = "escape" /\ Loops!Joins(came[from[2]])
<1>1. Part(from, came)
  BY DEF LoopInv, Fits
<1>2. ASSUME NEW n \in 1..Len(came), from = <<n>>
      PROVE from \in Seq(Nat) /\ Len(from) = 1 /\ DOMAIN from = 1..Len(from)
  BY <1>2
<1>3. ASSUME NEW n \in 1..Len(came), n + 1 \in Nat, from = <<n, n + 1>>, came[n] = "escape", Loops!Joins(came[n + 1])
      PROVE /\ from \in Seq(Nat) /\ Len(from) = 2 /\ DOMAIN from = 1..Len(from)
            /\ from[1] = n /\ from[2] = n + 1
  <2>1. Len(from) = 2 /\ from[1] = n /\ from[2] = n + 1
    BY <1>3
  <2>2. from \in Seq(Nat)
    BY <1>3, TwoIs
  <2> QED
    BY <2>1, <2>2
<1>4. CASE \E n \in 1..Len(came) : from = <<n>> /\ Loops!IsInput(came[n])
  BY <1>2, <1>4
<1>5. ASSUME NEW n \in 1..Len(came), n + 1 <= Len(came), from = <<n, n + 1>>, came[n] = "escape", Loops!Joins(came[n + 1])
      PROVE /\ from \in Seq(Nat) /\ Len(from) = 2 /\ DOMAIN from = 1..Len(from)
            /\ from[2] = from[1] + 1 /\ came[from[1]] = "escape" /\ Loops!Joins(came[from[2]])
  <2>1. n + 1 \in Nat
    BY <1>5
  <2> QED
    BY <2>1, <1>3, <1>5
<1> QED
  BY <1>1, <1>4, <1>5 DEF Part

LEMMA MadeIsHas ==
  ASSUME LoopInv, NEW n
  PROVE Loops!Made(n) <=> Has(app.inputs, n)
<1>1. ASSUME NEW i \in 1..Len(app.inputs)
      PROVE (\E j \in {1, 2} : j \in DOMAIN app.inputs[i].from /\ app.inputs[i].from[j] = n)
              <=> n \in {Begin(app.inputs[i].from), End(app.inputs[i].from)}
  <2>1. PICK from : from = app.inputs[i].from
    OBVIOUS
  <2>2. Len(from) \in {1, 2} /\ DOMAIN from = 1..Len(from)
    BY <2>1, FromIs
  <2>3. (\E j \in {1, 2} : j \in DOMAIN from /\ from[j] = n) <=> n \in {Begin(from), End(from)}
    BY <2>2 DEF Begin, End
  <2> QED
    BY <2>1, <2>3
<1> QED
  BY <1>1 DEF Loops!Made, Has

\* Of the events that were read those that are inputs were given to the app and no others, each alone or an
\* escape with what followed it closely; only the one read last may still be looked after, or have come
\* with the end (EachIsGiven; terminal/mod.rs, event_loop and joined).
THEOREM EveryEventIsGiven == Loops!Spec => []Loops!EachIsGiven
<1>1. ASSUME LoopInv PROVE Loops!EachIsGiven
  <2>1. ASSUME NEW n \in 1..loop.read
        PROVE (Loops!Made(n) <=> Loops!IsInput(came[n])) \/ (n = loop.read /\ loop.at \in {"escape", "ended"})
    <3>1. CASE loop.at \in {"poll", "wait"}
      BY <3>1, <1>1, MadeIsHas DEF LoopInv, GivenAll
    <3>2. CASE loop.at \in {"escape", "ended"} /\ n # loop.read
      <4>1. GivenAll(app.inputs, came, loop.read - 1) /\ loop.read \in Nat
        BY <3>2, <1>1 DEF LoopInv, LoopTyped
      <4>2. n \in 1..(loop.read - 1)
        BY <4>1, <3>2
      <4> QED
        BY <4>1, <4>2, <1>1, MadeIsHas DEF GivenAll
    <3>3. loop.at \in {"poll", "wait", "escape", "ended"}
      BY <1>1 DEF LoopInv, LoopTyped
    <3> QED
      BY <3>1, <3>2, <3>3
  <2>2. ASSUME NEW i \in 1..Len(app.inputs), NEW from, from = app.inputs[i].from, Len(from) = 2
        PROVE from[2] = from[1] + 1 /\ came[from[1]] = "escape" /\ Loops!Joins(came[from[2]])
    BY <2>2, <1>1, FromIs
  <2> QED
    BY <2>1, <2>2 DEF Loops!EachIsGiven
<1> QED
  BY <1>1, LoopHolds, PTL

\* They are given once and in the order they came (InOrder; terminal/mod.rs, event_loop).
THEOREM EventsInOrder == Loops!Spec => []Loops!InOrder
<1>1. LoopInv => Loops!InOrder
  BY DEF LoopInv, Fits, Loops!InOrder, Begin, End
<1> QED
  BY <1>1, LoopHolds, PTL

\* Nothing is given to an app that ended (EndsOnce): not the key after an escape that ended it either.
THEOREM NothingAfterTheEnd == Loops!Spec => []Loops!EndsOnce
<1>1. LoopInv => Loops!EndsOnce
  BY DEF LoopInv, LastEnds, Goon, Loops!EndsOnce
<1> QED
  BY <1>1, LoopHolds, PTL

\* Whenever the loop waits, the screen shows the app as it is, and no repaint is due (ShownAsItIs).
THEOREM ScreenIsTheApps == Loops!Spec => []Loops!ShownAsItIs
<1>1. LoopInv => Loops!ShownAsItIs
  BY DEF LoopInv, Loops!ShownAsItIs
<1> QED
  BY <1>1, LoopHolds, PTL

-----------------------------------------------------------------------------
(* The server an agent speaks to, of Mcp, whose Statements and Tools are   *)
(* ByName and AllTools here, for any connections, lines and pages: what it *)
(* answers, what it runs, and what is left of that in the databases.       *)

CONSTANTS Kits, ByName, AllTools, PerPage, MostPerPage, Pages
VARIABLES sent, doing, out, saved, past

Servers == INSTANCE Mcp WITH Statements <- ByName, Tools <- AllTools

\* What the lines, the connections and what is recorded are
NextList(n, c, size) == [Servers!Message(n, "tools/list") EXCEPT !.cursor = c, !.perPage = size]
Following == {NextList(n, c, size) : n \in Nat, c \in Nat, size \in Pages}
Lines == Following \cup UNION {kit.lines : kit \in Kits}
Rows == UNION {{kit.first[name] : name \in DOMAIN kit.first} : kit \in Kits}
Ids == {0} \cup {row.id : row \in Rows}
Kinds == {"none"} \cup {row.driver : row \in Rows}
Replies == [of : Nat, id : {0} \cup {line.id : line \in Lines}, is : {"error", "result", "failed"}]
Entries == [of : Nat, on : Ids, failed : BOOLEAN]
Pasts == [kit : Kits, ran : Seq(Entries), history : Seq(Entries), written : SUBSET Nat, others : Nat,
          got : Seq(STRING), next : Nat, ended : BOOLEAN]
Doings(most) == [read : 0..most, at : {"line", "run", "record"}, id : Ids, driver : Kinds, failed : BOOLEAN]

McpTyped ==
  /\ sent \in Seq(Lines)
  /\ doing \in Doings(Len(sent))
  /\ out \in Seq(Replies)
  /\ past \in Pasts
  /\ \A name \in DOMAIN saved : saved[name] \in Rows

\* A line and a driver as they can be used
IsList(line) == line.is = "message" /\ line.method = "tools/list"
Fit(line) ==
  /\ IsList(line) => line.cursor \in Nat /\ (line.perPage = <<>> \/ line.perPage[1] \in Int)
  /\ line.is = "message" /\ line.tool = "run-query-tool" => line.statement \in DOMAIN ByName
KnownKind(driver) == Servers!ReadsOnly(driver) \/ Servers!RollsBack(driver) \/ driver \in {"snowflake", "redis"}
Asks(line) ==
  /\ line.is = "message" /\ line.id # 0 /\ line.tool = "run-query-tool" /\ Servers!Versioned(line)
  /\ Servers!IsReadOnly(line.statement)

Rising(entries) == \A i, j \in 1..Len(entries) : i < j => entries[i].of < entries[j].of
Within(entries, most) == \A i \in 1..Len(entries) : entries[i].of \in 1..most
OwnIds(replies, lines) == \A i \in 1..Len(replies) : Servers!Answered(lines[replies[i].of]) /\ replies[i].id = Servers!IdOf(lines[replies[i].of])
Whole(replies, lines, most) == \A n \in 1..most : Servers!Answered(lines[n]) => \E i \in 1..Len(replies) : replies[i].of = n
Called(ran, lines) == \A i \in 1..Len(ran) : Asks(lines[ran[i].of])
Kept(history, ran) == \A i \in 1..Len(history) : \E j \in 1..Len(ran) : history[i] = ran[j]
Recorded(ran, entry) == \E j \in 1..Len(ran) : ran[j] = entry
Upto(d) == IF d.at = "line" THEN d.read ELSE d.read - 1
RanTo(d) == IF d.at = "run" THEN d.read - 1 ELSE d.read

Lists(lines, read, next) ==
  /\ \A i \in read + 1..Len(lines) : IsList(lines[i]) => lines[i].cursor \in {0, next}
  /\ \A i, j \in read + 1..Len(lines) : IsList(lines[i]) /\ IsList(lines[j]) => i = j
Given(got, next, ended) ==
  /\ got = SubSeq(AllTools, 1, Len(got)) /\ Len(got) <= Len(AllTools)
  /\ next # 0 => next = Len(got)
  /\ ended => got = AllTools

McpInv ==
  /\ McpTyped
  /\ Rising(out) /\ Within(out, Upto(doing)) /\ OwnIds(out, sent) /\ Whole(out, sent, Upto(doing))
  /\ Rising(past.ran) /\ Within(past.ran, RanTo(doing)) /\ Called(past.ran, sent)
  /\ Rising(past.history) /\ Within(past.history, Upto(doing)) /\ Kept(past.history, past.ran)
  /\ doing.at # "line" => doing.read > 0 /\ Asks(sent[doing.read]) /\ KnownKind(doing.driver)
  /\ doing.at = "record" => Recorded(past.ran, [of |-> doing.read, on |-> doing.id, failed |-> doing.failed])
  /\ past.written = {}
  /\ Lists(sent, doing.read, past.next) /\ Given(past.got, past.next, past.ended)

-----------------------------------------------------------------------------
LEMMA EntryAdded ==
  ASSUME NEW S, NEW s \in Seq(S), NEW x \in S, NEW more, more = Append(s, x)
  PROVE /\ more \in Seq(S) /\ Len(s) \in Nat /\ Len(more) = Len(s) + 1 /\ more[Len(more)] = x
        /\ \A i \in 1..Len(s) : i \in 1..Len(more) /\ more[i] = s[i]
        /\ \A i \in 1..Len(more) : i \in 1..Len(s) \/ i = Len(more)
OBVIOUS

\* An entry of a line after those of the others
LEMMA RisesOn ==
  ASSUME NEW S, NEW s \in Seq(S), NEW x \in S, NEW most \in Nat, NEW upto \in Nat, most < x.of, x.of <= upto, x.of \in Nat,
         Rising(s), Within(s, most), NEW more, more = Append(s, x)
  PROVE Rising(more) /\ Within(more, upto)
<1>1. /\ Len(s) \in Nat /\ Len(more) = Len(s) + 1 /\ more[Len(more)] = x
      /\ \A i \in 1..Len(s) : i \in 1..Len(more) /\ more[i] = s[i]
      /\ \A i \in 1..Len(more) : i \in 1..Len(s) \/ i = Len(more)
  BY EntryAdded
<1>2. ASSUME NEW i \in 1..Len(s) PROVE s[i].of \in 1..most
  BY DEF Within
<1>3. ASSUME NEW i \in 1..Len(more), NEW j \in 1..Len(more), i < j PROVE more[i].of < more[j].of
  <2>1. i \in 1..Len(s) /\ more[i] = s[i]
    BY <1>1, <1>3
  <2>2. CASE j \in 1..Len(s)
    <3>1. more[j] = s[j]
      BY <2>2, <1>1
    <3> QED
      BY <2>1, <2>2, <3>1, <1>3 DEF Rising
  <2>3. CASE j = Len(more)
    BY <2>1, <2>3, <1>1, <1>2
  <2> QED
    BY <2>2, <2>3, <1>1
<1>4. ASSUME NEW i \in 1..Len(more) PROVE more[i].of \in 1..upto
  <2>1. CASE i \in 1..Len(s)
    <3>1. more[i] = s[i] /\ s[i].of \in 1..most
      BY <2>1, <1>1, <1>2
    <3> QED
      BY <3>1
  <2>2. CASE i = Len(more)
    BY <2>2, <1>1
  <2> QED
    BY <2>1, <2>2, <1>1
<1> QED
  BY <1>3, <1>4 DEF Rising, Within

LEMMA WithinMore ==
  ASSUME NEW s, NEW most \in Nat, NEW upto \in Nat, most <= upto, Within(s, most)
  PROVE Within(s, upto)
<1>1. ASSUME NEW i \in 1..Len(s) PROVE s[i].of \in 1..upto
  BY DEF Within
<1> QED
  BY <1>1 DEF Within

\* One more line leaves what was read as it was
LEMMA SameLines ==
  ASSUME NEW lines \in Seq(Lines), NEW line \in Lines, NEW more, more = Append(lines, line), NEW most \in 0..Len(lines),
         NEW s, Within(s, most)
  PROVE /\ OwnIds(s, lines) => OwnIds(s, more)
        /\ Whole(s, lines, most) => Whole(s, more, most)
        /\ Called(s, lines) => Called(s, more)
<1>1. Len(lines) \in Nat /\ \A i \in 1..Len(lines) : more[i] = lines[i]
  BY EntryAdded
<1>2. ASSUME NEW n \in 1..most PROVE more[n] = lines[n]
  BY <1>1
<1>3. ASSUME NEW i \in 1..Len(s) PROVE more[s[i].of] = lines[s[i].of]
  BY <1>2 DEF Within
<1> QED
  BY <1>2, <1>3 DEF OwnIds, Whole, Called

\* The reply to the next line
LEMMA RepliesOn ==
  ASSUME NEW replies \in Seq(Replies), NEW answer \in Replies, NEW lines, NEW read \in Nat, answer.of = read + 1,
         Rising(replies), Within(replies, read), OwnIds(replies, lines), Whole(replies, lines, read),
         Servers!Answered(lines[read + 1]), answer.id = Servers!IdOf(lines[read + 1]), NEW more, more = Append(replies, answer)
  PROVE /\ more \in Seq(Replies) /\ Rising(more) /\ Within(more, read + 1) /\ OwnIds(more, lines)
        /\ Whole(more, lines, read + 1)
<1>1. /\ more \in Seq(Replies) /\ Len(replies) \in Nat /\ Len(more) = Len(replies) + 1 /\ more[Len(more)] = answer
      /\ \A i \in 1..Len(replies) : i \in 1..Len(more) /\ more[i] = replies[i]
      /\ \A i \in 1..Len(more) : i \in 1..Len(replies) \/ i = Len(more)
  BY EntryAdded
<1>2. Rising(more) /\ Within(more, read + 1)
  <2>1. read + 1 \in Nat /\ read < answer.of /\ answer.of <= read + 1 /\ answer.of \in Nat
    OBVIOUS
  <2> QED
    BY <2>1, RisesOn
<1>3. ASSUME NEW i \in 1..Len(more) PROVE Servers!Answered(lines[more[i].of]) /\ more[i].id = Servers!IdOf(lines[more[i].of])
  BY <1>1 DEF OwnIds
<1>4. ASSUME NEW n \in 1..read + 1, Servers!Answered(lines[n]) PROVE \E i \in 1..Len(more) : more[i].of = n
  <2>1. CASE n \in 1..read
    <3>1. PICK i \in 1..Len(replies) : replies[i].of = n
      BY <2>1, <1>4 DEF Whole
    <3> QED
      BY <3>1, <1>1
  <2>2. CASE n = read + 1
    <3>1. Len(more) \in 1..Len(more)
      BY <1>1
    <3> QED
      BY <2>2, <3>1, <1>1
  <2> QED
    BY <2>1, <2>2
<1> QED
  BY <1>1, <1>2, <1>3, <1>4 DEF OwnIds, Whole

\* A line that is not answered
LEMMA WholeOn ==
  ASSUME NEW replies, NEW lines, NEW read \in Nat, Whole(replies, lines, read), ~Servers!Answered(lines[read + 1])
  PROVE Whole(replies, lines, read + 1)
<1>1. ASSUME NEW n \in 1..read + 1, Servers!Answered(lines[n]) PROVE n \in 1..read
  BY <1>1
<1> QED
  BY <1>1 DEF Whole

LEMMA CalledOn ==
  ASSUME NEW ran \in Seq(Entries), NEW entry \in Entries, NEW lines, Called(ran, lines), Asks(lines[entry.of]),
         NEW more, more = Append(ran, entry)
  PROVE /\ more \in Seq(Entries) /\ Called(more, lines) /\ Recorded(more, entry)
        /\ \A history : Kept(history, ran) => Kept(history, more)
<1>1. /\ more \in Seq(Entries) /\ Len(ran) \in Nat /\ Len(more) = Len(ran) + 1 /\ more[Len(more)] = entry
      /\ \A i \in 1..Len(ran) : i \in 1..Len(more) /\ more[i] = ran[i]
      /\ \A i \in 1..Len(more) : i \in 1..Len(ran) \/ i = Len(more)
  BY EntryAdded
<1>2. Called(more, lines)
  BY <1>1 DEF Called
<1>3. Recorded(more, entry)
  <2>1. Len(more) \in 1..Len(more)
    BY <1>1
  <2> QED
    BY <2>1, <1>1 DEF Recorded
<1>4. ASSUME NEW history, Kept(history, ran) PROVE Kept(history, more)
  <2>1. ASSUME NEW i \in 1..Len(history) PROVE \E j \in 1..Len(more) : history[i] = more[j]
    <3>1. PICK j \in 1..Len(ran) : history[i] = ran[j]
      BY <1>4 DEF Kept
    <3> QED
      BY <3>1, <1>1
  <2> QED
    BY <2>1 DEF Kept
<1> QED
  BY <1>1, <1>2, <1>3, <1>4

LEMMA KeptOn ==
  ASSUME NEW history \in Seq(Entries), NEW ran, NEW entry \in Entries, Kept(history, ran), Recorded(ran, entry),
         NEW more, more = Append(history, entry)
  PROVE more \in Seq(Entries) /\ Kept(more, ran)
<1>1. /\ more \in Seq(Entries) /\ Len(history) \in Nat /\ Len(more) = Len(history) + 1 /\ more[Len(more)] = entry
      /\ \A i \in 1..Len(history) : i \in 1..Len(more) /\ more[i] = history[i]
      /\ \A i \in 1..Len(more) : i \in 1..Len(history) \/ i = Len(more)
  BY EntryAdded
<1>2. ASSUME NEW i \in 1..Len(more) PROVE \E j \in 1..Len(ran) : more[i] = ran[j]
  <2>1. CASE i \in 1..Len(history)
    BY <2>1, <1>1 DEF Kept
  <2>2. CASE i = Len(more)
    BY <2>2, <1>1 DEF Recorded
  <2> QED
    BY <2>1, <2>2, <1>1
<1> QED
  BY <1>1, <1>2 DEF Kept

-----------------------------------------------------------------------------
\* The pages of the tools
LEMMA PagesJoin ==
  ASSUME NEW S, NEW s \in Seq(S), NEW c \in 0..Len(s), NEW e \in c..Len(s)
  PROVE /\ SubSeq(s, 1, c) \o SubSeq(s, c + 1, e) = SubSeq(s, 1, e)
        /\ SubSeq(s, 1, e) \in Seq(S) /\ Len(SubSeq(s, 1, e)) = e
        /\ SubSeq(s, 1, Len(s)) = s
<1>1. Len(s) \in Nat /\ c \in Nat /\ e \in Nat /\ c <= e /\ e <= Len(s)
  OBVIOUS
<1>2. PICK a : a = SubSeq(s, 1, c)
  OBVIOUS
<1>3. PICK b : b = SubSeq(s, c + 1, e)
  OBVIOUS
<1>4. PICK w : w = SubSeq(s, 1, e)
  OBVIOUS
<1>5. a \in Seq(S) /\ Len(a) = c /\ \A i \in 1..c : a[i] = s[i]
  BY <1>1, <1>2
<1>6. b \in Seq(S) /\ Len(b) = e - c /\ \A i \in 1..e - c : b[i] = s[c + i]
  BY <1>1, <1>3
<1>7. w \in Seq(S) /\ Len(w) = e /\ \A i \in 1..e : w[i] = s[i]
  BY <1>1, <1>4
<1>8. a \o b = w
  <2>1. PICK ab : ab = a \o b
    OBVIOUS
  <2>2. ab \in Seq(S) /\ Len(ab) = e
    BY <1>1, <1>5, <1>6, <2>1
  <2>3. ASSUME NEW i \in 1..e PROVE ab[i] = w[i]
    <3>1. CASE i \in 1..c
      <4>1. ab[i] = a[i]
        BY <3>1, <2>1, <1>1, <1>5, <1>6
      <4> QED
        BY <4>1, <3>1, <1>5, <1>7
    <3>2. CASE i \in c + 1..e
      <4>1. i - c \in 1..e - c /\ c + (i - c) = i
        BY <3>2, <1>1
      <4>2. ab[i] = b[i - c]
        BY <3>2, <4>1, <2>1, <1>1, <1>5, <1>6
      <4> QED
        BY <4>1, <4>2, <1>6, <1>7
    <3> QED
      BY <3>1, <3>2, <1>1
  <2> QED
    BY <2>1, <2>2, <2>3, <1>7, SeqEqual
<1>9. SubSeq(s, 1, Len(s)) = s
  <2>1. PICK all : all = SubSeq(s, 1, Len(s))
    OBVIOUS
  <2>2. all \in Seq(S) /\ Len(all) = Len(s) /\ \A i \in 1..Len(s) : all[i] = s[i]
    BY <1>1, <2>1
  <2> QED
    BY <2>1, <2>2, SeqEqual
<1> QED
  BY <1>2, <1>3, <1>4, <1>7, <1>8, <1>9

LEMMA SizeIs ==
  ASSUME Servers!PagesFit, NEW wish, wish = <<>> \/ wish[1] \in Int
  PROVE Servers!Size(wish) \in Nat /\ Servers!Size(wish) > 0
BY DEF Servers!PagesFit, Servers!Size

\* A page that follows those the agent has, or the first one
LEMMA PageKeeps ==
  ASSUME Servers!PagesFit, NEW got \in Seq(STRING), NEW next \in Nat, NEW ended, Given(got, next, ended),
         NEW line, IsList(line), Fit(line), line.cursor \in {0, next},
         NEW more, more = IF line.cursor = 0 THEN Servers!Page(line) ELSE got \o Servers!Page(line)
  PROVE /\ more \in Seq(STRING) /\ Servers!NextPage(line) \in Nat
        /\ Given(more, Servers!NextPage(line), Servers!NextPage(line) = 0)
<1>1. AllTools \in Seq(STRING) /\ Len(AllTools) \in Nat
  BY DEF Servers!PagesFit
<1>2. PICK size \in Nat : size = Servers!Size(line.perPage) /\ size > 0
  BY SizeIs DEF Fit
<1>3. PICK c \in Nat : c = line.cursor
  BY DEF Fit
<1>4. c <= Len(AllTools) /\ (c = 0 \/ (c = Len(got) /\ got = SubSeq(AllTools, 1, c)))
  <2>1. CASE c = 0
    BY <2>1, <1>1
  <2>2. CASE c # 0
    <3>1. next # 0 /\ c = next
      BY <2>2, <1>3
    <3>2. c = Len(got)
      BY <3>1 DEF Given
    <3> QED
      BY <3>2 DEF Given
  <2> QED
    BY <2>1, <2>2
<1>5. PICK e \in Nat : e = Servers!PageEnd(line) /\ e = (IF c + size < Len(AllTools) THEN c + size ELSE Len(AllTools))
  BY <1>1, <1>2, <1>3 DEF Servers!PageEnd
<1>6. c \in 0..Len(AllTools) /\ e \in c..Len(AllTools) /\ (e = 0 => e = Len(AllTools))
  BY <1>1, <1>2, <1>4, <1>5
<1>7. Servers!Page(line) = SubSeq(AllTools, c + 1, e) /\ Servers!NextPage(line) = IF e < Len(AllTools) THEN e ELSE 0
  BY <1>3, <1>5 DEF Servers!Page, Servers!NextPage
<1>8. more = SubSeq(AllTools, 1, e)
  <2>1. CASE c = 0
    <3>1. c + 1 = 1
      BY <2>1
    <3> QED
      BY <2>1, <3>1, <1>3, <1>7
  <2>2. CASE c # 0
    <3>1. more = got \o Servers!Page(line)
      BY <2>2, <1>3
    <3>2. more = SubSeq(AllTools, 1, c) \o SubSeq(AllTools, c + 1, e)
      BY <3>1, <2>2, <1>4, <1>7
    <3>3. SubSeq(AllTools, 1, c) \o SubSeq(AllTools, c + 1, e) = SubSeq(AllTools, 1, e)
      BY <1>1, <1>6, PagesJoin
    <3> QED
      BY <3>2, <3>3
  <2> QED
    BY <2>1, <2>2
<1>9. SubSeq(AllTools, 1, e) \in Seq(STRING) /\ Len(SubSeq(AllTools, 1, e)) = e /\ SubSeq(AllTools, 1, Len(AllTools)) = AllTools
  BY <1>1, <1>6, PagesJoin
<1>10. more \in Seq(STRING) /\ Len(more) = e /\ more = SubSeq(AllTools, 1, Len(more)) /\ (e = Len(AllTools) => more = AllTools)
  BY <1>8, <1>9
<1>11. Servers!NextPage(line) \in Nat /\ (Servers!NextPage(line) # 0 => Servers!NextPage(line) = e) /\ (Servers!NextPage(line) = 0 => e = Len(AllTools))
  BY <1>1, <1>6, <1>7
<1>12. e <= Len(AllTools)
  BY <1>6
<1> QED
  BY <1>10, <1>11, <1>12 DEF Given

\* One line less to read
LEMMA ListsRead ==
  ASSUME NEW lines, Len(lines) \in Nat, NEW read \in Nat, read < Len(lines), NEW next, Lists(lines, read, next)
  PROVE /\ Lists(lines, read + 1, next)
        /\ IsList(lines[read + 1]) => \A other : Lists(lines, read + 1, other)
<1>1. \A i \in read + 2..Len(lines) : i \in read + 1..Len(lines) /\ i # read + 1
  OBVIOUS
<1>2. read + 1 \in read + 1..Len(lines) /\ read + 1 + 1 = read + 2
  OBVIOUS
<1>3. Lists(lines, read + 1, next)
  BY <1>1, <1>2 DEF Lists
<1>4. ASSUME IsList(lines[read + 1]), NEW i \in read + 2..Len(lines) PROVE ~IsList(lines[i])
  BY <1>1, <1>2, <1>4 DEF Lists
<1>5. ASSUME IsList(lines[read + 1]), NEW other PROVE Lists(lines, read + 1, other)
  BY <1>2, <1>4, <1>5 DEF Lists
<1> QED
  BY <1>3, <1>5

\* One line more
LEMMA ListsSent ==
  ASSUME NEW lines \in Seq(Lines), NEW line \in Lines, NEW read \in 0..Len(lines), NEW next, Lists(lines, read, next),
         IsList(line) => line.cursor \in {0, next} /\ \A i \in read + 1..Len(lines) : ~IsList(lines[i]),
         NEW more, more = Append(lines, line)
  PROVE Lists(more, read, next)
<1>1. /\ Len(lines) \in Nat /\ Len(more) = Len(lines) + 1 /\ more[Len(more)] = line
      /\ \A i \in 1..Len(lines) : more[i] = lines[i]
  BY EntryAdded
<1>2. ASSUME NEW i \in read + 1..Len(more)
      PROVE (i \in read + 1..Len(lines) /\ more[i] = lines[i]) \/ (i = Len(more) /\ more[i] = line)
  BY <1>1
<1> QED
  BY <1>2 DEF Lists

\* All lines are as they can be read
LEMMA LinesFit ==
  ASSUME Servers!KitsFit, Servers!PagesFit, NEW line \in Lines
  PROVE Fit(line)
<1>1. ASSUME NEW kit \in Kits, line \in kit.lines PROVE Fit(line)
  BY <1>1 DEF Servers!KitsFit, Fit, IsList
<1>2. ASSUME NEW n \in Nat, NEW c \in Nat, NEW size \in Pages,
             line = NextList(n, c, size)
      PROVE Fit(line)
  <2>1. line.cursor = c /\ line.perPage = size /\ line.tool = "none"
    BY <1>2 DEF Servers!Message, NextList
  <2>2. size = <<>> \/ size[1] \in Int
    BY DEF Servers!PagesFit
  <2> QED
    BY <2>1, <2>2 DEF Fit
<1>3. CASE line \in Following
  <2>1. PICK n \in Nat, c \in Nat, size \in Pages : line = NextList(n, c, size)
    BY <1>3 DEF Following
  <2> QED
    BY <2>1, <1>2
<1>4. CASE line \in UNION {kit.lines : kit \in Kits}
  BY <1>1, <1>4
<1> QED
  BY <1>3, <1>4 DEF Lines

LEMMA RowsFit ==
  ASSUME Servers!KitsFit, NEW row \in Rows
  PROVE KnownKind(row.driver) /\ row.id \in Ids /\ row.driver \in Kinds
<1>1. PICK kit \in Kits : \E name \in DOMAIN kit.first : row = kit.first[name]
  BY DEF Rows
<1>2. PICK name \in DOMAIN kit.first : row = kit.first[name]
  BY <1>1
<1>3. KnownKind(row.driver)
  BY <1>2 DEF Servers!KitsFit, KnownKind
<1> QED
  BY <1>3 DEF Ids, Kinds

-----------------------------------------------------------------------------
LEMMA SendsKeeps ==
  ASSUME McpInv, NEW line \in Lines, sent' = Append(sent, line), UNCHANGED <<doing, out, saved, past>>,
         IsList(line) => line.cursor \in {0, past.next} /\ ~Servers!Listing
  PROVE McpInv'
<1>1. /\ sent \in Seq(Lines) /\ Len(sent) \in Nat /\ doing \in Doings(Len(sent))
  BY DEF McpInv, McpTyped
<1>2. doing.read \in 0..Len(sent) /\ doing.at \in {"line", "run", "record"} /\ (doing.at # "line" => doing.read > 0)
  BY <1>1 DEF Doings, McpInv
<1>3. /\ sent' \in Seq(Lines) /\ Len(sent') = Len(sent) + 1 /\ \A i \in 1..Len(sent) : sent'[i] = sent[i]
  BY <1>1, EntryAdded
<1>4. McpTyped'
  <2>1. doing \in Doings(Len(sent'))
    <3>1. 0..Len(sent) \subseteq 0..Len(sent')
      BY <1>1, <1>3
    <3> QED
      BY <3>1, <1>1 DEF Doings
  <2> QED
    BY <2>1, <1>3 DEF McpInv, McpTyped
<1>5. Upto(doing) \in 0..Len(sent) /\ RanTo(doing) \in 0..Len(sent)
  BY <1>1, <1>2 DEF Upto, RanTo
<1>6. OwnIds(out, sent') /\ Whole(out, sent', Upto(doing))
  <2>1. OwnIds(out, sent) /\ Whole(out, sent, Upto(doing)) /\ Within(out, Upto(doing))
    BY DEF McpInv
  <2> QED
    BY <2>1, <1>1, <1>5, SameLines
<1>7. Called(past.ran, sent')
  <2>1. Called(past.ran, sent) /\ Within(past.ran, RanTo(doing))
    BY DEF McpInv
  <2> QED
    BY <2>1, <1>1, <1>5, SameLines
<1>8. doing.at # "line" => doing.read > 0 /\ Asks(sent'[doing.read]) /\ KnownKind(doing.driver)
  BY <1>2, <1>3 DEF McpInv
<1>9. Lists(sent', doing.read, past.next)
  <2>1. Lists(sent, doing.read, past.next)
    BY DEF McpInv
  <2>2. ~Servers!Listing => \A i \in doing.read + 1..Len(sent) : ~IsList(sent[i])
    BY DEF Servers!Listing, IsList
  <2> QED
    BY <2>1, <2>2, <1>1, <1>2, ListsSent
<1> QED
  BY <1>4, <1>6, <1>7, <1>8, <1>9 DEF McpInv

LEMMA SendKeeps ==
  ASSUME Servers!KitsFit, McpInv, Servers!Send
  PROVE McpInv'
<1>1. PICK line \in past.kit.lines : (line.is = "message" /\ line.method = "tools/list" => ~Servers!Listing) /\ Servers!Sends(line)
  BY DEF Servers!Send
<1>2. past.kit \in Kits
  BY DEF McpInv, McpTyped, Pasts
<1>3. line \in Lines
  <2>1. line \in UNION {kit.lines : kit \in Kits}
    BY <1>1, <1>2
  <2> QED
    BY <2>1 DEF Lines
<1>4. IsList(line) => line.cursor = 0 /\ ~Servers!Listing
  BY <1>1, <1>2 DEF Servers!KitsFit, IsList
<1> QED
  BY <1>1, <1>3, <1>4, SendsKeeps DEF Servers!Send, Servers!Sends

LEMMA FollowsKeep ==
  ASSUME McpInv, Servers!Follow
  PROVE McpInv'
<1>1. PICK size \in Pages : Servers!Sends([Servers!Message(Len(sent) + 1, "tools/list") EXCEPT !.cursor = past.next, !.perPage = size])
  BY DEF Servers!Follow
<1>2. past.next \in Nat /\ Len(sent) + 1 \in Nat
  BY DEF McpInv, McpTyped, Pasts
<1>3. PICK line : line = NextList(Len(sent) + 1, past.next, size)
  OBVIOUS
<1>4. line \in Lines
  <2>1. line \in Following
    BY <1>2, <1>3 DEF Following
  <2> QED
    BY <2>1 DEF Lines
<1>5. line.cursor = past.next
  BY <1>3 DEF Servers!Message, NextList
<1>6. sent' = Append(sent, line) /\ ~Servers!Listing /\ UNCHANGED <<doing, out, saved, past>>
  BY <1>1, <1>3 DEF Servers!Follow, Servers!Sends, NextList
<1> QED
  BY <1>4, <1>5, <1>6, SendsKeeps

\* What the server knows as it reads the next line
LEMMA AtLine ==
  ASSUME McpInv, Servers!Reading
  PROVE \E read \in Nat :
          /\ read = doing.read /\ read + 1 \in 1..Len(sent) /\ read < Len(sent) /\ Len(sent) \in Nat /\ doing.at = "line"
          /\ Servers!Line = sent[read + 1] /\ Servers!Line \in Lines /\ Upto(doing) = read /\ RanTo(doing) = read
<1>1. sent \in Seq(Lines) /\ Len(sent) \in Nat /\ doing.read \in 0..Len(sent)
  BY DEF McpInv, McpTyped, Doings
<1>2. doing.at = "line" /\ doing.read < Len(sent)
  BY DEF Servers!Reading
<1>3. PICK read \in Nat : read = doing.read
  BY <1>1
<1>4. read + 1 \in 1..Len(sent) /\ read < Len(sent)
  BY <1>1, <1>2, <1>3
<1>5. Servers!Line = sent[read + 1] /\ Servers!Line \in Lines
  BY <1>1, <1>3, <1>4 DEF Servers!Line
<1> QED
  BY <1>1, <1>2, <1>3, <1>4, <1>5 DEF Upto, RanTo

\* The server as it waits for a line
Waiting(read) == [Servers!Waits EXCEPT !.read = read]

LEMMA WaitsFor ==
  ASSUME NEW most \in Nat, NEW read \in 0..most, NEW d, d = Waiting(read)
  PROVE d \in Doings(most) /\ d.at = "line" /\ d.read = read
<1>1. 0 \in Ids /\ "none" \in Kinds
  BY DEF Ids, Kinds
<1>2. PICK id \in Ids, driver \in Kinds, failed \in BOOLEAN : id = 0 /\ driver = "none" /\ failed = FALSE
  BY <1>1
<1>3. d = [read |-> read, at |-> "line", id |-> id, driver |-> driver, failed |-> failed]
  BY <1>2 DEF Servers!Waits, Waiting
<1>4. d.at = "line" /\ d.read = read
  BY <1>3
<1>5. d \in Doings(most)
  BY <1>3 DEF Doings
<1> QED
  BY <1>4, <1>5

\* It is answered at once
LEMMA AnswersKeeps ==
  ASSUME McpInv, Servers!Reading, Servers!Answered(Servers!Line), NEW is \in {"error", "result", "failed"}, Servers!Answers(is), UNCHANGED <<sent, saved>>,
         past' \in Pasts, past'.ran = past.ran, past'.history = past.history, past'.written = {},
         Lists(sent, doing.read + 1, past'.next), Given(past'.got, past'.next, past'.ended)
  PROVE McpInv'
<1>1. PICK read \in Nat :
        /\ read = doing.read /\ read + 1 \in 1..Len(sent) /\ read < Len(sent) /\ Len(sent) \in Nat /\ doing.at = "line"
        /\ Servers!Line = sent[read + 1] /\ Servers!Line \in Lines /\ Upto(doing) = read /\ RanTo(doing) = read
  BY AtLine
<1>2. PICK answer : answer = [of |-> read + 1, id |-> Servers!IdOf(Servers!Line), is |-> is]
  OBVIOUS
<1>3. answer \in Replies /\ answer.of = read + 1 /\ answer.id = Servers!IdOf(Servers!Line)
  BY <1>1, <1>2 DEF Replies, Servers!IdOf
<1>4. out' = Append(out, answer)
  BY <1>1, <1>2 DEF Servers!Answers
<1>5. /\ out \in Seq(Replies) /\ Rising(out) /\ Within(out, read) /\ OwnIds(out, sent) /\ Whole(out, sent, read)
      /\ Rising(past.ran) /\ Within(past.ran, read) /\ Called(past.ran, sent)
      /\ Rising(past.history) /\ Within(past.history, read) /\ Kept(past.history, past.ran)
  BY <1>1 DEF McpInv, McpTyped
<1>6. /\ out' \in Seq(Replies) /\ Rising(out') /\ Within(out', read + 1) /\ OwnIds(out', sent)
      /\ Whole(out', sent, read + 1)
  BY <1>1, <1>3, <1>4, <1>5, RepliesOn
<1>7. Within(past.ran, read + 1) /\ Within(past.history, read + 1)
  BY <1>1, <1>5, WithinMore
<1>8. /\ doing'.at = "line" /\ doing'.read = read + 1 /\ doing' \in Doings(Len(sent))
      /\ Upto(doing') = read + 1 /\ RanTo(doing') = read + 1
  <2>1. doing' = Waiting(read + 1)
    BY <1>1 DEF Servers!Answers, Waiting
  <2>2. doing' \in Doings(Len(sent)) /\ doing'.at = "line" /\ doing'.read = read + 1
    <3>1. read + 1 \in 0..Len(sent)
      BY <1>1
    <3> QED
      BY <2>1, <3>1, <1>1, WaitsFor
  <2> QED
    BY <2>2 DEF Upto, RanTo
<1>9. McpTyped'
  BY <1>6, <1>8 DEF McpInv, McpTyped
<1>10. OwnIds(out', sent') /\ Called(past'.ran, sent') /\ Kept(past'.history, past'.ran)
  BY <1>5, <1>6
<1>11. Lists(sent', doing'.read, past'.next)
  BY <1>1, <1>8
<1>12. Rising(out') /\ Within(out', Upto(doing')) /\ Whole(out', sent', Upto(doing'))
  BY <1>6, <1>8
<1>13. /\ Rising(past'.ran) /\ Within(past'.ran, RanTo(doing'))
       /\ Rising(past'.history) /\ Within(past'.history, Upto(doing'))
  BY <1>5, <1>7, <1>8
<1> QED
  BY <1>8, <1>9, <1>10, <1>11, <1>12, <1>13 DEF McpInv

LEMMA AnsweredKeeps ==
  ASSUME McpInv, Servers!Reading, Servers!Answered(Servers!Line), NEW is \in {"error", "result", "failed"}, Servers!Answers(is), UNCHANGED <<sent, saved, past>>
  PROVE McpInv'
<1>1. past \in Pasts /\ past.written = {} /\ Lists(sent, doing.read, past.next) /\ Given(past.got, past.next, past.ended)
  BY DEF McpInv, McpTyped
<1>2. Lists(sent, doing.read + 1, past.next)
  BY <1>1, AtLine, ListsRead
<1> QED
  BY <1>1, <1>2, AnswersKeeps

LEMMA SaysKeeps ==
  ASSUME McpInv, Servers!Garbled \/ Servers!Refused \/ Servers!Tells \/ Servers!Looks \/ Servers!Unfit
  PROVE McpInv'
<1>1. ASSUME Servers!Asked PROVE Servers!Reading /\ Servers!Answered(Servers!Line)
  BY <1>1 DEF Servers!Asked, Servers!Answered
<1>2. CASE Servers!Garbled
  BY <1>2, AnsweredKeeps DEF Servers!Garbled, Servers!Answered
<1>3. CASE Servers!Refused
  BY <1>1, <1>3, AnsweredKeeps DEF Servers!Refused
<1>4. CASE Servers!Tells
  BY <1>1, <1>4, AnsweredKeeps DEF Servers!Tells
<1>5. CASE Servers!Looks
  BY <1>1, <1>5, AnsweredKeeps DEF Servers!Looks, Servers!Call
<1>6. CASE Servers!Unfit
  BY <1>1, <1>6, AnsweredKeeps DEF Servers!Unfit, Servers!Call
<1> QED
  BY <1>2, <1>3, <1>4, <1>5, <1>6

LEMMA ListKeeps ==
  ASSUME Servers!KitsFit, Servers!PagesFit, McpInv, Servers!List
  PROVE McpInv'
<1>1. PICK read \in Nat :
        /\ read = doing.read /\ read + 1 \in 1..Len(sent) /\ read < Len(sent) /\ Len(sent) \in Nat /\ doing.at = "line"
        /\ Servers!Line = sent[read + 1] /\ Servers!Line \in Lines /\ Upto(doing) = read /\ RanTo(doing) = read
  BY AtLine DEF Servers!List, Servers!Asked
<1>2. PICK line : line = Servers!Line
  OBVIOUS
<1>3. /\ Servers!Reading /\ IsList(line) /\ Servers!Answered(Servers!Line) /\ Servers!Answers("result") /\ UNCHANGED <<sent, saved>>
      /\ past' = [past EXCEPT !.got = IF line.cursor = 0 THEN Servers!Page(line) ELSE @ \o Servers!Page(line),
                              !.next = Servers!NextPage(line), !.ended = Servers!NextPage(line) = 0]
  BY <1>2 DEF Servers!List, Servers!Asked, IsList, Servers!Answered
<1>4. PICK p \in Pasts : p = past
  BY DEF McpInv, McpTyped
<1>5. p.got \in Seq(STRING) /\ p.next \in Nat
  BY DEF Pasts
<1>6. PICK more : more = IF line.cursor = 0 THEN Servers!Page(line) ELSE p.got \o Servers!Page(line)
  OBVIOUS
<1>7. PICK next : next = Servers!NextPage(line)
  OBVIOUS
<1>8. line.cursor \in {0, p.next}
  BY <1>1, <1>2, <1>3, <1>4 DEF McpInv, Lists
<1>9. Fit(line) /\ Given(p.got, p.next, p.ended)
  BY <1>1, <1>2, <1>4, LinesFit DEF McpInv
<1>10. more \in Seq(STRING) /\ next \in Nat /\ Given(more, next, next = 0)
  BY <1>3, <1>5, <1>6, <1>7, <1>8, <1>9, PageKeeps
<1>11. PICK ended \in BOOLEAN : ended = (next = 0)
  OBVIOUS
<1>12. Given(more, next, ended)
  BY <1>10, <1>11 DEF Given
<1>13. past' = [p EXCEPT !.got = more, !.next = next, !.ended = ended]
  BY <1>3, <1>4, <1>6, <1>7, <1>11
<1>14. /\ past' \in Pasts /\ past'.ran = past.ran /\ past'.history = past.history /\ past'.written = past.written
       /\ past'.got = more /\ past'.next = next /\ past'.ended = ended
  BY <1>4, <1>10, <1>13 DEF Pasts
<1>15. Lists(sent, doing.read + 1, next)
  <2>1. Lists(sent, read, past.next)
    BY <1>1 DEF McpInv
  <2>2. IsList(sent[read + 1])
    BY <1>1, <1>2, <1>3
  <2> QED
    BY <2>1, <2>2, <1>1, ListsRead
<1>16. past'.written = {}
  BY <1>14 DEF McpInv
<1> QED
  BY <1>3, <1>12, <1>14, <1>15, <1>16, AnswersKeeps

LEMMA SkipKeeps ==
  ASSUME McpInv, Servers!Skip
  PROVE McpInv'
<1>1. PICK read \in Nat :
        /\ read = doing.read /\ read + 1 \in 1..Len(sent) /\ read < Len(sent) /\ Len(sent) \in Nat /\ doing.at = "line"
        /\ Servers!Line = sent[read + 1] /\ Servers!Line \in Lines /\ Upto(doing) = read /\ RanTo(doing) = read
  BY AtLine DEF Servers!Skip
<1>2. UNCHANGED <<sent, out, saved, past>> /\ ~Servers!Answered(sent[read + 1]) /\ doing' = [doing EXCEPT !.read = @ + 1]
  BY <1>1 DEF Servers!Skip
<1>3. PICK d \in Doings(Len(sent)) : d = doing
  BY DEF McpInv, McpTyped
<1>4. PICK next \in 0..Len(sent) : next = read + 1
  BY <1>1
<1>5. doing' = [d EXCEPT !.read = next]
  BY <1>1, <1>2, <1>3, <1>4
<1>6. doing' \in Doings(Len(sent)) /\ doing'.at = "line" /\ doing'.read = read + 1
  BY <1>1, <1>3, <1>4, <1>5 DEF Doings
<1>7. Upto(doing') = read + 1 /\ RanTo(doing') = read + 1
  BY <1>6 DEF Upto, RanTo
<1>8. /\ Within(out, read) /\ Whole(out, sent, read) /\ Within(past.ran, read) /\ Within(past.history, read)
      /\ Lists(sent, read, past.next)
  BY <1>1 DEF McpInv
<1>9. Within(out, read + 1) /\ Within(past.ran, read + 1) /\ Within(past.history, read + 1)
  BY <1>1, <1>8, WithinMore
<1>10. Whole(out, sent, read + 1) /\ Lists(sent, read + 1, past.next)
  BY <1>1, <1>2, <1>8, WholeOn, ListsRead
<1>11. McpTyped'
  BY <1>2, <1>6 DEF McpInv, McpTyped
<1> QED
  BY <1>2, <1>6, <1>7, <1>9, <1>10, <1>11 DEF McpInv

LEMMA QueryKeeps ==
  ASSUME Servers!KitsFit, McpInv, Servers!Query
  PROVE McpInv'
<1>1. PICK read \in Nat :
        /\ read = doing.read /\ read + 1 \in 1..Len(sent) /\ read < Len(sent) /\ Len(sent) \in Nat /\ doing.at = "line"
        /\ Servers!Line = sent[read + 1] /\ Servers!Line \in Lines /\ Upto(doing) = read /\ RanTo(doing) = read
  BY AtLine DEF Servers!Query, Servers!Call, Servers!Asked
<1>2. UNCHANGED <<sent, out, saved, past>> /\ Asks(sent[read + 1])
  BY <1>1 DEF Servers!Query, Servers!Call, Servers!Asked, Asks
<1>3. PICK row \in Rows : row = saved[Servers!Line.name]
  BY DEF Servers!Query, McpInv, McpTyped
<1>4. KnownKind(row.driver) /\ row.id \in Ids /\ row.driver \in Kinds
  BY RowsFit
<1>5. PICK d \in Doings(Len(sent)) : d = doing
  BY DEF McpInv, McpTyped
<1>6. PICK next \in 0..Len(sent) : next = read + 1
  BY <1>1
<1>7. doing' = [d EXCEPT !.read = next, !.at = "run", !.id = row.id, !.driver = row.driver]
  BY <1>1, <1>3, <1>5, <1>6 DEF Servers!Query
<1>8. doing' \in Doings(Len(sent)) /\ doing'.at = "run" /\ doing'.read = read + 1 /\ doing'.driver = row.driver
  BY <1>4, <1>5, <1>6, <1>7 DEF Doings
<1>9. Upto(doing') = read /\ RanTo(doing') = read
  BY <1>8 DEF Upto, RanTo
<1>10. Lists(sent, read, past.next)
  BY <1>1 DEF McpInv
<1>11. Lists(sent, read + 1, past.next)
  BY <1>1, <1>10, ListsRead
<1>12. McpTyped'
  BY <1>2, <1>8 DEF McpInv, McpTyped
<1> QED
  BY <1>1, <1>2, <1>4, <1>8, <1>9, <1>11, <1>12 DEF McpInv

\* What the server knows as it runs a statement and as it records it
LEMMA AtStatement ==
  ASSUME McpInv, doing.at \in {"run", "record"}
  PROVE \E read \in Nat :
          /\ doing.read = read + 1 /\ read + 1 \in 1..Len(sent) /\ Len(sent) \in Nat
          /\ Asks(sent[read + 1]) /\ sent[read + 1] \in Lines /\ KnownKind(doing.driver)
          /\ Upto(doing) = read /\ RanTo(doing) = IF doing.at = "run" THEN read ELSE read + 1
<1>1. sent \in Seq(Lines) /\ Len(sent) \in Nat /\ doing.read \in 0..Len(sent)
  BY DEF McpInv, McpTyped, Doings
<1>2. doing.at # "line"
  OBVIOUS
<1>3. doing.read > 0 /\ Asks(sent[doing.read]) /\ KnownKind(doing.driver)
  BY <1>2 DEF McpInv
<1>4. PICK read \in Nat : read = doing.read - 1 /\ doing.read = read + 1
  BY <1>1, <1>3
<1>5. read + 1 \in 1..Len(sent) /\ sent[read + 1] \in Lines
  BY <1>1, <1>3, <1>4
<1>6. Upto(doing) = read /\ RanTo(doing) = IF doing.at = "run" THEN read ELSE read + 1
  BY <1>2, <1>4 DEF Upto, RanTo
<1> QED
  BY <1>1, <1>3, <1>4, <1>5, <1>6

\* A statement that was let through leaves nothing, whatever the server it is for
LEMMA LeavesNothing ==
  ASSUME Servers!StatementsFit, NEW s \in DOMAIN ByName, Servers!IsReadOnly(s), NEW driver, KnownKind(driver), ~Servers!Refuses(driver, s)
  PROVE ~Servers!Stays(driver, s)
<1>1. CASE Servers!ReadsOnly(driver)
  BY <1>1 DEF Servers!Stays
<1>2. CASE driver = "snowflake"
  <2>1. ~Servers!WritingWord(s)
    BY <1>2 DEF Servers!Refuses
  <2>2. "snowflake" \notin ByName[s].writes
    BY <2>1 DEF Servers!StatementsFit
  <2> QED
    BY <1>2, <2>2 DEF Servers!Stays, Servers!Writes
<1>3. CASE driver = "redis"
  BY <1>3 DEF Servers!Refuses
<1>4. CASE driver \in {"libsql", "duckdb"}
  <2>1. driver \notin ByName[s].ends
    BY <1>4 DEF Servers!StatementsFit
  <2> QED
    BY <1>4, <2>1 DEF Servers!Stays, Servers!RollsBack
<1>5. CASE driver = "sqlsrv"
  <2>1. ~Servers!ControlWord(s)
    BY <1>5 DEF Servers!Refuses
  <2>2. "sqlsrv" \notin ByName[s].ends
    BY <2>1 DEF Servers!StatementsFit
  <2> QED
    BY <1>5, <2>2 DEF Servers!Stays, Servers!RollsBack
<1> QED
  BY <1>1, <1>2, <1>3, <1>4, <1>5 DEF KnownKind, Servers!RollsBack

LEMMA RunKeeps ==
  ASSUME Servers!StatementsFit, Servers!KitsFit, Servers!PagesFit, McpInv, Servers!Run
  PROVE McpInv'
<1>1. PICK read \in Nat :
        /\ doing.read = read + 1 /\ read + 1 \in 1..Len(sent) /\ Len(sent) \in Nat
        /\ Asks(sent[read + 1]) /\ sent[read + 1] \in Lines /\ KnownKind(doing.driver)
        /\ Upto(doing) = read /\ RanTo(doing) = IF doing.at = "run" THEN read ELSE read + 1
  BY AtStatement DEF Servers!Run
<1>2. doing.at = "run" /\ RanTo(doing) = read /\ UNCHANGED <<sent, out, saved>>
  BY <1>1 DEF Servers!Run
<1>3. PICK d \in Doings(Len(sent)) : d = doing
  BY DEF McpInv, McpTyped
<1>4. PICK p \in Pasts : p = past
  BY DEF McpInv, McpTyped
<1>5. PICK s : s = sent[read + 1].statement
  OBVIOUS
<1>6. s \in DOMAIN ByName /\ Servers!IsReadOnly(s)
  BY <1>1, <1>5, LinesFit DEF Fit, Asks
<1>7. ~Servers!Refuses(doing.driver, s) => ~Servers!Stays(doing.driver, s)
  BY <1>1, <1>6, LeavesNothing
<1>8. PICK failed \in BOOLEAN :
        /\ doing' = [doing EXCEPT !.at = "record", !.failed = failed]
        /\ past' = [past EXCEPT !.ran = Append(@, [of |-> doing.read, on |-> doing.id, failed |-> failed]),
             !.written = IF ~Servers!Refuses(doing.driver, s) /\ Servers!Stays(doing.driver, s) THEN @ \cup {doing.read} ELSE @]
  BY <1>1, <1>5 DEF Servers!Run
<1>9. PICK entry : entry = [of |-> read + 1, on |-> d.id, failed |-> failed]
  OBVIOUS
<1>10. entry \in Entries /\ entry.of = read + 1
  BY <1>3, <1>9 DEF Entries, Doings
<1>11. PICK more : more = Append(p.ran, entry)
  OBVIOUS
<1>12. past' = [p EXCEPT !.ran = more]
  <2>1. past' = [past EXCEPT !.ran = more, !.written = past.written]
    BY <1>1, <1>3, <1>4, <1>7, <1>8, <1>9, <1>11
  <2> QED
    BY <2>1, <1>4 DEF Pasts
<1>13. /\ p.ran \in Seq(Entries) /\ Rising(p.ran) /\ Within(p.ran, read) /\ Called(p.ran, sent)
       /\ Kept(p.history, p.ran)
  BY <1>2, <1>4 DEF McpInv, Pasts
<1>14. Rising(more) /\ Within(more, read + 1)
  <2>1. read + 1 \in Nat /\ read < entry.of /\ entry.of <= read + 1 /\ entry.of \in Nat
    BY <1>10
  <2> QED
    BY <2>1, <1>10, <1>11, <1>13, RisesOn
<1>15. more \in Seq(Entries) /\ Called(more, sent) /\ Recorded(more, entry) /\ Kept(p.history, more)
  BY <1>1, <1>10, <1>11, <1>13, CalledOn
<1>16. /\ past' \in Pasts /\ past'.ran = more /\ past'.history = p.history /\ past'.written = p.written
       /\ past'.got = p.got /\ past'.next = p.next /\ past'.ended = p.ended
  BY <1>12, <1>15 DEF Pasts
<1>17. /\ doing' \in Doings(Len(sent)) /\ doing'.at = "record" /\ doing'.read = read + 1 /\ doing'.driver = doing.driver
       /\ doing'.id = d.id /\ doing'.failed = failed
  <2>1. doing' = [d EXCEPT !.at = "record", !.failed = failed]
    BY <1>3, <1>8
  <2> QED
    BY <2>1, <1>1, <1>3 DEF Doings
<1>18. Upto(doing') = read /\ RanTo(doing') = read + 1
  BY <1>17 DEF Upto, RanTo
<1>19. McpTyped'
  BY <1>2, <1>16, <1>17 DEF McpInv, McpTyped
<1>20. Recorded(past'.ran, [of |-> doing'.read, on |-> doing'.id, failed |-> doing'.failed])
  BY <1>9, <1>15, <1>16, <1>17
<1>21. /\ Rising(out') /\ Within(out', Upto(doing')) /\ OwnIds(out', sent') /\ Whole(out', sent', Upto(doing'))
  BY <1>1, <1>2, <1>18 DEF McpInv
<1>22. /\ Rising(past'.ran) /\ Within(past'.ran, RanTo(doing')) /\ Called(past'.ran, sent')
  BY <1>2, <1>14, <1>15, <1>16, <1>18
<1>23. /\ Rising(past'.history) /\ Within(past'.history, Upto(doing')) /\ Kept(past'.history, past'.ran)
  BY <1>1, <1>4, <1>15, <1>16, <1>18 DEF McpInv
<1>24. doing'.read > 0 /\ Asks(sent'[doing'.read]) /\ KnownKind(doing'.driver)
  BY <1>1, <1>2, <1>17
<1>25. past'.written = {} /\ Lists(sent', doing'.read, past'.next) /\ Given(past'.got, past'.next, past'.ended)
  BY <1>1, <1>2, <1>4, <1>16, <1>17 DEF McpInv
<1> QED
  BY <1>19, <1>20, <1>21, <1>22, <1>23, <1>24, <1>25 DEF McpInv

LEMMA RecordKeeps ==
  ASSUME McpInv, Servers!Record
  PROVE McpInv'
<1>1. PICK read \in Nat :
        /\ doing.read = read + 1 /\ read + 1 \in 1..Len(sent) /\ Len(sent) \in Nat
        /\ Asks(sent[read + 1]) /\ sent[read + 1] \in Lines /\ KnownKind(doing.driver)
        /\ Upto(doing) = read /\ RanTo(doing) = IF doing.at = "run" THEN read ELSE read + 1
  BY AtStatement DEF Servers!Record
<1>2. doing.at = "record" /\ RanTo(doing) = read + 1 /\ UNCHANGED <<sent, saved>>
  BY <1>1 DEF Servers!Record
<1>3. PICK d \in Doings(Len(sent)) : d = doing
  BY DEF McpInv, McpTyped
<1>4. PICK p \in Pasts : p = past
  BY DEF McpInv, McpTyped
<1>5. PICK entry : entry = [of |-> read + 1, on |-> d.id, failed |-> d.failed]
  OBVIOUS
<1>6. entry \in Entries /\ entry.of = read + 1
  BY <1>3, <1>5 DEF Entries, Doings
<1>7. Recorded(p.ran, entry)
  BY <1>1, <1>2, <1>3, <1>4, <1>5 DEF McpInv
<1>8. PICK more : more = Append(p.history, entry)
  OBVIOUS
<1>9. /\ p.history \in Seq(Entries) /\ Rising(p.history) /\ Within(p.history, read) /\ Kept(p.history, p.ran)
      /\ p.ran \in Seq(Entries) /\ Rising(p.ran) /\ Within(p.ran, read + 1) /\ Called(p.ran, sent)
  BY <1>1, <1>2, <1>4 DEF McpInv, Pasts
<1>10. Rising(more) /\ Within(more, read + 1)
  <2>1. read + 1 \in Nat /\ read < entry.of /\ entry.of <= read + 1 /\ entry.of \in Nat
    BY <1>6
  <2> QED
    BY <2>1, <1>6, <1>8, <1>9, RisesOn
<1>11. more \in Seq(Entries) /\ Kept(more, p.ran)
  BY <1>6, <1>7, <1>8, <1>9, KeptOn
<1>12. Within(p.history, read + 1)
  BY <1>1, <1>9, WithinMore
<1>13. past' = [p EXCEPT !.history = more] \/ past' = p
  BY <1>1, <1>3, <1>4, <1>5, <1>8 DEF Servers!Record
<1>14. /\ past' \in Pasts /\ past'.ran = p.ran /\ past'.written = p.written
       /\ past'.got = p.got /\ past'.next = p.next /\ past'.ended = p.ended
       /\ past'.history \in {more, p.history}
  BY <1>11, <1>13 DEF Pasts
<1>15. Rising(past'.history) /\ Within(past'.history, read + 1) /\ Kept(past'.history, past'.ran)
  BY <1>9, <1>10, <1>11, <1>12, <1>14
<1>16. /\ doing' \in Doings(Len(sent)) /\ doing'.at = "line" /\ doing'.read = read + 1
  <2>1. doing' = Waiting(read + 1)
    BY <1>1 DEF Servers!Record, Waiting
  <2>2. read + 1 \in 0..Len(sent)
    BY <1>1
  <2> QED
    BY <2>1, <2>2, <1>1, WaitsFor
<1>17. Upto(doing') = read + 1 /\ RanTo(doing') = read + 1
  BY <1>16 DEF Upto, RanTo
<1>18. /\ out' \in Seq(Replies) /\ Rising(out') /\ Within(out', read + 1) /\ OwnIds(out', sent)
       /\ Whole(out', sent, read + 1)
  <2>1. PICK is \in {"failed", "result"} : is = IF doing.failed THEN "failed" ELSE "result"
    OBVIOUS
  <2>2. PICK line \in Lines : line = sent[read + 1] /\ Asks(line)
    BY <1>1
  <2>3. Servers!Answered(line) /\ Servers!IdOf(line) = line.id
    BY <2>2 DEF Asks, Servers!Answered, Servers!IdOf
  <2>4. PICK answer : answer = [of |-> read + 1, id |-> line.id, is |-> is]
    OBVIOUS
  <2>5. answer \in Replies /\ answer.of = read + 1 /\ answer.id = line.id
    BY <2>4 DEF Replies
  <2>6. out' = Append(out, answer)
    BY <2>1, <2>2, <2>4, <1>1 DEF Servers!Record
  <2>7. out \in Seq(Replies) /\ Rising(out) /\ Within(out, read) /\ OwnIds(out, sent) /\ Whole(out, sent, read)
    BY <1>1 DEF McpInv, McpTyped
  <2> QED
    BY <2>2, <2>3, <2>5, <2>6, <2>7, RepliesOn
<1>19. McpTyped'
  BY <1>2, <1>14, <1>16, <1>18 DEF McpInv, McpTyped
<1>20. /\ Rising(out') /\ Within(out', Upto(doing')) /\ OwnIds(out', sent') /\ Whole(out', sent', Upto(doing'))
  BY <1>2, <1>17, <1>18
<1>21. /\ Rising(past'.ran) /\ Within(past'.ran, RanTo(doing')) /\ Called(past'.ran, sent')
       /\ Rising(past'.history) /\ Within(past'.history, Upto(doing')) /\ Kept(past'.history, past'.ran)
  BY <1>2, <1>9, <1>14, <1>15, <1>17
<1>22. past'.written = {} /\ Lists(sent', doing'.read, past'.next) /\ Given(past'.got, past'.next, past'.ended)
  BY <1>1, <1>2, <1>4, <1>14, <1>16 DEF McpInv
<1> QED
  BY <1>16, <1>19, <1>20, <1>21, <1>22 DEF McpInv

LEMMA RenameKeeps ==
  ASSUME McpInv, Servers!Rename
  PROVE McpInv'
<1>1. PICK p \in Pasts : p = past
  BY DEF McpInv, McpTyped
<1>2. PICK others \in Nat : others = p.others + 1
  BY DEF Pasts
<1>3. past' = [p EXCEPT !.others = others] /\ UNCHANGED <<sent, doing, out>>
  BY <1>1, <1>2 DEF Servers!Rename
<1>4. /\ past' \in Pasts /\ past'.ran = p.ran /\ past'.history = p.history /\ past'.written = p.written
      /\ past'.got = p.got /\ past'.next = p.next /\ past'.ended = p.ended
  BY <1>3 DEF Pasts
<1>5. \A name \in DOMAIN saved' : saved'[name] \in Rows
  <2>1. PICK a \in DOMAIN saved, b \in DOMAIN past.kit.first : saved' = [n \in (DOMAIN saved \ {a}) \cup {b} |-> IF n = b THEN saved[a] ELSE saved[n]]
    BY DEF Servers!Rename
  <2>2. \A name \in DOMAIN saved : saved[name] \in Rows
    BY DEF McpInv, McpTyped
  <2> QED
    BY <2>1, <2>2
<1>6. McpTyped'
  BY <1>3, <1>4, <1>5 DEF McpInv, McpTyped
<1> QED
  BY <1>1, <1>3, <1>4, <1>6 DEF McpInv

LEMMA McpBegins ==
  ASSUME Servers!Init
  PROVE McpInv
<1>1. /\ sent = <<>> /\ doing = Servers!Waits /\ out = <<>> /\ saved = past.kit.first
      /\ past \in [kit : Kits, ran : {<<>>}, history : {<<>>}, written : {{}}, others : {0}, got : {<<>>}, next : {0}, ended : {FALSE}]
  BY DEF Servers!Init
<1>2. /\ past.kit \in Kits /\ past.ran = <<>> /\ past.history = <<>> /\ past.written = {} /\ past.got = <<>> /\ past.next = 0
      /\ past.ended = FALSE /\ past \in Pasts
  <2>1. <<>> \in Seq(Entries) /\ <<>> \in Seq(STRING) /\ {} \in SUBSET Nat /\ 0 \in Nat /\ FALSE \in BOOLEAN
    OBVIOUS
  <2>2. /\ {<<>>} \subseteq Seq(Entries) /\ {<<>>} \subseteq Seq(STRING) /\ {{}} \subseteq SUBSET Nat
        /\ {0} \subseteq Nat /\ {FALSE} \subseteq BOOLEAN
    BY <2>1
  <2>3. past \in Pasts
    BY <1>1, <2>2, Zenon DEF Pasts
  <2> QED
    BY <1>1, <2>3
<1>3. doing.at = "line" /\ doing.read = 0 /\ Len(sent) = 0 /\ doing \in Doings(Len(sent)) /\ Upto(doing) = 0 /\ RanTo(doing) = 0
  BY <1>1 DEF Servers!Waits, Doings, Ids, Kinds, Upto, RanTo
<1>4. \A name \in DOMAIN saved : saved[name] \in Rows
  BY <1>1, <1>2 DEF Rows
<1>5. McpTyped
  BY <1>1, <1>2, <1>3, <1>4 DEF McpTyped
<1>6. Rising(out) /\ Within(out, 0) /\ OwnIds(out, sent) /\ Whole(out, sent, 0)
  BY <1>1 DEF Rising, Within, OwnIds, Whole
<1>7. /\ Rising(past.ran) /\ Within(past.ran, 0) /\ Called(past.ran, sent)
      /\ Rising(past.history) /\ Within(past.history, 0) /\ Kept(past.history, past.ran)
  BY <1>2 DEF Rising, Within, Called, Kept
<1>8. Lists(sent, doing.read, past.next)
  BY <1>3 DEF Lists
<1>9. Given(past.got, past.next, past.ended)
  BY <1>2 DEF Given
<1> QED
  BY <1>2, <1>3, <1>5, <1>6, <1>7, <1>8, <1>9 DEF McpInv

LEMMA McpStays ==
  ASSUME Servers!StatementsFit, Servers!KitsFit, Servers!PagesFit, McpInv, [Servers!Next]_(Servers!mcpVars)
  PROVE McpInv'
<1>1. ASSUME UNCHANGED Servers!mcpVars PROVE McpInv'
  <2>1. UNCHANGED <<sent, doing, out, saved, past>>
    BY <1>1 DEF Servers!mcpVars
  <2>2. McpTyped'
    BY <2>1 DEF McpInv, McpTyped
  <2> QED
    BY <2>1, <2>2 DEF McpInv
<1> QED
  BY <1>1, SendKeeps, FollowsKeep, SkipKeeps, SaysKeeps, ListKeeps, QueryKeeps, RunKeeps, RecordKeeps, RenameKeeps DEF Servers!Next

LEMMA McpHolds ==
  ASSUME Servers!StatementsFit, Servers!KitsFit, Servers!PagesFit
  PROVE Servers!Spec => []McpInv
<1>1. Servers!Init => McpInv
  BY McpBegins
<1>2. McpInv /\ [Servers!Next]_(Servers!mcpVars) => McpInv'
  BY McpStays
<1> QED
  BY <1>1, <1>2, PTL DEF Servers!Spec

-----------------------------------------------------------------------------
\* A request is answered once, in the order they came and with its own id, and what is none is not
\* (AnsweredInOrder; commands/mcp.rs and mcp/mod.rs, handle and reply).
THEOREM RequestsAreAnswered == ASSUME Servers!StatementsFit, Servers!KitsFit, Servers!PagesFit PROVE Servers!Spec => []Servers!AnsweredInOrder
<1>1. McpInv => Servers!AnsweredInOrder
  <2>1. Servers!Handled = Upto(doing)
    BY DEF Servers!Handled, Upto
  <2> QED
    BY <2>1 DEF McpInv, Servers!AnsweredInOrder, Rising, Within, OwnIds, Whole
<1> QED
  BY <1>1, McpHolds, PTL

\* What ran was called for by a request that was valid, once and in order, and no more of it is recorded
\* (RanIsAsked; agent.rs query).
THEOREM RunsWhatIsAsked == ASSUME Servers!StatementsFit, Servers!KitsFit, Servers!PagesFit PROVE Servers!Spec => []Servers!RanIsAsked
<1>1. McpInv => Servers!RanIsAsked
  BY DEF McpInv, Servers!RanIsAsked, Rising, Within, Called, Asks, Kept
<1> QED
  BY <1>1, McpHolds, PTL

\* Nothing an agent runs is written, on any driver, provided the servers do with a statement what StatementsFit says
\* (NothingIsWritten; run_reading of the drivers).
THEOREM AgentsOnlyRead == ASSUME Servers!StatementsFit, Servers!KitsFit, Servers!PagesFit PROVE Servers!Spec => []Servers!NothingIsWritten
<1>1. McpInv => Servers!NothingIsWritten
  BY DEF McpInv, Servers!NothingIsWritten
<1> QED
  BY <1>1, McpHolds, PTL

\* An agent that follows the cursors has every tool, in order and once, for any tools and sizes of pages
\* (ListsAll; mcp/mod.rs paged).
THEOREM EveryToolIsListed == ASSUME Servers!StatementsFit, Servers!KitsFit, Servers!PagesFit PROVE Servers!Spec => []Servers!ListsAll
<1>1. McpInv => Servers!ListsAll
  BY DEF McpInv, Servers!ListsAll, Given
<1> QED
  BY <1>1, McpHolds, PTL
=============================================================================
