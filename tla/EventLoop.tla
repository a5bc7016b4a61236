----------------------------- MODULE EventLoop -----------------------------
(***************************************************************************)
(* The loop every screen of tql runs in (src/app/terminal/mod.rs): events   *)
(* of the terminal are read until none is left, and only then is the screen *)
(* drawn, or the app left to its own work, or the next event waited for.    *)
(* An escape that is followed closely is one key with what follows it.      *)
(***************************************************************************)
EXTENDS Naturals, Sequences

CONSTANTS
  Events,      \* the kinds that come
  MaxEvents,
  MaxWork      \* how often the app finds something to do by itself

VARIABLES
  came,    \* the events, in order
  loop,    \* where the loop is, how many it read, and whether there is something to draw
  app,     \* what the app was given, in order, each with the events it is made of, and its state
  screen   \* the state that is drawn

loopVars == <<came, loop, app, screen>>

Keys == {"escape", "char", "enter", "arrow"}
Inputs == Keys \cup {"mouse", "paste"}

Init ==
  /\ came = <<>>
  /\ loop = [at |-> "poll", read |-> 0, dirty |-> TRUE]
  /\ app = [inputs |-> <<>>, state |-> 1, repaint |-> FALSE, work |-> 0]
  /\ screen = 0

-----------------------------------------------------------------------------
Unread == loop.read < Len(came)
Event == came[loop.read + 1]

\* input: a release, a resize or a change of focus is none, but is read
IsInput(event) == event \in Inputs
\* joined: alt and the character, or shift and enter
Joins(event) == event \in {"char", "enter"}

\* dispatch: what the app does with an input, which may be to end, is its own
Given(inputs, from, exits) == Append(inputs, [from |-> from, exits |-> exits])
Changed(inputs) ==
  \E more \in {0, 1} : \E repaint \in {app.repaint, app.repaint \/ more = 1} :
    app' = [app EXCEPT !.inputs = inputs, !.state = @ + more, !.repaint = repaint]
Goes(exits, read) == loop' = [at |-> IF exits THEN "ended" ELSE "poll", read |-> read, dirty |-> TRUE]

\* The terminal
Come ==
  /\ Len(came) < MaxEvents /\ loop.at # "ended"
  /\ \E event \in Events : came' = Append(came, event)
  /\ UNCHANGED <<loop, app, screen>>

\* One that is no escape is given to the app, if it is an input
Read ==
  /\ loop.at = "poll" /\ Unread /\ Event # "escape"
  /\ IF IsInput(Event)
     THEN \E exits \in BOOLEAN : Goes(exits, loop.read + 1) /\ Changed(Given(app.inputs, <<loop.read + 1>>, exits))
     ELSE Goes(FALSE, loop.read + 1) /\ UNCHANGED app
  /\ UNCHANGED <<came, screen>>
ReadEscape ==
  /\ loop.at = "poll" /\ Unread /\ Event = "escape"
  /\ loop' = [at |-> "escape", read |-> loop.read + 1, dirty |-> TRUE]
  /\ UNCHANGED <<came, app, screen>>

\* Something came within SPLIT_ESCAPE: one key, or both unless the escape ended the app
\* A mutant of Follow: what follows an escape and does not join it is dropped
FollowDropping ==
  /\ loop.at = "escape" /\ Unread
  /\ \E exits \in BOOLEAN :
       Goes(exits, loop.read + 1) /\ Changed(Given(app.inputs, IF Joins(Event) THEN <<loop.read, loop.read + 1>> ELSE <<loop.read>>, exits))
  /\ UNCHANGED <<came, screen>>
Follow ==
  /\ loop.at = "escape" /\ Unread
  /\ \E exits \in BOOLEAN :
       IF Joins(Event)
       THEN Goes(exits, loop.read + 1) /\ Changed(Given(app.inputs, <<loop.read, loop.read + 1>>, exits))
       ELSE \E first \in BOOLEAN :
              LET given == Given(app.inputs, <<loop.read>>, first) IN
              IF first \/ ~IsInput(Event)
              THEN exits = first /\ Goes(first, loop.read + 1) /\ Changed(given)
              ELSE Goes(exits, loop.read + 1) /\ Changed(Given(given, <<loop.read + 1>>, exits))
  /\ UNCHANGED <<came, screen>>
\* Nothing came
Alone ==
  /\ loop.at = "escape" /\ ~Unread
  /\ \E exits \in BOOLEAN : Goes(exits, loop.read) /\ Changed(Given(app.inputs, <<loop.read>>, exits))
  /\ UNCHANGED <<came, screen>>

\* With nothing left to read: the screen, all of it when the app asks for that
Draw ==
  /\ loop.at = "poll" /\ ~Unread /\ loop.dirty
  /\ loop' = [loop EXCEPT !.dirty = FALSE]
  /\ app' = [app EXCEPT !.repaint = FALSE]
  /\ screen' = app.state
  /\ UNCHANGED came

\* The app says whether its own work changed what is to be seen
Work ==
  /\ loop.at = "poll" /\ ~Unread /\ ~loop.dirty
  /\ \/ /\ app.work < MaxWork /\ loop' = [loop EXCEPT !.dirty = TRUE]
        /\ \E repaint \in {app.repaint, TRUE} : app' = [app EXCEPT !.state = @ + 1, !.repaint = repaint, !.work = @ + 1]
     \/ loop' = [loop EXCEPT !.at = "wait"] /\ UNCHANGED app
  /\ UNCHANGED <<came, screen>>

\* An event, or TICK
Wakes ==
  /\ loop.at = "wait" /\ loop' = [loop EXCEPT !.at = "poll"]
  /\ UNCHANGED <<came, app, screen>>

Next == Come \/ Read \/ ReadEscape \/ Follow \/ Alone \/ Draw \/ Work \/ Wakes

Spec == Init /\ [][Next]_loopVars

-----------------------------------------------------------------------------
\* Every event the app can be given was given to it once it was read, and no other; an escape waits
\* for what follows it, and is lost with nothing but a key that is one with it
Made(n) == \E i \in 1..Len(app.inputs), j \in {1, 2} : j \in DOMAIN app.inputs[i].from /\ app.inputs[i].from[j] = n
EachIsGiven ==
  /\ \A n \in 1..loop.read :
       \/ Made(n) <=> IsInput(came[n])
       \/ n = loop.read /\ loop.at \in {"escape", "ended"}
  /\ \A i \in 1..Len(app.inputs) : LET from == app.inputs[i].from IN
       Len(from) = 2 => from[2] = from[1] + 1 /\ came[from[1]] = "escape" /\ Joins(came[from[2]])

\* In the order they came
InOrder ==
  \A i, j \in 1..Len(app.inputs) : i < j =>
    app.inputs[i].from[Len(app.inputs[i].from)] < app.inputs[j].from[1]

\* Nothing is given to an app that ended
EndsOnce == \A i \in 1..Len(app.inputs) : app.inputs[i].exits => i = Len(app.inputs) /\ loop.at = "ended"

\* As long as it waits, what is shown is as the app is
ShownAsItIs == loop.at = "wait" => screen = app.state /\ ~app.repaint

LoopIsTrue == EachIsGiven /\ InOrder /\ EndsOnce /\ ShownAsItIs
=============================================================================
