------------------------------- MODULE Tunnel -------------------------------
(***************************************************************************)
(* The ssh tunnels of one tql (src/app/tunnel.rs): the table of open        *)
(* tunnels, which its threads share, the processes of ssh they start, and   *)
(* the local ports those listen on.                                         *)
(***************************************************************************)
EXTENDS Naturals, FiniteSets

CONSTANTS
  Workers,      \* threads of tql that connect
  Connections,  \* saved connections with an SSH host
  KeyOf,        \* key_for, the place of each in the table
  Behind,       \* the database each is for, where `command` forwards to
  Ports,        \* local ports
  MaxTunnels,   \* how often ssh is started: bounds the model
  FailsQuickly, \* whether ssh that cannot have its port is gone when SETTLE has passed
  NoTunnel, Other

ConstantsFit ==
  /\ MaxTunnels \in Nat
  /\ NoTunnel \notin (1 .. MaxTunnels) \cup {Other} /\ Other \notin 1 .. MaxTunnels

\* Connections with one place in the table are for one database
KeysTellApart == \A c, d \in Connections : KeyOf[c] = KeyOf[d] => Behind[c] = Behind[d]

VARIABLES
  kept,     \* the table of open tunnels: under each key a tunnel, or NoTunnel
  ssh,      \* the tunnels started: the port, the end and the state of ssh of each
  listener, \* who listens on each port: a tunnel, Other, or nobody (NoTunnel)
  worker,   \* what each thread is at, for which connection and with which tunnel
  process   \* "running", "leaving" (the table is drained) or "gone"

tunnelVars == <<kept, ssh, listener, worker, process>>

Idle == [at |-> "idle", tunnel |-> NoTunnel, port |-> NoTunnel, for |-> NoTunnel]
KeysOfTable == {KeyOf[c] : c \in Connections}
Kept(table) == {table[k] : k \in KeysOfTable} \ {NoTunnel}
Alive(t) == t # NoTunnel /\ ssh[t].is \in {"dialing", "serving"}
Started == DOMAIN ssh

Init ==
  /\ kept = [k \in KeysOfTable |-> NoTunnel]
  /\ ssh = <<>>
  /\ listener = [p \in Ports |-> NoTunnel]
  /\ worker = [w \in Workers |-> Idle]
  /\ process = "running"

-----------------------------------------------------------------------------
\* ssh, which listens once it has signed in, and may fail at any time

\* The state of ssh after the tunnels of ts are closed, and who listens then
Closed(ts) == [t \in Started |-> IF t \in ts THEN [ssh[t] EXCEPT !.is = "exited"] ELSE ssh[t]]
Freed(ts)  == [p \in Ports |-> IF listener[p] \in ts THEN NoTunnel ELSE listener[p]]

SshListens(t) ==
  /\ ssh[t].is = "dialing" /\ listener[ssh[t].port] = NoTunnel
  /\ ssh' = [ssh EXCEPT ![t].is = "serving"]
  /\ listener' = [listener EXCEPT ![ssh[t].port] = t]
  /\ UNCHANGED <<kept, worker, process>>

\* Signed out, refused, or without its port (ExitOnForwardFailure=yes)
SshExits(t) ==
  /\ Alive(t)
  /\ ssh' = Closed({t}) /\ listener' = Freed({t})
  /\ UNCHANGED <<kept, worker, process>>

\* Another program takes a port that is free
OtherListens(p) ==
  /\ listener[p] = NoTunnel
  /\ \A q \in Ports : listener[q] # Other
  /\ listener' = [listener EXCEPT ![p] = Other]
  /\ UNCHANGED <<kept, ssh, worker, process>>

-----------------------------------------------------------------------------
\* A thread that connects

Holders(t) == {w \in Workers : worker[w].at = "connected" /\ worker[w].tunnel = t}

\* The last Arc is dropped: of a tunnel that is neither in the table nor held
Dropped(table, ws) ==
  {t \in Started : t \notin Kept(table) /\ \A w \in Workers : ws[w].tunnel # t}

Reuse(w, c) ==
  /\ process = "running" /\ worker[w].at = "idle"
  /\ LET t == kept[KeyOf[c]] IN
     /\ Alive(t)
     /\ worker' = [worker EXCEPT ![w] =
                     [at |-> "connected", tunnel |-> t, port |-> ssh[t].port, for |-> c]]
  /\ UNCHANGED <<kept, ssh, listener, process>>

\* The port is free when it is looked for, and no longer held after
FindPort(w, c) ==
  /\ process = "running" /\ worker[w].at = "idle"
  /\ ~Alive(kept[KeyOf[c]])
  /\ Cardinality(Started) < MaxTunnels
  /\ \E p \in Ports :
       /\ listener[p] = NoTunnel
       /\ worker' = [worker EXCEPT ![w] = [Idle EXCEPT !.at = "found", !.port = p, !.for = c]]
  /\ UNCHANGED <<kept, ssh, listener, process>>

Spawn(w) ==
  /\ process # "gone" /\ worker[w].at = "found"
  /\ Cardinality(Started) < MaxTunnels
  /\ LET t == Cardinality(Started) + 1 IN
     /\ ssh' = [u \in Started \cup {t} |->
                  IF u = t THEN [port |-> worker[w].port, is |-> "dialing", to |-> Behind[worker[w].for]]
                  ELSE ssh[u]]
     /\ worker' = [worker EXCEPT ![w] = [@ EXCEPT !.at = "waiting", !.tunnel = t]]
  /\ UNCHANGED <<kept, listener, process>>

AnsweredTrusting(w) ==
  /\ process # "gone" /\ worker[w].at = "waiting"
  /\ Alive(worker[w].tunnel)
  /\ listener[worker[w].port] # NoTunnel
  /\ worker' = [worker EXCEPT ![w].at = "started"]
  /\ UNCHANGED <<kept, ssh, listener, process>>

\* Something answers on the port: it is looked at again when SETTLE has passed
Answered(w) ==
  /\ process # "gone" /\ worker[w].at = "waiting"
  /\ Alive(worker[w].tunnel)
  /\ listener[worker[w].port] # NoTunnel
  /\ worker' = [worker EXCEPT ![w].at = "settling"]
  /\ UNCHANGED <<kept, ssh, listener, process>>

Settled(w) ==
  /\ process # "gone" /\ worker[w].at = "settling"
  /\ Alive(worker[w].tunnel)
  /\ FailsQuickly => ssh[worker[w].tunnel].is = "serving"
  /\ worker' = [worker EXCEPT ![w].at = "started"]
  /\ UNCHANGED <<kept, ssh, listener, process>>

\* ssh is gone, or nothing has answered for WAIT: it is closed, and so is the thread's error
NotStarted(w) ==
  /\ process # "gone" /\ worker[w].at \in {"waiting", "settling"}
  /\ worker[w].at = "settling" => ~Alive(worker[w].tunnel)
  /\ ssh' = Closed({worker[w].tunnel}) /\ listener' = Freed({worker[w].tunnel})
  /\ worker' = [worker EXCEPT ![w] = Idle]
  /\ UNCHANGED <<kept, process>>

\* Kept under its key, whatever another thread has kept there meanwhile
Keep(w) ==
  /\ process # "gone" /\ worker[w].at = "started"
  /\ kept' = [kept EXCEPT ![KeyOf[worker[w].for]] = worker[w].tunnel]
  /\ worker' = [worker EXCEPT ![w].at = "connected"]
  /\ ssh' = Closed(Dropped(kept', worker')) /\ listener' = Freed(Dropped(kept', worker'))
  /\ UNCHANGED process

\* The connection is closed, or dialed again
Disconnect(w) ==
  /\ process = "running" /\ worker[w].at = "connected"
  /\ worker' = [worker EXCEPT ![w] = Idle]
  /\ ssh' = Closed(Dropped(kept, worker')) /\ listener' = Freed(Dropped(kept, worker'))
  /\ UNCHANGED <<kept, process>>

-----------------------------------------------------------------------------
\* The end of tql: main returns, or the thread that waits for a signal exits

CloseAllForgetting ==
  /\ process = "running"
  /\ process' = "leaving" /\ kept' = [k \in KeysOfTable |-> NoTunnel]
  /\ UNCHANGED <<worker, ssh, listener>>

CloseAll ==
  /\ process = "running"
  /\ process' = "leaving" /\ kept' = [k \in KeysOfTable |-> NoTunnel]
  /\ ssh' = Closed(Kept(kept)) /\ listener' = Freed(Kept(kept))
  /\ UNCHANGED worker

Exit == process = "leaving" /\ process' = "gone" /\ UNCHANGED <<kept, ssh, listener, worker>>

Next ==
  \/ \E t \in Started : SshListens(t) \/ SshExits(t)
  \/ \E p \in Ports : OtherListens(p)
  \/ \E w \in Workers : \/ \E c \in Connections : Reuse(w, c) \/ FindPort(w, c)
                        \/ Spawn(w) \/ Answered(w) \/ Settled(w)
                        \/ NotStarted(w) \/ Keep(w) \/ Disconnect(w)
  \/ CloseAll \/ Exit

Spec == Init /\ [][Next]_tunnelVars

-----------------------------------------------------------------------------
\* A thread that was given a tunnel connects to the database of its connection and to nothing
\* else: what listens on the port is ssh itself, as long as it runs, and forwards there
LeadsToDatabase ==
  \A w \in Workers : worker[w].at \in {"started", "connected"} /\ Alive(worker[w].tunnel) =>
    /\ listener[worker[w].port] = worker[w].tunnel
    /\ ssh[worker[w].tunnel].to = Behind[worker[w].for]

\* What tql leaves behind when it ends: no ssh but one that was just being started, and one
\* whose place in the table another thread took while a connection still used it
NothingLeftBehind ==
  process = "gone" =>
    \A t \in Started : Alive(t) => \E w \in Workers : worker[w].tunnel = t

TunnelsAreOurs == LeadsToDatabase /\ NothingLeftBehind
=============================================================================
