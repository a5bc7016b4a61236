---------------------------- MODULE TunnelProofs ----------------------------
(***************************************************************************)
(* Proofs about the ssh tunnels, for any number of threads, connections and *)
(* ports: a thread reaches the database its connection names or none, and   *)
(* tql leaves no ssh behind that no thread was starting or using.           *)
(***************************************************************************)
EXTENDS Tunnel, FiniteSetTheorems, TLAPS

Ends == {Behind[c] : c \in Connections}
Sshs == [port : Ports, is : {"dialing", "serving", "exited"}, to : Ends]

\* tunnels are numbered as they are started;
Numbered == \E n \in 0 .. MaxTunnels : Started = 1 .. n

\* what there is of them, of the table and of the ports
TablesTyped ==
  /\ ssh \in [Started -> Sshs]
  /\ kept \in [KeysOfTable -> Started \cup {NoTunnel}]
  /\ listener \in [Ports -> Started \cup {NoTunnel, Other}]
  /\ process \in {"running", "leaving", "gone"}

\* A thread that has a tunnel has its port with it.
WorkersTyped ==
  /\ worker \in [Workers -> [at : {"idle", "found", "waiting", "settling", "started", "connected"},
                             tunnel : Started \cup {NoTunnel},
                             port : Ports \cup {NoTunnel},
                             for : Connections \cup {NoTunnel}]]
  /\ \A w \in Workers :
       /\ worker[w].at = "idle" => worker[w] = Idle
       /\ worker[w].at = "found" =>
            worker[w].tunnel = NoTunnel /\ worker[w].port \in Ports /\ worker[w].for \in Connections
       /\ worker[w].at \notin {"idle", "found"} =>
            /\ worker[w].tunnel \in Started /\ worker[w].for \in Connections
            /\ worker[w].port = ssh[worker[w].tunnel].port

TunnelTyped == Numbered /\ TablesTyped /\ WorkersTyped

\* ssh that serves is who listens on its port, whoever else wants it;
ServingListens ==
  /\ \A t \in Started : ssh[t].is = "serving" => listener[ssh[t].port] = t
  /\ \A p \in Ports : listener[p] \in Started =>
       ssh[listener[p]].port = p /\ ssh[listener[p]].is = "serving"

\* ssh that runs is in the table or with a thread, and with a thread when tql ends
RunningIsHeld ==
  \A t \in Started : Alive(t) =>
    \/ t \in Kept(kept) /\ process = "running"
    \/ \E w \in Workers : worker[w].tunnel = t

HeldInv == TunnelTyped /\ ServingListens /\ RunningIsHeld

\* ssh that a thread was given, or finds in the table, serves as long as it runs,
\* and forwards to the database of each connection it is for.
GivenLead ==
  \A w \in Workers :
    /\ worker[w].at \in {"started", "connected"} => ssh[worker[w].tunnel].is # "dialing"
    /\ worker[w].at \notin {"idle", "found"} => ssh[worker[w].tunnel].to = Behind[worker[w].for]

KeptLead ==
  \A c \in Connections : kept[KeyOf[c]] # NoTunnel =>
    ssh[kept[KeyOf[c]]].is # "dialing" /\ ssh[kept[KeyOf[c]]].to = Behind[c]

LeadInv == HeldInv /\ GivenLead /\ KeptLead

-----------------------------------------------------------------------------
\* NoTunnel and Other are nobody's number.
LEMMA StartedNumbers ==
  ASSUME ConstantsFit, Numbered
  PROVE  /\ IsFiniteSet(Started)
         /\ Cardinality(Started) \in Nat
         /\ Started = 1 .. Cardinality(Started)
         /\ NoTunnel \notin Started /\ Other \notin Started
         /\ NoTunnel # Other
<1>1. PICK n \in 0 .. MaxTunnels : Started = 1 .. n
  BY DEF Numbered
<1>2. n \in Nat /\ n <= MaxTunnels /\ MaxTunnels \in Nat
  BY <1>1 DEF ConstantsFit
<1>3. IsFiniteSet(1 .. n) /\ Cardinality(1 .. n) = n
  <2>1. IsFiniteSet(1 .. n) /\ Cardinality(1 .. n) = IF 1 > n THEN 0 ELSE n - 1 + 1
    BY <1>2, FS_Interval
  <2> QED
    BY <1>2, <2>1
<1>4. 1 .. n \subseteq 1 .. MaxTunnels
  BY <1>2
<1> QED
  BY <1>1, <1>2, <1>3, <1>4 DEF ConstantsFit

\* What closing some of the tunnels does.
LEMMA Closing ==
  ASSUME ConstantsFit, Numbered, TablesTyped, ServingListens,
         NEW ts \in SUBSET Started, ssh' = Closed(ts), listener' = Freed(ts)
  PROVE  /\ Started' = Started /\ Numbered'
         /\ ssh' \in [Started -> Sshs]
         /\ listener' \in [Ports -> Started \cup {NoTunnel, Other}]
         /\ ServingListens'
         /\ \A t \in Started :
              /\ ssh'[t].port = ssh[t].port /\ ssh'[t].to = ssh[t].to
              /\ ssh[t].is # "dialing" => ssh'[t].is # "dialing"
              /\ Alive(t)' => Alive(t) /\ t \notin ts
<1>0. NoTunnel \notin Started /\ Other \notin Started
  BY StartedNumbers
<1>1. ssh' = [t \in Started |-> IF t \in ts THEN [ssh[t] EXCEPT !.is = "exited"] ELSE ssh[t]]
      /\ ssh \in [Started -> Sshs]
  BY DEF Closed, TablesTyped
<1>2. Started' = Started
  BY <1>1 DEF Started
<1>3. ASSUME NEW t \in Started
      PROVE  /\ ssh'[t] \in Sshs
             /\ ssh'[t].port = ssh[t].port /\ ssh'[t].to = ssh[t].to
             /\ t \in ts => ssh'[t].is = "exited"
             /\ t \notin ts => ssh'[t] = ssh[t]
  BY <1>1 DEF Sshs
<1>4. ssh' \in [Started -> Sshs]
  BY <1>1, <1>3
<1>5. \A p \in Ports : listener'[p] = IF listener[p] \in ts THEN NoTunnel ELSE listener[p]
  BY DEF Freed
<1>6. listener' \in [Ports -> Started \cup {NoTunnel, Other}]
  BY DEF Freed, TablesTyped
<1>7. ServingListens'
  <2>1. ASSUME NEW t \in Started, ssh'[t].is = "serving"
        PROVE  listener'[ssh'[t].port] = t
    <3>1. t \notin ts /\ ssh'[t] = ssh[t]
      BY <1>3, <2>1
    <3>2. ssh[t].port \in Ports /\ listener[ssh[t].port] = t
      BY <1>1, <2>1, <3>1 DEF ServingListens, Sshs
    <3> QED
      BY <1>5, <3>1, <3>2
  <2>2. ASSUME NEW p \in Ports, listener'[p] \in Started
        PROVE  ssh'[listener'[p]].port = p /\ ssh'[listener'[p]].is = "serving"
    <3>1. listener'[p] = listener[p] /\ listener[p] \notin ts
      BY <1>0, <1>5, <2>2
    <3> QED
      BY <1>3, <2>2, <3>1 DEF ServingListens
  <2> QED
    BY <1>2, <2>1, <2>2 DEF ServingListens
<1>8. Numbered'
  BY <1>2 DEF Numbered
<1>9. ASSUME NEW t \in Started
      PROVE  /\ ssh[t].is # "dialing" => ssh'[t].is # "dialing"
             /\ Alive(t)' => Alive(t) /\ t \notin ts
  BY <1>3 DEF Alive
<1> QED
  BY <1>2, <1>3, <1>4, <1>6, <1>7, <1>8, <1>9

-----------------------------------------------------------------------------
LEMMA HeldInit == ConstantsFit /\ Init => HeldInv
<1> SUFFICES ASSUME ConstantsFit, Init PROVE HeldInv
  OBVIOUS
<1>1. Started = {} /\ Started = 1 .. 0 /\ 0 \in 0 .. MaxTunnels
  BY DEF Init, Started, ConstantsFit
<1>2. Numbered
  BY <1>1 DEF Numbered
<1>3. TablesTyped
  <2>1. ssh \in [Started -> Sshs]
    BY <1>1 DEF Init, Started
  <2> QED
    BY <1>1, <2>1 DEF Init, TablesTyped
<1>4. WorkersTyped
  BY DEF Init, WorkersTyped, Idle
<1>5. NoTunnel \notin Started
  BY <1>1
<1>6. ServingListens /\ RunningIsHeld
  BY <1>1 DEF Init, ServingListens, RunningIsHeld
<1> QED
  BY <1>2, <1>3, <1>4, <1>6 DEF HeldInv, TunnelTyped

\* ssh listens or exits, and so does another program
LEMMA SshKeeps ==
  ASSUME ConstantsFit, HeldInv,
         (\E t \in Started : SshListens(t) \/ SshExits(t)) \/ (\E p \in Ports : OtherListens(p))
  PROVE  HeldInv'
<1> USE DEF HeldInv, TunnelTyped
<1>0. NoTunnel \notin Started /\ Other \notin Started
  BY StartedNumbers
<1>1. ASSUME Started' = Started, UNCHANGED <<kept, worker, process>>,
             ssh' \in [Started -> Sshs], listener' \in [Ports -> Started \cup {NoTunnel, Other}],
             ServingListens',
             \A t \in Started : ssh'[t].port = ssh[t].port /\ (Alive(t)' => Alive(t))
      PROVE  HeldInv'
  <2>1. Numbered' /\ TablesTyped'
    BY <1>1 DEF Numbered, TablesTyped
  <2>2. WorkersTyped'
    BY <1>1 DEF WorkersTyped, Idle
  <2>3. RunningIsHeld'
    BY <1>1 DEF RunningIsHeld, Kept
  <2> QED
    BY <1>1, <2>1, <2>2, <2>3
<1>2. ASSUME NEW t \in Started, SshListens(t)
      PROVE  HeldInv'
  <2> DEFINE p == ssh[t].port
  <2>1. /\ ssh \in [Started -> Sshs] /\ p \in Ports /\ ssh[t].is = "dialing" /\ listener[p] = NoTunnel
        /\ ssh' = [ssh EXCEPT ![t].is = "serving"]
        /\ listener' = [listener EXCEPT ![p] = t]
        /\ listener \in [Ports -> Started \cup {NoTunnel, Other}]
        /\ UNCHANGED <<kept, worker, process>>
    BY <1>2 DEF SshListens, TablesTyped, Sshs
  <2> HIDE DEF p
  <2>2. Started' = Started
    BY <2>1 DEF Started
  <2>3. ssh' \in [Started -> Sshs] /\ ssh'[t].is = "serving" /\ ssh'[t].port = p
    BY <2>1 DEF Sshs, p
  <2>4. \A u \in Started : ssh'[u].port = ssh[u].port /\ (u # t => ssh'[u] = ssh[u])
    BY <2>1 DEF Sshs
  <2>5. ServingListens'
    <3>1. ASSUME NEW u \in Started, ssh'[u].is = "serving" PROVE listener'[ssh'[u].port] = u
      <4>1. CASE u = t
        BY <2>1, <2>3, <4>1
      <4>2. CASE u # t
        <5>1. ssh'[u] = ssh[u] /\ listener[ssh[u].port] = u
          BY <2>4, <3>1, <4>2 DEF ServingListens
        <5>2. ssh[u].port # p
          BY <1>0, <2>1, <5>1
        <5> QED
          BY <2>1, <5>1, <5>2
      <4> QED
        BY <4>1, <4>2
    <3>2. ASSUME NEW q \in Ports, listener'[q] \in Started
          PROVE  ssh'[listener'[q]].port = q /\ ssh'[listener'[q]].is = "serving"
      <4>1. CASE q = p
        BY <2>1, <2>3, <4>1
      <4>2. CASE q # p
        <5>1. listener'[q] = listener[q] /\ ssh[listener[q]].port = q /\ ssh[listener[q]].is = "serving"
          BY <2>1, <3>2, <4>2 DEF ServingListens
        <5> QED
          BY <2>1, <2>4, <3>2, <5>1
      <4> QED
        BY <4>1, <4>2
    <3> QED
      BY <2>2, <3>1, <3>2 DEF ServingListens
  <2>6. listener' \in [Ports -> Started \cup {NoTunnel, Other}]
    BY <2>1
  <2>7. \A u \in Started : Alive(u)' => Alive(u)
    BY <2>1, <2>4 DEF Alive
  <2> QED
    BY <1>1, <2>1, <2>2, <2>3, <2>4, <2>5, <2>6, <2>7
<1>3. ASSUME NEW t \in Started, SshExits(t)
      PROVE  HeldInv'
  <2>1. ssh' = Closed({t}) /\ listener' = Freed({t}) /\ {t} \in SUBSET Started
        /\ UNCHANGED <<kept, worker, process>>
    BY <1>3 DEF SshExits
  <2> QED
    BY <1>1, <2>1, Closing
<1>4. ASSUME NEW p \in Ports, OtherListens(p)
      PROVE  HeldInv'
  <2>1. /\ UNCHANGED <<kept, ssh, worker, process>> /\ listener[p] = NoTunnel
        /\ listener' = [listener EXCEPT ![p] = Other]
        /\ listener \in [Ports -> Started \cup {NoTunnel, Other}] /\ ssh \in [Started -> Sshs]
    BY <1>4 DEF OtherListens, TablesTyped
  <2>2. Started' = Started /\ \A t \in Started : Alive(t)' => Alive(t)
    BY <2>1 DEF Started, Alive
  <2>3. ServingListens'
    BY <1>0, <2>1, <2>2 DEF ServingListens, Sshs
  <2> QED
    BY <1>1, <2>1, <2>2, <2>3
<1> QED
  BY <1>2, <1>3, <1>4

\* What a thread is at fits, with the tunnel it has.
Fits(v) ==
  /\ v \in [at : {"idle", "found", "waiting", "settling", "started", "connected"},
            tunnel : Started \cup {NoTunnel},
            port : Ports \cup {NoTunnel},
            for : Connections \cup {NoTunnel}]
  /\ v.at = "idle" => v = Idle
  /\ v.at = "found" => v.tunnel = NoTunnel /\ v.port \in Ports /\ v.for \in Connections
  /\ v.at \notin {"idle", "found"} =>
       v.tunnel \in Started /\ v.for \in Connections /\ v.port = ssh[v.tunnel].port

LEMMA AllFit ==
  WorkersTyped <=> /\ worker = [w \in Workers |-> worker[w]]
                   /\ \A w \in Workers : Fits(worker[w])
  BY DEF WorkersTyped, Fits

LEMMA AllFitThen ==
  WorkersTyped' <=> /\ worker' = [w \in Workers |-> worker'[w]]
                    /\ \A w \in Workers : Fits(worker[w])'
  BY DEF WorkersTyped, Fits, Idle

\* A thread goes on with one tunnel, or takes one that runs.
LEMMA ThreadKeeps ==
  ASSUME ConstantsFit, HeldInv, NEW w \in Workers, NEW v,
         worker' = [worker EXCEPT ![w] = v], Fits(v),
         worker[w].tunnel \in {v.tunnel, NoTunnel},
         UNCHANGED <<kept, ssh, listener, process>>
  PROVE  HeldInv'
<1> USE DEF HeldInv, TunnelTyped
<1>0. NoTunnel \notin Started
  BY StartedNumbers
<1>1. Started' = Started
  BY DEF Started
<1>2. Numbered' /\ TablesTyped' /\ ServingListens'
  BY <1>1 DEF Numbered, TablesTyped, ServingListens
<1>3. \A u \in Workers : worker'[u] = IF u = w THEN v ELSE worker[u]
  BY DEF WorkersTyped
<1>4. WorkersTyped'
  <2>1. \A u : Fits(u) => Fits(u)'
    BY <1>1 DEF Fits, Idle
  <2>2. worker' = [u \in Workers |-> worker'[u]]
    BY DEF WorkersTyped
  <2>3. \A u \in Workers : Fits(worker'[u])
    BY <1>3, AllFit
  <2>4. \A u \in Workers : Fits(worker[u])'
    BY <1>1, <2>3 DEF Fits, Idle
  <2> QED
    BY <2>2, <2>4, AllFitThen
<1>5. RunningIsHeld'
  <2>1. ASSUME NEW t \in Started, Alive(t)'
        PROVE  (t \in Kept(kept) /\ process = "running") \/ \E u \in Workers : worker'[u].tunnel = t
    <3>1. Alive(t)
      BY <2>1 DEF Alive
    <3>2. CASE t \in Kept(kept) /\ process = "running"
      BY <3>2
    <3>3. ASSUME NEW u \in Workers, worker[u].tunnel = t
          PROVE  worker'[u].tunnel = t
      BY <1>0, <1>3, <3>3
    <3> QED
      BY <3>1, <3>2, <3>3 DEF RunningIsHeld
  <2> QED
    BY <1>1, <2>1 DEF RunningIsHeld, Kept
<1> QED
  BY <1>2, <1>4, <1>5

\* The steps of a thread that leave the table and every ssh alone
LEMMA StepsKeep ==
  ASSUME ConstantsFit, HeldInv, NEW w \in Workers,
         (\E c \in Connections : Reuse(w, c) \/ FindPort(w, c)) \/ Answered(w) \/ Settled(w)
  PROVE  HeldInv'
<1>0. /\ Fits(worker[w]) /\ ssh \in [Started -> Sshs] /\ kept \in [KeysOfTable -> Started \cup {NoTunnel}]
  BY AllFit DEF HeldInv, TunnelTyped, TablesTyped
<1>1. ASSUME NEW c \in Connections, Reuse(w, c)
      PROVE  HeldInv'
  <2> DEFINE t == kept[KeyOf[c]]
             v == [at |-> "connected", tunnel |-> t, port |-> ssh[t].port, for |-> c]
  <2>1. t \in Started
    BY <1>0, <1>1 DEF Reuse, Alive, KeysOfTable
  <2>2. Fits(v)
    BY <1>0, <2>1 DEF Fits, Sshs
  <2>3. worker' = [worker EXCEPT ![w] = v] /\ worker[w].at = "idle" /\ UNCHANGED <<kept, ssh, listener, process>>
    BY <1>1 DEF Reuse
  <2>4. worker[w].tunnel = NoTunnel
    BY <1>0, <2>3 DEF Fits, Idle
  <2> HIDE DEF v
  <2> QED
    BY <2>2, <2>3, <2>4, ThreadKeeps
<1>2. ASSUME NEW c \in Connections, FindPort(w, c)
      PROVE  HeldInv'
  <2>1. PICK p \in Ports : worker' = [worker EXCEPT ![w] = [Idle EXCEPT !.at = "found", !.port = p, !.for = c]]
    BY <1>2 DEF FindPort
  <2> DEFINE v == [Idle EXCEPT !.at = "found", !.port = p, !.for = c]
  <2>2. worker[w].tunnel = NoTunnel /\ UNCHANGED <<kept, ssh, listener, process>>
    <3>1. worker[w].at = "idle" /\ UNCHANGED <<kept, ssh, listener, process>>
      BY <1>2 DEF FindPort
    <3>2. worker[w].tunnel = NoTunnel
      BY <1>0, <3>1 DEF Fits, Idle
    <3> QED
      BY <3>1, <3>2
  <2>3. Fits(v) /\ v.tunnel = NoTunnel
    BY DEF Fits, Idle
  <2> HIDE DEF v
  <2> QED
    BY <2>1, <2>2, <2>3, ThreadKeeps DEF v
<1>3. ASSUME NEW place \in {"settling", "started"}, worker[w].at \in {"waiting", "settling"},
             worker' = [worker EXCEPT ![w].at = place], UNCHANGED <<kept, ssh, listener, process>>
      PROVE  HeldInv'
  <2> DEFINE v == [worker[w] EXCEPT !.at = place]
  <2>1. Fits(v) /\ v.tunnel = worker[w].tunnel
    BY <1>0, <1>3 DEF Fits
  <2>2. worker' = [worker EXCEPT ![w] = v]
    BY <1>3
  <2> HIDE DEF v
  <2> QED
    BY <1>3, <2>1, <2>2, ThreadKeeps
<1>4. ASSUME Answered(w) PROVE HeldInv'
  BY <1>3, <1>4 DEF Answered
<1>5. ASSUME Settled(w) PROVE HeldInv'
  BY <1>3, <1>5 DEF Settled
<1> QED
  BY <1>1, <1>2, <1>4, <1>5

\* Spawn, which starts the tunnel with the next number.
LEMMA SpawnAdds ==
  ASSUME ConstantsFit, HeldInv, NEW w \in Workers, Spawn(w)
  PROVE  LET t == Cardinality(Started) + 1
         IN  /\ t \notin Started /\ t # NoTunnel /\ t # Other
             /\ Started' = Started \cup {t} /\ Numbered'
             /\ ssh'[t] = [port |-> worker[w].port, is |-> "dialing", to |-> Behind[worker[w].for]]
             /\ ssh'[t] \in Sshs
             /\ \A u \in Started : ssh'[u] = ssh[u]
             /\ ssh' \in [Started' -> Sshs]
<1> DEFINE t == Cardinality(Started) + 1
           s == [port |-> worker[w].port, is |-> "dialing", to |-> Behind[worker[w].for]]
<1>1. /\ Cardinality(Started) \in Nat /\ Started = 1 .. Cardinality(Started)
  BY StartedNumbers DEF HeldInv, TunnelTyped
<1>2. Cardinality(Started) < MaxTunnels /\ MaxTunnels \in Nat
  BY DEF Spawn, ConstantsFit
<1>3. t \in 1 .. MaxTunnels /\ t \notin 1 .. Cardinality(Started) /\ t \in 0 .. MaxTunnels
      /\ 1 .. t = (1 .. Cardinality(Started)) \cup {t}
  BY <1>1, <1>2
<1>4. ssh' = [u \in Started \cup {t} |-> IF u = t THEN s ELSE ssh[u]]
  BY DEF Spawn
<1>5. s \in Sshs
  <2>1. Fits(worker[w]) /\ worker[w].at = "found"
    BY AllFit DEF HeldInv, TunnelTyped, Spawn
  <2> QED
    BY <2>1 DEF Fits, Sshs, Ends
<1> HIDE DEF t, s
<1>6. t \notin Started /\ t # NoTunnel /\ t # Other
  BY <1>1, <1>3 DEF ConstantsFit
<1>7. Started' = Started \cup {t}
  BY <1>4 DEF Started
<1>8. Numbered'
  BY <1>1, <1>3, <1>7 DEF Numbered
<1>9. \A u \in Started : ssh'[u] = ssh[u] /\ ssh[u] \in Sshs
  BY <1>4, <1>6 DEF HeldInv, TunnelTyped, TablesTyped
<1>10. ssh'[t] = s
  BY <1>4
<1>11. ssh' \in [Started' -> Sshs]
  BY <1>4, <1>5, <1>7, <1>9
<1> QED
  BY <1>5, <1>6, <1>7, <1>8, <1>9, <1>10, <1>11 DEF t, s

LEMMA SpawnKeeps ==
  ASSUME ConstantsFit, HeldInv, NEW w \in Workers, Spawn(w)
  PROVE  HeldInv'
<1> USE DEF HeldInv, TunnelTyped
<1> DEFINE t == Cardinality(Started) + 1
           v == [worker[w] EXCEPT !.at = "waiting", !.tunnel = t]
<1>1. /\ t \notin Started /\ t # NoTunnel /\ t # Other
      /\ Started' = Started \cup {t} /\ Numbered' /\ ssh' \in [Started' -> Sshs]
      /\ ssh'[t].port = worker[w].port /\ ssh'[t].is = "dialing"
      /\ \A u \in Started : ssh'[u] = ssh[u]
  <2>1. ssh'[t] = [port |-> worker[w].port, is |-> "dialing", to |-> Behind[worker[w].for]]
    BY SpawnAdds
  <2>2. ssh'[t].port = worker[w].port /\ ssh'[t].is = "dialing"
    BY <2>1
  <2> QED
    BY <2>2, SpawnAdds
<1>2. Fits(worker[w]) /\ worker[w].at = "found"
  BY AllFit DEF Spawn
<1>3. /\ worker' = [worker EXCEPT ![w] = v] /\ UNCHANGED <<kept, listener, process>>
  BY DEF Spawn
<1>4. \A u \in Workers : worker'[u] = IF u = w THEN v ELSE worker[u]
  BY <1>3 DEF WorkersTyped
<1>5. v.tunnel = t /\ v.at = "waiting" /\ v.port = worker[w].port /\ v.for = worker[w].for
      /\ v \in [at : {"waiting"}, tunnel : {t}, port : Ports, for : Connections]
  BY <1>2 DEF Fits
<1> HIDE DEF t, v
<1>6. TablesTyped'
  BY <1>1, <1>3 DEF TablesTyped
<1>7. WorkersTyped'
  <2>1. worker' = [u \in Workers |-> worker'[u]]
    BY <1>3 DEF WorkersTyped
  <2>2. ASSUME NEW u \in Workers PROVE Fits(worker[u])'
    <3>1. CASE u = w
      BY <1>1, <1>4, <1>5, <3>1 DEF Fits
    <3>2. CASE u # w
      <4>1. worker'[u] = worker[u] /\ Fits(worker[u])
        BY <1>4, <3>2, AllFit
      <4> QED
        BY <1>1, <4>1 DEF Fits, Idle
    <3> QED
      BY <3>1, <3>2
  <2> QED
    BY <2>1, <2>2, AllFitThen
<1>8. ServingListens'
  <2>1. ASSUME NEW u \in Started', ssh'[u].is = "serving" PROVE listener'[ssh'[u].port] = u
    BY <1>1, <1>3, <2>1 DEF ServingListens
  <2>2. ASSUME NEW q \in Ports, listener'[q] \in Started'
        PROVE  ssh'[listener'[q]].port = q /\ ssh'[listener'[q]].is = "serving"
    <3>1. listener'[q] \in Started
      BY <1>1, <1>3, <2>2 DEF TablesTyped
    <3> QED
      BY <1>1, <1>3, <3>1 DEF ServingListens
  <2> QED
    BY <2>1, <2>2 DEF ServingListens
<1>9. RunningIsHeld'
  <2>1. ASSUME NEW u \in Started', Alive(u)'
        PROVE  (u \in Kept(kept') /\ process' = "running") \/ \E x \in Workers : worker'[x].tunnel = u
    <3>1. CASE u = t
      BY <1>4, <1>5, <3>1
    <3>2. CASE u # t
      <4>1. u \in Started /\ Alive(u)
        BY <1>1, <2>1, <3>2 DEF Alive
      <4>2. ASSUME NEW x \in Workers, worker[x].tunnel = u PROVE worker'[x].tunnel = u
        <5>0. NoTunnel \notin Started
          BY StartedNumbers
        <5>1. x # w
          BY <1>2, <4>1, <4>2, <5>0 DEF Fits
        <5> QED
          BY <1>4, <4>2, <5>1
      <4> QED
        BY <1>3, <4>1, <4>2 DEF RunningIsHeld
    <3> QED
      BY <3>1, <3>2
  <2> QED
    BY <2>1 DEF RunningIsHeld, Kept
<1> QED
  BY <1>1, <1>6, <1>7, <1>8, <1>9

\* A thread closes what nobody has, or what it had itself, and keeps or leaves its tunnel.
LEMMA ClosingKeeps ==
  ASSUME ConstantsFit, HeldInv, NEW w \in Workers, NEW v, NEW ts \in SUBSET Started,
         ssh' = Closed(ts), listener' = Freed(ts), UNCHANGED process,
         kept' \in [KeysOfTable -> Started \cup {NoTunnel}],
         worker' = [worker EXCEPT ![w] = v], Fits(v),
         \A t \in Started : Alive(t) /\ t \notin ts =>
           (t \in Kept(kept') /\ process = "running") \/ \E u \in Workers : worker'[u].tunnel = t
  PROVE  HeldInv'
<1> USE DEF HeldInv, TunnelTyped
<1>1. /\ Started' = Started /\ Numbered' /\ ssh' \in [Started -> Sshs]
      /\ listener' \in [Ports -> Started \cup {NoTunnel, Other}] /\ ServingListens'
      /\ \A t \in Started : ssh'[t].port = ssh[t].port /\ (Alive(t)' => Alive(t) /\ t \notin ts)
  BY Closing
<1>2. TablesTyped'
  BY <1>1 DEF TablesTyped
<1>3. WorkersTyped'
  <2>1. worker' = [u \in Workers |-> worker'[u]]
    BY DEF WorkersTyped
  <2>2. ASSUME NEW u \in Workers PROVE Fits(worker[u])'
    <3>1. Fits(worker'[u])
      <4>1. worker'[u] = IF u = w THEN v ELSE worker[u]
        BY DEF WorkersTyped
      <4>2. Fits(worker[u])
        BY AllFit
      <4> QED
        BY <4>1, <4>2
    <3> QED
      BY <1>1, <3>1 DEF Fits, Idle
  <2> QED
    BY <2>1, <2>2, AllFitThen
<1>4. RunningIsHeld'
  <2>1. ASSUME NEW t \in Started, Alive(t)'
        PROVE  (t \in Kept(kept') /\ process' = "running") \/ \E u \in Workers : worker'[u].tunnel = t
    BY <1>1, <2>1
  <2> QED
    BY <1>1, <2>1 DEF RunningIsHeld, Kept
<1> QED
  BY <1>1, <1>2, <1>3, <1>4

LEMMA NotStartedKeeps ==
  ASSUME ConstantsFit, HeldInv, NEW w \in Workers, NotStarted(w)
  PROVE  HeldInv'
<1> DEFINE ts == {worker[w].tunnel}
<1>1. Fits(worker[w]) /\ worker[w].at \in {"waiting", "settling"}
  BY AllFit DEF HeldInv, TunnelTyped, NotStarted
<1>2. ts \in SUBSET Started
  BY <1>1 DEF Fits
<1>3. /\ ssh' = Closed(ts) /\ listener' = Freed(ts) /\ worker' = [worker EXCEPT ![w] = Idle]
      /\ UNCHANGED <<kept, process>>
  BY DEF NotStarted
<1>4. kept' \in [KeysOfTable -> Started \cup {NoTunnel}]
  BY <1>3 DEF HeldInv, TunnelTyped, TablesTyped
<1>5. Fits(Idle)
  BY DEF Fits, Idle
<1>6. ASSUME NEW t \in Started, Alive(t), t \notin ts
      PROVE  (t \in Kept(kept') /\ process = "running") \/ \E u \in Workers : worker'[u].tunnel = t
  <2>1. ASSUME NEW u \in Workers, worker[u].tunnel = t PROVE worker'[u].tunnel = t
    BY <1>3, <1>6, <2>1 DEF HeldInv, TunnelTyped, WorkersTyped
  <2> QED
    BY <1>3, <1>6, <2>1 DEF HeldInv, RunningIsHeld
<1> HIDE DEF ts
<1> QED
  BY <1>2, <1>3, <1>4, <1>5, <1>6, ClosingKeeps

\* What was dropped is in the table no more, and no thread has it.
LEMMA NotDropped ==
  ASSUME NEW t \in Started, NEW table, NEW ws, t \notin Dropped(table, ws)
  PROVE  t \in Kept(table) \/ \E u \in Workers : ws[u].tunnel = t
BY DEF Dropped

LEMMA KeepKeeps ==
  ASSUME ConstantsFit, HeldInv, NEW w \in Workers, Keep(w)
  PROVE  HeldInv'
<1> DEFINE v == [worker[w] EXCEPT !.at = "connected"]
           ts == Dropped(kept', worker')
<1>1. Fits(worker[w]) /\ worker[w].at = "started"
  BY AllFit DEF HeldInv, TunnelTyped, Keep
<1>2. Fits(v) /\ v.tunnel = worker[w].tunnel
  BY <1>1 DEF Fits
<1>3. /\ ssh' = Closed(ts) /\ listener' = Freed(ts) /\ worker' = [worker EXCEPT ![w] = v]
      /\ kept' = [kept EXCEPT ![KeyOf[worker[w].for]] = worker[w].tunnel] /\ UNCHANGED process
  BY DEF Keep
<1>4. kept' \in [KeysOfTable -> Started \cup {NoTunnel}]
  BY <1>1, <1>3 DEF HeldInv, TunnelTyped, TablesTyped, Fits
<1>5. ts \in SUBSET Started
  BY DEF Dropped
<1>6. ASSUME NEW t \in Started, Alive(t), t \notin ts
      PROVE  (t \in Kept(kept') /\ process = "running") \/ \E u \in Workers : worker'[u].tunnel = t
  <2>1. t \in Kept(kept') \/ \E u \in Workers : worker'[u].tunnel = t
    BY <1>6, NotDropped
  <2>2. ASSUME process # "running" PROVE \E u \in Workers : worker'[u].tunnel = t
    <3>1. PICK u \in Workers : worker[u].tunnel = t
      BY <1>6, <2>2 DEF HeldInv, RunningIsHeld
    <3>2. worker'[u].tunnel = t
      BY <1>2, <1>3, <3>1 DEF HeldInv, TunnelTyped, WorkersTyped
    <3> QED
      BY <3>2
  <2> QED
    BY <2>1, <2>2
<1> HIDE DEF ts, v
<1> QED
  BY <1>2, <1>3, <1>4, <1>5, <1>6, ClosingKeeps

LEMMA DisconnectKeeps ==
  ASSUME ConstantsFit, HeldInv, NEW w \in Workers, Disconnect(w)
  PROVE  HeldInv'
<1> DEFINE ts == Dropped(kept, worker')
<1>1. /\ ssh' = Closed(ts) /\ listener' = Freed(ts) /\ worker' = [worker EXCEPT ![w] = Idle]
      /\ UNCHANGED <<kept, process>> /\ process = "running"
  BY DEF Disconnect
<1>2. kept' \in [KeysOfTable -> Started \cup {NoTunnel}]
  BY <1>1 DEF HeldInv, TunnelTyped, TablesTyped
<1>3. Fits(Idle)
  BY DEF Fits, Idle
<1>4. ts \in SUBSET Started
  BY DEF Dropped
<1>5. ASSUME NEW t \in Started, t \notin ts
      PROVE  (t \in Kept(kept') /\ process = "running") \/ \E u \in Workers : worker'[u].tunnel = t
  BY <1>1, <1>5, NotDropped
<1> HIDE DEF ts
<1> QED
  BY <1>1, <1>2, <1>3, <1>4, <1>5, ClosingKeeps

\* The end of tql closes what is in the table: what runs on is with a thread.
LEMMA LeavingKeeps ==
  ASSUME ConstantsFit, HeldInv, CloseAll \/ Exit
  PROVE  HeldInv'
<1> USE DEF HeldInv, TunnelTyped
<1>1. ASSUME CloseAll PROVE HeldInv'
  <2> DEFINE ts == Kept(kept)
  <2>1. /\ ssh' = Closed(ts) /\ listener' = Freed(ts) /\ worker' = worker
        /\ process' = "leaving" /\ kept' = [k \in KeysOfTable |-> NoTunnel]
    BY <1>1 DEF CloseAll
  <2>2. ts \in SUBSET Started
    BY DEF Kept, TablesTyped
  <2> HIDE DEF ts
  <2>3. /\ Started' = Started /\ Numbered' /\ ssh' \in [Started -> Sshs]
        /\ listener' \in [Ports -> Started \cup {NoTunnel, Other}] /\ ServingListens'
        /\ \A t \in Started : ssh'[t].port = ssh[t].port /\ (Alive(t)' => Alive(t) /\ t \notin ts)
    BY <2>1, <2>2, Closing
  <2>4. TablesTyped'
    BY <2>1, <2>3 DEF TablesTyped
  <2>5. WorkersTyped'
    BY <2>1, <2>3 DEF WorkersTyped, Idle
  <2>6. RunningIsHeld'
    BY <2>1, <2>3 DEF RunningIsHeld, ts
  <2> QED
    BY <2>3, <2>4, <2>5, <2>6
<1>2. ASSUME Exit PROVE HeldInv'
  <2>1. UNCHANGED <<kept, ssh, listener, worker>> /\ process = "leaving" /\ process' = "gone"
    BY <1>2 DEF Exit
  <2>2. Started' = Started /\ \A t \in Started : Alive(t)' => Alive(t)
    BY <2>1 DEF Started, Alive
  <2>3. Numbered' /\ TablesTyped' /\ ServingListens'
    BY <2>1, <2>2 DEF Numbered, TablesTyped, ServingListens
  <2>4. WorkersTyped'
    BY <2>1, <2>2 DEF WorkersTyped, Idle
  <2>5. RunningIsHeld'
    BY <2>1, <2>2 DEF RunningIsHeld
  <2> QED
    BY <2>3, <2>4, <2>5
<1> QED
  BY <1>1, <1>2

LEMMA HeldStep == ConstantsFit /\ HeldInv /\ [Next]_tunnelVars => HeldInv'
<1> SUFFICES ASSUME ConstantsFit, HeldInv, [Next]_tunnelVars PROVE HeldInv'
  OBVIOUS
<1>1. CASE UNCHANGED tunnelVars
  <2>1. UNCHANGED <<kept, ssh, listener, worker, process>>
    BY <1>1 DEF tunnelVars
  <2>2. Started' = Started /\ \A t \in Started : Alive(t)' => Alive(t)
    BY <2>1 DEF Started, Alive
  <2>3. Numbered' /\ TablesTyped' /\ ServingListens'
    BY <2>1, <2>2 DEF HeldInv, TunnelTyped, Numbered, TablesTyped, ServingListens
  <2>4. WorkersTyped'
    BY <2>1, <2>2 DEF HeldInv, TunnelTyped, WorkersTyped, Idle
  <2>5. RunningIsHeld'
    BY <2>1, <2>2 DEF HeldInv, RunningIsHeld, Kept
  <2> QED
    BY <2>3, <2>4, <2>5 DEF HeldInv, TunnelTyped
<1>2. CASE Next
  BY <1>2, SshKeeps, StepsKeep, SpawnKeeps, NotStartedKeeps, KeepKeeps, DisconnectKeeps, LeavingKeeps DEF Next
<1> QED
  BY <1>1, <1>2

\* Whatever the threads were at when tql ended, and however ssh failed, every
\* ssh of tql's that still runs is one that a thread was starting, or still had.
THEOREM NothingIsLeft == ASSUME ConstantsFit PROVE Spec => []NothingLeftBehind
<1>1. HeldInv => NothingLeftBehind
  BY DEF HeldInv, RunningIsHeld, NothingLeftBehind
<1> QED
  BY <1>1, HeldInit, HeldStep, PTL DEF Spec

-----------------------------------------------------------------------------
\* No step changes where ssh forwards to, and ssh that is not dialing never dials again.
SshStays ==
  \A t \in Started :
    ssh'[t].to = ssh[t].to /\ (ssh[t].is # "dialing" => ssh'[t].is # "dialing")

LEMMA Stays == ConstantsFit /\ HeldInv /\ [Next]_tunnelVars => SshStays
<1> SUFFICES ASSUME ConstantsFit, HeldInv, [Next]_tunnelVars PROVE SshStays
  OBVIOUS
<1> USE DEF HeldInv, TunnelTyped
<1>0. ssh \in [Started -> Sshs]
  BY DEF TablesTyped
<1>1. ASSUME UNCHANGED ssh PROVE SshStays
  BY <1>1 DEF SshStays
<1>2. ASSUME NEW ts \in SUBSET Started, ssh' = Closed(ts), listener' = Freed(ts) PROVE SshStays
  BY <1>2, Closing DEF SshStays
<1>3. ASSUME NEW t \in Started, SshListens(t) PROVE SshStays
  BY <1>0, <1>3 DEF SshListens, SshStays, Sshs
<1>4. ASSUME NEW t \in Started, SshExits(t) PROVE SshStays
  BY <1>2, <1>4 DEF SshExits
<1>5. ASSUME NEW w \in Workers, Spawn(w) PROVE SshStays
  BY <1>5, SpawnAdds DEF SshStays
<1>6. ASSUME NEW w \in Workers, NotStarted(w) PROVE SshStays
  <2>1. Fits(worker[w]) /\ worker[w].at \in {"waiting", "settling"}
    BY <1>6, AllFit DEF NotStarted
  <2>2. {worker[w].tunnel} \in SUBSET Started
    BY <2>1 DEF Fits
  <2> QED
    BY <1>2, <1>6, <2>2 DEF NotStarted
<1>7. ASSUME NEW w \in Workers, Keep(w) \/ Disconnect(w) PROVE SshStays
  <2>1. Dropped(kept', worker') \in SUBSET Started /\ Dropped(kept, worker') \in SUBSET Started
    BY DEF Dropped
  <2> QED
    BY <1>2, <1>7, <2>1 DEF Keep, Disconnect
<1>8. ASSUME CloseAll PROVE SshStays
  <2>1. Kept(kept) \in SUBSET Started
    BY DEF Kept, TablesTyped
  <2> QED
    BY <1>2, <1>8, <2>1 DEF CloseAll
<1>9. ASSUME (\E p \in Ports : OtherListens(p)) \/ Exit \/ UNCHANGED tunnelVars PROVE SshStays
  BY <1>1, <1>9 DEF OtherListens, Exit, tunnelVars
<1>10. ASSUME NEW w \in Workers,
              (\E c \in Connections : Reuse(w, c) \/ FindPort(w, c)) \/ Answered(w) \/ Settled(w)
       PROVE  SshStays
  BY <1>1, <1>10 DEF Reuse, FindPort, Answered, Settled
<1> QED
  BY <1>3, <1>4, <1>5, <1>6, <1>7, <1>8, <1>9, <1>10 DEF Next

\* A thread with no tunnel, or one whose tunnel leads where it wants
Leads(v) ==
  /\ v.at \in {"started", "connected"} => ssh'[v.tunnel].is # "dialing"
  /\ v.at \notin {"idle", "found"} => ssh'[v.tunnel].to = Behind[v.for]

LEMMA LeadStays ==
  ASSUME HeldInv, GivenLead, SshStays, NEW w \in Workers
  PROVE  Leads(worker[w])
<1>1. worker[w].at \in {"idle", "found"} \/ worker[w].tunnel \in Started
  BY DEF HeldInv, TunnelTyped, WorkersTyped
<1> QED
  BY <1>1 DEF GivenLead, SshStays, Leads

LEMMA OthersLead ==
  ASSUME HeldInv, GivenLead, SshStays, NEW w \in Workers, NEW v,
         worker' = [worker EXCEPT ![w] = v], Leads(v)
  PROVE  GivenLead'
<1>1. \A u \in Workers : worker'[u] = IF u = w THEN v ELSE worker[u]
  BY DEF HeldInv, TunnelTyped, WorkersTyped
<1>2. \A u \in Workers : Leads(worker'[u])
  BY <1>1, LeadStays
<1> QED
  BY <1>2 DEF Leads, GivenLead

LEMMA TableLeads == HeldInv /\ KeptLead /\ SshStays /\ UNCHANGED kept => KeptLead'
<1> SUFFICES ASSUME HeldInv, KeptLead, SshStays, UNCHANGED kept, NEW c \in Connections,
                    kept[KeyOf[c]] # NoTunnel
             PROVE  ssh'[kept[KeyOf[c]]].is # "dialing" /\ ssh'[kept[KeyOf[c]]].to = Behind[c]
  BY DEF KeptLead
<1>1. kept[KeyOf[c]] \in Started
  BY DEF HeldInv, TunnelTyped, TablesTyped, KeysOfTable
<1> QED
  BY <1>1 DEF KeptLead, SshStays

LEMMA LeadStep ==
  ConstantsFit /\ FailsQuickly /\ KeysTellApart /\ LeadInv /\ [Next]_tunnelVars => LeadInv'
<1> SUFFICES ASSUME ConstantsFit, FailsQuickly, KeysTellApart, LeadInv, [Next]_tunnelVars
             PROVE  LeadInv'
  OBVIOUS
<1>0. HeldInv /\ GivenLead /\ KeptLead /\ HeldInv' /\ SshStays
  BY HeldStep, Stays DEF LeadInv
<1>1. ASSUME UNCHANGED worker PROVE GivenLead'
  BY <1>0, <1>1, LeadStays DEF Leads, GivenLead
<1>2. ASSUME UNCHANGED kept PROVE KeptLead'
  BY <1>0, <1>2, TableLeads
<1>3. ASSUME NEW w \in Workers, worker' = [worker EXCEPT ![w] = Idle] PROVE GivenLead'
  <2>1. Leads(Idle)
    BY DEF Leads, Idle
  <2> QED
    BY <1>0, <1>3, <2>1, OthersLead
<1>4. ASSUME (\E t \in Started : SshListens(t) \/ SshExits(t)) \/ (\E p \in Ports : OtherListens(p))
             \/ Exit \/ UNCHANGED tunnelVars
      PROVE  LeadInv'
  BY <1>0, <1>1, <1>2, <1>4 DEF SshListens, SshExits, OtherListens, Exit, tunnelVars, LeadInv
<1>5. ASSUME CloseAll PROVE LeadInv'
  <2>1. KeptLead'
    BY <1>5 DEF CloseAll, KeptLead, KeysOfTable
  <2> QED
    BY <1>0, <1>1, <1>5, <2>1 DEF CloseAll, LeadInv
<1>6. ASSUME NEW w \in Workers, NotStarted(w) \/ Disconnect(w) PROVE LeadInv'
  BY <1>0, <1>2, <1>3, <1>6 DEF NotStarted, Disconnect, LeadInv
<1>7. ASSUME NEW w \in Workers, NEW c \in Connections, Reuse(w, c) PROVE LeadInv'
  <2> DEFINE t == kept[KeyOf[c]]
             v == [at |-> "connected", tunnel |-> t, port |-> ssh[t].port, for |-> c]
  <2>1. worker' = [worker EXCEPT ![w] = v] /\ UNCHANGED <<kept, ssh>> /\ t # NoTunnel
    BY <1>7 DEF Reuse, Alive
  <2>2. ssh'[t].is # "dialing" /\ ssh'[t].to = Behind[c]
    BY <1>0, <2>1 DEF KeptLead
  <2>3. Leads(v)
    BY <2>2 DEF Leads
  <2> HIDE DEF v
  <2> QED
    BY <1>0, <1>2, <2>1, <2>3, OthersLead DEF LeadInv
<1>8. ASSUME NEW w \in Workers, NEW c \in Connections, FindPort(w, c) PROVE LeadInv'
  <2>1. PICK p \in Ports : worker' = [worker EXCEPT ![w] = [Idle EXCEPT !.at = "found", !.port = p, !.for = c]]
    BY <1>8 DEF FindPort
  <2> DEFINE v == [Idle EXCEPT !.at = "found", !.port = p, !.for = c]
  <2>2. Leads(v)
    BY DEF Leads, Idle
  <2>3. UNCHANGED kept
    BY <1>8 DEF FindPort
  <2> HIDE DEF v
  <2> QED
    BY <1>0, <1>2, <2>1, <2>2, <2>3, OthersLead DEF LeadInv, v
<1>9. ASSUME NEW w \in Workers, Spawn(w) PROVE LeadInv'
  <2> DEFINE t == Cardinality(Started) + 1
             v == [worker[w] EXCEPT !.at = "waiting", !.tunnel = t]
  <2>1. ssh'[t] = [port |-> worker[w].port, is |-> "dialing", to |-> Behind[worker[w].for]]
    BY <1>0, <1>9, SpawnAdds
  <2>2. Fits(worker[w])
    BY <1>0, AllFit DEF HeldInv, TunnelTyped
  <2>3. v.at = "waiting" /\ v.tunnel = t /\ v.for = worker[w].for
    BY <2>2 DEF Fits
  <2>4. worker' = [worker EXCEPT ![w] = v] /\ UNCHANGED kept
    BY <1>9 DEF Spawn
  <2> HIDE DEF t, v
  <2>5. Leads(v)
    BY <2>1, <2>3 DEF Leads
  <2> QED
    BY <1>0, <1>2, <2>4, <2>5, OthersLead DEF LeadInv
<1>10. ASSUME NEW w \in Workers, Answered(w) PROVE LeadInv'
  <2> DEFINE v == [worker[w] EXCEPT !.at = "settling"]
  <2>1. worker' = [worker EXCEPT ![w] = v] /\ UNCHANGED kept /\ worker[w].at = "waiting"
    BY <1>10 DEF Answered
  <2>2. Fits(worker[w]) /\ Leads(worker[w])
    BY <1>0, AllFit, LeadStays DEF HeldInv, TunnelTyped
  <2>3. Leads(v)
    BY <2>1, <2>2 DEF Leads, Fits
  <2> HIDE DEF v
  <2> QED
    BY <1>0, <1>2, <2>1, <2>3, OthersLead DEF LeadInv
<1>11. ASSUME NEW w \in Workers, Settled(w) PROVE LeadInv'
  <2> DEFINE v == [worker[w] EXCEPT !.at = "started"]
  <2>1. worker' = [worker EXCEPT ![w] = v] /\ UNCHANGED <<kept, ssh>> /\ worker[w].at = "settling"
        /\ ssh[worker[w].tunnel].is = "serving"
    BY <1>11 DEF Settled
  <2>2. Fits(worker[w]) /\ Leads(worker[w])
    BY <1>0, AllFit, LeadStays DEF HeldInv, TunnelTyped
  <2>3. Leads(v)
    BY <2>1, <2>2 DEF Leads, Fits
  <2> HIDE DEF v
  <2> QED
    BY <1>0, <1>2, <2>1, <2>3, OthersLead DEF LeadInv
<1>12. ASSUME NEW w \in Workers, Keep(w) PROVE LeadInv'
  <2> DEFINE v == [worker[w] EXCEPT !.at = "connected"]
             t == worker[w].tunnel
             k == KeyOf[worker[w].for]
  <2>1. worker' = [worker EXCEPT ![w] = v] /\ kept' = [kept EXCEPT ![k] = t] /\ worker[w].at = "started"
    BY <1>12 DEF Keep
  <2>2. Fits(worker[w]) /\ Leads(worker[w])
    BY <1>0, AllFit, LeadStays DEF HeldInv, TunnelTyped
  <2>3. Leads(v)
    BY <2>1, <2>2 DEF Leads, Fits
  <2>4. ssh'[t].is # "dialing" /\ ssh'[t].to = Behind[worker[w].for] /\ worker[w].for \in Connections
    BY <2>1, <2>2 DEF Leads, Fits
  <2>5. KeptLead'
    <3> SUFFICES ASSUME NEW c \in Connections, kept'[KeyOf[c]] # NoTunnel
                 PROVE  ssh'[kept'[KeyOf[c]]].is # "dialing" /\ ssh'[kept'[KeyOf[c]]].to = Behind[c]
      BY DEF KeptLead
    <3>1. kept \in [KeysOfTable -> Started \cup {NoTunnel}] /\ KeyOf[c] \in KeysOfTable
      BY <1>0 DEF HeldInv, TunnelTyped, TablesTyped, KeysOfTable
    <3>2. CASE KeyOf[c] = k
      <4>1. Behind[c] = Behind[worker[w].for]
        BY <2>4, <3>2 DEF KeysTellApart
      <4>2. kept'[KeyOf[c]] = t
        BY <2>1, <3>1, <3>2
      <4> QED
        BY <2>4, <4>1, <4>2
    <3>3. CASE KeyOf[c] # k
      <4>1. kept'[KeyOf[c]] = kept[KeyOf[c]] /\ kept[KeyOf[c]] \in Started
        BY <2>1, <3>1, <3>3
      <4> QED
        BY <1>0, <4>1 DEF KeptLead, SshStays
    <3> QED
      BY <3>2, <3>3
  <2> HIDE DEF v
  <2> QED
    BY <1>0, <2>1, <2>3, <2>5, OthersLead DEF LeadInv
<1> QED
  BY <1>4, <1>5, <1>6, <1>7, <1>8, <1>9, <1>10, <1>11, <1>12 DEF Next

LEMMA LeadInit == ConstantsFit /\ Init => LeadInv
<1> SUFFICES ASSUME ConstantsFit, Init PROVE LeadInv
  OBVIOUS
<1>1. GivenLead /\ KeptLead
  BY DEF Init, GivenLead, KeptLead, Idle, KeysOfTable
<1> QED
  BY <1>1, HeldInit DEF LeadInv

\* However many threads connect at once, and whoever takes the ports they
\* found: a thread reaches the database of its connection.  It rests on ssh
\* that cannot have its port being gone by SETTLE, and on connections with one
\* place in the table being for one database, which key_for does not see to.
THEOREM ReachesItsDatabase ==
  ASSUME ConstantsFit, FailsQuickly, KeysTellApart
  PROVE  Spec => []LeadsToDatabase
<1>1. LeadInv => LeadsToDatabase
  <2> SUFFICES ASSUME LeadInv, NEW w \in Workers, worker[w].at \in {"started", "connected"},
                      Alive(worker[w].tunnel)
               PROVE  /\ listener[worker[w].port] = worker[w].tunnel
                      /\ ssh[worker[w].tunnel].to = Behind[worker[w].for]
    BY DEF LeadsToDatabase
  <2>1. worker[w].tunnel \in Started /\ worker[w].port = ssh[worker[w].tunnel].port
    BY DEF LeadInv, HeldInv, TunnelTyped, WorkersTyped
  <2>2. ssh[worker[w].tunnel].is = "serving" /\ ssh[worker[w].tunnel].to = Behind[worker[w].for]
    BY DEF LeadInv, GivenLead, Alive
  <2> QED
    BY <2>1, <2>2 DEF LeadInv, HeldInv, ServingListens
<1> QED
  BY <1>1, LeadInit, LeadStep, PTL DEF Spec
=============================================================================
