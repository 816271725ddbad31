-------------------------- MODULE PeerLinksProofs --------------------------
(***************************************************************************)
(* Proof that the registry of Runtimes is exact in peer mode, for any      *)
(* number of links, dialers and faults.  The inductive invariant says what *)
(* peerInstallMu protects: between the tiebreak and RegisterRuntime the    *)
(* holder's link is not registered, and the Runtime that still is has been *)
(* told to stop.                                                           *)
(***************************************************************************)
EXTENDS PeerLinks, TLAPS

\* The types of what the argument is about.
RegistryTypes ==
    /\ end \in [Links -> [Nodes -> Phases]]
    /\ reg \in [Nodes -> Links \cup {None}]
    /\ lock \in [Nodes -> [link : Links \cup {None}, step : {"free", "run", "register"}]]

\* A link whose Runtime has not been started is not registered.
NotYetRegistered ==
    \A l \in Links, n \in Nodes : end[l][n] \in {"hs", "ready", "chosen"} => reg[n] # l

\* The link that won the tiebreak is the one the mutex is held for.
ChosenHoldsLock ==
    \A l \in Links, n \in Nodes :
        end[l][n] = "chosen" => lock[n] = [link |-> l, step |-> "run"]

\* The holder between its tiebreak and Run, and between Run and RegisterRuntime.
HolderPhase ==
    \A n \in Nodes :
        /\ lock[n].step = "free" => lock[n].link = None
        /\ lock[n].step = "run" => lock[n].link \in Links /\ end[lock[n].link][n] = "chosen"
        /\ lock[n].step = "register" =>
              /\ lock[n].link \in Links
              /\ end[lock[n].link][n] \in {"run", "stopping", "stuck", "gone"}
              /\ reg[n] # lock[n].link

\* While the mutex is held, the registered Runtime has been told to stop.
OldOneStopped ==
    \A n \in Nodes : Held(n) /\ reg[n] # None => end[reg[n]][n] # "run"

RegistryInv ==
    /\ RegistryTypes /\ NotYetRegistered /\ ChosenHoldsLock /\ HolderPhase
    /\ OldOneStopped /\ RunningIsRegistered

------------------------------------------------------------------------------
\* The transition relation keeps the types, whoever moves.
LEMMA NextTypeOK == TypeOK /\ [Next]_vars => TypeOK'
<1> SUFFICES ASSUME TypeOK, [Next]_vars PROVE TypeOK'
  OBVIOUS
<1> USE PeerAssumption DEF TypeOK, Phases, Unlocked
<1>1. ASSUME NEW d \in Dialers, OnHello(d) \/ DialerStep(d), UNCHANGED setup
      PROVE  TypeOK'
  <2>1. CASE OnHello(d) \/ DialerLeaves(d) \/ Backoff(d) \/ DialerResumes(d)
    <3>1. /\ \E p \in {"dial", "exit"} : pc' = [pc EXCEPT ![d] = p]
          /\ on' = on \/ on' = [on EXCEPT ![d] = None]
          /\ UNCHANGED <<by, end, ack, broken, silent, faults, reg, lock, cpc, raced>>
      BY <2>1 DEF OnHello, DialerLeaves, Backoff, DialerResumes
    <3>2. pc' \in [Dialers -> {"idle", "dial", "handshake", "wait", "backoff", "exit"}]
      BY <3>1
    <3>3. on' \in [Dialers -> Links \cup {None}]
      BY <3>1
    <3>4. QED
      BY <1>1, <3>1, <3>2, <3>3
  <2>2. CASE DialFails(d)
    BY <1>1, <2>2 DEF DialFails, AfterFailure
  <2>3. ASSUME NEW l \in Links, Dial(d, l)
        PROVE  TypeOK'
    BY <1>1, <2>3 DEF Dial
  <2>4. QED
    BY <1>1, <2>1, <2>2, <2>3 DEF DialerStep
<1>2. ASSUME NEW l \in Links, NEW n \in Nodes, UNCHANGED setup,
             HandshakeStep(l, n) \/ InstallStep(l, n) \/ RuntimeStep(l, n) \/ ReaderStuck(l, n)
      PROVE  TypeOK'
  <2> USE <1>2 DEF DialFailedAt, DialSucceededAt, AfterFailure, AfterSuccess, Retire, Shutdown
  <2>1. CASE ResponderReady(l, n) \/ InitiatorReady(l, n)
    <3>1. /\ end' = [end EXCEPT ![l][n] = "ready"] /\ (ack' = ack \/ ack' = ack \cup {l})
          /\ UNCHANGED <<by, broken, silent, faults, reg, lock, pc, on, cpc, raced>>
      BY <2>1 DEF ResponderReady, InitiatorReady
    <3>2. end' \in [Links -> [Nodes -> Phases]] /\ ack' \subseteq Links
      BY <3>1
    <3>3. QED
      BY <3>1, <3>2
  <2>2. CASE HandshakeFails(l, n)
    BY <2>2 DEF HandshakeFails
  <2>3. CASE InstallLoses(l, n)
    BY <2>3, ZenonT(40) DEF InstallLoses
  <2>4. CASE InstallWins(l, n)
    BY <2>4 DEF InstallWins
  <2>5. CASE InstallRunFails(l, n)
    BY <2>5 DEF InstallRunFails
  <2>6. CASE InstallRun(l, n)
    BY <2>6 DEF InstallRun
  <2>7. CASE InstallRegister(l, n)
    <3>1. /\ reg' = [reg EXCEPT ![n] = l] /\ lock' = [lock EXCEPT ![n] = Unlocked]
          /\ pc' = pc \/ \E p \in {"exit", "wait"} : pc' = [pc EXCEPT ![by[l]] = p]
          /\ on' = on \/ \E k \in Links \cup {None} : on' = [on EXCEPT ![by[l]] = k]
          /\ UNCHANGED <<by, end, ack, broken, silent, faults, cpc, raced>>
      BY <2>7 DEF InstallRegister
    <3>2. pc' \in [Dialers -> {"idle", "dial", "handshake", "wait", "backoff", "exit"}]
      BY <3>1
    <3>3. on' \in [Dialers -> Links \cup {None}]
      BY <3>1
    <3>4. QED
      BY <3>1, <3>2, <3>3
  <2>8. CASE RuntimeDone(l, n)
    BY <2>8 DEF RuntimeDone
  <2>9. CASE RuntimeStops(l, n)
    <3>1. /\ end' = [end EXCEPT ![l][n] = "stopping"]
          /\ UNCHANGED <<by, ack, broken, silent, faults, reg, lock, pc, on, cpc, raced>>
      BY <2>9 DEF RuntimeStops
    <3>2. QED
      BY <3>1
  <2>10. CASE Uninstall(l, n)
    <3>1. /\ reg' = reg \/ reg' = [reg EXCEPT ![n] = None]
          /\ end' = [end EXCEPT ![l][n] = "shut"]
          /\ by' = by \/ by' = [by EXCEPT ![l] = None]
          /\ ack' \subseteq ack /\ broken' \subseteq broken /\ silent' \subseteq silent
          /\ UNCHANGED <<faults, lock, pc, on, cpc, raced>>
      BY <2>10 DEF Uninstall, UnregisterRuntime
    <3>2. /\ reg' \in [Nodes -> Links \cup {None}]
          /\ by' \in [Links -> Dialers \cup {None}]
          /\ end' \in [Links -> [Nodes -> Phases]]
      BY <3>1
    <3>3. QED
      BY <3>1, <3>2
  <2>11. CASE ReaderStuck(l, n)
    <3>1. faults + 1 \in 0..setup.faults
      BY <2>11 DEF ReaderStuck
    <3>2. QED
      BY <2>11, <3>1 DEF ReaderStuck
  <2>12. QED
    BY <2>1, <2>2, <2>3, <2>4, <2>5, <2>6, <2>7, <2>8, <2>9, <2>10, <2>11
    DEF HandshakeStep, InstallStep, RuntimeStep
<1>3. ASSUME NEW n \in Nodes, CloseState(n) \/ CloseStep(n), UNCHANGED setup
      PROVE  TypeOK'
  <2>1. CASE CloseState(n) \/ CloseReturn(n)
    BY <1>3, <2>1 DEF CloseState, CloseReturn
  <2>2. CASE CloseRuntimes(n)
    <3>1. CASE end' = end
      BY <1>3, <2>2, <3>1 DEF CloseRuntimes
    <3>2. CASE reg[n] \in Links /\ end' = [end EXCEPT ![reg[n]][n] = "stopping"]
      <4>1. end' \in [Links -> [Nodes -> Phases]]
        BY <3>2
      <4>2. QED
        BY <1>3, <2>2, <4>1 DEF CloseRuntimes
    <3>3. QED
      BY <2>2, <3>1, <3>2 DEF CloseRuntimes, Shutdown
  <2>3. QED
    BY <1>3, <2>1, <2>2 DEF CloseStep
<1>4. ASSUME NEW l \in Links, LoseLink(l) \/ LinkSilent(l), UNCHANGED setup
      PROVE  TypeOK'
  <2>1. setup.faults \in Nat
    OBVIOUS
  <2>2. faults + 1 \in 0..setup.faults
    BY <1>4, <2>1 DEF LoseLink, LinkSilent
  <2>3. QED
    BY <1>4, <2>2 DEF LoseLink, LinkSilent
<1>5. CASE UNCHANGED vars
  BY <1>5 DEF vars
<1>6. QED
  BY <1>1, <1>2, <1>3, <1>4, <1>5 DEF Next

\* Every dialer, link end, registry entry and mutex of peer mode keeps its type.
THEOREM TypeCorrect == Spec => []TypeOK
<1>1. Init => TypeOK
  BY PeerAssumption DEF Init, TypeOK, Phases, Unlocked, OneShot
<1>2. QED
  BY <1>1, NextTypeOK, PTL DEF Spec

------------------------------------------------------------------------------
\* openPeer starts without a link and without a Runtime.
LEMMA InitRegistryInv == Init => RegistryInv
  BY PeerAssumption
  DEF Init, RegistryInv, RegistryTypes, NotYetRegistered, ChosenHoldsLock, HolderPhase,
      OldOneStopped, RunningIsRegistered, Held, Unlocked, Phases

\* Dialling and handshakes touch only links that are not registered.
LEMMA DialStep ==
    ASSUME RegistryInv, NEW d \in Dialers, OnHello(d) \/ DialerStep(d)
    PROVE  RegistryInv'
<1> USE PeerAssumption
    DEF RegistryInv, RegistryTypes, NotYetRegistered, ChosenHoldsLock, HolderPhase,
        OldOneStopped, RunningIsRegistered, Held, Unlocked, Phases
<1>1. CASE OnHello(d) \/ DialerLeaves(d) \/ DialFails(d) \/ Backoff(d) \/ DialerResumes(d)
  <2>1. UNCHANGED <<end, reg, lock>>
    BY <1>1 DEF OnHello, DialerLeaves, DialFails, Backoff, DialerResumes
  <2>2. QED
    BY <2>1
<1>2. CASE \E l \in Links : Dial(d, l)
  <2>1. PICK l \in Links : Dial(d, l)
    BY <1>2
  <2>2. /\ end' = [end EXCEPT ![l] = [n \in Nodes |-> "hs"]]
        /\ UNCHANGED <<reg, lock>>
        /\ \A n \in Nodes : end[l][n] = "shut" /\ reg[n] # l
    BY <2>1 DEF Dial, Free
  <2>3. QED
    BY <2>2
<1>3. QED
  BY <1>1, <1>2 DEF DialerStep

\* A handshake moves an end that is not registered and holds no mutex.
LEMMA HandshakeInv ==
    ASSUME RegistryInv, NEW l \in Links, NEW n \in Nodes, HandshakeStep(l, n)
    PROVE  RegistryInv'
<1>1. /\ end[l][n] = "hs"
      /\ \E p \in {"ready", "shut"} : end' = [end EXCEPT ![l][n] = p]
      /\ UNCHANGED <<reg, lock>>
  BY DEF HandshakeStep, ResponderReady, InitiatorReady, HandshakeFails
<1>2. QED
  BY <1>1 DEF RegistryInv, RegistryTypes, NotYetRegistered, ChosenHoldsLock, HolderPhase,
              OldOneStopped, RunningIsRegistered, Held, Unlocked, Phases

\* startRuntimeForPeer keeps the registry exact, one link at a time.
LEMMA InstallInv ==
    ASSUME RegistryInv, NEW l \in Links, NEW n \in Nodes, InstallStep(l, n)
    PROVE  RegistryInv'
<1> USE PeerAssumption
    DEF RegistryInv, RegistryTypes, NotYetRegistered, ChosenHoldsLock, HolderPhase,
        OldOneStopped, RunningIsRegistered, Held, Unlocked, Phases
<1>1. CASE InstallLoses(l, n)
  BY <1>1 DEF InstallLoses
<1>2. CASE InstallWins(l, n)
  <2>1. CASE reg[n] = None
    BY <1>2, <2>1 DEF InstallWins
  <2>2. CASE reg[n] # None
    <3>1. reg[n] \in Links /\ reg[n] # l
      BY <1>2, <2>2 DEF InstallWins
    <3>2. end' = Shutdown([end EXCEPT ![l][n] = "chosen"], reg[n], n)
      BY <1>2, <2>2 DEF InstallWins
    <3>3. /\ end'[l][n] = "chosen"
          /\ end'[reg[n]][n] = IF end[reg[n]][n] = "run" THEN "stopping" ELSE end[reg[n]][n]
          /\ \A k \in Links, m \in Nodes :
                ~(m = n /\ k \in {l, reg[n]}) => end'[k][m] = end[k][m]
          /\ end' \in [Links -> [Nodes -> Phases]]
      BY <3>1, <3>2 DEF Shutdown
    <3>4. /\ lock' = [lock EXCEPT ![n] = [link |-> l, step |-> "run"]]
          /\ end[l][n] = "ready" /\ lock[n] = [link |-> None, step |-> "free"]
          /\ UNCHANGED reg
      BY <1>2 DEF InstallWins
    <3>5. RegistryTypes'
      BY <3>1, <3>3, <3>4
    <3>6. NotYetRegistered'
      BY <3>1, <3>3, <3>4, ZenonT(40)
    <3>7. ChosenHoldsLock'
      <4> SUFFICES ASSUME NEW k \in Links, NEW m \in Nodes, end'[k][m] = "chosen"
                   PROVE  lock'[m] = [link |-> k, step |-> "run"]
        OBVIOUS
      <4>1. CASE m # n
        BY <3>3, <3>4, <4>1
      <4>2. CASE m = n /\ k = l
        BY <3>4, <4>2
      <4>3. CASE m = n /\ k # l
        <5>1. end[k][n] = "chosen"
          BY <3>1, <3>3, <4>3
        <5>2. lock[n].step = "run"
          BY <5>1
        <5>3. QED
          BY <5>2, <3>4
      <4>4. QED
        BY <4>1, <4>2, <4>3
    <3>8. HolderPhase'
      BY <3>1, <3>3, <3>4
    <3>9. OldOneStopped'
      BY <3>1, <3>3, <3>4
    <3>10. RunningIsRegistered'
      <4> SUFFICES ASSUME NEW k \in Links, NEW m \in Nodes, end'[k][m] = "run"
                   PROVE  reg'[m] = k \/ lock'[m] = [link |-> k, step |-> "register"]
        OBVIOUS
      <4>1. CASE m # n
        BY <3>3, <3>4, <4>1
      <4>2. CASE m = n
        <5>1. k # l /\ k # reg[n] /\ end[k][n] = "run"
          BY <3>1, <3>3, <4>2
        <5>2. lock[n].step = "register"
          BY <5>1
        <5>3. QED
          BY <5>2, <3>4
      <4>3. QED
        BY <4>1, <4>2
    <3>11. QED
      BY <3>5, <3>6, <3>7, <3>8, <3>9, <3>10
  <2>3. QED
    BY <2>1, <2>2
<1>3. CASE InstallRunFails(l, n)
  BY <1>3 DEF InstallRunFails
<1>4. CASE InstallRun(l, n)
  BY <1>4 DEF InstallRun
<1>5. CASE InstallRegister(l, n)
  <2>1. /\ lock[n] = [link |-> l, step |-> "register"]
        /\ lock[n].link = l /\ lock[n].step = "register"
        /\ reg' = [reg EXCEPT ![n] = l]
        /\ lock' = [lock EXCEPT ![n] = [link |-> None, step |-> "free"]]
        /\ UNCHANGED end
    BY <1>5 DEF InstallRegister
  <2>2. end[l][n] \in {"run", "stopping", "stuck", "gone"} /\ lock[n] # [link |-> None, step |-> "free"]
    BY <2>1
  <2>3. RegistryTypes' /\ NotYetRegistered'
    BY <2>1, <2>2
  <2>4. ChosenHoldsLock'
    <3> SUFFICES ASSUME NEW k \in Links, NEW m \in Nodes, end[k][m] = "chosen"
                 PROVE  lock'[m] = [link |-> k, step |-> "run"]
      BY <2>1
    <3>1. lock[m] = [link |-> k, step |-> "run"] /\ lock[m].step = "run"
      OBVIOUS
    <3>2. m # n
      BY <2>1, <3>1
    <3>3. QED
      BY <2>1, <3>1, <3>2
  <2>5. HolderPhase' /\ OldOneStopped'
    BY <2>1, <2>2
  <2>6. RunningIsRegistered'
    <3> SUFFICES ASSUME NEW k \in Links, NEW m \in Nodes, end[k][m] = "run"
                 PROVE  reg'[m] = k \/ lock'[m] = [link |-> k, step |-> "register"]
      BY <2>1
    <3>1. CASE m # n
      BY <2>1, <3>1
    <3>2. CASE m = n
      <4>1. reg[n] # k
        BY <2>2, <3>2
      <4>2. lock[n].link = k
        BY <3>2, <4>1
      <4>3. QED
        BY <2>1, <3>2, <4>2
    <3>3. QED
      BY <3>1, <3>2
  <2>7. QED
    BY <2>3, <2>4, <2>5, <2>6
<1>6. QED
  BY <1>1, <1>2, <1>3, <1>4, <1>5 DEF InstallStep

\* A Runtime that ends, and its watcher, never touch the entry of a successor.
LEMMA RuntimeInv ==
    ASSUME RegistryInv, NEW l \in Links, NEW n \in Nodes, RuntimeStep(l, n) \/ ReaderStuck(l, n)
    PROVE  RegistryInv'
<1> USE PeerAssumption
    DEF RegistryInv, RegistryTypes, NotYetRegistered, ChosenHoldsLock, HolderPhase,
        OldOneStopped, RunningIsRegistered, Held, Unlocked, Phases
<1>1. CASE RuntimeStops(l, n)
  BY <1>1 DEF RuntimeStops, Shutdown
<1>2. CASE RuntimeDone(l, n)
  BY <1>2 DEF RuntimeDone
<1>3. CASE Uninstall(l, n)
  BY <1>3 DEF Uninstall, UnregisterRuntime
<1>4. CASE ReaderStuck(l, n)
  BY <1>4 DEF ReaderStuck
<1>5. QED
  BY <1>1, <1>2, <1>3, <1>4 DEF RuntimeStep

\* Close stops the registered Runtime and changes no entry.
LEMMA CloseInv ==
    ASSUME RegistryInv, NEW n \in Nodes, CloseState(n) \/ CloseStep(n)
    PROVE  RegistryInv'
<1> USE PeerAssumption
    DEF RegistryInv, RegistryTypes, NotYetRegistered, ChosenHoldsLock, HolderPhase,
        OldOneStopped, RunningIsRegistered, Held, Unlocked, Phases
<1>1. CASE CloseState(n) \/ CloseReturn(n)
  <2>1. UNCHANGED <<end, reg, lock>>
    BY <1>1 DEF CloseState, CloseReturn
  <2>2. QED
    BY <2>1
<1>2. CASE CloseRuntimes(n)
  BY <1>2 DEF CloseRuntimes, Shutdown
<1>3. QED
  BY <1>1, <1>2 DEF CloseStep

\* Every step of dialers, links, Runtimes and Close keeps the invariant.
LEMMA NextRegistryInv == RegistryInv /\ [Next]_vars => RegistryInv'
<1> SUFFICES ASSUME RegistryInv, [Next]_vars PROVE RegistryInv'
  OBVIOUS
<1>1. CASE \E d \in Dialers : OnHello(d) \/ DialerStep(d)
  BY <1>1, DialStep
<1>2. CASE \E l \in Links, n \in Nodes :
              \/ HandshakeStep(l, n) \/ InstallStep(l, n) \/ RuntimeStep(l, n)
              \/ ReaderStuck(l, n)
  BY <1>2, HandshakeInv, InstallInv, RuntimeInv
<1>3. CASE \E n \in Nodes : CloseState(n) \/ CloseStep(n)
  BY <1>3, CloseInv
<1>4. CASE (\E l \in Links : LoseLink(l) \/ LinkSilent(l)) \/ UNCHANGED vars
  <2>1. UNCHANGED <<end, reg, lock>>
    BY <1>4 DEF LoseLink, LinkSilent, vars
  <2>2. QED
    BY <2>1 DEF RegistryInv, RegistryTypes, NotYetRegistered, ChosenHoldsLock, HolderPhase,
                OldOneStopped, RunningIsRegistered, Held, Unlocked
<1>5. QED
  BY <1>1, <1>2, <1>3, <1>4 DEF Next

\* The registry of Runtimes is exact, whatever dials, accepts, faults and Close
\* interleave: startRuntimeForPeer never runs two Runtimes for a peer, and Put
\* and Close find the one that runs.
THEOREM RegistryExactHolds == Spec => []RegistryExact
<1>1. RegistryInv => RegistryExact
  <2> SUFFICES ASSUME RegistryInv PROVE OneRuntimePerPeer
    BY DEF RegistryInv, RegistryExact
  <2> SUFFICES ASSUME NEW n \in Nodes, NEW k \in Links, NEW l \in Links,
                      end[k][n] = "run", end[l][n] = "run"
               PROVE  k = l
    BY DEF OneRuntimePerPeer
  <2>1. CASE Held(n)
    <3>1. reg[n] # k /\ reg[n] # l
      BY <2>1, PeerAssumption DEF RegistryInv, OldOneStopped
    <3>2. lock[n] = [link |-> k, step |-> "register"] /\ lock[n] = [link |-> l, step |-> "register"]
      BY <3>1 DEF RegistryInv, RunningIsRegistered
    <3>3. QED
      BY <3>2
  <2>2. CASE ~Held(n)
    <3>1. lock[n].step = "free"
      BY <2>2 DEF Held, Unlocked
    <3>2. /\ reg[n] = k \/ lock[n] = [link |-> k, step |-> "register"]
          /\ reg[n] = l \/ lock[n] = [link |-> l, step |-> "register"]
      BY DEF RegistryInv, RunningIsRegistered
    <3>3. QED
      BY <3>1, <3>2
  <2>3. QED
    BY <2>1, <2>2
<1>2. QED
  BY <1>1, InitRegistryInv, NextRegistryInv, PTL DEF Spec
=============================================================================
