----------------------------- MODULE PeerLinks -----------------------------
(***************************************************************************)
(* Peer mode (zenoh/session_peer.go): two sessions that listen, dial each  *)
(* other from configured endpoints and from scouting, and settle which of  *)
(* several links between them survives.                                    *)
(*                                                                         *)
(* A link has two ends.  An end goes through                               *)
(*   hs -> ready -> chosen -> run -> stopping -> gone -> shut              *)
(* hs: handshake under way; ready: handshake result at hand, waiting for   *)
(* peerInstallMu; chosen: won the tiebreak; run, stopping, gone: the       *)
(* phases of its Runtime (RuntimeContract), gone with its teardown watcher *)
(* still to act; shut: nothing left; stuck: a Runtime whose reader never   *)
(* comes back.  Shutdown closes the link first, so an end is open at the   *)
(* transport exactly in hs, ready, chosen and run.                         *)
(***************************************************************************)
EXTENDS Naturals

CONSTANTS Lower, Higher,   \* the two nodes; Lower has the smaller ZenohID
          Links,           \* slots for links, reused once both ends are shut
          Dialers,         \* goroutines that dial
          Owner,           \* the node each dialer belongs to
          Setups,          \* what the sessions' configurations and the network are
          Closers,         \* the nodes whose application calls Session.Close
          None

Nodes == {Lower, Higher}
Peer(n) == IF n = Lower THEN Higher ELSE Lower

ASSUME PeerAssumption ==
    /\ Lower # Higher
    /\ Owner \in [Dialers -> Nodes]
    /\ \A u \in Setups : u.oneShot \subseteq Dialers /\ u.faults \in Nat
    /\ Closers \subseteq Nodes
    /\ None \notin Links \cup Dialers

VARIABLES
    setup,    \* setup.oneShot: the dialers that a HELLO starts (dialDiscoveredPeer);
              \* setup.faults: bound on the faults
    by,       \* by[l]: the dialer that made the link of slot l
    end,      \* end[l][n]: phase of n's end
    ack,      \* the links whose responder has sent OPEN ACK
    broken,   \* the links the network has dropped
    silent,   \* the links on which nothing comes through any more
    faults,   \* how many of all these, and of stuck readers, there were
    reg,      \* reg[n]: link of the Runtime registered for the peer, or None
    lock,     \* lock[n]: holder of peerInstallMu and its next step
    pc,       \* pc[d]: place of dialer d
    on,       \* on[d]: the link whose Runtime d watches, or None
    cpc,      \* cpc[n]: place of Session.Close
    raced     \* the nodes whose Close met a Runtime started and not yet registered

vars == <<setup, by, end, ack, broken, silent, faults, reg, lock, pc, on, cpc, raced>>

Phases == {"hs", "ready", "chosen", "run", "stopping", "stuck", "gone", "shut"}
Open(l, n) == end[l][n] \in {"hs", "ready", "chosen", "run"}
Initiator(l) == Owner[by[l]]
IsClosed(n) == cpc[n] # "open"
OneShot == setup.oneShot
Unlocked == [link |-> None, step |-> "free"]

TypeOK ==
    /\ setup \in Setups
    /\ by \in [Links -> Dialers \cup {None}]
    /\ end \in [Links -> [Nodes -> Phases]]
    /\ ack \subseteq Links /\ broken \subseteq Links /\ silent \subseteq Links
    /\ faults \in 0..setup.faults
    /\ reg \in [Nodes -> Links \cup {None}]
    /\ lock \in [Nodes -> [link : Links \cup {None}, step : {"free", "run", "register"}]]
    /\ pc \in [Dialers -> {"idle", "dial", "handshake", "wait", "backoff", "exit"}]
    /\ on \in [Dialers -> Links \cup {None}]
    /\ cpc \in [Nodes -> {"open", "runtimes", "wait", "done"}]
    /\ raced \subseteq Nodes

\* openPeer: the listeners are bound, the dial loops started, scouting waits
\* for a first HELLO.
Init ==
    /\ setup \in Setups
    /\ by = [l \in Links |-> None]
    /\ end = [l \in Links |-> [n \in Nodes |-> "shut"]]
    /\ ack = {} /\ broken = {} /\ silent = {} /\ faults = 0
    /\ reg = [n \in Nodes |-> None]
    /\ lock = [n \in Nodes |-> Unlocked]
    /\ pc = [d \in Dialers |-> IF d \in OneShot THEN "idle" ELSE "dial"]
    /\ on = [d \in Dialers |-> None]
    /\ cpc = [n \in Nodes |-> "open"]
    /\ raced = {}

------------------------------------------------------------------------------
(* The tiebreak.                                                           *)

\* Mutant of IsCanonicalLink: an existing link always wins.
IsCanonicalNever(n, isInitiator) == FALSE

\* isCanonicalLink: the survivor is the link whose initiator is smaller.
IsCanonicalLink(n, isInitiator) == IF isInitiator THEN n = Lower ELSE n # Lower

\* Runtime.Shutdown of the Runtime at n's end of l; idempotent.
Shutdown(e, l, n) == IF e[l][n] = "run" THEN [e EXCEPT ![l][n] = "stopping"] ELSE e

\* Mutant of UnregisterRuntime: the entry is removed whoever owns it.
UnregisterAny(n, l) == [reg EXCEPT ![n] = None]

\* UnregisterRuntime: only if the entry is still this Runtime's.
UnregisterRuntime(n, l) == IF reg[n] = l THEN [reg EXCEPT ![n] = None] ELSE reg

\* A failed attempt: the loop backs off, a one-shot dial has no other locator.
AfterFailure(d) == IF d \in OneShot THEN "exit" ELSE "backoff"
\* A one-shot dial returns on success, a loop waits for the Runtime's Done.
AfterSuccess(d) == IF d \in OneShot THEN "exit" ELSE "wait"

\* n's end of l is gone for good; with the second end the slot is forgotten.
Retire(l, n) ==
    IF end[l][Peer(n)] = "shut"
    THEN /\ by' = [by EXCEPT ![l] = None]
         /\ ack' = ack \ {l} /\ broken' = broken \ {l} /\ silent' = silent \ {l}
    ELSE UNCHANGED <<by, ack, broken, silent>>

\* The dialer of l, when n is the side that dialled, learns how it ended.
DialFailedAt(l, n) ==
    IF Initiator(l) = n
    THEN /\ pc' = [pc EXCEPT ![by[l]] = AfterFailure(by[l])]
         /\ UNCHANGED on
    ELSE UNCHANGED <<pc, on>>
DialSucceededAt(l, n, rt) ==
    IF Initiator(l) = n
    THEN /\ pc' = [pc EXCEPT ![by[l]] = AfterSuccess(by[l])]
         /\ on' = [on EXCEPT ![by[l]] = IF by[l] \in OneShot THEN None ELSE rt]
    ELSE UNCHANGED <<pc, on>>

------------------------------------------------------------------------------
(* Dialling.                                                               *)

\* onHello, once per peer (the dispatcher of scout.Run delivers a ZenohID only
\* once): no Runtime for the peer yet, so dialDiscoveredPeer is spawned.
OnHello(d) ==
    /\ d \in OneShot /\ pc[d] = "idle"
    /\ ~IsClosed(Owner[d])
    /\ pc' = [pc EXCEPT ![d] = IF reg[Owner[d]] = None THEN "dial" ELSE "exit"]
    /\ UNCHANGED <<by, end, ack, broken, silent, faults, reg, lock, on, cpc, raced>>

\* The top of runOutboundLoop and of dialDiscoveredPeer's loop: closeCtx, and
\* for a one-shot dial a Runtime that another direction has made meanwhile.
DialerLeaves(d) ==
    /\ pc[d] = "dial"
    /\ IsClosed(Owner[d]) \/ (d \in OneShot /\ reg[Owner[d]] # None)
    /\ pc' = [pc EXCEPT ![d] = "exit"]
    /\ UNCHANGED <<by, end, ack, broken, silent, faults, reg, lock, on, cpc, raced>>

Free(l) == /\ \A n \in Nodes : end[l][n] = "shut" /\ reg[n] # l
           /\ \A d \in Dialers : on[d] # l

\* DialOne and BeginHandshake; at the other side runAcceptLoop hands the link
\* to handleAccepted, which has passed BeginHandshake too.
Dial(d, l) ==
    /\ pc[d] = "dial" /\ ~IsClosed(Owner[d]) /\ ~IsClosed(Peer(Owner[d]))
    /\ d \in OneShot => reg[Owner[d]] = None
    /\ Free(l) /\ l = CHOOSE k \in Links : Free(k)
    /\ by' = [by EXCEPT ![l] = d]
    /\ end' = [end EXCEPT ![l] = [n \in Nodes |-> "hs"]]
    /\ pc' = [pc EXCEPT ![d] = "handshake"]
    /\ UNCHANGED <<ack, broken, silent, faults, reg, lock, on, cpc, raced>>

\* DialOne refused: the peer no longer listens.
DialFails(d) ==
    /\ pc[d] = "dial" /\ ~IsClosed(Owner[d]) /\ IsClosed(Peer(Owner[d]))
    /\ pc' = [pc EXCEPT ![d] = AfterFailure(d)]
    /\ UNCHANGED <<by, end, ack, broken, silent, faults, reg, lock, on, cpc, raced>>

\* The backoff timer, or closeCtx.
Backoff(d) ==
    /\ pc[d] = "backoff"
    /\ pc' = [pc EXCEPT ![d] = IF IsClosed(Owner[d]) THEN "exit" ELSE "dial"]
    /\ UNCHANGED <<by, end, ack, broken, silent, faults, reg, lock, on, cpc, raced>>

\* <-rt.Done(), then closeCtx.
DialerResumes(d) ==
    /\ pc[d] = "wait" /\ end[on[d]][Owner[d]] \in {"gone", "shut"}
    /\ pc' = [pc EXCEPT ![d] = IF IsClosed(Owner[d]) THEN "exit" ELSE "dial"]
    /\ on' = [on EXCEPT ![d] = None]
    /\ UNCHANGED <<by, end, ack, broken, silent, faults, reg, lock, cpc, raced>>

------------------------------------------------------------------------------
(* Handshakes (module Handshake has their messages). Neither side of one    *)
(* has a deadline or a context: on a silent link it does not end.          *)

\* DoHandshakeResponder returns once OPEN ACK is written.
ResponderReady(l, n) ==
    /\ end[l][n] = "hs" /\ Initiator(l) # n
    /\ end[l][Peer(n)] = "hs" /\ l \notin broken \cup silent
    /\ end' = [end EXCEPT ![l][n] = "ready"]
    /\ ack' = ack \cup {l}
    /\ UNCHANGED <<by, broken, silent, faults, reg, lock, pc, on, cpc, raced>>

\* DoHandshake returns once OPEN ACK is read; it may be read although the
\* responder has closed its end since.
InitiatorReady(l, n) ==
    /\ end[l][n] = "hs" /\ Initiator(l) = n /\ l \in ack \ silent
    /\ end' = [end EXCEPT ![l][n] = "ready"]
    /\ UNCHANGED <<by, ack, broken, silent, faults, reg, lock, pc, on, cpc, raced>>

\* A read or write of the handshake fails: the connection is lost or the other
\* side gave up.  The link is closed.
HandshakeFails(l, n) ==
    /\ end[l][n] = "hs" /\ l \notin silent
    /\ l \in broken \/ (~Open(l, Peer(n)) /\ (Initiator(l) = n => l \notin ack))
    /\ end' = [end EXCEPT ![l][n] = "shut"]
    /\ DialFailedAt(l, n)
    /\ Retire(l, n)
    /\ UNCHANGED <<faults, reg, lock, cpc, raced>>

------------------------------------------------------------------------------
(* startRuntimeForPeer, under peerInstallMu.                               *)

\* Somebody holds the mutex.
Held(n) == lock[n] # Unlocked

\* Existing wins: close our link, hand the surviving Runtime back.
InstallLoses(l, n) ==
    /\ end[l][n] = "ready" /\ ~Held(n)
    /\ reg[n] # None /\ ~IsCanonicalLink(n, Initiator(l) = n)
    /\ end' = [end EXCEPT ![l][n] = "shut"]
    /\ DialSucceededAt(l, n, reg[n])
    /\ Retire(l, n)
    /\ UNCHANGED <<faults, reg, lock, cpc, raced>>

\* No existing Runtime, or the new link wins and the existing one is shut down.
InstallWins(l, n) ==
    /\ end[l][n] = "ready" /\ ~Held(n)
    /\ reg[n] # None => IsCanonicalLink(n, Initiator(l) = n)
    /\ lock' = [lock EXCEPT ![n] = [link |-> l, step |-> "run"]]
    /\ end' = LET e == [end EXCEPT ![l][n] = "chosen"]
              IN  IF reg[n] = None THEN e ELSE Shutdown(e, reg[n], n)
    /\ UNCHANGED <<by, ack, broken, silent, faults, reg, pc, on, cpc, raced>>

\* Run refuses a closed session.
InstallRunFails(l, n) ==
    /\ lock[n] = [link |-> l, step |-> "run"] /\ IsClosed(n)
    /\ end' = [end EXCEPT ![l][n] = "shut"]
    /\ lock' = [lock EXCEPT ![n] = Unlocked]
    /\ DialFailedAt(l, n)
    /\ Retire(l, n)
    /\ UNCHANGED <<faults, reg, cpc, raced>>

\* Mutant of InstallRun: a closed session starts one.
InstallRunUnchecked(l, n) ==
    /\ lock[n] = [link |-> l, step |-> "run"]
    /\ end' = [end EXCEPT ![l][n] = "run"]
    /\ lock' = [lock EXCEPT ![n].step = "register"]
    /\ UNCHANGED <<by, ack, broken, silent, faults, reg, pc, on, cpc, raced>>

\* Run in multi-runtime mode: any state but Closed.
InstallRun(l, n) ==
    /\ lock[n] = [link |-> l, step |-> "run"] /\ ~IsClosed(n)
    /\ end' = [end EXCEPT ![l][n] = "run"]
    /\ lock' = [lock EXCEPT ![n].step = "register"]
    /\ UNCHANGED <<by, ack, broken, silent, faults, reg, pc, on, cpc, raced>>

\* RegisterRuntime, replay, the teardown watcher, unlock.
InstallRegister(l, n) ==
    /\ lock[n] = [link |-> l, step |-> "register"]
    /\ reg' = [reg EXCEPT ![n] = l]
    /\ lock' = [lock EXCEPT ![n] = Unlocked]
    /\ DialSucceededAt(l, n, l)
    /\ UNCHANGED <<by, end, ack, broken, silent, faults, cpc, raced>>

------------------------------------------------------------------------------
(* Runtimes and their watchers.                                            *)

\* The reader meets EOF or the lease watchdog fires.
RuntimeStops(l, n) ==
    /\ end[l][n] = "run" /\ (l \in broken \cup silent \/ ~Open(l, Peer(n)))
    /\ end' = Shutdown(end, l, n)
    /\ UNCHANGED <<by, ack, broken, silent, faults, reg, lock, pc, on, cpc, raced>>

RuntimeDone(l, n) ==
    /\ end[l][n] = "stopping"
    /\ end' = [end EXCEPT ![l][n] = "gone"]
    /\ UNCHANGED <<by, ack, broken, silent, faults, reg, lock, pc, on, cpc, raced>>

\* The reader of a Runtime that stops waits for good, as in module Runtime: Done()
\* never closes.
ReaderStuck(l, n) ==
    /\ end[l][n] = "stopping" /\ faults < setup.faults
    /\ end' = [end EXCEPT ![l][n] = "stuck"]
    /\ faults' = faults + 1
    /\ UNCHANGED <<by, ack, broken, silent, reg, lock, pc, on, cpc, raced>>

\* The watcher of startRuntimeForPeer: uninstallRuntime.
Uninstall(l, n) ==
    /\ end[l][n] = "gone" /\ lock[n].link # l
    /\ end' = [end EXCEPT ![l][n] = "shut"]
    /\ reg' = UnregisterRuntime(n, l)
    /\ Retire(l, n)
    /\ UNCHANGED <<faults, lock, pc, on, cpc, raced>>

\* The network drops a connection; each side notices in its own time.
LoseLink(l) ==
    /\ faults < setup.faults /\ l \notin broken
    /\ \A n \in Nodes : Open(l, n)
    /\ broken' = broken \cup {l} /\ faults' = faults + 1
    /\ UNCHANGED <<by, end, ack, silent, reg, lock, pc, on, cpc, raced>>

\* A node hangs, or the network swallows a connection's packets without closing
\* it. Only the lease of an established link finds out.
LinkSilent(l) ==
    /\ faults < setup.faults /\ l \notin broken \cup silent
    /\ \A n \in Nodes : Open(l, n)
    /\ silent' = silent \cup {l} /\ faults' = faults + 1
    /\ UNCHANGED <<by, end, ack, broken, reg, lock, pc, on, cpc, raced>>

------------------------------------------------------------------------------
(* Session.Close in peer mode.                                             *)

\* inner.Close: no handshake begins and no Runtime starts from here on.
CloseState(n) ==
    /\ n \in Closers /\ cpc[n] = "open"
    /\ cpc' = [cpc EXCEPT ![n] = "runtimes"]
    /\ UNCHANGED <<by, end, ack, broken, silent, faults, reg, lock, pc, on, raced>>

\* ForEachRuntime(GracefulShutdown), closeAllListeners.
CloseRuntimes(n) ==
    /\ cpc[n] = "runtimes"
    /\ end' = IF reg[n] = None THEN end ELSE Shutdown(end, reg[n], n)
    /\ cpc' = [cpc EXCEPT ![n] = "wait"]
    /\ raced' = IF lock[n].step = "register" THEN raced \cup {n} ELSE raced
    /\ UNCHANGED <<by, ack, broken, silent, faults, reg, lock, pc, on>>

\* The goroutines that peerWG counts.
Quiet(n) ==
    /\ \A d \in Dialers : Owner[d] = n => pc[d] \in {"idle", "exit"}
    /\ \A l \in Links : end[l][n] = "shut"

\* runPeerSupervisor: peerWG.Wait, close(done), Close returns.
CloseReturn(n) ==
    /\ cpc[n] = "wait" /\ Quiet(n)
    /\ cpc' = [cpc EXCEPT ![n] = "done"]
    /\ UNCHANGED <<by, end, ack, broken, silent, faults, reg, lock, pc, on, raced>>

------------------------------------------------------------------------------
DialerStep(d) ==
    \/ DialerLeaves(d) \/ DialFails(d) \/ Backoff(d) \/ DialerResumes(d)
    \/ \E l \in Links : Dial(d, l)
HandshakeStep(l, n) == ResponderReady(l, n) \/ InitiatorReady(l, n) \/ HandshakeFails(l, n)
InstallStep(l, n) ==
    \/ InstallLoses(l, n) \/ InstallWins(l, n)
    \/ InstallRunFails(l, n) \/ InstallRun(l, n) \/ InstallRegister(l, n)
RuntimeStep(l, n) == RuntimeStops(l, n) \/ RuntimeDone(l, n) \/ Uninstall(l, n)
CloseStep(n) == CloseRuntimes(n) \/ CloseReturn(n)

Next ==
    /\ \/ \E d \in Dialers : OnHello(d) \/ DialerStep(d)
       \/ \E l \in Links, n \in Nodes :
             \/ HandshakeStep(l, n) \/ InstallStep(l, n) \/ RuntimeStep(l, n)
             \/ ReaderStuck(l, n)
       \/ \E l \in Links : LoseLink(l) \/ LinkSilent(l)
       \/ \E n \in Nodes : CloseState(n) \/ CloseStep(n)
    /\ UNCHANGED setup

\* Every goroutine that can step does, and a sync.Mutex in its starvation mode
\* serves who waits for it; HELLOs, faults and Close are free. A handshake ends
\* and a Runtime that stops is done unless a fault keeps it.
Fairness ==
    /\ \A d \in Dialers : WF_vars(DialerStep(d) /\ UNCHANGED setup)
    /\ \A l \in Links, n \in Nodes :
          /\ WF_vars(HandshakeStep(l, n) /\ UNCHANGED setup)
          /\ SF_vars(InstallStep(l, n) /\ UNCHANGED setup)
          /\ WF_vars(RuntimeStep(l, n) /\ UNCHANGED setup)
    /\ \A n \in Nodes : WF_vars(CloseStep(n) /\ UNCHANGED setup)

Spec == Init /\ [][Next]_vars /\ Fairness

------------------------------------------------------------------------------
(* Properties.                                                             *)

\* A node never runs two Runtimes for its peer: the existing one is shut down
\* before its successor is started, and peerInstallMu keeps two installs apart
\* (zenoh/session_peer.go:368-388).
OneRuntimePerPeer ==
    \A n \in Nodes, k, l \in Links : end[k][n] = "run" /\ end[l][n] = "run" => k = l

\* A Runtime that runs is the registered one, except while it is being
\* installed: Put and Close reach every live link, and the late teardown of a
\* replaced Runtime does not unregister its successor
\* (internal/session/session.go:137-147).
RunningIsRegistered ==
    \A l \in Links, n \in Nodes :
        end[l][n] = "run" => reg[n] = l \/ lock[n] = [link |-> l, step |-> "register"]

\* The registry of Runtimes is exact: one live Runtime per peer and that one is
\* registered (zenoh/session_peer.go:364-415).
RegistryExact == OneRuntimePerPeer /\ RunningIsRegistered

\* Both ends run the same, intact link.
Linked == \E l \in Links : /\ l \notin broken \cup silent
                           /\ \A n \in Nodes : reg[n] = l /\ end[l][n] = "run"

\* A tiebreak at n is about to be decided against a Runtime that has stopped
\* and that its watcher has not unregistered yet.
StaleTiebreak(n) ==
    reg[n] # None /\ end[reg[n]][n] # "run" /\ \E l \in Links : end[l][n] = "ready"

\* A goroutine of n waits for ever: a handshake on a silent link, which has no
\* deadline (internal/session/handshake.go:68), or the reader of a Runtime.
Hung(n) == \E l \in Links : (end[l][n] = "hs" /\ l \in silent) \/ end[l][n] = "stuck"

\* However the dials of both sides, a HELLO and a lost or silent connection
\* interleave, two open peers settle on one link and keep it
\* (zenoh/session_peer.go:356-363: "both sides reach the same decision"), unless
\* a handshake or a reader hangs. The other exception is a schedule in which
\* watchers lose for ever the race against the redials: each new link then meets
\* the dead Runtime of the one before, first at one side and then at the other.
PeersConverge ==
    \/ <>[](Linked \/ \E n \in Nodes : IsClosed(n) \/ Hung(n))
    \/ []<>(\E n \in Nodes : StaleTiebreak(n))

\* Close returns, with three exceptions: it misses a Runtime that was started
\* before the session was closed and registered after ForEachRuntime; a peer has
\* gone silent in the middle of a handshake, which peerWG counts and nothing ends;
\* or a reader is stuck.
PeerCloseReturns ==
    \A n \in Nodes : (cpc[n] = "runtimes") ~> (cpc[n] = "done" \/ n \in raced \/ Hung(n))
=============================================================================
