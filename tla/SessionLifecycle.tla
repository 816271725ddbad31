-------------------------- MODULE SessionLifecycle --------------------------
(***************************************************************************)
(* The lifecycle of a client-mode Session: the state atom of               *)
(* internal/session, Open, the reconnect orchestrator (runReconnectLoop)   *)
(* and any number of goroutines calling Session.Close.                     *)
(*                                                                         *)
(* A Runtime (one link with its goroutines) is reduced here to the phase   *)
(* that module RuntimeContract promises and module Runtime implements:     *)
(* "up", "stopping" once the link is lost or Shutdown was called, "done"   *)
(* once Done() is closed, or "stuck" when its reader never comes back.     *)
(***************************************************************************)
EXTENDS Naturals, FiniteSets

CONSTANTS
    Closers,      \* goroutines that may call Session.Close
    MaxRuntimes   \* bound: links established over the session's life

ASSUME LifecycleAssumption == MaxRuntimes \in Nat \ {0}

VARIABLES
    state,        \* session.Session.state
    userClose,    \* the userClose channel is closed
    closed,       \* zenoh.Session.closed
    done,         \* zenoh.Session.done is closed: the orchestrator has exited
    nRt,          \* Runtimes created so far; they are numbered 1 .. nRt
    rts,          \* phase of each Runtime
    registry,     \* Runtimes in session.Session.runtimes
    rlock,        \* Close holds runtimesMu for reading (ForEachRuntime)
    cur,          \* curRuntime, 0 for nil
    opening,      \* Open has not returned yet
    silent,       \* the router accepted the connection and never answers on it
    pc,           \* where Open, then runReconnectLoop, is
    cpc           \* where each Close call is

vars == <<state, userClose, closed, done, nRt, rts, registry, rlock, cur,
          opening, silent, pc, cpc>>
sessionVars  == <<state, userClose, closed, done>>
runtimeVars  == <<nRt, rts>>
registryVars == <<registry, rlock, cur>>
openVars     == <<opening, silent>>

States == {"Init", "Dialing", "Handshaking", "Active", "Reconnecting", "Closed"}
RuntimeIds == 1 .. MaxRuntimes
Phases == {"none", "up", "stopping", "stuck", "done"}

\* dialAndRun: dial begin begin2 handshake run; installRuntime: register store;
\* the reconnect loop: wait unregister clear check enter retry backoff replay
LoopPcs == {"dial", "begin", "begin2", "handshake", "run", "register", "store",
            "replay", "wait", "unregister", "clear", "check", "enter", "retry",
            "backoff", "exited", "openFailed"}
ClosePcs == {"idle", "farewell", "innerClose", "signal", "shutdown", "draining",
             "waitDone", "returned"}

\* A Runtime that still owns goroutines.
Live(r) == rts[r] \in {"up", "stopping", "stuck"}

Init ==
    /\ state = "Init"
    /\ userClose = FALSE /\ closed = FALSE /\ done = FALSE
    /\ nRt = 0 /\ rts = [r \in RuntimeIds |-> "none"]
    /\ registry = {} /\ rlock = FALSE /\ cur = 0
    /\ opening = TRUE /\ silent = FALSE /\ pc = "dial"
    /\ cpc = [c \in Closers |-> "idle"]

Goto(from, to) == pc = from /\ pc' = to

-----------------------------------------------------------------------------
(* dialAndRun, for Open and for every reconnect attempt.                   *)

\* An error of dialAndRun: Open closes the inner session and fails, the
\* reconnect loop goes to its backoff wait.
AttemptFailed ==
    \/ /\ opening
       /\ pc' = "openFailed"
       /\ state' = "Closed" /\ userClose' = TRUE
       /\ UNCHANGED <<closed, done>>
    \/ /\ ~opening
       /\ pc' = "backoff"
       /\ UNCHANGED sessionVars

\* session.DialFirst finds a reachable endpoint, or reports its last error.
DialOK ==
    /\ Goto("dial", "begin")
    /\ UNCHANGED <<sessionVars, runtimeVars, registryVars, openVars, cpc>>

DialFail ==
    /\ pc = "dial"
    /\ AttemptFailed
    /\ UNCHANGED <<runtimeVars, registryVars, openVars, cpc>>

\* Session.BeginHandshake: the load and the first CAS succeed together or the
\* loop reloads, so they are one step; the second CAS is a step of its own.
BeginHandshake ==
    /\ pc = "begin"
    /\ \/ /\ state = "Handshaking"
          /\ pc' = "handshake"
          /\ UNCHANGED sessionVars
       \/ /\ state \in {"Init", "Reconnecting"}
          /\ state' = "Dialing"
          /\ pc' = "begin2"
          /\ UNCHANGED <<userClose, closed, done>>
       \/ /\ state \notin {"Handshaking", "Init", "Reconnecting"}
          /\ AttemptFailed
    /\ UNCHANGED <<runtimeVars, registryVars, openVars, cpc>>

BeginHandshakeCAS ==
    /\ pc = "begin2"
    /\ \/ /\ state = "Dialing"
          /\ state' = "Handshaking"
          /\ pc' = "handshake"
          /\ UNCHANGED <<userClose, closed, done>>
       \/ /\ state # "Dialing"
          /\ AttemptFailed
    /\ UNCHANGED <<runtimeVars, registryVars, openVars, cpc>>

\* DoHandshake reads the router's answers with no deadline and no context: it
\* ends when they come or the connection breaks.
HandshakeOK ==
    /\ Goto("handshake", "run")
    /\ ~silent
    /\ UNCHANGED <<sessionVars, runtimeVars, registryVars, openVars, cpc>>

HandshakeFail ==
    /\ pc = "handshake"
    /\ ~silent
    /\ AttemptFailed
    /\ UNCHANGED <<runtimeVars, registryVars, openVars, cpc>>

\* Mutant of Run: the state is stored instead of compared and swapped.
RunStores ==
    /\ pc = "run"
    /\ nRt < MaxRuntimes
    /\ state' = "Active"
    /\ nRt' = nRt + 1
    /\ rts' = [rts EXCEPT ![nRt + 1] = "up"]
    /\ pc' = "register"
    /\ UNCHANGED <<userClose, closed, done, registryVars, openVars, cpc>>

\* Session.Run of a single-runtime session: only from Handshaking.
Run ==
    /\ pc = "run"
    /\ \/ /\ state = "Handshaking"
          /\ nRt < MaxRuntimes
          /\ state' = "Active"
          /\ nRt' = nRt + 1
          /\ rts' = [rts EXCEPT ![nRt + 1] = "up"]
          /\ pc' = "register"
          /\ UNCHANGED <<userClose, closed, done>>
       \/ /\ state # "Handshaking"
          /\ AttemptFailed
          /\ UNCHANGED runtimeVars
    /\ UNCHANGED <<registryVars, openVars, cpc>>

-----------------------------------------------------------------------------
(* installRuntime / uninstallRuntime and the reconnect loop.               *)

\* RegisterRuntime needs runtimesMu for writing.
Register ==
    /\ Goto("register", "store")
    /\ ~rlock
    /\ registry' = registry \cup {nRt}
    /\ UNCHANGED <<sessionVars, runtimeVars, rlock, cur, openVars, cpc>>

\* curRuntime.Store; Open then returns, a reconnect goes on to the replay.
StoreCurrent ==
    /\ pc = "store"
    /\ cur' = nRt
    /\ pc' = IF opening THEN "wait" ELSE "replay"
    /\ opening' = FALSE
    /\ UNCHANGED <<silent, sessionVars, runtimeVars, registry, rlock, cpc>>

\* replayEntities; module Replay has its detail.
ReplayEntities ==
    /\ Goto("replay", "wait")
    /\ UNCHANGED <<sessionVars, runtimeVars, registryVars, openVars, cpc>>

\* Mutant of WaitDone: the loop moves on when the link is lost, before Done().
WaitLinkLost ==
    /\ Goto("wait", "unregister")
    /\ rts[cur] # "up"
    /\ UNCHANGED <<sessionVars, runtimeVars, registryVars, openVars, cpc>>

\* <-rt.Done()
WaitDone ==
    /\ Goto("wait", "unregister")
    /\ rts[cur] = "done"
    /\ UNCHANGED <<sessionVars, runtimeVars, registryVars, openVars, cpc>>

\* Mutant of Unregister: the entry is kept, as when the check that it still
\* holds this Runtime is the wrong way round.
UnregisterKeeps ==
    /\ Goto("unregister", "clear")
    /\ ~rlock
    /\ UNCHANGED <<sessionVars, runtimeVars, registryVars, openVars, cpc>>

\* UnregisterRuntime needs runtimesMu for writing.
Unregister ==
    /\ Goto("unregister", "clear")
    /\ ~rlock
    /\ registry' = registry \ {cur}
    /\ UNCHANGED <<sessionVars, runtimeVars, rlock, cur, openVars, cpc>>

ClearCurrent ==
    /\ Goto("clear", "check")
    /\ cur' = 0
    /\ UNCHANGED <<sessionVars, runtimeVars, registry, rlock, openVars, cpc>>

Exit ==
    /\ pc' = "exited"
    /\ done' = TRUE
    /\ UNCHANGED <<state, userClose, closed>>

\* The non-blocking poll of UserCloseCh after a Runtime has ended.
CheckUserClose ==
    /\ pc = "check"
    /\ \/ userClose /\ Exit
       \/ ~userClose /\ pc' = "enter" /\ UNCHANGED sessionVars
    /\ UNCHANGED <<runtimeVars, registryVars, openVars, cpc>>

\* Mutant of EnterReconnecting: the state is checked and not changed.
EnterReconnectingKeeps ==
    /\ pc = "enter"
    /\ \/ state = "Active" /\ pc' = "retry" /\ UNCHANGED sessionVars
       \/ state # "Active" /\ Exit
    /\ UNCHANGED <<runtimeVars, registryVars, openVars, cpc>>

\* The CAS Active -> Reconnecting; losing it to Close ends the orchestrator.
EnterReconnecting ==
    /\ pc = "enter"
    /\ \/ /\ state = "Active"
          /\ state' = "Reconnecting"
          /\ pc' = "retry"
          /\ UNCHANGED <<userClose, closed, done>>
       \/ state # "Active" /\ Exit
    /\ UNCHANGED <<runtimeVars, registryVars, openVars, cpc>>

\* Top of the loop in reconnectWithBackoff.
Retry ==
    /\ pc = "retry"
    /\ \/ userClose /\ Exit
       \/ ~userClose /\ pc' = "dial" /\ UNCHANGED sessionVars
    /\ UNCHANGED <<runtimeVars, registryVars, openVars, cpc>>

\* select on the backoff timer and UserCloseCh; the timer may win either way.
Backoff ==
    /\ pc = "backoff"
    /\ \/ userClose /\ Exit
       \/ pc' = "retry" /\ UNCHANGED sessionVars
    /\ UNCHANGED <<runtimeVars, registryVars, openVars, cpc>>

-----------------------------------------------------------------------------
(* Session.Close.                                                          *)

CloseGoto(c, from, to) == cpc[c] = from /\ cpc' = [cpc EXCEPT ![c] = to]

\* closed.CompareAndSwap: one caller goes on, the others return at once.
\* No caller has the session before Open returned.
CloseCall(c) ==
    /\ ~opening
    /\ \/ ~closed /\ CloseGoto(c, "idle", "farewell") /\ closed' = TRUE
       \/ closed /\ CloseGoto(c, "idle", "returned") /\ UNCHANGED closed
    /\ UNCHANGED <<state, userClose, done, runtimeVars, registryVars, openVars, pc>>

\* broadcastFarewellClose: best effort, module Runtime has its detail.
CloseFarewell(c) ==
    /\ CloseGoto(c, "farewell", "innerClose")
    /\ UNCHANGED <<sessionVars, runtimeVars, registryVars, openVars, pc>>

\* session.Session.Close: the CAS loop to Closed, then close(userClose).
InnerClose(c) ==
    /\ CloseGoto(c, "innerClose", "signal")
    /\ state' = "Closed"
    /\ UNCHANGED <<userClose, closed, done, runtimeVars, registryVars, openVars, pc>>

SignalUserClose(c) ==
    /\ CloseGoto(c, "signal", "shutdown")
    /\ userClose' = TRUE
    /\ UNCHANGED <<state, closed, done, runtimeVars, registryVars, openVars, pc>>

\* ForEachRuntime takes runtimesMu for reading and keeps it while
\* GracefulShutdown drains each registered Runtime.
ShutdownBegin(c) ==
    /\ CloseGoto(c, "shutdown", "draining")
    /\ rlock' = TRUE
    /\ UNCHANGED <<sessionVars, runtimeVars, registry, cur, openVars, pc>>

\* Mutant of ShutdownEnd: the registered Runtimes are not shut down.
ShutdownEndNoStop(c) ==
    /\ CloseGoto(c, "draining", "waitDone")
    /\ rlock' = FALSE
    /\ UNCHANGED <<sessionVars, runtimeVars, registry, cur, openVars, pc>>

ShutdownEnd(c) ==
    /\ CloseGoto(c, "draining", "waitDone")
    /\ rts' = [r \in RuntimeIds |->
                IF r \in registry /\ rts[r] = "up" THEN "stopping" ELSE rts[r]]
    /\ rlock' = FALSE
    /\ UNCHANGED <<sessionVars, nRt, registry, cur, openVars, pc>>

\* <-s.done
CloseReturn(c) ==
    /\ CloseGoto(c, "waitDone", "returned")
    /\ done
    /\ UNCHANGED <<sessionVars, runtimeVars, registryVars, openVars, pc>>

-----------------------------------------------------------------------------
(* The Runtime, as RuntimeContract promises it.                            *)

\* The link fails, the lease expires or the peer sends CLOSE. The bound leaves
\* the last link alive so that every attempt to reconnect can succeed.
LinkLost(r) ==
    /\ rts[r] = "up" /\ r < MaxRuntimes
    /\ rts' = [rts EXCEPT ![r] = "stopping"]
    /\ UNCHANGED <<sessionVars, nRt, registryVars, openVars, pc, cpc>>

\* The router stops answering in the middle of a handshake, for good.
RouterSilent ==
    /\ pc = "handshake" /\ ~silent
    /\ silent' = TRUE
    /\ UNCHANGED <<sessionVars, runtimeVars, registryVars, opening, pc, cpc>>

RuntimeDone(r) ==
    /\ rts[r] = "stopping"
    /\ rts' = [rts EXCEPT ![r] = "done"]
    /\ UNCHANGED <<sessionVars, nRt, registryVars, openVars, pc, cpc>>

\* The reader of a Runtime that stops waits for good: for room in OutQ after the
\* writer has left (ReaderStuck in module Runtime), or for a callback that does
\* not return. Done() never closes.
ReaderStuck(r) ==
    /\ rts[r] = "stopping"
    /\ rts' = [rts EXCEPT ![r] = "stuck"]
    /\ UNCHANGED <<sessionVars, nRt, registryVars, openVars, pc, cpc>>

-----------------------------------------------------------------------------
Connect == DialOK \/ DialFail \/ BeginHandshake \/ BeginHandshakeCAS
           \/ HandshakeOK \/ HandshakeFail \/ Run

Loop == Register \/ StoreCurrent \/ ReplayEntities \/ WaitDone \/ Unregister
        \/ ClearCurrent \/ CheckUserClose \/ EnterReconnecting \/ Retry \/ Backoff

CloseStep(c) == CloseCall(c) \/ CloseFarewell(c) \/ InnerClose(c)
                \/ SignalUserClose(c) \/ ShutdownBegin(c) \/ ShutdownEnd(c)
                \/ CloseReturn(c)

Next ==
    \/ Connect
    \/ Loop
    \/ \E c \in Closers : CloseStep(c)
    \/ \E r \in RuntimeIds : LinkLost(r) \/ RuntimeDone(r) \/ ReaderStuck(r)
    \/ RouterSilent

Spec == Init /\ [][Next]_vars

\* Goroutines of the program run when they can; a call of Close is the user's
\* choice, a lost link and a silent router the network's, so none is assumed. A
\* Runtime that stops reaches Done() unless its reader is stuck.
\* An endpoint that keeps being dialled and handshaken with answers in the end.
Fairness ==
    /\ WF_vars(Connect) /\ WF_vars(Loop)
    /\ SF_vars(DialOK) /\ SF_vars(HandshakeOK)
    /\ \A c \in Closers : WF_vars(CloseStep(c) /\ cpc[c] # "idle")
    /\ \A r \in RuntimeIds : WF_vars(RuntimeDone(r))

FairSpec == Spec /\ Fairness

-----------------------------------------------------------------------------
(* Properties.                                                             *)

FlagTypes ==
    /\ userClose \in BOOLEAN /\ closed \in BOOLEAN /\ done \in BOOLEAN
    /\ rlock \in BOOLEAN /\ opening \in BOOLEAN /\ silent \in BOOLEAN

OtherTypes ==
    /\ state \in States
    /\ nRt \in 0 .. MaxRuntimes
    /\ rts \in [RuntimeIds -> Phases]
    /\ registry \subseteq RuntimeIds
    /\ cur \in 0 .. MaxRuntimes
    /\ pc \in LoopPcs
    /\ cpc \in [Closers -> ClosePcs]

\* Every variable keeps its type: the state atom takes only the values of its
\* enumeration and the registry holds only Runtimes that were created.
TypeOK == FlagTypes /\ OtherTypes

\* "A fresh Runtime for the same Session can be started only after Done has
\* fired": no two Runtimes of a client session own goroutines at once.
OneLiveRuntime ==
    \A r, s \in RuntimeIds : Live(r) /\ Live(s) => r = s

\* Once the orchestrator has exited and closed Session.done, no Runtime is
\* left running and the registry is empty.
DoneMeansQuiet ==
    done => registry = {} /\ \A r \in RuntimeIds : ~Live(r)

\* The orchestrator gives up only because a Close overruled it: each CAS of
\* BeginHandshake, Run and EnterReconnecting can lose to Session.Close alone,
\* and the user-close signal is never seen before the state is Closed.
ExitOnlyWhenClosed ==
    pc \in {"exited", "openFailed"} => state = "Closed"

\* No Runtime is ever started on a session whose state is already Closed, and
\* Closed is final.
NoRuntimeAfterClosed ==
    [][state = "Closed" => state' = "Closed" /\ nRt' = nRt]_vars

\* A link lost without Close is replaced: an orchestrator that starts to
\* reconnect has a fresh Runtime installed again unless the user closes or the
\* router leaves a handshake unanswered.
ReconnectCompletes == pc = "retry" ~> pc \in {"wait", "exited"} \/ silent

\* Some Runtime will never close Done().
Stuck == \E r \in RuntimeIds : rts[r] = "stuck"

\* Close returns whenever its ForEachRuntime does not run between the
\* orchestrator's Run and RegisterRuntime, with two exceptions: a router that
\* leaves a handshake unanswered (DoHandshake has neither deadline nor context),
\* and a Runtime whose reader is stuck, so that Done() never comes.
CloseReturnsUnlessRacingInstall ==
    \A c \in Closers :
        (cpc[c] = "shutdown" /\ pc # "register") ~> (cpc[c] = "returned" \/ silent \/ Stuck)

\* "so Close itself can never hang" (closeDrainTimeout, zenoh/session.go), at
\* least with a router that answers and no reader stuck.
CloseReturns ==
    \A c \in Closers : cpc[c] = "farewell" ~> (cpc[c] = "returned" \/ silent \/ Stuck)
=============================================================================
