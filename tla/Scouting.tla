----------------------------- MODULE Scouting -----------------------------
(***************************************************************************)
(* One call of scout.Run (internal/scout/scout.go) on the sockets that     *)
(* multicast.Open gives it (internal/multicast/socket.go), driven by       *)
(* zenoh.Scout with a channel handler or, without a timeout, by the        *)
(* discovery of a peer-mode session.                                       *)
(***************************************************************************)
EXTENDS Naturals, Sequences, FiniteSets

CONSTANTS Scouter, Nodes,    \* our ZenohID and those that may answer
          SendSockets, ListenSockets,   \* SendV4, SendV6; ListenV4, ListenV6
          Roles, Matching,   \* WhatAmI of each node; the matcher's roles
          ChanSize,          \* capacity of the FifoChannel
          MaxHellos,         \* bound on datagrams in flight per socket
          NoReader

Sockets == SendSockets \cup ListenSockets

ASSUME ScoutAssumption ==
    /\ Scouter \notin Nodes
    /\ ChanSize \in Nat \ {0} /\ MaxHellos \in Nat
    /\ NoReader \notin Sockets
    /\ SendSockets \cap ListenSockets = {}

VARIABLES
    run,       \* "options", "refused", "opening", "running", "returned", "dropped"
    plan,      \* the sockets that Open is asked for
    sockets,   \* the sockets that are open
    expired,   \* runCtx is done: the timeout, or Close
    unblocked, \* the read deadline has been set on every socket
    sender,    \* sender[c]: "send", "wait" or "done"
    inbox,     \* inbox[c]: HELLOs that have reached socket c
    reader,    \* reader[c]: <<pc, z>>, the ZenohID of the HELLO in hand
    mutex,     \* the reader that holds the dispatcher's mutex, or NoReader
    seen,      \* dispatcher.seen
    out,       \* the HELLOs in the handler's channel
    told,      \* how often each node was delivered
    chClosed   \* the handler's channel is closed

Reading == <<"read", Scouter>>
Done == <<"done", Scouter>>

scVars == <<run, plan, sockets, expired, unblocked, sender, inbox, reader, mutex, seen, out, told, chClosed>>

ScInit ==
    /\ run = "options" /\ plan = {} /\ sockets = {} /\ expired = FALSE /\ unblocked = FALSE
    /\ sender = [c \in SendSockets |-> "done"]
    /\ inbox = [c \in Sockets |-> {}]
    /\ reader = [c \in Sockets |-> Done]
    /\ mutex = NoReader /\ seen = {} /\ out = <<>>
    /\ told = [z \in Nodes \cup {Scouter} |-> 0] /\ chClosed = FALSE

------------------------------------------------------------------------------
(* Starting.                                                               *)

\* buildScoutOptions and resolvePlan: targets and families decide which sockets
\* are wanted.  A refused option ends Scout before the handler is attached.
BuildOptions(cs) ==
    /\ run = "options" /\ run' = "opening" /\ plan' = cs
    /\ UNCHANGED <<sockets, expired, unblocked, sender, inbox, reader, mutex, seen, out, told, chClosed>>
OptionsRefused ==
    /\ run = "options" /\ run' = "refused"
    /\ UNCHANGED <<plan, sockets, expired, unblocked, sender, inbox, reader, mutex, seen, out, told, chClosed>>

\* Open: one socket after the other, its options applied.
OpenSocket(c) ==
    /\ run = "opening" /\ c \in plan \ sockets
    /\ c \in ListenSockets => plan \cap SendSockets \subseteq sockets
    /\ sockets' = sockets \cup {c}
    /\ UNCHANGED <<run, plan, expired, unblocked, sender, inbox, reader, mutex, seen, out, told, chClosed>>

\* CloseAll
CloseAll(cs) == {}

\* An address does not resolve, a socket is refused, applySendOpts fails on one that
\* is open, the last included, or encodeScout does: what is open is closed.
OpenFails ==
    /\ run = "opening"
    /\ sockets' = CloseAll(sockets) /\ run' = "returned"
    /\ UNCHANGED <<plan, expired, unblocked, sender, inbox, reader, mutex, seen, out, told, chClosed>>

\* The dispatcher and the goroutines; no target and no listener is
\* an error.
StartLoops ==
    /\ run = "opening" /\ sockets = plan
    /\ IF plan = {}
       THEN run' = "returned" /\ UNCHANGED <<sender, reader>>
       ELSE /\ run' = "running"
            /\ sender' = [c \in SendSockets |-> IF c \in plan THEN "send" ELSE "done"]
            /\ reader' = [c \in Sockets |-> IF c \in plan THEN Reading ELSE Done]
    /\ UNCHANGED <<plan, sockets, expired, unblocked, inbox, mutex, seen, out, told, chClosed>>

------------------------------------------------------------------------------
(* Running.                                                                *)

\* sendLoop: a round of SCOUTs to every target, then the ticker or runCtx.  The
\* nodes the matcher names answer, on any socket they can reach.
SendRound(c) ==
    /\ sender[c] = "send"
    /\ sender' = [sender EXCEPT ![c] = "wait"]
    /\ UNCHANGED <<run, plan, sockets, expired, unblocked, inbox, reader, mutex, seen, out, told, chClosed>>
SenderTicks(c) ==
    /\ sender[c] = "wait"
    /\ sender' = [sender EXCEPT ![c] = "send"]
    /\ UNCHANGED <<run, plan, sockets, expired, unblocked, inbox, reader, mutex, seen, out, told, chClosed>>
SenderStops(c) ==
    /\ sender[c] = "wait" /\ expired
    /\ sender' = [sender EXCEPT ![c] = "done"]
    /\ UNCHANGED <<run, plan, sockets, expired, unblocked, inbox, reader, mutex, seen, out, told, chClosed>>

\* A HELLO, or our own, reaches an open socket; duplicates and repeats are usual.
Answer(c, z) ==
    /\ run = "running" /\ c \in sockets /\ Cardinality(inbox[c]) < MaxHellos
    /\ z # Scouter => Roles[z] \in Matching
    /\ inbox' = [inbox EXCEPT ![c] = @ \cup {z}]
    /\ UNCHANGED <<run, plan, sockets, expired, unblocked, sender, reader, mutex, seen, out, told, chClosed>>

\* readLoop: ReadFromUDP and decodeHello, which copies the ZenohID out of the
\* buffer and makes up a locator when there is none.
ReadHello(c, z) ==
    /\ reader[c] = Reading /\ z \in inbox[c] /\ ~unblocked
    /\ inbox' = [inbox EXCEPT ![c] = @ \ {z}]
    /\ reader' = [reader EXCEPT ![c] = <<"hello", z>>]
    /\ UNCHANGED <<run, plan, sockets, expired, unblocked, sender, mutex, seen, out, told, chClosed>>

\* The deadline, or any other read error, ends the loop for good.
ReadEnds(c) ==
    /\ reader[c] = Reading
    /\ reader' = [reader EXCEPT ![c] = Done]
    /\ UNCHANGED <<run, plan, sockets, expired, unblocked, sender, inbox, mutex, seen, out, told, chClosed>>

\* d.mu.Lock
Lockable(c) == mutex = NoReader
\* tryDeliver: under the mutex, and the user's callback with it; ourselves and
\* what was seen are dropped.
TakeMutex(c) ==
    /\ reader[c][1] = "hello" /\ Lockable(c)
    /\ mutex' = c
    /\ LET z == reader[c][2]
       IN  reader' = [reader EXCEPT ![c] = IF z = Scouter \/ z \in seen
                                           THEN <<"unlock", z>> ELSE <<"deliver", z>>]
    /\ UNCHANGED <<run, plan, sockets, expired, unblocked, sender, inbox, seen, out, told, chClosed>>

\* seen, then deliver: FifoChannel drops the newest when the channel is full.
Deliver(c) ==
    /\ reader[c][1] = "deliver"
    /\ LET z == reader[c][2]
       IN  /\ seen' = seen \cup {z}
           /\ told' = [told EXCEPT ![z] = IF @ < 2 THEN @ + 1 ELSE @]
           /\ out' = IF Len(out) < ChanSize THEN Append(out, z) ELSE out
           /\ reader' = [reader EXCEPT ![c] = <<"unlock", z>>]
    /\ UNCHANGED <<run, plan, sockets, expired, unblocked, sender, inbox, mutex, chClosed>>
Unlock(c) ==
    /\ reader[c][1] = "unlock"
    /\ mutex' = IF mutex = c THEN NoReader ELSE mutex
    /\ reader' = [reader EXCEPT ![c] = Reading]
    /\ UNCHANGED <<run, plan, sockets, expired, unblocked, sender, inbox, seen, out, told, chClosed>>

\* The application ranges over the channel.
Consume ==
    /\ out # <<>> /\ out' = Tail(out)
    /\ UNCHANGED <<run, plan, sockets, expired, unblocked, sender, inbox, reader, mutex, seen, told, chClosed>>

------------------------------------------------------------------------------
(* Stopping.                                                               *)

\* The timeout elapses, or the session is closed.
Expire ==
    /\ run = "running" /\ ~expired /\ expired' = TRUE
    /\ UNCHANGED <<run, plan, sockets, unblocked, sender, inbox, reader, mutex, seen, out, told, chClosed>>

\* Mutant of UnblockReaders: no deadline is set.
UnblockNobody == FALSE
\* UnblockReaders sets an elapsed deadline on every socket.
UnblockReaders == TRUE
Unblock ==
    /\ run = "running" /\ expired /\ ~unblocked
    /\ unblocked' = UnblockReaders
    /\ UNCHANGED <<run, plan, sockets, expired, sender, inbox, reader, mutex, seen, out, told, chClosed>>

\* Mutant of LoopsDone: only the senders are waited for.
LoopsDoneSenders == (\A c \in SendSockets : sender[c] = "done") /\ unblocked
\* wg.Wait: senders, readers and the unblocking goroutine have returned.
LoopsDone ==
    /\ \A c \in SendSockets : sender[c] = "done"
    /\ \A c \in Sockets : reader[c] = Done
    /\ unblocked
RunReturns ==
    /\ run = "running" /\ LoopsDone
    /\ run' = "returned" /\ sockets' = CloseAll(sockets)
    /\ UNCHANGED <<plan, expired, unblocked, sender, inbox, reader, mutex, seen, out, told, chClosed>>

\* drop closes the handler's channel.
Drop ==
    /\ run = "returned" /\ run' = "dropped" /\ chClosed' = TRUE
    /\ UNCHANGED <<plan, sockets, expired, unblocked, sender, inbox, reader, mutex, seen, out, told>>

------------------------------------------------------------------------------
DispatchStep(c) == TakeMutex(c) \/ Deliver(c) \/ Unlock(c)
ReadStep(c) == (unblocked /\ ReadEnds(c)) \/ \E z \in Nodes \cup {Scouter} : ReadHello(c, z)
SendStep(c) == SendRound(c) \/ SenderStops(c)
MainStep == (\E c \in Sockets : OpenSocket(c)) \/ StartLoops \/ Unblock \/ RunReturns \/ Drop

ScNext ==
    \/ \E cs \in SUBSET Sockets : BuildOptions(cs)
    \/ OptionsRefused \/ OpenFails \/ MainStep \/ Expire \/ Consume
    \/ \E c \in SendSockets : SendStep(c) \/ SenderTicks(c)
    \/ \E c \in Sockets :
          \/ DispatchStep(c) \/ ReadStep(c) \/ ReadEnds(c)
          \/ \E z \in Nodes \cup {Scouter} : Answer(c, z)

ScoutSpec == ScInit /\ [][ScNext]_scVars

------------------------------------------------------------------------------
(* Properties.                                                             *)

\* Every node is reported at most once and we never to ourselves, whatever
\* sockets its HELLOs arrive on at the same time; nothing is delivered into a
\* closed channel; and Run leaves no socket open, however far Open got
\* (internal/scout/scout.go:105-111, internal/multicast/socket.go:147-149).
ScoutSafe ==
    /\ \A z \in Nodes : told[z] <= 1
    /\ told[Scouter] = 0
    /\ chClosed => \A c \in Sockets : reader[c] \notin {<<"deliver", z>> : z \in Nodes}
    /\ run \in {"returned", "dropped"} => sockets = {}

\* Once its time is up Run returns and the channel is closed, though readers are
\* blocked in ReadFromUDP, deliver, or wait for the mutex
\* (zenoh/scout.go:68-70: "the channel is closed when scouting stops").
ScoutEnds == expired ~> chClosed
=============================================================================
