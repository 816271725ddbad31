------------------------------- MODULE Replay -------------------------------
(***************************************************************************)
(* Declared entities across reconnects, in client mode: user goroutines    *)
(* that declare and drop subscribers, queryables, tokens, queriers,        *)
(* publishers and liveliness subscribers, and the orchestrator that        *)
(* replays the registries on every fresh link (replayToTarget).            *)
(*                                                                         *)
(* Each kind of entity has a registry with a lock of its own; kinds are    *)
(* numbered in the order replayToTarget visits them. An entity is declared *)
(* and dropped at most once: ids are never reused. Declarations all travel *)
(* on one lane, in the order OutQ accepts them (Runtime!WireIsPrefix), so  *)
(* the router's view of a link is updated when OutQ accepts the message; a *)
(* lost link takes its view with it.                                       *)
(***************************************************************************)
EXTENDS Naturals, FiniteSets

CONSTANTS
    Entities,   \* entities the users declare
    NumKinds,   \* number of registries
    KindOf,     \* the registry of each entity
    MaxLinks    \* bound: links over the session's life

ASSUME ReplayAssumption ==
    /\ NumKinds \in Nat \ {0}
    /\ KindOf \in [Entities -> 1 .. NumKinds]
    /\ MaxLinks \in Nat \ {0}

VARIABLES
    link,       \* number of the newest link
    up,         \* that link is alive
    installed,  \* its Runtime is in the runtime registry
    loop,       \* where the orchestrator is
    kind,       \* the registry it snapshots next
    plan,       \* entities whose replay is still to be sent
    router,     \* entities declared on the newest link
    reg,        \* the registries
    upc,        \* where the user of each entity is
    target,     \* link of the Runtime that user has looked up, 0 for none
    raced       \* history: entities unregistered while their replay was pending

loopVars == <<loop, kind, plan>>
linkVars == <<link, up, installed>>
userVars == <<reg, upc, target, raced>>
vars == <<linkVars, loopVars, router, userVars>>

LoopPcs == {"steady", "connect", "install", "snapshot", "send"}
UserPcs == {"new", "lookupD", "sendD", "undo", "live",
            "lookupU", "sendU", "dropped", "failed"}

Init ==
    /\ link = 1 /\ up = TRUE /\ installed = TRUE
    /\ loop = "steady" /\ kind = 1 /\ plan = {}
    /\ router = {} /\ reg = {}
    /\ upc = [e \in Entities |-> "new"]
    /\ target = [e \in Entities |-> 0]
    /\ raced = {}

-----------------------------------------------------------------------------
(* Sending on the Runtime of link l.                                       *)

\* OutQ of the newest link accepts while that link is alive.
Reaches(l) == l = link /\ up

\* A dead link's OutQ still accepts, silently, until LinkClosed is seen.
Stale(l) == ~Reaches(l)

-----------------------------------------------------------------------------
(* The link and the orchestrator.                                          *)

\* The link drops, and the router forgets its declarations.
LinkLost ==
    /\ up /\ link < MaxLinks
    /\ up' = FALSE /\ router' = {}
    /\ UNCHANGED <<link, installed, loopVars, userVars>>

\* Done() of the dead Runtime: uninstallRuntime.
Uninstall ==
    /\ loop = "steady" /\ ~up
    /\ installed' = FALSE /\ loop' = "connect"
    /\ UNCHANGED <<link, up, kind, plan, router, userVars>>

\* dialAndRun succeeds; the router has a fresh session.
Connect ==
    /\ loop = "connect"
    /\ link' = link + 1 /\ up' = TRUE /\ router' = {}
    /\ loop' = "install"
    /\ UNCHANGED <<installed, kind, plan, userVars>>

\* installRuntime.
Install ==
    /\ loop = "install"
    /\ installed' = TRUE
    /\ loop' = "snapshot" /\ kind' = 1
    /\ UNCHANGED <<link, up, plan, router, userVars>>

\* Mutant of Snapshot: the last registry is not visited.
SnapshotSkipsLast ==
    /\ loop = "snapshot"
    /\ plan' = plan \cup {e \in reg : KindOf[e] = kind /\ kind < NumKinds}
    /\ IF kind < NumKinds
       THEN kind' = kind + 1 /\ UNCHANGED loop
       ELSE loop' = "send" /\ UNCHANGED kind
    /\ UNCHANGED <<linkVars, router, userVars>>

\* replayToTarget copies one registry into the plan under its lock.
Snapshot ==
    /\ loop = "snapshot"
    /\ plan' = plan \cup {e \in reg : KindOf[e] = kind}
    /\ IF kind < NumKinds
       THEN kind' = kind + 1 /\ UNCHANGED loop
       ELSE loop' = "send" /\ UNCHANGED kind
    /\ UNCHANGED <<linkVars, router, userVars>>

\* One entry of the plan, kinds in order and ids of a kind in any order; an
\* entry refused by a dead link is an error that does not stop the loop.
ReplaySend(e) ==
    /\ loop = "send" /\ e \in plan
    /\ \A f \in plan : KindOf[e] <= KindOf[f]
    /\ plan' = plan \ {e}
    /\ router' = IF up THEN router \cup {e} ELSE router
    /\ UNCHANGED <<linkVars, loop, kind, userVars>>

ReplayDone ==
    /\ loop = "send" /\ plan = {}
    /\ loop' = "steady"
    /\ UNCHANGED <<linkVars, kind, plan, router, userVars>>

-----------------------------------------------------------------------------
(* Declare and Drop.                                                       *)

Goto(e, from, to) == upc[e] = from /\ upc' = [upc EXCEPT ![e] = to]

\* The entity enters its registry before anything is sent.
Declare(e) ==
    /\ Goto(e, "new", "lookupD")
    /\ reg' = reg \cup {e}
    /\ UNCHANGED <<linkVars, loopVars, router, target, raced>>

\* snapshotAllRuntimes of enqueueNetwork; none is ErrSessionNotReady.
LookupDeclare(e) ==
    /\ \/ installed /\ Goto(e, "lookupD", "sendD")
                    /\ target' = [target EXCEPT ![e] = link]
       \/ ~installed /\ Goto(e, "lookupD", "undo") /\ UNCHANGED target
    /\ UNCHANGED <<linkVars, loopVars, router, reg, raced>>

\* deliverEncoded of the declaration.
SendDeclare(e) ==
    /\ \/ /\ Reaches(target[e])
          /\ Goto(e, "sendD", "live")
          /\ router' = router \cup {e}
       \/ /\ Stale(target[e])
          /\ Goto(e, "sendD", "live") \/ Goto(e, "sendD", "undo")
          /\ UNCHANGED router
    /\ UNCHANGED <<linkVars, loopVars, reg, target, raced>>

\* Declare failed: the entity leaves its registry again.
UndoDeclare(e) ==
    /\ Goto(e, "undo", "failed")
    /\ reg' = reg \ {e}
    /\ UNCHANGED <<linkVars, loopVars, router, target, raced>>

\* Mutant of Drop: the registry entry stays.
DropKeepsEntry(e) ==
    /\ Goto(e, "live", "lookupU")
    /\ UNCHANGED <<linkVars, loopVars, router, reg, target, raced>>

\* Drop takes the entity out of its registry, then sends the undeclaration.
Drop(e) ==
    /\ Goto(e, "live", "lookupU")
    /\ reg' = reg \ {e}
    /\ raced' = IF e \in plan THEN raced \cup {e} ELSE raced
    /\ UNCHANGED <<linkVars, loopVars, router, target>>

LookupUndeclare(e) ==
    /\ \/ installed /\ Goto(e, "lookupU", "sendU")
                    /\ target' = [target EXCEPT ![e] = link]
       \/ ~installed /\ Goto(e, "lookupU", "dropped") /\ UNCHANGED target
    /\ UNCHANGED <<linkVars, loopVars, router, reg, raced>>

\* Best effort: an error is ignored.
SendUndeclare(e) ==
    /\ Goto(e, "sendU", "dropped")
    /\ router' = IF Reaches(target[e]) THEN router \ {e} ELSE router
    /\ UNCHANGED <<linkVars, loopVars, reg, target, raced>>

-----------------------------------------------------------------------------
Orchestrator == Uninstall \/ Connect \/ Install \/ Snapshot
                \/ (\E e \in Entities : ReplaySend(e)) \/ ReplayDone

User(e) == Declare(e) \/ LookupDeclare(e) \/ SendDeclare(e) \/ UndoDeclare(e)
           \/ Drop(e) \/ LookupUndeclare(e) \/ SendUndeclare(e)

Next == LinkLost \/ Orchestrator \/ \E e \in Entities : User(e)

Spec == Init /\ [][Next]_vars

-----------------------------------------------------------------------------
(* Properties.                                                             *)

FlagTypes == up \in BOOLEAN /\ installed \in BOOLEAN

OtherTypes ==
    /\ link \in Nat
    /\ loop \in LoopPcs /\ kind \in 1 .. NumKinds
    /\ plan \subseteq Entities /\ router \subseteq Entities
    /\ reg \subseteq Entities /\ raced \subseteq Entities
    /\ upc \in [Entities -> UserPcs]
    /\ target \in [Entities -> Nat]

\* Every variable keeps its type; the replay never visits a registry that does
\* not exist.
TypeOK == FlagTypes /\ OtherTypes

\* The orchestrator has replayed everything on a link that is alive.
Settled == loop = "steady" /\ up

\* No declaration is lost to a reconnect: an entity whose Declare succeeded and
\* that was not dropped is declared at the router once the replay is over,
\* whatever link its own declaration went to.
NoLostDeclaration ==
    Settled => \A e \in Entities : upc[e] = "live" => e \in router

\* A dropped entity leaves the router, except when the Drop fell between the
\* snapshot of its registry and the replay of its entry.
GhostOnlyByRace ==
    \A e \in Entities : Settled /\ upc[e] = "dropped" /\ e \in router => e \in raced

\* Drop "undeclares" and, during a reconnect, "callers see no difference": a
\* dropped entity is not declared at the router once the replay is over. It does
\* not hold: the race that GhostOnlyByRace exempts is real.
NoGhost ==
    Settled => \A e \in Entities : upc[e] = "dropped" => e \notin router
=============================================================================
