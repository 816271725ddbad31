----------------------- MODULE SessionLifecycleProofs -----------------------
(***************************************************************************)
(* Proofs about SessionLifecycle, for any number of Close callers and of   *)
(* Runtimes. The safety invariants follow from one inductive invariant     *)
(* that ties the orchestrator's program counter to the Runtime it holds.   *)
(* Then about Config, which a session is opened with: what a document      *)
(* means does not depend on the order of the walk.                         *)
(***************************************************************************)
EXTENDS SessionLifecycle, Config, SequenceTheorems, TLAPS

\* The orchestrator holds a Runtime that may be live.
Holding == pc \in {"register", "store", "replay", "wait"}

\* Runtimes are numbered in the order of their creation.
NumberedInOrder == \A r \in RuntimeIds : r > nRt => rts[r] = "none"

\* Only the newest Runtime may be live, and only while it is held.
OnlyNewestLive == \A r \in RuntimeIds : Live(r) => r = nRt /\ Holding

\* A Runtime that is held or being released exists and is the current one.
CurrentIsNewest ==
    /\ pc \in {"register", "store", "replay", "wait", "unregister"} => nRt > 0
    /\ pc \in {"replay", "wait", "unregister"} => cur = nRt

\* The registry holds the current Runtime from Register to Unregister.
RegistryFollowsLoop ==
    registry = IF pc \in {"store", "replay", "wait", "unregister"} THEN {nRt} ELSE {}

\* From the start of a Runtime to EnterReconnecting only Close changes the state.
StateFollowsLoop ==
    pc \in {"register", "store", "replay", "wait", "unregister", "clear",
            "check", "enter"} => state \in {"Active", "Closed"}

\* The user-close signal comes after the state is Closed.
SignalAfterClosed ==
    /\ userClose => state = "Closed"
    /\ \A c \in Closers : cpc[c] = "signal" => state = "Closed"

DoneAtExit == done => pc = "exited"

IndInv == /\ OtherTypes
          /\ NumberedInOrder /\ OnlyNewestLive /\ CurrentIsNewest
          /\ RegistryFollowsLoop /\ StateFollowsLoop /\ SignalAfterClosed
          /\ DoneAtExit /\ ExitOnlyWhenClosed

-----------------------------------------------------------------------------
\* Before Open dials, no Runtime exists and nothing is registered.
LEMMA InitIndInv == Init => IndInv
  BY LifecycleAssumption
  DEF Init, IndInv, OtherTypes, NumberedInOrder, OnlyNewestLive, CurrentIsNewest,
      RegistryFollowsLoop, StateFollowsLoop, SignalAfterClosed, DoneAtExit,
      ExitOnlyWhenClosed, Holding, Live, RuntimeIds, States, Phases, LoopPcs,
      ClosePcs

\* dialAndRun preserves the invariant: the state machine lets Run create a
\* Runtime only when no other one is live.
LEMMA ConnectStep == IndInv /\ Connect => IndInv'
<1> SUFFICES ASSUME IndInv, Connect PROVE IndInv'
  OBVIOUS
<1> USE LifecycleAssumption
    DEF IndInv, OtherTypes, NumberedInOrder, OnlyNewestLive, CurrentIsNewest,
        RegistryFollowsLoop, StateFollowsLoop, SignalAfterClosed, DoneAtExit,
        ExitOnlyWhenClosed, Holding, Live, RuntimeIds, States, Phases, LoopPcs,
        ClosePcs, sessionVars, runtimeVars, registryVars, openVars, Goto, AttemptFailed
<1>1. CASE DialOK
  BY <1>1 DEF DialOK
<1>2. CASE DialFail
  BY <1>2 DEF DialFail
<1>3. CASE BeginHandshake
  BY <1>3 DEF BeginHandshake
<1>4. CASE BeginHandshakeCAS
  BY <1>4 DEF BeginHandshakeCAS
<1>5. CASE HandshakeOK
  BY <1>5 DEF HandshakeOK
<1>6. CASE HandshakeFail
  BY <1>6 DEF HandshakeFail
<1>7. CASE Run
  BY <1>7 DEF Run
<1>8. QED
  BY <1>1, <1>2, <1>3, <1>4, <1>5, <1>6, <1>7 DEF Connect

\* So do the steps of the reconnect loop.
LEMMA LoopStep == IndInv /\ Loop => IndInv'
<1> SUFFICES ASSUME IndInv, Loop PROVE IndInv'
  OBVIOUS
<1> USE LifecycleAssumption
    DEF IndInv, OtherTypes, NumberedInOrder, OnlyNewestLive, CurrentIsNewest,
        RegistryFollowsLoop, StateFollowsLoop, SignalAfterClosed, DoneAtExit,
        ExitOnlyWhenClosed, Holding, Live, RuntimeIds, States, Phases, LoopPcs,
        ClosePcs, sessionVars, runtimeVars, registryVars, openVars, Goto, Exit
<1>1. CASE Register
  BY <1>1 DEF Register
<1>2. CASE StoreCurrent
  BY <1>2 DEF StoreCurrent
<1>3. CASE ReplayEntities
  BY <1>3 DEF ReplayEntities
<1>4. CASE WaitDone
  BY <1>4 DEF WaitDone
<1>5. CASE Unregister
  BY <1>5 DEF Unregister
<1>6. CASE ClearCurrent
  BY <1>6 DEF ClearCurrent
<1>7. CASE CheckUserClose
  BY <1>7 DEF CheckUserClose
<1>8. CASE EnterReconnecting
  BY <1>8 DEF EnterReconnecting
<1>9. CASE Retry
  BY <1>9 DEF Retry
<1>10. CASE Backoff
  BY <1>10 DEF Backoff
<1>11. QED
  BY <1>1, <1>2, <1>3, <1>4, <1>5, <1>6, <1>7, <1>8, <1>9, <1>10 DEF Loop

\* So does every step of a Close call.
LEMMA CloseStepKeeps ==
    ASSUME IndInv, NEW c \in Closers, CloseStep(c) PROVE IndInv'
<1> USE LifecycleAssumption
    DEF IndInv, OtherTypes, NumberedInOrder, OnlyNewestLive, CurrentIsNewest,
        RegistryFollowsLoop, StateFollowsLoop, SignalAfterClosed, DoneAtExit,
        ExitOnlyWhenClosed, Holding, Live, RuntimeIds, States, Phases, LoopPcs,
        ClosePcs, sessionVars, runtimeVars, registryVars, openVars, CloseGoto
<1>1. CASE CloseCall(c)
  BY <1>1 DEF CloseCall
<1>2. CASE CloseFarewell(c)
  BY <1>2 DEF CloseFarewell
<1>3. CASE InnerClose(c)
  BY <1>3 DEF InnerClose
<1>4. CASE SignalUserClose(c)
  BY <1>4 DEF SignalUserClose
<1>5. CASE ShutdownBegin(c)
  BY <1>5 DEF ShutdownBegin
<1>6. CASE ShutdownEnd(c)
  BY <1>6 DEF ShutdownEnd
<1>7. CASE CloseReturn(c)
  BY <1>7 DEF CloseReturn
<1>8. QED
  BY <1>1, <1>2, <1>3, <1>4, <1>5, <1>6, <1>7 DEF CloseStep

\* So does what the network and the Runtimes do on their own.
LEMMA RuntimeStep ==
    ASSUME IndInv, NEW r \in RuntimeIds, LinkLost(r) \/ RuntimeDone(r) \/ ReaderStuck(r)
    PROVE  IndInv'
<1> USE LifecycleAssumption
    DEF IndInv, OtherTypes, NumberedInOrder, OnlyNewestLive, CurrentIsNewest,
        RegistryFollowsLoop, StateFollowsLoop, SignalAfterClosed, DoneAtExit,
        ExitOnlyWhenClosed, Holding, Live, RuntimeIds, States, Phases, LoopPcs,
        ClosePcs, sessionVars, runtimeVars, registryVars, openVars
<1>1. CASE LinkLost(r)
  BY <1>1 DEF LinkLost
<1>2. CASE RuntimeDone(r)
  BY <1>2 DEF RuntimeDone
<1>3. CASE ReaderStuck(r)
  BY <1>3 DEF ReaderStuck
<1>4. QED
  BY <1>1, <1>2, <1>3

\* A silent router changes nothing the invariant is about.
LEMMA SilentStep == IndInv /\ RouterSilent => IndInv'
  BY DEF RouterSilent, IndInv, OtherTypes, NumberedInOrder, OnlyNewestLive,
         CurrentIsNewest, RegistryFollowsLoop, StateFollowsLoop,
         SignalAfterClosed, DoneAtExit, ExitOnlyWhenClosed, Holding, Live,
         sessionVars, runtimeVars, registryVars

\* And a stuttering step.
LEMMA StutterStep == IndInv /\ UNCHANGED vars => IndInv'
  BY DEF vars, IndInv, OtherTypes, NumberedInOrder, OnlyNewestLive,
         CurrentIsNewest, RegistryFollowsLoop, StateFollowsLoop,
         SignalAfterClosed, DoneAtExit, ExitOnlyWhenClosed, Holding, Live

\* The invariant holds in every reachable state of the session's life.
THEOREM Invariance == Spec => []IndInv
<1>1. IndInv /\ [Next]_vars => IndInv'
  BY ConnectStep, LoopStep, CloseStepKeeps, RuntimeStep, SilentStep,
     StutterStep DEF Next
<1>2. QED
  BY InitIndInv, <1>1, PTL DEF Spec

-----------------------------------------------------------------------------
\* Every variable of the lifecycle keeps its type.
THEOREM TypeCorrect == Spec => []TypeOK
<1>1. Init => FlagTypes
  BY DEF Init, FlagTypes
<1>2. FlagTypes /\ [Next]_vars => FlagTypes'
  BY ZenonT(40) DEF FlagTypes, Next, Connect, DialOK, DialFail, BeginHandshake,
         BeginHandshakeCAS, HandshakeOK, HandshakeFail, Run, AttemptFailed,
         Loop, Register, StoreCurrent, ReplayEntities, WaitDone, Unregister,
         ClearCurrent, CheckUserClose, EnterReconnecting, Retry, Backoff, Exit,
         CloseStep, CloseCall, CloseFarewell, InnerClose, SignalUserClose,
         ShutdownBegin, ShutdownEnd, CloseReturn, LinkLost, RuntimeDone,
         ReaderStuck, RouterSilent, vars,
         sessionVars, runtimeVars, registryVars, openVars
<1>3. IndInv /\ FlagTypes => TypeOK
  BY DEF IndInv, TypeOK
<1>4. QED
  BY Invariance, <1>1, <1>2, <1>3, PTL DEF Spec

\* At no time do two Runtimes of a client session own goroutines.
THEOREM OneLiveRuntimeHolds == Spec => []OneLiveRuntime
<1>1. IndInv => OneLiveRuntime
  BY DEF IndInv, OnlyNewestLive, OneLiveRuntime
<1>2. QED
  BY Invariance, <1>1, PTL

\* Session.done closes only after the last Runtime is done and unregistered,
\* so a Close that returned has left nothing running.
THEOREM DoneMeansQuietHolds == Spec => []DoneMeansQuiet
<1>1. IndInv => DoneMeansQuiet
  BY DEF IndInv, DoneAtExit, OnlyNewestLive, Holding, RegistryFollowsLoop,
         DoneMeansQuiet
<1>2. QED
  BY Invariance, <1>1, PTL

\* The orchestrator gives up only on a session that was closed.
THEOREM ExitOnlyWhenClosedHolds == Spec => []ExitOnlyWhenClosed
<1>1. IndInv => ExitOnlyWhenClosed
  BY DEF IndInv
<1>2. QED
  BY Invariance, <1>1, PTL

\* Closed is final, and no Runtime starts after it: every transition of the
\* state atom is a compare-and-swap from a state other than Closed.
THEOREM NoRuntimeAfterClosedHolds == Spec => NoRuntimeAfterClosed
<1>1. [Next]_vars => [state = "Closed" => state' = "Closed" /\ nRt' = nRt]_vars
  BY DEF Next, Connect, DialOK, DialFail, BeginHandshake, BeginHandshakeCAS,
         HandshakeOK, HandshakeFail, Run, AttemptFailed, Goto, Loop, Register,
         StoreCurrent, ReplayEntities, WaitDone, Unregister, ClearCurrent,
         CheckUserClose, EnterReconnecting, Retry, Backoff, Exit, CloseStep,
         CloseGoto, CloseCall, CloseFarewell, InnerClose, SignalUserClose,
         ShutdownBegin, ShutdownEnd, CloseReturn, LinkLost, RuntimeDone,
         ReaderStuck, RouterSilent, vars,
         sessionVars, runtimeVars, registryVars, openVars
<1>2. QED
  BY <1>1, PTL DEF Spec, NoRuntimeAfterClosed

-----------------------------------------------------------------------------
(* The walk over a configuration.                                          *)

Known == {Leaves[f] : f \in Fields} \cup Subtrees

\* What the handlers read in a document: its mode and, given that, leaf f; and
\* whether they accept all of it.
ReadMode(root) ==
    LET x == At(root, Leaves["mode"])
    IN  IF x = <<>> THEN Right("client") ELSE Coerce("mode", x[1], NoConfig)
Meaning(root, f) ==
    LET x == At(root, Leaves[f])
    IN  IF x = <<>> THEN [ok |-> TRUE, v |-> NoConfig[f]]
        ELSE Coerce(f, x[1], [NoConfig EXCEPT !["mode"] = ReadMode(root).v])
AllObjects(root) == \A p \in Subtrees : At(root, p) # <<>> => At(root, p)[1].k = "obj"
Sane(root) == ReadMode(root).ok /\ (\A f \in Fields : Meaning(root, f).ok) /\ AllObjects(root)

\* Path p is q or one of the objects around it.
Leads(p, q) == \/ p = q
               \/ Len(q) \in {2, 3} /\ p = <<q[1]>>
               \/ Len(q) = 3 /\ p = <<q[1], q[2]>>

\* The objects of a document that the walk goes into, and the items it meets.
Entered(root) == {p \in Subtrees : At(root, p) # <<>> /\ At(root, p)[1].k = "obj"}
Items(root) == {<<<<k>>, root[k]>> : k \in DOMAIN root}
               \cup UNION {Children(p, At(root, p)[1].v) : p \in Entered(root)}

\* The walk t still has to come to q.
Ahead(t, q) == \E i \in 1..Len(t) : \E x \in t[i] : Leads(x[1], q)

\* c has what the document says of leaf f.
Settled(root, c, f) == Meaning(root, f).ok /\ c[f] = Meaning(root, f).v

ModeItem(root) == <<<<"mode">>, root["mode"]>>
AtMode(root, t) == t # <<>> /\ t[1] = {ModeItem(root)} /\ "mode" \in DOMAIN root

\* The walk with the sets t of items left, after it has made the configuration c.
Walk(root, t, c, o) ==
    /\ t \in Seq(SUBSET Items(root))
    /\ c = [f \in Fields |-> c[f]]
    /\ \A f \in Fields \ {"mode"} : c[f] = NoConfig[f] \/ Settled(root, c, f)
    /\ \A f \in Fields : Settled(root, c, f) \/ Ahead(t, Leaves[f])
    /\ \A p \in Subtrees : (At(root, p) # <<>> => At(root, p)[1].k = "obj") \/ Ahead(t, p)
    /\ Settled(root, c, "mode") \/ AtMode(root, t)
    /\ o \in {"walking", "ok", "error"}
    /\ o = "error" => ~Sane(root)
    /\ o = "ok" => t = <<>>

WalkInv == source[1] = "document" => Walk(source[2], todo, config, outcome)

\* The leaves by name.
LEMMA FieldNames ==
    /\ Fields = {"endpoints", "init", "max", "factor", "listenAt", "timeout", "enabled", "address",
                 "interface", "ttl", "listen", "autoconnect", "mode", "id"}
    /\ Leaves["mode"] = <<"mode">>
BY DEF Fields, Leaves

\* The leaves' paths differ, and none is that of an object.
LEMMA LeavesApart ==
    /\ \A f, g \in Fields : Leaves[f] = Leaves[g] => f = g
    /\ \A f \in Fields : Leaves[f] \notin Subtrees
<1>1. \A f, g \in Fields : Leaves[f] = Leaves[g] => f = g
  BY FieldNames DEF Leaves
<1>2. \A f \in Fields : Leaves[f] \notin Subtrees
  BY FieldNames DEF Leaves, Subtrees
<1> QED BY <1>1, <1>2

\* The objects around a path that is known are known objects.
LEMMA KnownShape ==
    ASSUME NEW q \in Known
    PROVE  \/ \E a : q = <<a>>
           \/ \E a, b : q = <<a, b>> /\ <<a>> \in Subtrees
           \/ \E a, b, d : q = <<a, b, d>> /\ <<a>> \in Subtrees /\ <<a, b>> \in Subtrees
<1>1. CASE q \in Subtrees
  BY <1>1 DEF Subtrees
<1>2. ASSUME NEW f \in Fields, q = Leaves[f]
      PROVE  \/ \E a : q = <<a>>
             \/ \E a, b : q = <<a, b>> /\ <<a>> \in Subtrees
             \/ \E a, b, d : q = <<a, b, d>> /\ <<a>> \in Subtrees /\ <<a, b>> \in Subtrees
  BY <1>2, FieldNames DEF Leaves, Subtrees
<1> QED BY <1>1, <1>2 DEF Known

\* The value at a path of one key.
LEMMA AtOne ==
    ASSUME NEW root, NEW a
    PROVE  At(root, <<a>>) = IF a \in DOMAIN root THEN <<root[a]>> ELSE <<>>
<1> DEFINE top == <<[k |-> "obj", v |-> root]>>
<1>1. Len(<<a>>) = 1 /\ <<a>>[1] = a
  OBVIOUS
<1>2. At(root, <<a>>) = Under(top, a)
  BY <1>1 DEF At
<1>3. top # <<>> /\ top[1].k = "obj" /\ top[1].v = root
  OBVIOUS
<1> HIDE DEF top
<1> QED BY <1>2, <1>3 DEF Under

\* A second key is looked up under the first.
LEMMA AtTwo ==
    ASSUME NEW root, NEW a, NEW b
    PROVE  At(root, <<a, b>>) = Under(At(root, <<a>>), b)
<1> DEFINE top == <<[k |-> "obj", v |-> root]>>
<1>1. Len(<<a>>) = 1 /\ <<a>>[1] = a /\ Len(<<a, b>>) = 2 /\ <<a, b>>[1] = a /\ <<a, b>>[2] = b
  OBVIOUS
<1>2. At(root, <<a>>) = Under(top, a)
  BY <1>1 DEF At
<1>3. At(root, <<a, b>>) = Under(Under(top, a), b)
  BY <1>1 DEF At
<1> QED BY <1>2, <1>3

\* And a third under the second.
LEMMA AtThree ==
    ASSUME NEW root, NEW a, NEW b, NEW d
    PROVE  At(root, <<a, b, d>>) = Under(At(root, <<a, b>>), d)
<1> DEFINE top == <<[k |-> "obj", v |-> root]>>
<1>1. /\ Len(<<a, b>>) = 2 /\ <<a, b>>[1] = a /\ <<a, b>>[2] = b
      /\ Len(<<a, b, d>>) = 3 /\ <<a, b, d>>[1] = a /\ <<a, b, d>>[2] = b /\ <<a, b, d>>[3] = d
  OBVIOUS
<1>2. At(root, <<a, b>>) = Under(Under(top, a), b)
  BY <1>1 DEF At
<1>3. At(root, <<a, b, d>>) = Under(Under(Under(top, a), b), d)
  BY <1>1 DEF At
<1> QED BY <1>2, <1>3

\* The children of an object, by their paths.
LEMMA ChildPaths ==
    ASSUME NEW a, NEW k
    PROVE  Append(<<a>>, k) = <<a, k>> /\ \A b : Append(<<a, b>>, k) = <<a, b, k>>
<1>1. Append(<<a>>, k) = <<a, k>>
  <2> DEFINE X == {a, k}
  <2>1. <<a>> \in Seq(X) /\ <<a, k>> \in Seq(X) /\ k \in X /\ Len(<<a>>) = 1 /\ Len(<<a, k>>) = 2
    OBVIOUS
  <2>2. /\ Append(<<a>>, k) \in Seq(X) /\ Len(Append(<<a>>, k)) = 2
        /\ Append(<<a>>, k)[1] = a /\ Append(<<a>>, k)[2] = k
    BY <2>1
  <2>3. \A i \in 1..2 : Append(<<a>>, k)[i] = <<a, k>>[i]
    BY <2>2
  <2> HIDE DEF X
  <2> QED BY <2>1, <2>2, <2>3, SeqEqual
<1>2. ASSUME NEW b PROVE Append(<<a, b>>, k) = <<a, b, k>>
  <2> DEFINE X == {a, b, k}
  <2>1. /\ <<a, b>> \in Seq(X) /\ <<a, b, k>> \in Seq(X) /\ k \in X
        /\ Len(<<a, b>>) = 2 /\ Len(<<a, b, k>>) = 3
    OBVIOUS
  <2>2. /\ Append(<<a, b>>, k) \in Seq(X) /\ Len(Append(<<a, b>>, k)) = 3
        /\ Append(<<a, b>>, k)[1] = a /\ Append(<<a, b>>, k)[2] = b /\ Append(<<a, b>>, k)[3] = k
    BY <2>1
  <2>3. \A i \in 1..3 : Append(<<a, b>>, k)[i] = <<a, b, k>>[i]
    BY <2>2
  <2> HIDE DEF X
  <2> QED BY <2>1, <2>2, <2>3, SeqEqual
<1> QED BY <1>1, <1>2

\* An object we know has one key or two.
LEMMA SubtreeShape ==
    ASSUME NEW p \in Subtrees
    PROVE  (\E a : p = <<a>>) \/ (\E a, b : p = <<a, b>>)
BY DEF Subtrees

\* A child of an object the walk goes into lies under it.
LEMMA ChildAt ==
    ASSUME NEW root, NEW p \in Subtrees, NEW k
    PROVE  At(root, Append(p, k)) = Under(At(root, p), k)
<1>1. ASSUME NEW a, p = <<a>> PROVE At(root, Append(p, k)) = Under(At(root, p), k)
  <2>1. Append(p, k) = <<a, k>>
    BY <1>1, ChildPaths
  <2>2. At(root, <<a, k>>) = Under(At(root, <<a>>), k)
    BY AtTwo
  <2> QED BY <1>1, <2>1, <2>2
<1>2. ASSUME NEW a, NEW b, p = <<a, b>> PROVE At(root, Append(p, k)) = Under(At(root, p), k)
  <2>1. Append(p, k) = <<a, b, k>>
    BY <1>2, ChildPaths
  <2>2. At(root, <<a, b, k>>) = Under(At(root, <<a, b>>), k)
    BY AtThree
  <2> QED BY <1>2, <2>1, <2>2
<1> QED BY <1>1, <1>2, SubtreeShape

\* The items of the walk are the document's.
LEMMA ItemsAt ==
    ASSUME NEW root, NEW x \in Items(root)
    PROVE  At(root, x[1]) = <<x[2]>>
<1>1. CASE x \in {<<<<k>>, root[k]>> : k \in DOMAIN root}
  <2>1. PICK k \in DOMAIN root : x = <<<<k>>, root[k]>>
    BY <1>1
  <2>2. x[1] = <<k>> /\ x[2] = root[k]
    BY <2>1
  <2> QED BY <2>2, AtOne
<1>2. ASSUME NEW p \in Entered(root), x \in Children(p, At(root, p)[1].v)
      PROVE  At(root, x[1]) = <<x[2]>>
  <2>0. p \in Subtrees /\ At(root, p) # <<>> /\ At(root, p)[1].k = "obj"
    BY DEF Entered
  <2>1. PICK k \in DOMAIN At(root, p)[1].v : x = <<Append(p, k), At(root, p)[1].v[k]>>
    BY <1>2 DEF Children
  <2>2. x[1] = Append(p, k) /\ x[2] = At(root, p)[1].v[k]
    BY <2>1
  <2>3. At(root, x[1]) = Under(At(root, p), k)
    BY <2>0, <2>2, ChildAt
  <2> QED BY <2>0, <2>1, <2>2, <2>3 DEF Under
<1> QED BY <1>1, <1>2 DEF Items

\* Only known objects lead to a known path, other than itself.
LEMMA LeadsKnown ==
    ASSUME NEW q \in Known, NEW p, Leads(p, q)
    PROVE  p = q \/ p \in Subtrees
<1>1. ASSUME NEW a, q = <<a>> PROVE p = q \/ p \in Subtrees
  <2>1. Len(q) = 1
    BY <1>1
  <2> QED BY <2>1 DEF Leads
<1>2. ASSUME NEW a, NEW b, q = <<a, b>>, <<a>> \in Subtrees PROVE p = q \/ p \in Subtrees
  <2>1. Len(q) = 2 /\ q[1] = a
    BY <1>2
  <2> QED BY <2>1, <1>2 DEF Leads
<1>3. ASSUME NEW a, NEW b, NEW d, q = <<a, b, d>>, <<a>> \in Subtrees, <<a, b>> \in Subtrees
      PROVE  p = q \/ p \in Subtrees
  <2>1. Len(q) = 3 /\ q[1] = a /\ q[2] = b
    BY <1>3
  <2> QED BY <2>1, <1>3 DEF Leads
<1> QED BY <1>1, <1>2, <1>3, KnownShape

\* An object on the way to a path that the document has holds an item that leads on.
LEMMA LeadsOn ==
    ASSUME NEW root, NEW q \in Known, NEW p \in Subtrees, Leads(p, q), p # q, At(root, q) # <<>>
    PROVE  LET o == At(root, p)
           IN  o # <<>> /\ o[1].k = "obj" /\ \E x \in Children(p, o[1].v) : Leads(x[1], q)
<1> DEFINE o == At(root, p)
           Goal == o # <<>> /\ o[1].k = "obj" /\ \E x \in Children(p, o[1].v) : Leads(x[1], q)
<1>1. ASSUME NEW k, Under(o, k) # <<>>, Leads(Append(p, k), q) PROVE Goal
  <2>1. o # <<>> /\ o[1].k = "obj" /\ k \in DOMAIN o[1].v
    BY <1>1 DEF Under
  <2>2. <<Append(p, k), o[1].v[k]>> \in Children(p, o[1].v)
    BY <2>1 DEF Children
  <2>3. <<Append(p, k), o[1].v[k]>>[1] = Append(p, k)
    OBVIOUS
  <2> QED BY <2>1, <2>2, <2>3, <1>1
<1>3. ASSUME NEW a, q = <<a>> PROVE Goal
  <2>1. Len(q) = 1
    BY <1>3
  <2> QED BY <2>1 DEF Leads
<1>4. ASSUME NEW a, NEW b, q = <<a, b>> PROVE Goal
  <2>1. Len(q) = 2 /\ q[1] = a
    BY <1>4
  <2>2. p = <<a>>
    BY <2>1 DEF Leads
  <2>3. Append(p, b) = q
    BY <2>2, <1>4, ChildPaths
  <2>4. Under(o, b) # <<>>
    <3>1. At(root, <<a, b>>) = Under(At(root, <<a>>), b)
      BY AtTwo, AtThree
    <3> QED BY <3>1, <2>2, <1>4
  <2>5. Leads(Append(p, b), q)
    BY <2>3 DEF Leads
  <2> HIDE DEF o
  <2> QED BY <2>4, <2>5, <1>1
<1>5. ASSUME NEW a, NEW b, NEW d, q = <<a, b, d>> PROVE Goal
  <2>1. Len(q) = 3 /\ q[1] = a /\ q[2] = b
    BY <1>5
  <2>2. p = <<a>> \/ p = <<a, b>>
    BY <2>1 DEF Leads
  <2>3. CASE p = <<a>>
    <3>1. Append(p, b) = <<a, b>>
      BY <2>3, ChildPaths
    <3>2. Leads(Append(p, b), q)
      BY <3>1, <2>1 DEF Leads
    <3>3. Under(Under(o, b), d) # <<>>
      <4>1. /\ At(root, <<a, b>>) = Under(At(root, <<a>>), b)
            /\ At(root, <<a, b, d>>) = Under(At(root, <<a, b>>), d)
        BY AtTwo, AtThree
      <4> QED BY <4>1, <2>3, <1>5
    <3>4. Under(o, b) # <<>>
      BY <3>3 DEF Under
    <3> HIDE DEF o
    <3> QED BY <3>2, <3>4, <1>1
  <2>4. CASE p = <<a, b>>
    <3>1. Append(p, d) = q
      BY <2>4, <1>5, ChildPaths
    <3>2. Leads(Append(p, d), q)
      BY <3>1 DEF Leads
    <3>3. Under(o, d) # <<>>
      <4>1. At(root, <<a, b, d>>) = Under(At(root, <<a, b>>), d)
        BY AtTwo, AtThree
      <4> QED BY <4>1, <2>4, <1>5
    <3> HIDE DEF o
    <3> QED BY <3>2, <3>3, <1>1
  <2> QED BY <2>2, <2>3, <2>4
<1> HIDE DEF Goal
<1>6. Goal
  <2>2. CASE \E a : q = <<a>>
    BY <2>2, <1>3
  <2>3. CASE \E a, b : q = <<a, b>> /\ <<a>> \in Subtrees
    BY <2>3, <1>4
  <2>4. CASE \E a, b, d : q = <<a, b, d>> /\ <<a>> \in Subtrees /\ <<a, b>> \in Subtrees
    BY <2>4, <1>5
  <2> QED BY <2>2, <2>3, <2>4, KnownShape
<1> QED BY <1>6 DEF Goal

-----------------------------------------------------------------------------
(* The sets of items left.                                                 *)

\* An item is taken out of the innermost object.
LEMMA TakenOut ==
    ASSUME NEW I, NEW t \in Seq(SUBSET I), t # <<>>, NEW x \in t[1]
    PROVE  LET left == [t EXCEPT ![1] = @ \ {x}]
           IN  /\ left \in Seq(SUBSET I)
               /\ \A q : Ahead(t, q) => Ahead(left, q) \/ Leads(x[1], q)
<1> DEFINE left == [t EXCEPT ![1] = @ \ {x}]
           S == SUBSET I
<1>1. t[1] \ {x} \in S /\ Len(t) \in Nat /\ 1 \in 1..Len(t)
  <2>1. t[1] \in SUBSET I
    OBVIOUS
  <2>2. t[1] \ {x} \in SUBSET I
    BY <2>1
  <2> QED BY <2>2
<1>2. t \in Seq(S)
  OBVIOUS
<1> HIDE DEF S
<1>3. /\ left \in Seq(S) /\ Len(left) = Len(t) /\ left[1] = t[1] \ {x}
      /\ \A i \in 1..Len(t) : i # 1 => left[i] = t[i]
  BY <1>1, <1>2
<1> HIDE DEF left
<1>4. ASSUME NEW q, Ahead(t, q), ~Leads(x[1], q) PROVE Ahead(left, q)
  <2>0. PICK i \in 1..Len(t) : \E y \in t[i] : Leads(y[1], q)
    BY <1>4 DEF Ahead
  <2>1. PICK y \in t[i] : Leads(y[1], q)
    BY <2>0
  <2>2. y \in left[i] /\ i \in 1..Len(left)
    <3>1. y # x
      BY <1>4, <2>1
    <3>2. CASE i = 1
      BY <3>1, <3>2, <1>3
    <3>3. CASE i # 1
      BY <3>3, <1>3
    <3> QED BY <3>2, <3>3
  <2> QED BY <2>1, <2>2 DEF Ahead
<1> QED BY <1>3, <1>4 DEF left, S

\* The items of an object are put before the others.
LEMMA PutBefore ==
    ASSUME NEW I, NEW t \in Seq(SUBSET I), NEW C \in SUBSET I
    PROVE  /\ <<C>> \o t \in Seq(SUBSET I)
           /\ \A q : Ahead(t, q) => Ahead(<<C>> \o t, q)
           /\ \A q : (\E x \in C : Leads(x[1], q)) => Ahead(<<C>> \o t, q)
<1> DEFINE S == SUBSET I
           u == <<C>> \o t
<1>1. t \in Seq(S) /\ <<C>> \in Seq(S) /\ C \in S
  OBVIOUS
<1> HIDE DEF S
<1>2. /\ u \in Seq(S) /\ Len(u) = Len(t) + 1 /\ Len(t) \in Nat /\ u[1] = C
      /\ \A i \in 1..Len(t) : u[i + 1] = t[i]
  BY <1>1
<1> HIDE DEF u
<1>3. ASSUME NEW q, Ahead(t, q) PROVE Ahead(u, q)
  <2>0. PICK i \in 1..Len(t) : \E y \in t[i] : Leads(y[1], q)
    BY <1>3 DEF Ahead
  <2>1. PICK y \in t[i] : Leads(y[1], q)
    BY <2>0
  <2>2. i + 1 \in 1..Len(u) /\ y \in u[i + 1]
    BY <1>2, <2>1
  <2> QED BY <2>1, <2>2 DEF Ahead
<1>4. ASSUME NEW q, NEW x \in C, Leads(x[1], q) PROVE Ahead(u, q)
  <2>1. 1 \in 1..Len(u) /\ x \in u[1]
    BY <1>2
  <2> QED BY <1>4, <2>1 DEF Ahead
<1> QED BY <1>2, <1>3, <1>4 DEF u, S

\* An object without items left is left.
LEMMA LeftBehind ==
    ASSUME NEW I, NEW t \in Seq(SUBSET I), t # <<>>, t[1] = {}
    PROVE  /\ Tail(t) \in Seq(SUBSET I) /\ (Len(t) = 1 => Tail(t) = <<>>)
           /\ \A q : Ahead(t, q) => Ahead(Tail(t), q)
<1> DEFINE S == SUBSET I
           u == Tail(t)
<1>1. t \in Seq(S)
  OBVIOUS
<1> HIDE DEF S
<1>2. /\ u \in Seq(S) /\ Len(t) = Len(u) + 1 /\ Len(u) \in Nat
      /\ \A i \in 1..Len(u) : u[i] = t[i + 1]
  BY <1>1
<1> HIDE DEF u
<1>3. ASSUME NEW q, Ahead(t, q) PROVE Ahead(u, q)
  <2>0. PICK i \in 1..Len(t) : \E y \in t[i] : Leads(y[1], q)
    BY <1>3 DEF Ahead
  <2>1. PICK y \in t[i] : Leads(y[1], q)
    BY <2>0
  <2>2. i # 1
    BY <2>1
  <2>3. i - 1 \in 1..Len(u) /\ i - 1 + 1 = i
    BY <1>2, <2>2
  <2>4. y \in u[i - 1]
    BY <1>2, <2>1, <2>3
  <2> QED BY <2>1, <2>3, <2>4 DEF Ahead
<1>4. Len(t) = 1 => u = <<>>
  BY <1>2
<1> QED BY <1>2, <1>3, <1>4 DEF u, S

-----------------------------------------------------------------------------
(* The leaves.                                                             *)

\* A handler looks at no more of the configuration than the mode, and "listen"
\* at itself.
LEMMA CoerceSame ==
    ASSUME NEW f \in Fields, NEW x, NEW c, NEW d,
           f = "autoconnect" => c["mode"] = d["mode"],
           f = "listen" /\ x.k # "bool" => c["listen"] = d["listen"]
    PROVE  Coerce(f, x, c) = Coerce(f, x, d)
BY FieldNames DEF Coerce

\* The mode a document gives.
LEMMA ModeMeans ==
    ASSUME NEW root
    PROVE  /\ ReadMode(root).ok <=> Meaning(root, "mode").ok
           /\ ReadMode(root).v = Meaning(root, "mode").v
<1> DEFINE x == At(root, Leaves["mode"])
           d == [NoConfig EXCEPT !["mode"] = ReadMode(root).v]
<1>1. CASE x = <<>>
  <2>1. ReadMode(root) = Right("client")
    BY <1>1 DEF ReadMode
  <2>2. Meaning(root, "mode") = [ok |-> TRUE, v |-> NoConfig["mode"]]
    BY <1>1 DEF Meaning
  <2>3. NoConfig["mode"] = "client"
    BY FieldNames DEF NoConfig, Zero
  <2> QED BY <2>1, <2>2, <2>3 DEF Right
<1>2. CASE x # <<>>
  <2>1. ReadMode(root) = Coerce("mode", x[1], NoConfig)
    BY <1>2 DEF ReadMode
  <2>2. Meaning(root, "mode") = Coerce("mode", x[1], d)
    BY <1>2 DEF Meaning
  <2>3. "mode" \in Fields
    BY FieldNames
  <2> HIDE DEF x, d
  <2>4. Coerce("mode", x[1], NoConfig) = Coerce("mode", x[1], d)
    BY <2>3, CoerceSame
  <2> QED BY <2>1, <2>2, <2>4
<1> QED BY <1>1, <1>2

\* Once the mode is known, the handler of a leaf gives what the document means.
LEMMA CoerceMeans ==
    ASSUME NEW root, NEW c, NEW f \in Fields, NEW x \in Items(root), x[1] = Leaves[f],
           f = "mode" \/ Settled(root, c, "mode"),
           f # "mode" => c[f] = NoConfig[f] \/ Settled(root, c, f)
    PROVE  Coerce(f, x[2], c) = Meaning(root, f)
<1> DEFINE d == [NoConfig EXCEPT !["mode"] = ReadMode(root).v]
<1>1. At(root, Leaves[f]) = <<x[2]>>
  BY ItemsAt
<1>2. Meaning(root, f) = Coerce(f, x[2], d)
  <2>1. PICK y : y = x[2]
    OBVIOUS
  <2>2. At(root, Leaves[f]) = <<y>> /\ <<y>> # <<>> /\ <<y>>[1] = y
    BY <1>1, <2>1
  <2> QED BY <2>1, <2>2 DEF Meaning
<1>3. d["mode"] = ReadMode(root).v /\ d["listen"] = NoConfig["listen"]
  BY FieldNames DEF NoConfig
<1> HIDE DEF d
<1>4. ASSUME f = "autoconnect" PROVE c["mode"] = d["mode"]
  BY <1>3, <1>4, ModeMeans DEF Settled
<1>5. ASSUME f = "listen", x[2].k # "bool" PROVE c["listen"] = d["listen"]
  <2>1. Coerce("listen", x[2], d) = [ok |-> TRUE, v |-> d["listen"]]
    BY <1>5 DEF Coerce
  <2>2. Meaning(root, "listen").v = d["listen"]
    BY <2>1, <1>2, <1>5
  <2> QED BY <2>2, <1>3, <1>5 DEF Settled
<1> QED BY <1>2, <1>4, <1>5, CoerceSame

-----------------------------------------------------------------------------
(* The steps.                                                              *)

\* The handler of a leaf succeeds.
LEMMA LeafRead ==
    ASSUME NEW root, NEW t, NEW c, Walk(root, t, c, "walking"), t # <<>>, NEW x \in t[1],
           NEW f \in Fields, Leaves[f] = x[1], Coerce(f, x[2], c).ok
    PROVE  Walk(root, [t EXCEPT ![1] = @ \ {x}], [c EXCEPT ![f] = Coerce(f, x[2], c).v], "walking")
<1> DEFINE left == [t EXCEPT ![1] = @ \ {x}]
           I == Items(root)
           e == [c EXCEPT ![f] = Coerce(f, x[2], c).v]
<1>1. /\ t \in Seq(SUBSET I) /\ c = [g \in Fields |-> c[g]]
      /\ \A g \in Fields \ {"mode"} : c[g] = NoConfig[g] \/ Settled(root, c, g)
      /\ \A g \in Fields : Settled(root, c, g) \/ Ahead(t, Leaves[g])
      /\ \A p \in Subtrees : (At(root, p) # <<>> => At(root, p)[1].k = "obj") \/ Ahead(t, p)
      /\ Settled(root, c, "mode") \/ AtMode(root, t)
  BY DEF Walk
<1>2. x \in I
  BY <1>1
<1> HIDE DEF I
<1>3. left \in Seq(SUBSET I) /\ \A q : Ahead(t, q) => Ahead(left, q) \/ Leads(x[1], q)
  BY <1>1, TakenOut
<1> HIDE DEF left
<1>4. f = "mode" \/ Settled(root, c, "mode")
  <2>1. SUFFICES ASSUME AtMode(root, t) PROVE f = "mode"
    BY <1>1
  <2>2. x = ModeItem(root)
    BY <2>1 DEF AtMode
  <2>3. x[1] = <<"mode">> /\ "mode" \in Fields
    BY <2>2, FieldNames DEF ModeItem
  <2> QED BY <2>3, FieldNames, LeavesApart
<1>5. Coerce(f, x[2], c) = Meaning(root, f)
  BY <1>1, <1>2, <1>4, CoerceMeans DEF I
<1>6. e = [g \in Fields |-> e[g]] /\ e[f] = Meaning(root, f).v /\ \A g \in Fields : g # f => e[g] = c[g]
  <2>1. PICK v : v = Coerce(f, x[2], c).v
    OBVIOUS
  <2>2. e = [c EXCEPT ![f] = v]
    BY <2>1
  <2> HIDE DEF e
  <2>3. v = Meaning(root, f).v
    BY <2>1, <1>5
  <2> QED BY <2>2, <2>3, <1>1
<1> HIDE DEF e
<1>7. Settled(root, e, f) /\ \A g \in Fields : Settled(root, c, g) => Settled(root, e, g)
  BY <1>5, <1>6 DEF Settled
<1>8. ASSUME NEW q \in Known, q # Leaves[f], Ahead(t, q) PROVE Ahead(left, q)
  <2>1. ~Leads(x[1], q)
    BY <1>8, LeadsKnown, LeavesApart
  <2> QED BY <2>1, <1>3, <1>8
<1>9. \A g \in Fields : Settled(root, e, g) \/ Ahead(left, Leaves[g])
  <2> SUFFICES ASSUME NEW g \in Fields, g # f PROVE Settled(root, e, g) \/ Ahead(left, Leaves[g])
    BY <1>7
  <2>1. Leaves[g] \in Known /\ Leaves[g] # Leaves[f]
    BY LeavesApart DEF Known
  <2> QED BY <2>1, <1>1, <1>7, <1>8
<1>10. \A p \in Subtrees : (At(root, p) # <<>> => At(root, p)[1].k = "obj") \/ Ahead(left, p)
  <2> SUFFICES ASSUME NEW p \in Subtrees, Ahead(t, p) PROVE Ahead(left, p)
    BY <1>1
  <2>1. p \in Known /\ p # Leaves[f]
    BY LeavesApart DEF Known
  <2> QED BY <2>1, <1>8
<1>11. Settled(root, e, "mode")
  BY <1>4, <1>7, FieldNames
<1>12. \A g \in Fields \ {"mode"} : e[g] = NoConfig[g] \/ Settled(root, e, g)
  BY <1>1, <1>6, <1>7
<1> QED BY <1>3, <1>6, <1>9, <1>10, <1>11, <1>12 DEF Walk, I, left, e

\* The handler of a leaf fails.
LEMMA LeafRefused ==
    ASSUME NEW root, NEW t, NEW c, Walk(root, t, c, "walking"), t # <<>>, NEW x \in t[1],
           NEW f \in Fields, Leaves[f] = x[1], ~Coerce(f, x[2], c).ok
    PROVE  Walk(root, t, c, "error")
<1>1. /\ t \in Seq(SUBSET Items(root))
      /\ \A g \in Fields \ {"mode"} : c[g] = NoConfig[g] \/ Settled(root, c, g)
      /\ Settled(root, c, "mode") \/ AtMode(root, t)
  BY DEF Walk
<1>2. x \in Items(root)
  BY <1>1
<1>4. f = "mode" \/ Settled(root, c, "mode")
  <2>1. SUFFICES ASSUME AtMode(root, t) PROVE f = "mode"
    BY <1>1
  <2>2. x = ModeItem(root)
    BY <2>1 DEF AtMode
  <2>3. x[1] = <<"mode">> /\ "mode" \in Fields
    BY <2>2, FieldNames DEF ModeItem
  <2> QED BY <2>3, FieldNames, LeavesApart
<1>5. Coerce(f, x[2], c) = Meaning(root, f)
  BY <1>1, <1>2, <1>4, CoerceMeans
<1>6. ~Sane(root)
  BY <1>5 DEF Sane
<1> QED BY <1>6 DEF Walk

\* The walk goes into an object, or finds something else where one belongs.
LEMMA SubtreeEntered ==
    ASSUME NEW root, NEW t, NEW c, Walk(root, t, c, "walking"), t # <<>>, NEW x \in t[1],
           x[1] \in Subtrees
    PROVE  /\ x[2].k = "obj" =>
                Walk(root, <<Children(x[1], x[2].v)>> \o [t EXCEPT ![1] = @ \ {x}], c, "walking")
           /\ x[2].k # "obj" => Walk(root, t, c, "error")
<1> DEFINE left == [t EXCEPT ![1] = @ \ {x}]
           I == Items(root)
           C == Children(x[1], x[2].v)
           u == <<C>> \o left
<1>1. /\ t \in Seq(SUBSET I) /\ c = [g \in Fields |-> c[g]]
      /\ \A g \in Fields \ {"mode"} : c[g] = NoConfig[g] \/ Settled(root, c, g)
      /\ \A g \in Fields : Settled(root, c, g) \/ Ahead(t, Leaves[g])
      /\ \A p \in Subtrees : (At(root, p) # <<>> => At(root, p)[1].k = "obj") \/ Ahead(t, p)
      /\ Settled(root, c, "mode") \/ AtMode(root, t)
  BY DEF Walk
<1>2. x \in I
  BY <1>1
<1>3. At(root, x[1]) = <<x[2]>>
  BY <1>2, ItemsAt
<1>4. At(root, x[1]) # <<>> /\ At(root, x[1])[1] = x[2]
  <2>1. PICK y : y = x[2]
    OBVIOUS
  <2> QED BY <2>1, <1>3
<1>5. ASSUME x[2].k # "obj" PROVE Walk(root, t, c, "error")
  <2>1. ~Sane(root)
    BY <1>4, <1>5 DEF Sane, AllObjects
  <2> QED BY <2>1 DEF Walk
<1>6. ASSUME x[2].k = "obj" PROVE Walk(root, u, c, "walking")
  <2>1. C \in SUBSET I
    <3>1. x[1] \in Entered(root)
      BY <1>4, <1>6 DEF Entered
    <3>2. C \in {Children(p, At(root, p)[1].v) : p \in Entered(root)}
      BY <3>1, <1>4
    <3> HIDE DEF C
    <3> QED BY <3>2 DEF Items
  <2> HIDE DEF I, C
  <2>2. left \in Seq(SUBSET I) /\ \A q : Ahead(t, q) => Ahead(left, q) \/ Leads(x[1], q)
    BY <1>1, TakenOut
  <2> HIDE DEF left
  <2>3. /\ u \in Seq(SUBSET I)
        /\ \A q : Ahead(left, q) => Ahead(u, q)
        /\ \A q : (\E y \in C : Leads(y[1], q)) => Ahead(u, q)
    BY <2>1, <2>2, PutBefore
  <2> HIDE DEF u
  <2>4. ASSUME NEW q \in Known, q # x[1], Ahead(t, q), At(root, q) # <<>> PROVE Ahead(u, q)
    <3>1. CASE Leads(x[1], q)
      <4>1. \E y \in Children(x[1], At(root, x[1])[1].v) : Leads(y[1], q)
        BY <3>1, <2>4, LeadsOn
      <4>2. \E y \in C : Leads(y[1], q)
        BY <4>1, <1>4 DEF C
      <4> QED BY <4>2, <2>3
    <3>2. CASE ~Leads(x[1], q)
      BY <3>2, <2>2, <2>3, <2>4
    <3> QED BY <3>1, <3>2
  <2>5. \A g \in Fields : Settled(root, c, g) \/ Ahead(u, Leaves[g])
    <3> SUFFICES ASSUME NEW g \in Fields, ~Settled(root, c, g) PROVE Ahead(u, Leaves[g])
      OBVIOUS
    <3>1. Leaves[g] \in Known /\ Leaves[g] # x[1] /\ Ahead(t, Leaves[g])
      BY <1>1, LeavesApart DEF Known
    <3>2. ASSUME At(root, Leaves[g]) = <<>>, g # "mode" PROVE FALSE
      <4>1. Meaning(root, g) = [ok |-> TRUE, v |-> NoConfig[g]]
        BY <3>2 DEF Meaning
      <4> QED BY <4>1, <1>1, <3>2 DEF Settled
    <3>3. ASSUME At(root, Leaves[g]) = <<>>, g = "mode" PROVE FALSE
      <4>1. AtMode(root, t)
        BY <1>1, <3>3
      <4>2. x[1] = <<"mode">>
        BY <4>1 DEF AtMode, ModeItem
      <4> QED BY <4>2, FieldNames, LeavesApart
    <3> QED BY <3>1, <3>2, <3>3, <2>4
  <2>6. \A p \in Subtrees : (At(root, p) # <<>> => At(root, p)[1].k = "obj") \/ Ahead(u, p)
    <3> SUFFICES ASSUME NEW p \in Subtrees, At(root, p) # <<>>, At(root, p)[1].k # "obj" PROVE Ahead(u, p)
      OBVIOUS
    <3>1. p \in Known /\ p # x[1] /\ Ahead(t, p)
      BY <1>1, <1>4, <1>6 DEF Known
    <3> QED BY <3>1, <2>4
  <2>7. Settled(root, c, "mode")
    <3>1. SUFFICES ASSUME AtMode(root, t) PROVE FALSE
      BY <1>1
    <3>2. x[1] = <<"mode">>
      BY <3>1 DEF AtMode, ModeItem
    <3> QED BY <3>2, FieldNames, LeavesApart
  <2> QED BY <1>1, <2>3, <2>5, <2>6, <2>7 DEF Walk, I
<1> QED BY <1>5, <1>6 DEF u, C, left

\* A key nobody knows is skipped.
LEMMA KeySkipped ==
    ASSUME NEW root, NEW t, NEW c, Walk(root, t, c, "walking"), t # <<>>, NEW x \in t[1],
           x[1] \notin Known
    PROVE  Walk(root, [t EXCEPT ![1] = @ \ {x}], c, "walking")
<1> DEFINE left == [t EXCEPT ![1] = @ \ {x}]
           I == Items(root)
<1>1. /\ t \in Seq(SUBSET I) /\ c = [g \in Fields |-> c[g]]
      /\ \A g \in Fields \ {"mode"} : c[g] = NoConfig[g] \/ Settled(root, c, g)
      /\ \A g \in Fields : Settled(root, c, g) \/ Ahead(t, Leaves[g])
      /\ \A p \in Subtrees : (At(root, p) # <<>> => At(root, p)[1].k = "obj") \/ Ahead(t, p)
      /\ Settled(root, c, "mode") \/ AtMode(root, t)
  BY DEF Walk
<1> HIDE DEF I
<1>2. left \in Seq(SUBSET I) /\ \A q : Ahead(t, q) => Ahead(left, q) \/ Leads(x[1], q)
  BY <1>1, TakenOut
<1> HIDE DEF left
<1>3. \A q \in Known : Ahead(t, q) => Ahead(left, q)
  BY <1>2, LeadsKnown DEF Known
<1>4. \A g \in Fields : Leaves[g] \in Known
  BY DEF Known
<1>5. Settled(root, c, "mode")
  <2>1. SUFFICES ASSUME AtMode(root, t) PROVE FALSE
    BY <1>1
  <2>2. x[1] = <<"mode">>
    BY <2>1 DEF AtMode, ModeItem
  <2> QED BY <2>2, <1>4, FieldNames
<1>6. \A p \in Subtrees : p \in Known
  BY DEF Known
<1> QED BY <1>1, <1>2, <1>3, <1>4, <1>5, <1>6 DEF Walk, I, left

\* An object is left, the last one at the end.
LEMMA ObjectLeft ==
    ASSUME NEW root, NEW t, NEW c, Walk(root, t, c, "walking"), t # <<>>, t[1] = {}
    PROVE  Walk(root, Tail(t), c, IF Len(t) = 1 THEN "ok" ELSE "walking")
<1> DEFINE I == Items(root)
           u == Tail(t)
<1>1. /\ t \in Seq(SUBSET I) /\ c = [g \in Fields |-> c[g]]
      /\ \A g \in Fields \ {"mode"} : c[g] = NoConfig[g] \/ Settled(root, c, g)
      /\ \A g \in Fields : Settled(root, c, g) \/ Ahead(t, Leaves[g])
      /\ \A p \in Subtrees : (At(root, p) # <<>> => At(root, p)[1].k = "obj") \/ Ahead(t, p)
      /\ Settled(root, c, "mode") \/ AtMode(root, t)
  BY DEF Walk
<1> HIDE DEF I
<1>2. u \in Seq(SUBSET I) /\ (Len(t) = 1 => u = <<>>) /\ \A q : Ahead(t, q) => Ahead(u, q)
  BY <1>1, LeftBehind
<1> HIDE DEF u
<1>3. Settled(root, c, "mode")
  BY <1>1 DEF AtMode
<1> QED BY <1>1, <1>2, <1>3 DEF Walk, I, u

\* The invariant of the walk.
LEMMA WalkInvariant == ConfigSpec => []WalkInv
<1>1. ConfigInit => WalkInv
  <2> SUFFICES ASSUME ConfigInit, source[1] = "document" PROVE Walk(source[2], todo, config, outcome)
    BY DEF WalkInv
  <2>1. PICK root \in Documents :
           /\ source = <<"document", root>>
           /\ todo = <<{<<<<k>>, root[k]>> : k \in First(root)},
                       {<<<<k>>, root[k]>> : k \in DOMAIN root \ First(root)}>>
    BY DEF ConfigInit
  <2> DEFINE A == {<<<<k>>, root[k]>> : k \in First(root)}
             B == {<<<<k>>, root[k]>> : k \in DOMAIN root \ First(root)}
             I == Items(root)
  <2>2. source[2] = root /\ todo = <<A, B>> /\ config = NoConfig /\ outcome = "walking"
    BY <2>1 DEF ConfigInit
  <2>3. A \in SUBSET I /\ B \in SUBSET I
    BY DEF Items, First
  <2>4. \A k \in DOMAIN root : <<<<k>>, root[k]>> \in A \/ <<<<k>>, root[k]>> \in B
    BY DEF First
  <2>5. "mode" \in DOMAIN root => A = {ModeItem(root)}
    BY DEF First, ModeItem
  <2> HIDE DEF A, B, I
  <2>6. todo \in Seq(SUBSET I) /\ Len(todo) = 2 /\ todo[1] = A /\ todo[2] = B /\ todo # <<>>
    BY <2>2, <2>3
  <2>7. ASSUME NEW k \in DOMAIN root, NEW q, Leads(<<k>>, q) PROVE Ahead(todo, q)
    <3> DEFINE y == <<<<k>>, root[k]>>
    <3>1. (y \in todo[1] \/ y \in todo[2]) /\ y[1] = <<k>>
      BY <2>4, <2>6
    <3> HIDE DEF y
    <3>2. 1 \in 1..Len(todo) /\ 2 \in 1..Len(todo)
      BY <2>6
    <3> QED BY <3>1, <3>2, <2>7 DEF Ahead
  <2>8. ASSUME NEW q \in Known, At(root, q) # <<>> PROVE Ahead(todo, q)
    <3>1. ASSUME NEW a, At(root, <<a>>) # <<>>, Leads(<<a>>, q) PROVE Ahead(todo, q)
      <4>1. a \in DOMAIN root
        BY <3>1, AtOne
      <4> QED BY <4>1, <3>1, <2>7
    <3>2. CASE \E a : q = <<a>>
      <4>1. PICK a : q = <<a>>
        BY <3>2
      <4> QED BY <4>1, <3>1, <2>8 DEF Leads
    <3>3. CASE \E a, b : q = <<a, b>> /\ <<a>> \in Subtrees
      <4>1. PICK a, b : q = <<a, b>>
        BY <3>3
      <4>2. At(root, <<a>>) # <<>>
        BY <4>1, <2>8, AtTwo DEF Under
      <4>3. Len(q) = 2 /\ q[1] = a
        BY <4>1
      <4>4. Leads(<<a>>, q)
        BY <4>3 DEF Leads
      <4> QED BY <4>2, <4>4, <3>1
    <3>4. CASE \E a, b, d : q = <<a, b, d>> /\ <<a>> \in Subtrees /\ <<a, b>> \in Subtrees
      <4>1. PICK a, b, d : q = <<a, b, d>>
        BY <3>4
      <4>2. At(root, <<a, b>>) # <<>>
        BY <4>1, <2>8, AtThree DEF Under
      <4>5. At(root, <<a>>) # <<>>
        BY <4>2, AtTwo DEF Under
      <4>3. Len(q) = 3 /\ q[1] = a
        BY <4>1
      <4>4. Leads(<<a>>, q)
        BY <4>3 DEF Leads
      <4> QED BY <4>5, <4>4, <3>1
    <3> QED BY <3>2, <3>3, <3>4, KnownShape
  <2>9. \A f \in Fields : Settled(root, NoConfig, f) \/ Ahead(todo, Leaves[f])
    <3> SUFFICES ASSUME NEW f \in Fields, At(root, Leaves[f]) = <<>> PROVE Settled(root, NoConfig, f)
      BY <2>8 DEF Known
    <3>1. Meaning(root, f) = [ok |-> TRUE, v |-> NoConfig[f]]
      BY DEF Meaning
    <3> QED BY <3>1 DEF Settled
  <2>10. \A p \in Subtrees : (At(root, p) # <<>> => At(root, p)[1].k = "obj") \/ Ahead(todo, p)
    BY <2>8 DEF Known
  <2>11. Settled(root, NoConfig, "mode") \/ AtMode(root, todo)
    <3> SUFFICES ASSUME "mode" \notin DOMAIN root PROVE Settled(root, NoConfig, "mode")
      BY <2>5, <2>6 DEF AtMode
    <3>1. At(root, Leaves["mode"]) = <<>>
      BY FieldNames, AtOne
    <3>2. Meaning(root, "mode") = [ok |-> TRUE, v |-> NoConfig["mode"]]
      BY <3>1 DEF Meaning
    <3> QED BY <3>2 DEF Settled
  <2>12. NoConfig = [f \in Fields |-> NoConfig[f]]
    BY DEF NoConfig
  <2> QED BY <2>2, <2>6, <2>9, <2>10, <2>11, <2>12 DEF Walk, I
<1>2. WalkInv /\ [ConfigNext]_configVars => WalkInv'
  <2> SUFFICES ASSUME WalkInv, [ConfigNext]_configVars, source'[1] = "document"
               PROVE  Walk(source'[2], todo', config', outcome')
    BY DEF WalkInv
  <2>0. source' = source
    BY DEF ConfigNext, Visit, LeaveObject, configVars
  <2>1. PICK root : root = source[2] /\ Walk(root, todo, config, outcome) /\ source'[2] = root
    BY <2>0 DEF WalkInv
  <2>2. CASE UNCHANGED configVars
    BY <2>1, <2>2 DEF configVars
  <2>3. CASE LeaveObject
    <3>1. /\ Walk(root, todo, config, "walking") /\ todo # <<>> /\ todo[1] = {} /\ todo' = Tail(todo)
          /\ outcome' = (IF Len(todo) = 1 THEN "ok" ELSE "walking") /\ config' = config
      BY <2>1, <2>3 DEF LeaveObject
    <3> QED BY <3>1, <2>1, ObjectLeft
  <2>4. ASSUME todo # <<>>, NEW x \in todo[1], Visit(x) PROVE Walk(root, todo', config', outcome')
    <3> DEFINE left == [todo EXCEPT ![1] = @ \ {x}]
    <3>1. Walk(root, todo, config, "walking") /\ outcome = "walking"
      BY <2>1, <2>4 DEF Visit
    <3>2. ASSUME NEW f \in Fields, Leaves[f] = x[1],
                 IF Coerce(f, x[2], config).ok
                 THEN config' = [config EXCEPT ![f] = Coerce(f, x[2], config).v] /\ todo' = left /\ UNCHANGED outcome
                 ELSE outcome' = "error" /\ UNCHANGED <<config, todo>>
          PROVE  Walk(root, todo', config', outcome')
      <4>1. CASE Coerce(f, x[2], config).ok
        BY <4>1, <3>1, <3>2, <2>4, LeafRead
      <4>2. CASE ~Coerce(f, x[2], config).ok
        BY <4>2, <3>1, <3>2, <2>4, LeafRefused
      <4> QED BY <4>1, <4>2
    <3>3. ASSUME x[1] \in Subtrees, UNCHANGED config,
                 IF x[2].k = "obj" THEN todo' = <<Children(x[1], x[2].v)>> \o left /\ UNCHANGED outcome
                 ELSE outcome' = "error" /\ UNCHANGED todo
          PROVE  Walk(root, todo', config', outcome')
      <4>1. CASE x[2].k = "obj"
        <5>1. Walk(root, <<Children(x[1], x[2].v)>> \o left, config, "walking")
          BY <4>1, <3>1, <3>3, <2>4, SubtreeEntered
        <5> HIDE DEF left
        <5> QED BY <5>1, <4>1, <3>1, <3>3
      <4>2. CASE x[2].k # "obj"
        BY <4>2, <3>1, <3>3, <2>4, SubtreeEntered
      <4> QED BY <4>1, <4>2
    <3>4. ASSUME {f \in Fields : Leaves[f] = x[1]} = {}, x[1] \notin Subtrees, UNCHANGED config, todo' = left,
                 outcome' = IF source[1] = "insert" /\ x[1] = source[2] THEN "error" ELSE outcome
          PROVE  Walk(root, todo', config', outcome')
      <4>1. x[1] \notin Known
        BY <3>4 DEF Known
      <4>2. outcome' = "walking"
        BY <3>1, <3>4, <2>0
      <4>3. Walk(root, left, config, "walking")
        BY <4>1, <3>1, <2>4, KeySkipped
      <4> HIDE DEF left
      <4> QED BY <4>2, <4>3, <3>4
    <3> QED BY <3>2, <3>3, <3>4, <2>4 DEF Visit
  <2> QED BY <2>1, <2>2, <2>3, <2>4 DEF ConfigNext
<1> QED BY <1>1, <1>2, PTL DEF ConfigSpec

-----------------------------------------------------------------------------
(* What the handlers accept against what the documentation says.           *)

\* The handler of autoconnect.
LEMMA AutoconnectShaped ==
    ASSUME NEW m, NEW x
    PROVE  LET r == parseAutoconnect(m, x)
           IN  /\ r.ok <=> WellShaped("autoconnect", m, x)
               /\ r.ok => r.v = Value("autoconnect", m, x)
<1> DEFINE r == parseAutoconnect(m, x)
<1>0. WellShaped("autoconnect", m, x) <=>
        \/ OfRoles(x)
        \/ x.k = "obj" /\ DOMAIN x.v \subseteq LocalRoles /\ (m \in DOMAIN x.v => OfRoles(x.v[m]))
  BY DEF WellShaped
<1>1. CASE x.k = "arr"
  <2>1. r = autoconnectFromArray(x.v)
    BY <1>1 DEF parseAutoconnect
  <2>2. Value("autoconnect", m, x) = RolesOf(x.v)
    BY <1>1 DEF Value, RolesOf
  <2>3. (\A i \in DOMAIN x.v : IsRole(x.v[i])) <=> OfRoles(x)
    BY <1>1 DEF IsRole, OfRoles, OfStrings, LocalRoles
  <2> QED BY <2>1, <2>2, <2>3, <1>0, <1>1 DEF autoconnectFromArray, Right, Wrong
<1>2. CASE x.k # "arr" /\ (x.k # "obj" \/ ~(DOMAIN x.v \subseteq LocalRoles))
  <2>1. r = Wrong
    BY <1>2 DEF parseAutoconnect, LocalRoles
  <2> QED BY <2>1, <1>0, <1>2 DEF Wrong, OfRoles, OfStrings
<1>3. CASE x.k = "obj" /\ DOMAIN x.v \subseteq LocalRoles /\ m \notin DOMAIN x.v
  <2>1. r = Right({})
    BY <1>3 DEF parseAutoconnect, LocalRoles
  <2>2. Value("autoconnect", m, x) = {}
    BY <1>3 DEF Value
  <2> QED BY <2>1, <2>2, <1>0, <1>3 DEF Right
<1>4. CASE x.k = "obj" /\ DOMAIN x.v \subseteq LocalRoles /\ m \in DOMAIN x.v
  <2> DEFINE y == x.v[m]
  <2>1. r = IF y.k # "arr" THEN Wrong ELSE autoconnectFromArray(y.v)
    BY <1>4 DEF parseAutoconnect, LocalRoles
  <2>2. Value("autoconnect", m, x) = RolesOf(y.v)
    BY <1>4 DEF Value, RolesOf
  <2>3. y.k = "arr" => ((\A i \in DOMAIN y.v : IsRole(y.v[i])) <=> OfRoles(y))
    BY DEF IsRole, OfRoles, OfStrings, LocalRoles
  <2>4. y.k # "arr" => ~OfRoles(y)
    BY DEF OfRoles, OfStrings
  <2>5. WellShaped("autoconnect", m, x) <=> OfRoles(y)
    BY <1>0, <1>4 DEF OfRoles, OfStrings
  <2> HIDE DEF y
  <2> QED BY <2>1, <2>2, <2>3, <2>4, <2>5 DEF autoconnectFromArray, Right, Wrong
<1> QED BY <1>1, <1>2, <1>3, <1>4

\* A handler accepts what has the documented shape and no more, that of listen
\* anything, which it then ignores.
LEMMA CoerceShaped ==
    ASSUME NEW f \in Fields, NEW x, NEW c, NEW m, c["mode"] = m
    PROVE  /\ f # "listen" => (Coerce(f, x, c).ok <=> WellShaped(f, m, x))
           /\ f = "listen" => Coerce(f, x, c).ok
           /\ WellShaped(f, m, x) => Coerce(f, x, c).v = Value(f, m, x)
           /\ f = "listen" /\ ~WellShaped(f, m, x) => Coerce(f, x, c).v = c["listen"]
<1> DEFINE r == Coerce(f, x, c)
<1>1. CASE f = "autoconnect"
  <2>2. r = parseAutoconnect(m, x)
    BY <1>1 DEF Coerce
  <2> QED BY <1>1, <2>2, AutoconnectShaped
<1>2. CASE f = "mode"
  <2>1. r = IF x.k # "str" \/ x.v \notin {"", "client", "peer", "router"} THEN Wrong
            ELSE Right(IF x.v = "" THEN "client" ELSE x.v)
    BY <1>2 DEF Coerce
  <2>2. WellShaped(f, m, x) <=> x.k = "str" /\ x.v \in {"", "client", "peer", "router"}
    BY <1>2 DEF WellShaped, LocalRoles
  <2>3. Value(f, m, x) = IF x.v = "" THEN "client" ELSE x.v
    BY <1>2 DEF Value
  <2>4. CASE WellShaped(f, m, x)
    <3>1. r = Right(Value(f, m, x))
      BY <2>1, <2>2, <2>3, <2>4
    <3> QED BY <1>2, <2>4, <3>1 DEF Right
  <2>5. CASE ~WellShaped(f, m, x)
    <3>1. r = Wrong
      BY <2>1, <2>2, <2>5
    <3> QED BY <1>2, <2>5, <3>1 DEF Wrong
  <2> QED BY <2>4, <2>5
<1>3. CASE f \in {"endpoints", "listenAt"}
  <2>1. r = asStringSlice(x)
    BY <1>3 DEF Coerce
  <2>2. WellShaped(f, m, x) <=> OfStrings(x)
    BY <1>3 DEF WellShaped
  <2>3. Value(f, m, x) = Elements(x)
    BY <1>3 DEF Value
  <2> QED BY <1>3, <2>1, <2>2, <2>3 DEF asStringSlice, OfStrings, Elements, Right, Wrong
<1>4. CASE f \in {"init", "max", "timeout", "ttl"}
  <2>1. r = asUint(x)
    BY <1>4 DEF Coerce
  <2>2. WellShaped(f, m, x) <=> x.k = "num" /\ x.v >= 0
    BY <1>4 DEF WellShaped
  <2>3. Value(f, m, x) = x.v
    BY <1>4 DEF Value
  <2> QED BY <1>4, <2>1, <2>2, <2>3 DEF asUint, Right, Wrong
<1>5. CASE f \in {"factor", "enabled", "listen"}
  <2>1. /\ f = "factor" => r = IF x.k \in {"num", "frac"} THEN Right(x.v) ELSE Wrong
        /\ f = "enabled" => r = IF x.k = "bool" THEN Right(x.v) ELSE Wrong
        /\ f = "listen" => r = IF x.k = "bool" THEN Right(x.v) ELSE [ok |-> TRUE, v |-> c["listen"]]
    BY <1>5 DEF Coerce
  <2>2. WellShaped(f, m, x) <=> x.k \in IF f = "factor" THEN {"num", "frac"} ELSE {"bool"}
    BY <1>5 DEF WellShaped
  <2>3. Value(f, m, x) = x.v
    BY <1>5 DEF Value
  <2> QED BY <1>5, <2>1, <2>2, <2>3 DEF Right, Wrong
<1>6. CASE f \in {"interface", "address", "id"}
  <2>1. r = IF f = "interface" /\ x.k = "str" /\ x.v = "auto" THEN Right("") ELSE asString(x)
    BY <1>6 DEF Coerce
  <2>2. WellShaped(f, m, x) <=> x.k = "str"
    BY <1>6 DEF WellShaped
  <2>3. Value(f, m, x) = IF f = "interface" /\ x.v = "auto" THEN "" ELSE x.v
    BY <1>6 DEF Value
  <2>4. CASE x.k = "str"
    <3>1. r = Right(Value(f, m, x))
      BY <1>6, <2>1, <2>3, <2>4 DEF asString
    <3> QED BY <1>6, <2>2, <2>4, <3>1 DEF Right
  <2>5. CASE x.k # "str"
    <3>1. r = Wrong
      BY <2>1, <2>5 DEF asString
    <3> QED BY <1>6, <2>2, <2>5, <3>1 DEF Wrong
  <2> QED BY <2>4, <2>5
<1> QED BY <1>1, <1>2, <1>3, <1>4, <1>5, <1>6, FieldNames

\* The mode that is read is the one the document asks for.
LEMMA ModeShaped ==
    ASSUME NEW root
    PROVE  /\ ReadMode(root).ok <=> "mode" \notin Misshapen(root)
           /\ ReadMode(root).ok => ReadMode(root).v = ModeOf(root)
<1>0. "mode" \in Fields /\ NoConfig["mode"] = "client"
  BY FieldNames DEF NoConfig, Zero
<1>1. CASE At(root, Leaves["mode"]) = <<>>
  BY <1>0, <1>1 DEF ReadMode, ModeOf, Misshapen, Right
<1>2. CASE At(root, Leaves["mode"]) # <<>>
  <2>1. PICK x : x = At(root, Leaves["mode"])[1]
    OBVIOUS
  <2>2. ReadMode(root) = Coerce("mode", x, NoConfig)
    BY <1>2, <2>1 DEF ReadMode
  <2>3. "mode" \in Misshapen(root) <=> ~WellShaped("mode", ModeOf(root), x)
    BY <1>0, <1>2, <2>1 DEF Misshapen
  <2>4. WellShaped("mode", ModeOf(root), x) <=> WellShaped("mode", "client", x)
    BY DEF WellShaped
  <2>5. /\ ReadMode(root).ok <=> WellShaped("mode", "client", x)
        /\ WellShaped("mode", "client", x) => ReadMode(root).v = Value("mode", "client", x)
    BY <1>0, <2>2, CoerceShaped
  <2>6. WellShaped("mode", "client", x) => x.k = "str"
    BY DEF WellShaped
  <2>7. x.k = "str" => ModeOf(root) = IF x.v = "" THEN "client" ELSE x.v
    BY <1>2, <2>1 DEF ModeOf
  <2>8. Value("mode", "client", x) = IF x.v = "" THEN "client" ELSE x.v
    BY DEF Value
  <2> QED BY <2>3, <2>4, <2>5, <2>6, <2>7, <2>8
<1> QED BY <1>1, <1>2

\* What the handlers accept, and read, is what the documentation says.
LEMMA MeaningShaped ==
    ASSUME NEW root, ReadMode(root).ok, NEW f \in Fields
    PROVE  /\ f # "listen" => (Meaning(root, f).ok <=> f \notin Misshapen(root))
           /\ f = "listen" => Meaning(root, f).ok
           /\ Meaning(root, f).ok => Meaning(root, f).v = Says(root, f)
<1>1. CASE At(root, Leaves[f]) = <<>>
  BY <1>1 DEF Meaning, Says, Misshapen
<1>2. CASE At(root, Leaves[f]) # <<>>
  <2>1. PICK x : x = At(root, Leaves[f])[1]
    OBVIOUS
  <2>2. PICK d : d = [NoConfig EXCEPT !["mode"] = ReadMode(root).v]
    OBVIOUS
  <2>3. d["mode"] = ModeOf(root) /\ d["listen"] = NoConfig["listen"]
    BY <2>2, ModeShaped, FieldNames DEF NoConfig
  <2>4. Meaning(root, f) = Coerce(f, x, d)
    BY <1>2, <2>1, <2>2 DEF Meaning
  <2>5. f \in Misshapen(root) <=> ~WellShaped(f, ModeOf(root), x)
    BY <1>2, <2>1 DEF Misshapen
  <2>6. Says(root, f) = IF f \in Misshapen(root) THEN NoConfig[f] ELSE Value(f, ModeOf(root), x)
    BY <1>2, <2>1 DEF Says
  <2>7. /\ f # "listen" => (Coerce(f, x, d).ok <=> WellShaped(f, ModeOf(root), x))
        /\ f = "listen" => Coerce(f, x, d).ok
        /\ WellShaped(f, ModeOf(root), x) => Coerce(f, x, d).v = Value(f, ModeOf(root), x)
        /\ f = "listen" /\ ~WellShaped(f, ModeOf(root), x) => Coerce(f, x, d).v = d["listen"]
    BY <2>3, CoerceShaped
  <2> QED BY <2>3, <2>4, <2>5, <2>6, <2>7
<1> QED BY <1>1, <1>2

\* For any document, of any size and with any values, and in whatever order its
\* maps are walked: it is refused exactly when a key we know, other than
\* scouting/multicast/listen, has a value that is not of the shape the documentation
\* gives it, and else every leaf has the value the document says, autoconnect the one
\* for the document's own mode; listen stays unset when it is not a bool
\* (applyConfig, walk, applyKey and the handlers).
THEOREM DocumentMeansHolds == ConfigSpec => []DocumentMeans
<1>1. WalkInv => DocumentMeans
  <2> SUFFICES ASSUME WalkInv, source[1] = "document", outcome # "walking"
               PROVE  /\ outcome = "error" <=>
                            \/ Misshapen(source[2]) \ {"listen"} # {}
                            \/ \E p \in Subtrees : At(source[2], p) # <<>> /\ At(source[2], p)[1].k # "obj"
                      /\ outcome = "ok" => config = [f \in Fields |-> Says(source[2], f)]
    BY DEF DocumentMeans
  <2>1. PICK root : root = source[2] /\ Walk(root, todo, config, outcome)
    BY DEF WalkInv
  <2>0. Misshapen(root) \subseteq Fields /\ "mode" \in Fields
    BY FieldNames DEF Misshapen
  <2>2. CASE outcome = "ok"
    <3>1. todo = <<>>
      BY <2>1, <2>2 DEF Walk
    <3>2. \A q : ~Ahead(todo, q)
      BY <3>1 DEF Ahead
    <3>3. /\ \A f \in Fields : Settled(root, config, f)
          /\ \A p \in Subtrees : At(root, p) # <<>> => At(root, p)[1].k = "obj"
      BY <2>1, <3>2 DEF Walk
    <3>4. \A f \in Fields : Meaning(root, f).ok /\ config[f] = Meaning(root, f).v
      BY <3>3 DEF Settled
    <3>5. ReadMode(root).ok
      BY <3>4, <2>0, ModeMeans
    <3>6. Misshapen(root) \ {"listen"} = {}
      BY <3>4, <3>5, <2>0, MeaningShaped
    <3>7. \A f \in Fields : config[f] = Says(root, f)
      BY <3>4, <3>5, MeaningShaped
    <3>8. config = [f \in Fields |-> config[f]]
      BY <2>1 DEF Walk
    <3>9. config = [f \in Fields |-> Says(root, f)]
      BY <3>7, <3>8
    <3> QED BY <2>1, <2>2, <3>3, <3>6, <3>9
  <2>3. CASE outcome # "ok"
    <3>1. ~Sane(root) /\ outcome = "error"
      BY <2>1, <2>3 DEF Walk
    <3>2. CASE ~ReadMode(root).ok
      BY <2>1, <3>1, <3>2, <2>0, ModeShaped
    <3>3. CASE ReadMode(root).ok /\ ~AllObjects(root)
      BY <2>1, <3>1, <3>3 DEF AllObjects
    <3>4. CASE ReadMode(root).ok /\ \E f \in Fields : ~Meaning(root, f).ok
      <4>1. PICK f \in Fields : ~Meaning(root, f).ok
        BY <3>4
      <4>2. f # "listen" /\ f \in Misshapen(root)
        BY <3>4, <4>1, MeaningShaped
      <4> QED BY <2>1, <3>1, <4>2
    <3> QED BY <3>1, <3>2, <3>3, <3>4 DEF Sane
  <2> QED BY <2>2, <2>3
<1> QED BY <1>1, WalkInvariant, PTL
=============================================================================
