------------------------------- MODULE Config -------------------------------
(***************************************************************************)
(* Reading a configuration (zenoh/config.go): the walk over a parsed JSON5 *)
(* document, or over one value given to InsertJSON5.  Objects are Go maps: *)
(* their keys come in any order, except that mode comes first.             *)
(*                                                                         *)
(* A JSON value is [k, v] with k one of "str", "bool", "arr", "obj", or    *)
(* "num", a whole number, or "frac", a float64 that is not.                *)
(* A configuration gives every leaf a value, the zero of its Go type when  *)
(* nobody set it: unset and set to zero are the same.                      *)
(***************************************************************************)
EXTENDS Naturals, Integers, Sequences

CONSTANTS Documents,    \* roots: functions from top-level keys to values
          Insertions    \* <<path, value>> given to InsertJSON5

Leaves == [endpoints  |-> <<"connect", "endpoints">>,
           init       |-> <<"connect", "retry", "period_init_ms">>,
           max        |-> <<"connect", "retry", "period_max_ms">>,
           factor     |-> <<"connect", "retry", "period_increase_factor">>,
           listenAt   |-> <<"listen", "endpoints">>,
           timeout    |-> <<"scouting", "timeout">>,
           enabled    |-> <<"scouting", "multicast", "enabled">>,
           address    |-> <<"scouting", "multicast", "address">>,
           interface  |-> <<"scouting", "multicast", "interface">>,
           ttl        |-> <<"scouting", "multicast", "ttl">>,
           listen     |-> <<"scouting", "multicast", "listen">>,
           autoconnect |-> <<"scouting", "multicast", "autoconnect">>,
           mode       |-> <<"mode">>,
           id         |-> <<"id">>]
Fields == DOMAIN Leaves
Subtrees == {<<"connect">>, <<"connect", "retry">>, <<"listen">>, <<"scouting">>, <<"scouting", "multicast">>}

VARIABLES source,    \* <<"document", root>> or <<"insert", path, value>>
          todo,      \* the open objects, innermost first: their unvisited <<path, value>>
          config,    \* the Config
          outcome    \* "walking", "ok", "error"
configVars == <<source, todo, config, outcome>>

\* Config{}: ModeClient, MulticastAuto, no endpoints, an empty mask.
Zero(f) ==
    CASE f = "mode" -> "client"
      [] f = "enabled" -> TRUE
      [] f = "listen" -> FALSE
      [] f = "autoconnect" -> {}
      [] f \in {"endpoints", "listenAt"} -> <<>>
      [] f \in {"address", "interface", "id"} -> ""
      [] f \in {"init", "max", "factor", "timeout", "ttl"} -> 0
NoConfig == [f \in Fields |-> Zero(f)]

------------------------------------------------------------------------------
(* Leaves.                                                                 *)

Wrong == [ok |-> FALSE, v |-> <<>>]
Right(v) == [ok |-> TRUE, v |-> v]

IsRole(x) == x.k = "str" /\ x.v \in {"router", "peer", "client"}
RolesOf(arr) == {arr[i].v : i \in DOMAIN arr}
autoconnectFromArray(arr) ==
    IF \A i \in DOMAIN arr : IsRole(arr[i]) THEN Right(RolesOf(arr)) ELSE Wrong
\* parseAutoconnect: an array, or one for each local role
parseAutoconnect(mode, x) ==
    IF x.k = "arr" THEN autoconnectFromArray(x.v)
    ELSE IF x.k # "obj" \/ ~(DOMAIN x.v \subseteq {"router", "peer", "client"}) THEN Wrong
    ELSE IF mode \notin DOMAIN x.v THEN Right({})
    ELSE IF x.v[mode].k # "arr" THEN Wrong
    ELSE autoconnectFromArray(x.v[mode].v)

\* asUint: an int64, or a float64 without a fraction.
asUint(x) == IF x.k = "num" /\ x.v >= 0 THEN Right(x.v) ELSE Wrong
asString(x) == IF x.k = "str" THEN Right(x.v) ELSE Wrong
asStringSlice(x) ==
    IF x.k = "arr" /\ \A i \in DOMAIN x.v : x.v[i].k = "str"
    THEN Right([i \in DOMAIN x.v |-> x.v[i].v]) ELSE Wrong

\* The handler of a leaf; "listen" keeps what it had when it is not a bool.
Coerce(f, x, c) ==
    CASE f = "mode" -> IF x.k # "str" \/ x.v \notin {"", "client", "peer", "router"} THEN Wrong
                       ELSE Right(IF x.v = "" THEN "client" ELSE x.v)
      [] f = "autoconnect" -> parseAutoconnect(c["mode"], x)
      [] f \in {"endpoints", "listenAt"} -> asStringSlice(x)
      [] f \in {"init", "max", "timeout", "ttl"} -> asUint(x)
      [] f = "factor" -> IF x.k \in {"num", "frac"} THEN Right(x.v) ELSE Wrong
      [] f = "enabled" -> IF x.k = "bool" THEN Right(x.v) ELSE Wrong
      [] f = "listen" -> IF x.k = "bool" THEN Right(x.v) ELSE [ok |-> TRUE, v |-> c["listen"]]
      [] f = "interface" -> IF x.k = "str" /\ x.v = "auto" THEN Right("") ELSE asString(x)
      [] f \in {"address", "id"} -> asString(x)

------------------------------------------------------------------------------
(* The walk.                                                               *)

Children(path, obj) == {<<Append(path, k), obj[k]>> : k \in DOMAIN obj}

\* Mutant of First: mode has no precedence.
FirstAnyKey(root) == {}
\* applyConfig handles mode before everything else.
First(root) == DOMAIN root \cap {"mode"}

ConfigInit ==
    /\ config = NoConfig /\ outcome = "walking"
    /\ \/ \E root \in Documents :
             /\ source = <<"document", root>>
             /\ todo = <<{<<<<k>>, root[k]>> : k \in First(root)},
                         {<<<<k>>, root[k]>> : k \in DOMAIN root \ First(root)}>>
       \/ \E x \in Insertions : source = <<"insert", x[1], x[2]>> /\ todo = <<{x}>>

\* applyKey and walk at one path: a leaf, an object to go into, or a key nobody
\* knows: skipped, unless it is the one InsertJSON5 was called for.
Visit(x) ==
    LET left == [todo EXCEPT ![1] = @ \ {x}]
        leaf == {f \in Fields : Leaves[f] = x[1]}
    IN  /\ outcome = "walking" /\ todo # <<>> /\ x \in todo[1]
        /\ \/ \E f \in leaf :
                 LET c == Coerce(f, x[2], config)
                 IN  IF c.ok THEN config' = [config EXCEPT ![f] = c.v] /\ todo' = left /\ UNCHANGED outcome
                     ELSE outcome' = "error" /\ UNCHANGED <<config, todo>>
           \/ /\ x[1] \in Subtrees /\ UNCHANGED config
              /\ IF x[2].k = "obj" THEN todo' = <<Children(x[1], x[2].v)>> \o left /\ UNCHANGED outcome
                 ELSE outcome' = "error" /\ UNCHANGED todo
           \/ /\ leaf = {} /\ x[1] \notin Subtrees /\ UNCHANGED config /\ todo' = left
              /\ outcome' = IF source[1] = "insert" /\ x[1] = source[2] THEN "error" ELSE outcome
        /\ UNCHANGED source

LeaveObject ==
    /\ outcome = "walking" /\ todo # <<>> /\ todo[1] = {} /\ todo' = Tail(todo)
    /\ outcome' = IF Len(todo) = 1 THEN "ok" ELSE outcome
    /\ UNCHANGED <<source, config>>

ConfigNext == LeaveObject \/ (todo # <<>> /\ \E x \in todo[1] : Visit(x))

ConfigSpec == ConfigInit /\ [][ConfigNext]_configVars

------------------------------------------------------------------------------
(* Properties.                                                             *)

\* What lies under key k of a value given as <<value>>, <<>> if nothing does.
Under(x, k) == IF x # <<>> /\ x[1].k = "obj" /\ k \in DOMAIN x[1].v THEN <<x[1].v[k]>> ELSE <<>>

\* The same at a path of a document; the paths we know have at most three keys.
At(root, path) ==
    LET one == Under(<<[k |-> "obj", v |-> root]>>, path[1])
        two == Under(one, path[2])
    IN  CASE Len(path) = 1 -> one
          [] Len(path) = 2 -> two
          [] Len(path) = 3 -> Under(two, path[3])

\* The mode a document asks for.
ModeOf(root) ==
    LET x == At(root, Leaves["mode"])
    IN  IF x # <<>> /\ x[1].k = "str" /\ x[1].v # "" THEN x[1].v ELSE "client"

\* The shape the documentation gives the value of each key (zenoh/config.go:175-188,
\* 432-442), whatever the handlers do with it.
LocalRoles == {"router", "peer", "client"}
OfStrings(x) == x.k = "arr" /\ \A i \in DOMAIN x.v : x.v[i].k = "str"
OfRoles(x) == OfStrings(x) /\ \A i \in DOMAIN x.v : x.v[i].v \in LocalRoles
WellShaped(f, mode, x) ==
    CASE f = "mode" -> x.k = "str" /\ x.v \in LocalRoles \cup {""}
      [] f \in {"endpoints", "listenAt"} -> OfStrings(x)
      [] f \in {"init", "max", "timeout", "ttl"} -> x.k = "num" /\ x.v >= 0
      [] f = "factor" -> x.k \in {"num", "frac"}
      [] f \in {"enabled", "listen"} -> x.k = "bool"
      [] f \in {"interface", "address", "id"} -> x.k = "str"
      [] f = "autoconnect" ->
            \/ OfRoles(x)
            \/ /\ x.k = "obj" /\ DOMAIN x.v \subseteq LocalRoles
               /\ mode \in DOMAIN x.v => OfRoles(x.v[mode])

\* What a well-shaped value says.
Elements(x) == [i \in DOMAIN x.v |-> x.v[i].v]
Value(f, mode, x) ==
    CASE f = "mode" -> IF x.v = "" THEN "client" ELSE x.v
      [] f \in {"endpoints", "listenAt"} -> Elements(x)
      [] f = "interface" -> IF x.v = "auto" THEN "" ELSE x.v
      [] f = "autoconnect" ->
            LET a == IF x.k = "arr" THEN x ELSE x.v[mode]
            IN  IF x.k = "obj" /\ mode \notin DOMAIN x.v THEN {} ELSE {a.v[i].v : i \in DOMAIN a.v}
      [] OTHER -> x.v

\* The keys of a document whose value has the wrong shape, and what it gives a leaf.
Misshapen(root) ==
    {f \in Fields : At(root, Leaves[f]) # <<>> /\ ~WellShaped(f, ModeOf(root), At(root, Leaves[f])[1])}
Says(root, f) ==
    IF At(root, Leaves[f]) = <<>> \/ f \in Misshapen(root) THEN NoConfig[f]
    ELSE Value(f, ModeOf(root), At(root, Leaves[f])[1])

\* A document means the same in whatever order its maps are walked: every leaf has
\* the value it gives, autoconnect the one for the document's own mode, or it is
\* refused, because a key we know has a value of the wrong shape: "always an error"
\* (zenoh/config.go:232-242).  Always but once: the code ignores whatever
\* scouting/multicast/listen has that is not a bool (config.go:408-416), a string or
\* a number as well as the per-role object its comment names, and the flag stays
\* unset.  The property names that leaf and no other.
DocumentMeans ==
    LET root == source[2]
    IN  source[1] = "document" /\ outcome # "walking" =>
            /\ outcome = "error" <=>
                  \/ Misshapen(root) \ {"listen"} # {}
                  \/ \E p \in Subtrees : At(root, p) # <<>> /\ At(root, p)[1].k # "obj"
            /\ outcome = "ok" => config = [f \in Fields |-> Says(root, f)]
=============================================================================
