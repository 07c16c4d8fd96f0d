----------------------------- MODULE MCHostNodes -----------------------------
(***************************************************************************)
(* The engine on a trigger and three other names: under every set of wires *)
(* up to a size, cycles, self-loops and wires into the trigger included,   *)
(* with nodes that only read or post; and, on a few graphs, with every     *)
(* pair of the nodes that reach outside the process.                       *)
(***************************************************************************)
EXTENDS HostNodes

CONSTANTS
  MaxWires,   \* bound: main wires in a graph
  HostPairs   \* bound: executors that the pair is drawn from

Wires == Names \X Names

\* Every kind of node, in a few combinations.
MCKinds ==
  {k \in [Names -> Kinds] :
     /\ k["T"] = "read"
     /\ k["A"] \in {"write", "disabled"}
     /\ k["B"] \in {"read", "missing"}
     /\ k["C"] \in {"write", "unported"}}

Wired ==
  {g \in [main : {w \in SUBSET Wires : Cardinality(w) <= MaxWires},
          other : {{}, {<<"C", "B">>}},
          kind : MCKinds] : \E w \in g.main : w[1] = "T" /\ w[2] # "T"}

\* One node after the other, and both beside each other with a merge.
Chain == {<<"T", "A">>, <<"A", "B">>}
Fork == {<<"T", "A">>, <<"T", "B">>, <<"A", "C">>, <<"B", "C">>}

KindFor(a, b) ==
  [n \in Names |-> CASE n = "A" -> Effect(a) [] n = "B" -> Effect(b)
                     [] n = "C" -> "unported" [] OTHER -> "read"]

Hosted(a, b) == {[main |-> w, other |-> {}, kind |-> KindFor(a, b)] : w \in {Chain, Fork}}

MCGraphs == Wired \cup UNION {Hosted(a, b) : a, b \in HostPairs}

ExecutorFor(a, b, c) ==
  [n \in Names |-> CASE n = "A" -> a [] n = "B" -> b [] n = "C" -> c [] OTHER -> "trigger"]

MCCases ==
  {[graph |-> g, executor |-> ExecutorFor("httpPost", "respondToWebhook", "httpPost")] :
     g \in Wired}
  \cup UNION {{[graph |-> g, executor |-> ExecutorFor(a, b, "trigger")] : g \in Hosted(a, b)} :
                a, b \in HostPairs}

MCRoots == {<<"vault">>}
MCPolicies ==
  {[command |-> TRUE, ssh |-> TRUE, target |-> TRUE, roots |-> MCRoots],
   [command |-> FALSE, ssh |-> TRUE, target |-> FALSE, roots |-> {}]}
MCPaths == {<<"vault", "a">>, <<"etc", "..", "vault", ".", "b">>, <<"vault", "..", "etc">>}

\* Where a path leads is compared, component by component, not how it begins.
ASSUME PathsAreWalked ==
  /\ \A path \in {<<"vault">>, <<"vault", "a">>, <<"etc", "..", "vault", ".", "b">>,
                   <<"..", "vault", "a", "..", "b">>} : Inside(path, MCRoots)
  /\ \A path \in {<<>>, <<"vaults">>, <<"vault", "..", "etc">>, <<"a", "vault">>,
                   <<"vault", "a", "..", "..", "etc">>, <<"vault", "..">>} : ~Inside(path, MCRoots)
  /\ ~Inside(<<"vault">>, {})
=============================================================================
