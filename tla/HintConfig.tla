----------------------------- MODULE HintConfig -----------------------------
(***************************************************************************)
(* The configuration of libperfmgr (HintManager::GetFromJSON, ParseNodes,  *)
(* ParseActions, InitHintStatus): which documents are accepted, and what   *)
(* nodes and hints they are parsed to.                                     *)
(*                                                                         *)
(* A document is [Nodes, Actions], each a sequence of records with the     *)
(* names of the JSON keys.  A key that is not there is Absent; where the   *)
(* code reads a string it is then "", as asString makes it.  Nodes and     *)
(* values are numbered from 1.  HoldFd and ResetOnInit, which concern      *)
(* NodeLooper's instance, are left out.                                    *)
(***************************************************************************)
EXTENDS Integers, Sequences, FiniteSetsExt

CONSTANT Absent

\* A number that is not there, or not one that fits.
IsUInt64(v) == v # Absent /\ v >= 0

AllDistinct(s) == \A i, j \in DOMAIN s : s[i] = s[j] => i = j

-----------------------------------------------------------------------------
(* Nodes: one that is refused refuses them all *)

IsFile(n) == n.Type \in {"", "File"}

\* The last value is the default one, unless the document names another.
DefaultIndex(n) == IF IsUInt64(n.DefaultIndex) THEN n.DefaultIndex + 1 ELSE Len(n.Values)

NodeOk(n) ==
  /\ n.Name # "" /\ n.Path # ""
  /\ n.Type \in {"", "File", "Property"}
  /\ AllDistinct(n.Values)
  /\ IsFile(n) => \A i \in DOMAIN n.Values : n.Values[i] # ""
  /\ n.Values # <<>>
  /\ DefaultIndex(n) <= Len(n.Values)

ParsedNode(n) ==
  [name |-> n.Name, path |-> n.Path, is_file |-> IsFile(n), values |-> n.Values,
   default_val_index_ |-> DefaultIndex(n)]

ParseNodes(doc) ==
  LET ns == doc.Nodes
      names == [i \in DOMAIN ns |-> ns[i].Name]
      paths == [i \in DOMAIN ns |-> ns[i].Path]
  IN  IF AllDistinct(names) /\ AllDistinct(paths) /\ \A i \in DOMAIN ns : NodeOk(ns[i])
      THEN [i \in DOMAIN ns |-> ParsedNode(ns[i])]
      ELSE <<>>

-----------------------------------------------------------------------------
(* Actions, given the nodes: one that is refused refuses them all *)

\* "Node" itself is not among the types that may be given.
IsNodeAction(a) == a.Type = ""

NodeIndex(a, nodes) == {i \in DOMAIN nodes : nodes[i].name = a.Node}
ValueIndex(a, node) == {j \in DOMAIN node.values : node.values[j] = a.Value}

\* A node action names a node, one of its values and a duration.
NodeActionOk(a, nodes) ==
  /\ \E i \in NodeIndex(a, nodes) : ValueIndex(a, nodes[i]) # {}
  /\ IsUInt64(a.Duration)

\* Nothing asks that the hint a hint action names exists, or is another one.
ActionOk(a, nodes) ==
  /\ a.PowerHint # ""
  /\ IF IsNodeAction(a) THEN NodeActionOk(a, nodes)
     ELSE a.Type \in {"DoHint", "EndHint", "MaskHint"} /\ a.Value # ""

\* Mutant: a hint may act on a node twice.
OneActionPerNodeMutant(as) == TRUE

\* No hint acts on a node twice.
OneActionPerNode(as) ==
  \A i, j \in DOMAIN as :
    /\ IsNodeAction(as[i]) /\ IsNodeAction(as[j])
    /\ as[i].PowerHint = as[j].PowerHint
    /\ as[i].Node = as[j].Node
    => i = j

ParsedNodeAction(a, nodes) ==
  LET i == CHOOSE i \in NodeIndex(a, nodes) : TRUE
  IN  [node_index |-> i,
       value_index |-> Min(ValueIndex(a, nodes[i])),
       timeout_ms |-> a.Duration]

Timeouts(node_actions) == {a.timeout_ms : a \in node_actions}

\* Mutant: the shortest timeout stands for the hint.
MaxTimeoutMutant(timeouts) == IF timeouts = {} THEN 0 ELSE Min(timeouts)

\* InitHintStatus: forever (0) when one action is, or when there is none.
MaxTimeout(timeouts) == IF timeouts = {} \/ 0 \in timeouts THEN 0 ELSE Max(timeouts)

\* The elements of s at the places I, in their order.
ElementsAt(s, I) ==
  LET taken[n \in 0 .. Len(s)] ==
        IF n = 0 THEN <<>>
        ELSE IF n \in I THEN Append(taken[n - 1], s[n]) ELSE taken[n - 1]
  IN  taken[Len(s)]

\* The hint named name: node actions, each about another node, and hint actions in
\* the document's order.
ParsedHint(name, as, nodes) ==
  LET own == {i \in DOMAIN as : as[i].PowerHint = name}
      hs == ElementsAt(as, {i \in own : ~IsNodeAction(as[i])})
      node_actions == {ParsedNodeAction(as[i], nodes) : i \in {i \in own : IsNodeAction(as[i])}}
  IN  [node_actions |-> node_actions,
       hint_actions |-> [i \in DOMAIN hs |-> [type |-> hs[i].Type, value |-> hs[i].Value]],
       max_timeout |-> MaxTimeout(Timeouts(node_actions))]

NoHints == [h \in {} |-> Absent]

ParseActions(doc, nodes) ==
  LET as == doc.Actions
  IN  IF OneActionPerNode(as) /\ \A i \in DOMAIN as : ActionOk(as[i], nodes)
      THEN [h \in {as[i].PowerHint : i \in DOMAIN as} |-> ParsedHint(h, as, nodes)]
      ELSE NoHints

-----------------------------------------------------------------------------

\* GetFromJSON: the hints of doc; none when the document is refused.
HintsOf(doc) ==
  LET nodes == ParseNodes(doc)
  IN  IF nodes = <<>> THEN NoHints ELSE ParseActions(doc, nodes)

=============================================================================
