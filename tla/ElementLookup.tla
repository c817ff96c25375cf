---- MODULE ElementLookup ----
(***************************************************************************
 How a control is found on the screen: uiauto.py's selectors over the nodes that
 `uiautomator dump` prints.

 A label or an id is a sequence of characters, where only equality and containment
 matter. `text` and `content_desc` are one field, and so are `class_name` and the id.
 The coordinate fallback is there or not; which pixel it names is left out. `is` is
 no attribute of a node: it says which control the node really is.
 ***************************************************************************)
EXTENDS Integers, Sequences, FiniteSets

CONSTANTS
  None,             \* an attribute that a selector leaves open, an answer that is missing
  ShortLabelLength  \* SHORT_LABEL_LENGTH

ASSUME LookupAssumption == ShortLabelLength \in Nat /\ None \notin BOOLEAN

Node(is, id, label, area, clickable, enabled) ==
  [is |-> is, id |-> id, label |-> label, area |-> area, clickable |-> clickable, enabled |-> enabled]

Selector(id, label, clickable, index, minArea, exact) ==
  [id |-> id, label |-> label, clickable |-> clickable, index |-> index, minArea |-> minArea, exact |-> exact]

\* parse_hierarchy: the nodes of a dump stand at their places in document order. It has the first of
\* them when no more are there yet, and none when it cannot be parsed.
ParseHierarchy(nodes, count) ==
  [i \in {i \in DOMAIN nodes : Cardinality({j \in DOMAIN nodes : j <= i}) <= count} |-> nodes[i]]

Within(short, long) ==
  \E i \in 0 .. Len(long) - Len(short) : SubSeq(long, i + 1, i + Len(short)) = short

\* Mutant: short labels match inside longer ones.
WholeIfExact(wanted, exact) == exact

\* The label must be the node's whole label.
Whole(wanted, exact) == exact \/ Len(wanted) <= ShortLabelLength

TextMatches(wanted, actual, exact) ==
  \/ wanted = <<>>
  \/ IF Whole(wanted, exact) THEN wanted = actual ELSE Within(wanted, actual)

IdMatches(wanted, actual) == actual # None /\ wanted = actual

Matches(s, n) ==
  /\ s.id # None => IdMatches(s.id, n.id)
  /\ s.label # None => TextMatches(s.label, n.label, s.exact)
  /\ s.clickable # None => n.clickable = s.clickable
  /\ s.minArea # None => n.area >= s.minArea

Usable(n) == n.enabled

\* The index-th match in document order, or else the smallest, the first of them; a node without
\* an area comes last.
Find(nodes, s) ==
  LET matches == {i \in DOMAIN nodes : Usable(nodes[i]) /\ Matches(s, nodes[i])}
      before(i, j) == LET a == nodes[i].area b == nodes[j].area IN
                        \/ (a # 0 /\ (b = 0 \/ a < b))
                        \/ (a = b /\ i <= j)
      best == {i \in matches : IF s.index # None THEN Cardinality({j \in matches : j < i}) = s.index
                               ELSE \A j \in matches : before(i, j)}
  IN IF best = {} THEN None ELSE nodes[CHOOSE i \in best : TRUE]

\* A target is [selectors, fallback, drawn]; `drawn` is its coordinate_only.
Resolve(target, nodes) ==
  LET hits == {i \in DOMAIN target.selectors : Find(nodes, target.selectors[i]) # None} IN
    CASE hits # {} ->
           LET i == CHOOSE i \in hits : \A j \in hits : i <= j IN
             [strategy |-> "selector", node |-> Find(nodes, target.selectors[i])]
      [] hits = {} /\ target.fallback -> [strategy |-> "coordinates", node |-> None]
      [] OTHER -> [strategy |-> "none", node |-> None]

\* window_state, of what `dumpsys window` says or does not say: the focused app, which stays
\* the same behind the lock screen, and whether the device is locked.
WindowState(readable, focus, locked) ==
  IF readable THEN [focus |-> focus, locked |-> locked] ELSE [focus |-> None, locked |-> None]
====
