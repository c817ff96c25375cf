---- MODULE MCDevices ----
(***************************************************************************
 What is done with attached devices: the registry lists them, a preflight grades the selectors
 on one, a run looks its targets up to act on them. A device has one driver at a time
 (DeviceClaims) and neither driver reads the registry's rows, so a behaviour is one of one part.
 ***************************************************************************)
EXTENDS Registry, Preflight, ElementActions, TLC
CONSTANTS usb1, wifi1, usb2, phone1, phone2, r1, r2

VARIABLE part

MCPhoneOf == (usb1 :> phone1) @@ (wifi1 :> phone1) @@ (usb2 :> phone2)
MCOwnName == (usb1 :> "own") @@ (wifi1 :> "own") @@ (usb2 :> NoValue)

RequestSymmetry == Permutations({r1, r2})

\* A feed with two videos, a tab whose label is one character and a title that contains it, a watch
\* page with a control drawn by the app, and what comes after a tap.
MCScenarioNames == <<"library", "library_again", "pip", "watch">>

Launch == [act |-> "launch", target |-> None, to |-> "feed"]
Foreground == [act |-> "verify", target |-> None, to |-> None]
TapOn(t, to) == [act |-> "tap", target |-> t, to |-> to]

MCScript == [n \in {"library", "library_again", "pip", "watch"} |->
  CASE n = "library" -> <<Launch, Foreground, TapOn("tab", "shelf"), TapOn("row", "shelf")>>
    [] n = "library_again" -> <<Launch, TapOn("tab", "shelf")>>
    [] n = "pip" -> <<Launch, TapOn("video", "watch"), TapOn("zoom", "watch"), TapOn("caret", "watch")>>
    [] n = "watch" -> <<Launch, TapOn("video", "watch"), TapOn("caret", "watch"),
                        [act |-> "swipe", target |-> None, to |-> "watch"], TapOn("like", "watch")>>]

Labelled(l) == Selector(None, l, TRUE, None, None, FALSE)
Identified(i) == Selector(i, None, None, None, None, FALSE)

MCTargetOf == [t \in {"tab", "row", "video", "caret", "zoom", "like"} |->
  CASE t = "tab" -> [selectors |-> <<Labelled(<<"y">>), Identified("tab")>>, fallback |-> FALSE, drawn |-> FALSE]
    [] t = "row" -> [selectors |-> <<Labelled(<<"d", "l", "s">>)>>, fallback |-> FALSE, drawn |-> FALSE]
    [] t = "video" -> [selectors |-> <<Selector(None, None, TRUE, 0, 5, FALSE)>>, fallback |-> TRUE, drawn |-> FALSE]
    [] t = "caret" -> [selectors |-> <<Identified("caret")>>, fallback |-> TRUE, drawn |-> TRUE]
    [] t = "zoom" -> [selectors |-> <<Identified("zoom")>>, fallback |-> FALSE, drawn |-> FALSE]
    [] t = "like" -> [selectors |-> <<Labelled(<<"l", "i", "k">>)>>, fallback |-> TRUE, drawn |-> FALSE]]

MCTree == [s \in {"feed", "shelf", "watch", "launcher", "lock", "elsewhere"} |->
  CASE s = "feed" -> <<Node("bar", None, <<"b">>, 4, TRUE, TRUE), Node("off", None, <<"y">>, 1, TRUE, FALSE),
                       Node("title", "title", <<"a", "y", "b">>, 1, TRUE, TRUE),
                       Node("video", None, <<"v">>, 7, TRUE, TRUE), Node("tab", "tab", <<"y">>, 2, TRUE, TRUE),
                       Node("next", None, <<"v">>, 7, TRUE, TRUE)>>
    [] s = "shelf" -> <<Node("title", "title", <<"a", "y", "b">>, 1, TRUE, TRUE),
                        Node("row", None, <<"d", "l", "s", "1">>, 3, TRUE, TRUE)>>
    [] s = "watch" -> <<Node("player", "player", <<>>, 9, FALSE, TRUE), Node("caret", "caret", <<>>, 1, TRUE, TRUE),
                        Node("zoom", "zoom", <<"z">>, 1, TRUE, TRUE), Node("like", None, <<"9", "l", "i", "k">>, 2, TRUE, TRUE)>>
    [] s = "launcher" -> <<Node("icon", None, <<"a">>, 2, TRUE, TRUE)>>
    [] s = "lock" -> <<Node("clock", None, <<"1">>, 3, FALSE, TRUE)>>
    [] s = "elsewhere" -> <<Node("title", "title", <<"a", "y", "b">>, 1, TRUE, TRUE)>>]

\* The screens these scenarios go through.
MCOn == [n \in {"library", "library_again", "pip", "watch"} |->
  CASE n = "library" -> <<None, "feed", "feed", "shelf", "shelf">>
    [] n = "library_again" -> <<None, "feed", "shelf">>
    [] n = "pip" -> <<None, "feed", "watch", "watch", "watch">>
    [] n = "watch" -> <<None, "feed", "watch", "watch", "watch", "watch">>]

ASSUME MCTable == SelectorsAsk /\ Leads(MCOn)

----
\* The variables of the other parts stay as they are: one of their initial states stands for all.
OneStart == readable /\ works = {} /\ plan = CoveringScenarios

\* One control at most has decayed, or all have, which makes no difference when nothing is published.
FewDecayed ==
  works = {} \/ (readable /\ Cardinality({t \in TargetNames \ works : ~TargetOf[t].drawn}) <= 1)

Init ==
  /\ RegistryInit /\ PreInit /\ ActInit
  /\ \/ part = "registry" /\ OneStart /\ action = "tap_element"
     \/ part = "preflight" /\ FewDecayed /\ action = "tap_element"
     \/ part = "run" /\ OneStart

Next ==
  \/ part = "registry" /\ RegistryNext /\ UNCHANGED <<part, preVars, actVars>>
  \/ part = "preflight" /\ PreNext /\ UNCHANGED <<part, registryVars, actVars>>
  \/ part = "run" /\ ActNext /\ UNCHANGED <<part, registryVars, preVars>>

\* One check at most fails, of its dump or its tap.
FewFailures == Cardinality({c \in checks : c.why = "failed"}) <= 1

Spec == Init /\ [][Next]_<<part, registryVars, preVars, actVars>>
====
