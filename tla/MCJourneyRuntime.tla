-------------------------- MODULE MCJourneyRuntime --------------------------
(***************************************************************************)
(* Published graphs for model checking JourneyRuntime.                     *)
(***************************************************************************)
EXTENDS JourneyRuntimeInv, TLC

E(f, b, t) == [from |-> f, branch |-> b, to |-> t]

\* entry -> wait -> (success or timeout) exit
ShortNodes == {"e", "w", "x"}
ShortTypes == [n \in ShortNodes |->
    CASE n = "e" -> "entry" [] n = "w" -> "wait_event" [] n = "x" -> "exit"]
ShortEdges == {E("e", "", "w"), E("w", "success", "x"), E("w", "timeout", "x")}
ShortEvents == [n \in ShortNodes |-> "order"]

\* entry -> wait -> (success) condition -> (true) message -> exit,
\*                                        (false) delay -> exit,
\*                  (timeout) second wait -> (success) action -> exit,
\*                                           (timeout) goal -> exit
AllNodes == {"e", "w", "v", "c", "m", "g", "d", "a", "x"}
AllTypes == [n \in AllNodes |->
    CASE n = "e" -> "entry" [] n = "c" -> "condition"
      [] n = "m" -> "message" [] n = "g" -> "goal"
      [] n = "d" -> "delay" [] n = "a" -> "action"
      [] n \in {"w", "v"} -> "wait_event" [] n = "x" -> "exit"]
AllEdges == {E("e", "", "w"), E("w", "success", "c"), E("w", "timeout", "v"),
             E("c", "true", "m"), E("m", "", "x"),
             E("c", "false", "d"), E("d", "", "x"),
             E("v", "success", "a"), E("a", "", "x"),
             E("v", "timeout", "g"), E("g", "", "x")}
AllEvents == [n \in AllNodes |-> "order"]

\* A topological order of all the graphs above.
Order == <<"e", "w", "v", "c", "m", "g", "d", "a", "x">>
Ranks == [n \in Node |-> CHOOSE i \in DOMAIN Order : Order[i] = n]

Symmetry == Permutations(Worker)

FourSlots == 0..3
NineSlots == 0..8
Events == {"order"}
=============================================================================
