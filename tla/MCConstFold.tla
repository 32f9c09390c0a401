---------------------------- MODULE MCConstFold ----------------------------
(* Blocks of assignments, expressions and blocks that do both. *)
EXTENDS ConstFold

MCCommands ==
    {<<Step("", from)>> : from \in {"1", "a", "g", "call", "isdef"}}
    \cup {<<Step("a", from)>> : from \in {"1", "b", "call", "fn"}}
    \cup {<<Step(n, from)>> : n \in {"b", "g"}, from \in {"2", "g", "call"}}
    \cup {<<Step("a", "1"), Step("", from)>> : from \in {"1", "2", "call"}}
    \cup {<<Step("a", "1"), Step("b", from)>> : from \in {"2", "random"}}
    \cup {<<Step("b", "2"), Step("", "a")>>, <<Step("b", "2"), Step("a", "1")>>,
          <<Step("", "call"), Step("a", "2")>>}
=============================================================================
