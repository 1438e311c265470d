------------------------------ MODULE MCConfig ------------------------------
(* Instances of startup and configuration for TLC. *)
EXTENDS Config

SomeNames == Fields \cup {"global", "modules", "module", "container", "private", "localhost",
    "default", "garbled", "handler", "minworkers", "endpoint", "a", "b", "A", "B", "Module", "x", "y", "box"}

BoxName == <<"box">>

SomeLower == [n \in SomeNames |->
    CASE n = "A" -> "a" [] n = "B" -> "b" [] n = "Module" -> "module" [] OTHER -> n]

Begin(s) == [section |-> s, name |-> <<>>, val |-> NULL]
Setting(s, k, v) == [section |-> s, name |-> <<k>>, val |-> <<v>>]

SectionA == <<"container", "A">>
SectionB == <<"container", "B">>
Nested == <<"container", "A", "x">>

(* Keys and sections that are repeated, a section that names another one   *)
(* before a colon, settings that are inherited and not.                    *)
Repeating == <<
    Begin(<<"global">>), Setting(<<"global">>, "instance", "x"), Setting(<<"global">>, "instance", "y"),
    Begin(<<"modules">>), Setting(<<"modules">>, "module", "x"), Setting(<<"modules">>, "Module", "y"),
    Begin(SectionA), Setting(SectionA, "name", "y"), Setting(SectionA, "b", "x"),
    Begin(SectionB), Setting(SectionB, "cluster", "y"),
    Begin(SectionA), Setting(SectionA, "b", "y")>>

Nesting == <<
    Begin(Nested), Setting(Nested, "b", "x"),
    Begin(SectionA), Setting(SectionA, "instance", "x"),
    Begin(Nested), Setting(Nested, "y", "y")>>

(* Two hosts; the last one has a worker and a listener.                    *)
Serving == <<
    Begin(SectionA), Begin(SectionB), Setting(SectionB, "instance", "x"),
    Setting(SectionB, "minworkers", "y"), Setting(SectionB, "endpoint", "x")>>

SeveralFiles == {NULL, Repeating, Nesting, Serving}

(* Two hosts; the first one's listener runs when main comes to the second. *)
ServingFirst == <<
    Begin(SectionA), Setting(SectionA, "endpoint", "x"),
    Begin(SectionB), Setting(SectionB, "minworkers", "y")>>

OneFile == {ServingFirst}
=============================================================================
