-------------------------- MODULE MCInfoContainer --------------------------
(* An instance of the info container behind two plug-ins for TLC. *)
EXTENDS InfoContainer

SomeChars == {"/", "?", "%", ":", "6", "7", "g", "x"}
SomeHex == {"6", "7"}
SomeCharOf == [d \in SomeHex \X SomeHex |-> IF d = <<"6", "7">> THEN "g" ELSE "x"]

Css_ == <<"g">>

(* The info page by an empty path or none, the style sheet by name, by an  *)
(* escape and before more elements and a query, and pages that are missing. *)
Root == <<"/", "/", "?", "g">>
ByName == <<"/", "g">>
Escaped == <<"/", "/", "%", "6", "7", "/", "x", "?", "/">>
Other == <<"/", "x", "/", "g">>
CutShort == <<"/", "%", "6", "/", "7", "g">>

SomeUris == {NULL, Root, ByName, Escaped, Other, CutShort}

Entry(n, v) == [name |-> n, value |-> v]

(* REQUEST_URI is missing, or comes alone, or twice, the last one after an *)
(* entry that is no assignment.                                            *)
SomeEnvs ==
    {<<>>, <<Entry("REMOTE_ADDR", <<"x">>), Entry(NULL, <<>>)>>}
    \cup {<<Entry("REQUEST_URI", u)>> : u \in SomeUris \ {NULL}}
    \cup {<<Entry("REQUEST_URI", Other), Entry(NULL, <<>>), Entry("REQUEST_URI", u)>> : u \in {Root, ByName}}

Endpoint(p, h, n) == [path |-> p, host |-> h, port |-> n]

(* A file, a host and port behind a path of slashes, and neither. *)
SomeEndpoints ==
    {Endpoint(<<"/", "x">>, <<>>, <<"7">>),
     Endpoint(<<"/", "/">>, <<"x">>, <<"7">>),
     Endpoint(<<>>, <<"x">>, <<>>)}

SomeKeyOf == [n \in Names |-> IF n = "Status" THEN "status" ELSE "content-type"]

SomeCodeOf == [v \in Values |-> CASE v = "200 OK" -> 200 [] v = "404 Not found" -> 404 [] OTHER -> 0]

SomeSize == [t \in Names \cup Values |-> IF t = "200 OK" THEN 6 ELSE 9]
=============================================================================
