--------------------------- MODULE MCFcgiRequest ---------------------------
(* An instance of a request for TLC. *)
EXTENDS FcgiRequest

(* A few characters, and what two of the digits stand for. *)
SomeChars == {"/", "?", "%", "2", "5", "f", "0", "a"}
SomeHex == {"2", "5", "f", "0"}
SomeCharOf ==
    [d \in SomeHex \X SomeHex |->
        CASE d = <<"2", "f">> -> "/"
          [] d = <<"2", "5">> -> "%"
          [] d = <<"0", "0">> -> "NUL"
          [] OTHER -> "a"]

(* No URI, and a path with an encoded slash, an escape that is cut short,  *)
(* empty segments, an encoded percent sign before digits, an encoded NUL   *)
(* and a query.                                                            *)
SomeUris == {NULL,
    <<"%", "2", "f", "%", "2", "/", "/", "%", "2", "5", "2", "f", "/",
      "%", "0", "0", "a", "/", "?", "a", "/">>}

SomeKeyOf == [n \in Names |->
    CASE n = "Status" -> "status"
      [] n = "Content-Type" -> "content-type"
      [] OTHER -> "x"]

SomeCodeOf == [v \in Values |-> CASE v = "200 OK" -> 200 [] v = "404 Not found" -> 404 [] OTHER -> 0]

SomeSize == [t \in Names \cup Values |-> IF t = "X" THEN 1 ELSE 9]
=============================================================================
