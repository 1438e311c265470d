----------------------------- MODULE MCRegistry -----------------------------
(* Instances of the registry for TLC. *)
EXTENDS Registry

CONSTANTS t1, t2, info, rival, long, fcgi, dummy

(* Two containers of one name, one whose name does not fit an entry, and   *)
(* two endpoint servers.                                                   *)
MCKindOf == [o \in Plugins |-> IF o \in {fcgi, dummy} THEN "server" ELSE "container"]
MCNameOf == [o \in Plugins |->
    CASE o \in {info, rival} -> "info" [] o = long -> "long"
      [] o = fcgi -> "fcgi" [] o = dummy -> "dummy"]
MCNames == {"info", "long", "lon", "fcgi", "dummy"}
MCStoredAs == [n \in Names |-> IF n = "long" THEN "lon" ELSE n]

load(o) == [op |-> "load", plugin |-> o]
section(n, s) == [op |-> "host", name |-> n, scheme |-> s]

(* One thread loads and configures as main does; the other loads a rival   *)
(* of its container and looks for containers under a name and its prefix.  *)
MCJobs == [t \in Threads |->
    IF t = t1
    THEN <<load(fcgi), load(info), section("info", "fcgi"), section("info", "dummy")>>
    ELSE <<load(rival), load(long), section("long", NULL), section("lon", "fcgi")>>]
=============================================================================
