---------------------------- MODULE FcgiEndpoint ----------------------------
(***************************************************************************)
(* The socket of a FastCGI endpoint (endpoints/fcgi/endpoint.c).  The      *)
(* parts of a URI are text, empty if they are missing; liburi (external)   *)
(* counts the terminator in their lengths, and is taken to report one for  *)
(* a part that is missing.                                                 *)
(***************************************************************************)
EXTENDS RequestPath

Terminated(part) == part \o <<NUL>>
Size_t(part) == Len(Terminated(part))

NoSocket == <<>>

(* The path, unless it is no file's: only slashes, or none in front.       *)
fcgi_sockpath_(u) ==
    IF Size_t(u.path) < 2 \/ u.path[1] # "/" \/ \A i \in DOMAIN u.path : u.path[i] = "/"
    THEN NoSocket
    ELSE u.path

(* A colon takes the place of the terminator of the host, the port follows.*)
fcgi_hostport_(u) ==
    IF Size_t(u.port) < 2 THEN NoSocket
    ELSE UpTo([Terminated(u.host) EXCEPT ![Size_t(u.host)] = ":"] \o Terminated(u.port), NUL)

Specifier(u) == IF fcgi_sockpath_(u) # NoSocket THEN fcgi_sockpath_(u) ELSE fcgi_hostport_(u)
=============================================================================
