---------------------------- MODULE RequestPath ----------------------------
(***************************************************************************)
(* cw_request_info_init (libcontainer/endpoint.c): the elements of the     *)
(* path of a request.  Text is a sequence of characters, a character a     *)
(* string of length one.                                                   *)
(***************************************************************************)
EXTENDS Integers, Sequences, FiniteSetsExt, SequencesExt

CONSTANTS
    Chars,      \* the characters of URIs
    Hex,        \* those of them that isxdigit accepts
    CharOf,     \* the character that two hexadecimal digits stand for
    NUL         \* the character that ends a C string

ASSUME CharsAssumption ==
    /\ {"/", "?", "%"} \subseteq Chars
    /\ Hex \subseteq Chars \ {"/", "?", "%"}
    /\ NUL \notin Chars
    /\ CharOf \in [Hex \X Hex -> Chars \cup {NUL}]

Text == Seq(Chars \cup {NUL})

(* What comes before the first c. *)
Before(s, c) == SelectInSeq(s, LAMBDA x : x = c)

UpTo(s, c) == IF Before(s, c) = 0 THEN s ELSE SubSeq(s, 1, Before(s, c) - 1)

IsEscape(s) == Len(s) > 2 /\ s[1] = "%" /\ s[2] \in Hex /\ s[3] \in Hex

(* Of the faulty variant below: a decoded character is looked at again. *)
DecodedTwice[s \in Text] ==
    IF s = <<>> THEN <<>>
    ELSE IF IsEscape(s)
         THEN DecodedTwice[<<CharOf[<<s[2], s[3]>>]>> \o SubSeq(s, 4, Len(s))]
         ELSE <<s[1]>> \o DecodedTwice[Tail(s)]

(* The loop over buf: an escape becomes one character, the rest moves up,  *)
(* and the loop goes on behind it.                                         *)
Decoded[s \in Text] ==
    IF s = <<>> THEN <<>>
    ELSE IF IsEscape(s)
         THEN <<CharOf[<<s[2], s[3]>>]>> \o Decoded[SubSeq(s, 4, Len(s))]
         ELSE <<s[1]>> \o Decoded[Tail(s)]

(* Faulty variant: an encoded percent sign starts an escape. *)
ElementTwice(segment) == UpTo(DecodedTwice[segment], NUL)

(* What is pushed for a segment: jd_set_string takes no more than a C      *)
(* string.                                                                 *)
Element(segment) == UpTo(Decoded[segment], NUL)

(* The loop over request_str, which skips slashes and pushes what is       *)
(* between them.                                                           *)
Elements[s \in Text] ==
    IF s = <<>> THEN <<>>
    ELSE IF s[1] = "/" THEN Elements[Tail(s)]
    ELSE LET segment == UpTo(s, "/")
         IN  <<Element(segment)>> \o Elements[SubSeq(s, Len(segment) + 1, Len(s))]

(* request_vstr: the URI without a query.                                  *)
RequestStr(uri) == UpTo(uri, "?")

RequestArray(uri) == Elements[RequestStr(uri)]

-----------------------------------------------------------------------------
(* Numbers in increasing order: the k-th is the one with k up to it. *)
InOrder(S) ==
    [k \in 1 .. Cardinality(S) |-> CHOOSE x \in S : Cardinality({y \in S : y <= x}) = k]

(* A definition to compare with.  Escapes cannot overlap, so that a        *)
(* decoded segment is what remains of the segment when the two digits      *)
(* of each escape are left out.                                            *)
Escapes(s) == {i \in 1 .. Len(s) : IsEscape(SubSeq(s, i, Len(s)))}

Kept(s) == (1 .. Len(s)) \ UNION {{i + 1, i + 2} : i \in Escapes(s)}

Meant(s) ==
    LET places == InOrder(Kept(s))
    IN  [k \in 1 .. Len(places) |->
            IF places[k] \in Escapes(s) THEN CharOf[<<s[places[k] + 1], s[places[k] + 2]>>]
                                        ELSE s[places[k]]]

(* A segment starts at a character after a slash, or at the start, and     *)
(* goes on to the next slash.                                              *)
Path(uri) == LET q == {i \in 1 .. Len(uri) : uri[i] = "?"}
             IN  IF q = {} THEN uri ELSE SubSeq(uri, 1, Min(q) - 1)

Starts(s) == {i \in 1 .. Len(s) : s[i] # "/" /\ (i > 1 => s[i - 1] = "/")}

Segment(s, i) ==
    SubSeq(s, i, Max({j \in i .. Len(s) : \A k \in i .. j : s[k] # "/"}))

ExpectedElements(uri) ==
    LET s == Path(uri)
        starts == InOrder(Starts(s))
    IN  [k \in 1 .. Len(starts) |-> UpTo(Meant(Segment(s, starts[k])), NUL)]
=============================================================================
