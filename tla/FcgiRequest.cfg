SPECIFICATION Spec
CONSTANTS
    Chars <- SomeChars
    Hex <- SomeHex
    CharOf <- SomeCharOf
    NUL = "NUL"
    Uris <- SomeUris
    Names = {"Status", "Content-Type", "X"}
    KeyOf <- SomeKeyOf
    Values = {"200 OK", "404 Not found", "text/html"}
    CodeOf <- SomeCodeOf
    Size <- SomeSize
    BodySize = 2
    Ok = "200 OK"
    Html = "text/html"
    NULL = NULL
    MaxValues = 2
    MaxBody = 2
    Faults = {"memory"}
INVARIANTS
    TypeOK
    PathElements
    StatusAgrees
    OneStatusLine
    BytesExact
PROPERTIES
    ImplementsResponse
