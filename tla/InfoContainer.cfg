SPECIFICATION InfoFairSpec
CONSTANTS
    Chars <- SomeChars
    Hex <- SomeHex
    CharOf <- SomeCharOf
    NUL = "NUL"
    Uris <- SomeUris
    Names = {"Status", "Content-Type", "Content-type"}
    KeyOf <- SomeKeyOf
    Values = {"200 OK", "404 Not found", "text/html", "text/html;charset=UTF-8", "text/css"}
    CodeOf <- SomeCodeOf
    Size <- SomeSize
    BodySize = 2
    Ok = "200 OK"
    Html = "text/html"
    NULL = NULL
    MaxValues = 1
    MaxBody = 5
    Faults = {"memory"}
    Envs <- SomeEnvs
    Endpoints <- SomeEndpoints
    GlobalCss <- Css_
    NotFound = "404 Not found"
    HtmlUtf8 = "text/html;charset=UTF-8"
    Css = "text/css"
    Failures = {"open", "accept", "route", "nothread", "spurious"}
INVARIANTS
    RequestHeld
    PageAnswers
    LogTrue
PROPERTIES
    ImplementsExchange
    EventuallyFinished
CHECK_DEADLOCK FALSE
