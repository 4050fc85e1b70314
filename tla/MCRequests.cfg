\* Two routes, their paths up to five tokens; targets longer than the buffer; two
\* requests on a connection.
SPECIFICATION MCSpec
CONSTANTS
    Names = {"a", "b"}
    Actions = {x, y}
    Methods = {GET}
    None = None
    MaxPath = 5
    MaxRoutes = 2
    MaxTarget = 6
    MaxPathLen = 5
    MaxArgs = 2
    FirstLines = {"host", "port", "length", "cookie", "type", "empty", "nocolon",
                  "fold", "spaced", "lf", "emptylf", "barecr"}
    NextLines = {"host", "cookie", "length", "empty"}
    MaxLines = 2
    MaxNextLines = 1
    MaxNext = 1
SYMMETRY Symmetry
INVARIANTS
    AnsweredByItsRoute
    RouteAnswersItself
    
    
    
    
    EndsForAReason
\* A request line is parsed once, and the client's requests run out.
CHECK_DEADLOCK FALSE
