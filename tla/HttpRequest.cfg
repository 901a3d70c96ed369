SPECIFICATION Spec
CONSTANTS
    IntMax = 10
    UintMax = 20
    MaxHeaderSize = 95
    NoLength = 255
    RouteCode <- InitialCode
    UrlParams <- QueryParams
    StreamedUrls <- MCStreamedUrls
    Tables <- MCTables
    Scripts <- MCScripts
    TestUrls <- MCTestUrls
    TestKeys <- MCTestKeys
    Methods = {"GET", "POST"}
    ReadSizes = {1, 2, 3, 5, 8}
INVARIANTS TypeOK SplitIndependent ParsedFaithfully TextsEnd TreeFindsTheRule RoutingAgrees QueryAnswers
CHECK_DEADLOCK FALSE
