SPECIFICATION MCSpec
CONSTANTS
    q1 = q1
    c1 = c1
    lead1 = lead1
    opp1 = opp1
    ticket1 = ticket1
    order1 = order1
    root = root
    Req = {r1, r2}
    Order = {o1}
    Total <- MCTotal
    Amount <- MCAmount
    MaxPaid = 4
    QuoteReq = {r1, r2}
    Quote = {q1}
    Item = {i1, i2}
    QuoteOf <- MCQuoteOf
    OrderId = {so1, so2}
    DeskReq = {r1, r2}
    Customer = {c1}
    Rating <- MCRating
    Doc = {lead1, opp1, ticket1, order1}
    Kind <- MCKind
    Client <- MCClient
    Score = {0, 10}
    Moment = {1, 2}
    ListLimit = 2
    Call = {r1, r2}
    User = {root, bob}
    Admin = {root}
    Role = {ra, rb}
    Org = {og}
SYMMETRY MCSymmetry
INVARIANTS
    CompletedIsEarned
    PaidIsReceived
    RowFromPayments
    OrderIsAsQuoted
    DeskIsSound
    RolesAreAsGiven
    RequestsAreAccounted
CHECK_DEADLOCK FALSE
