SPECIFICATION Spec
CONSTANTS
    Links = {s1, s2}
    img = img
    page = page
    doc = doc
    dir = dir
    Paths = {img, page, doc, dir}
    Type <- OneOfEach
    Members = {owner, other}
    Admins = {owner}
    Visitors = {v1, v2}
    Backends = {"s3", "local"}
    Lifetimes = {2}
    Limits = {1}
    Second = 2
    GrantTtl = 1
    EmbedTtl = 2
    DownloadTtl = 1
    MaxTime = 4
    MaxRequests = 2
SYMMETRY Symmetry
INVARIANTS
    PagesWithinLimit
    UrlsDieWithTheirLink
    BytesFollowAView
    GrantPerView
    GuardsAgree
PROPERTY NothingAfterTheEnd
CHECK_DEADLOCK FALSE
