SPECIFICATION FairSpec
CONSTANTS
    a1 = a1
    a2 = a2
    a3 = a3
    h1 = h1
    h2 = h2
    i1 = i1
    i2 = i2
    None = None
    Accounts = {a1, a2, a3}
    Actors <- MCActors
    Names = {"root", "ann", "ann-1", "ann-2"}
    Mails = {"root@", "ann@", "oidc-1@", "oidc-2@"}
    Subjects = {"s1", "s2"}
    BaseName <- MCBaseName
    Candidate <- MCCandidate
    Mail <- MCMail
    Fallback <- MCFallback
    Bootstrap <- MCBootstrap
    Forms <- MCForms
    Handlers = {h1, h2}
    StateIds = {x1, x2}
    MaxRequests = 3
    Streams = {i1, i2}
    Limits <- MCLimits
    MaxTotal <- MCMaxTotal
    Tickets = {t1, t2}
    Mixes <- MCMixes
CHECK_DEADLOCK FALSE
INVARIANTS
    UsedOnce
    SlotsMatchStreams
PROPERTIES
    AdminsRemain
    LoginsAreOwned
    StreamsEnd
