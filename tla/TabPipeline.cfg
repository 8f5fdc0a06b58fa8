SPECIFICATION Spec
CONSTANTS
    w1 = w1
    w2 = w2
    t1 = t1
    t2 = t2
    t3 = t3
    t4 = t4
    p1 = p1
    p2 = p2
    p3 = p3
    p4 = p4
    n1 = n1
    n2 = n2
    srcApi = srcApi
    srcWeb = srcWeb
    api = api
    web = web
    zsh = zsh
    node = node
    claude = claude
    working = working
    blocked = blocked
    halfCircle = halfCircle
    Nothing = Nothing
    Base <- MCBase
    Sessions <- MCSessions
    Sources <- MCSources
    Icons <- MCIcons
    Names <- MCNames
    Arrivals <- MCArrivals
    Agents <- MCAgents
    Infos <- MCInfos
    MaxEdits = 2
    MaxActions = 1
INVARIANTS
    LabelsTellTheTruth
    ResolvesAsDeclared
    PreviewAgrees
PROPERTIES
    SettlesDown
