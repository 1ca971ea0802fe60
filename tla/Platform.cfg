CONSTANTS
    c1 = c1
    c2 = c2
    east = east
    west = west
    send = send
    notify = notify
    sync = sync
    Requesters = {c1, c2}
    Machines = {east, west}
    QueueNames = {send, notify, sync}
    NoName = NoName
    MaxWorkers = 4
    base = base
    override = override
    port = port
    host = host
    url = url
    public = public
    db = db
    t1 = t1
    t2 = t2
    ConfigReaders = {c1, c2}
    Texts = {t1, t2, Blank}
    Blank = Blank
    Unfit = Unfit
    Unset = Unset
    Missing = Missing
    Malformed = Malformed
    NotLoaded = NotLoaded
    Pending = Pending
    created = created
    other = other
    Handlers = {c1}
    NoHandler = NoHandler
    Every = Every
    Family = Family
    articles = articles
    users = users
    i1 = i1
    i2 = i2
    m1 = m1
    m2 = m2
    flat = flat
    nobody = nobody
    Embedders = {c1, c2}
    NoMeta = NoMeta
    NoVector = NoVector
    NoTable = NoTable
    NotText = NotText
    AnyUniverse = AnyUniverse
    Either = Either
    user = user
    tenant = tenant
    role = role
    stray = stray
    Requests = {east, west}
    SlotIds = {user, tenant, role, stray}
    Getters = {c1, c2}
    theme = theme
    sid = sid
    prefs = prefs
    dark = dark
    light = light
    bad = bad
    o1 = o1
    earlier = earlier
    later = later
    RootPath = RootPath
    DeepPath = DeepPath
    NoPath = NoPath
    Absent = Absent
    BlankText = BlankText
    Tabs = {c1, c2}
    Objects = {o1}
    CookiePlans <- MCCookiePlans
    ContextPlans <- MCContextPlans
    QueuePlans <- MCQueuePlans
    SettingsPlans <- MCSettingsPlans
    EventPlans <- MCEventPlans
    EmbeddingPlans <- MCEmbeddingPlans
CHECK_DEADLOCK FALSE
SPECIFICATION Spec
INVARIANTS QueuesHonoured ChangeTold SettingKept OnceSpent VectorKept ContextKept CookieKept
