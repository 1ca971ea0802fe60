CONSTANTS
    c1 = c1
    c2 = c2
    ann = ann
    bob = bob
    u = u
    org = org
    theme = theme
    lang = lang
    dark = dark
    light = light
    r1 = r1
    r2 = r2
    on = on
    off = off
    welcome = welcome
    email = email
    sms = sms
    Clients = {c1, c2}
    Instances = {c1, c2}
    Senders = {c1, c2}
    Undefined = Undefined
    Null = Null
    Gone = Gone
    NoOrg = NoOrg
    Unknown = Unknown
    AccountPlans <- MCAccountPlans
    Rules = {r1, r2}
    Configs = {on, off}
    Default = Default
    Templates = {welcome}
    Kinds = {email, sms}
    Versions = {c1, c2}
    Nothing = Nothing
    Astray = Astray
    ReleasePlans <- MCReleasePlans
    docs = docs
    media = media
    draft = draft
    final = final
    jpg = jpg
    txt = txt
    NoExt = NoExt
    Webp = Webp
    Empty = Empty
    Torn = Torn
    Unreadable = Unreadable
    NoBytes = NoBytes
    Unsure = Unsure
    Uploaders = {c1, c2}
    StoragePlans <- MCStoragePlans
CHECK_DEADLOCK FALSE
SPECIFICATION Spec
INVARIANTS UsersKept PreferenceKept FlagsKept NotifyKept FileKept FileAuthentic
