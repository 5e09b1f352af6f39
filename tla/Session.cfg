\* One phone: a tab with two requests at a time, and one at the login screen.
CONSTANTS
    p1 = p1
    t1 = t1
    t2 = t2
    r1 = r1
    r2 = r2
    Phones = {p1}
    Tabs = {t1, t2}
    Requests = {r1, r2}
    PhoneOf <- MCPhoneOf
    TabOf <- MCTabOf
    Handlers = {h1, h2}
    TokenIds = {i1, i2, i3}
    NoToken = NoToken
    NoTab = NoTab
SYMMETRY MCSymmetry
SPECIFICATION Spec
INVARIANTS
    TypeOK
    NoFalseAlarm
    CookieLives
PROPERTY
    DeniedMeansOver
