\* docs/ARCHITECTURE.md:356, the clone of a Dream session is synced back.
SPECIFICATION Spec
CONSTANTS
    Parts = {"maintenance"}
    MemoryFiles = {m1}
    m1 = m1
    MaxStamp = 4
    MaxLines = 2
    CustomProviders = {p1, p2}
    p1 = p1
    p2 = p2
    BuiltinProviders = {b1}
    b1 = b1
    Models = {x, y}
    x = x
    y = y
    Failed = Failed
    Answers <- MCAnswers
    MaxSets = 2
    MaxCommands = 1
    Clis = {c1, c2}
    c1 = c1
    c2 = c2
    MaxRuntimes = 3
    Nobody = Nobody
    Texts <- MCTexts
    Files <- MCFiles
    Logs <- MCLogs
    Histories <- MCHistories
    Budget = 4
    MaxEvents = 3
    Zones <- MCZones
    DayLength = 8
    MaxNow = 26
    Chats = {g1, g2, g3}
    g1 = g1
    g2 = g2
    g3 = g3
    Messages <- MCMessages
    MaxTrackedChats = 2
    MaxTrackedIds = 2
    MaxSent = 4
    Contacts = {u1, u2}
    u1 = u1
    u2 = u2
    Groups = {g1}
    Others = {u2}
    Calls <- MCCalls
    Reminders = {r1}
    r1 = r1
    MaxMessages = 3
    MaxChanges = 1
    ChannelTypes = {napcat}
    napcat = napcat
    MaxAgents = 2
PROPERTIES CloneIsCarriedOver
CHECK_DEADLOCK FALSE
