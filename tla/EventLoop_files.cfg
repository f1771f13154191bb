\* Two messages with one file.
SPECIFICATION Spec
CONSTANTS
    u1 = u1  u2 = u2  c1 = c1
    m1 = m1  m2 = m2  m3 = m3  f1 = f1
    Users = {u1, u2}
    Chats = {c1}
    Messages = {m1, m2, m3}
    FileIds = {f1}
    None = None
    Shapes <- FileShapes
    MaxReplyDepth = 1
    ReplyDedupCap = 1
    MaxThrows = 1
CHECK_DEADLOCK FALSE
INVARIANT
    NoDownloadForgotten
