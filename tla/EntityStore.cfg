\* The profiles of a user and of a group, then the usernames of two users (two
\* plain ones, and one that is spelled in two ways) and of two groups (one plain
\* and one collectible), then the administrators of a group.
SPECIFICATION Spec
CONSTANTS
    Users = {u1, u2}
    Groups = {g1, g2}
    UserNames = {{p}, {r}, {q, Q}}
    GroupNames = {{s}, {c}}
    Collectible = {c}
    Values = {Empty, v1}
    Empty = Empty
    Photos = {f1, f2}
    Null = Null
    NoRow = NoRow
    Removed = Removed
    Standings = {owner, admin}
    MaxList = 2
    MaxChanges = 3
    Varieties = {{"profile", u1}, {"profile", g1},
                 {u1, u2, p, r}, {u1, u2, q, Q}, {u1, p, q, Q}, {g1, g2, s, c},
                 {"admins", u1, u2, g1}}
CHECK_DEADLOCK FALSE
INVARIANTS
    OwnerIsLastTold
    LogReplays
    PastIsRecorded
    AdminLogReplays
PROPERTY
    RecordedExactly
