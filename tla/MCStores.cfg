CONSTANTS
    Token = {t1}
    Key = {k1}
    Req = {q1, q2}
    None = None
    Res = 2
    TTL = 2
    MaxTime = 4
    token = token  home = home  path = path  x = x  y = y
    Name = {token, home, path}
    Value = {x, y}
    MasterKey = {m1, m2}
    JobSecrets <- MCJobSecrets
    SpecEnv <- MCSpecEnv
    Caller = {b1, b2}
    Secret = {token}
    Datum = {d1, d2}
    NoValue = NoValue
    u1 = u1  u2 = u2  u3 = u3
    Path = {1, 2}
    Dir <- MCDir
    Upload = {u1, u2, u3}
    Chunks <- MCChunks
    PageSize = 1
    NoUpload = NoUpload
SPECIFICATION MCSpec
INVARIANTS DecisionsRight SessionLifetime SecretsReach UploadedServed ListedWhole
PROPERTIES BackendsImplement
SYMMETRY MCSymmetry
CHECK_DEADLOCK FALSE
