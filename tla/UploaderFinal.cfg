CONSTANTS
    f1 = f1
    f2 = f2
    n1 = n1
    u1 = u1
    u2 = u2
    File = {f1}
    NoFile = NoFile
    Name = {n1}
    BaseName <- SameName
    Uploader = {u1}
    MaxVersion <- FirstTwice
    MaxKills = 1
SPECIFICATION MCSpec
INVARIANT FinalPassSyncs
