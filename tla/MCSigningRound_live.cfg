\* DKG termination over a total-order relay: two signers, s2 faulty, one dkg id, one generation, one packet per call.
CONSTANTS
    s1 = s1  s2 = s2  p1 = p1  p2 = p2  k1 = k1  k2 = k2
    Signers = {s1, s2}
    Parties = {p1, p2}
    Keys = {k1, k2}
    SignerParties <- MCSignerParties
    SignerKeys <- MCSignerKeys
    Faulty = {s2}
    Messages = {"m1"}
    MaxDkg = 1
    MaxGen = 1
    MaxNonce = 0
    MaxSign = 0
    MaxBatch = 1
    MaxQuorum = 1
    Network = "Fifo"
SPECIFICATION LiveSpec
PROPERTY DkgRoundEnds
CHECK_DEADLOCK FALSE
