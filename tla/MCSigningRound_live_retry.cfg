\* DKG termination when the coordinator retries: a total-order relay, two dkg ids (the second a retry of the first), two generations, one packet per call.
CONSTANTS
    s1 = s1  s2 = s2  p1 = p1  p2 = p2  k1 = k1  k2 = k2
    Signers = {s1, s2}
    Parties = {p1, p2}
    Keys = {k1, k2}
    SignerParties <- MCSignerParties
    SignerKeys <- MCSignerKeys
    Faulty = {}
    Messages = {"m1"}
    MaxDkg = 2
    MaxGen = 2
    MaxNonce = 0
    MaxSign = 0
    MaxBatch = 1
    MaxQuorum = 1
    Network = "Fifo"
SPECIFICATION LiveSpec
PROPERTY DkgRoundEnds
CHECK_DEADLOCK FALSE
