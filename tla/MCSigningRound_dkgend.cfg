\* A DkgEnd computed by the first packet of a call and dropped by a second packet that fails: two signers, one dkg id, one generation, calls of up to two packets.
CONSTANTS
    s1 = s1  s2 = s2  p1 = p1  p2 = p2  k1 = k1  k2 = k2
    Signers = {s1, s2}
    Parties = {p1, p2}
    Keys = {k1, k2}
    SignerParties <- MCSignerParties
    SignerKeys <- MCSignerKeys
    Faulty = {}
    Messages = {"m1"}
    MaxDkg = 1
    MaxGen = 1
    MaxNonce = 0
    MaxSign = 0
    MaxBatch = 2
    MaxQuorum = 1
    Network = "Any"
SPECIFICATION Spec
INVARIANT DkgEndEmitted
CHECK_DEADLOCK FALSE
