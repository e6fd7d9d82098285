\* A delayed SignatureShareRequest answered after the next NonceRequest.
CONSTANTS
    s1 = s1  s2 = s2  p1 = p1  p2 = p2  k1 = k1  k2 = k2
    Signers = {s1, s2}
    Parties = {p1, p2}
    Keys = {k1, k2}
    SignerParties <- MCSignerParties
    SignerKeys <- MCSignerKeys
    Faulty = {}
    Messages = {"m1", "m2"}
    MaxDkg = 0
    MaxGen = 0
    MaxNonce = 2
    MaxSign = 2
    MaxBatch = 1
    MaxQuorum = 2
    Network = "Any"
SPECIFICATION Spec
INVARIANT NoNonceReuse
CHECK_DEADLOCK FALSE
