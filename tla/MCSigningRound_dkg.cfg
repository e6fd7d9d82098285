\* DKG rounds: two signers, one dkg id that may be restarted by a duplicate DkgBegin (two polynomial generations), one packet per call.
CONSTANTS
    s1 = s1  s2 = s2  p1 = p1  p2 = p2  k1 = k1  k2 = k2
    Signers = {s1, s2}
    Parties = {p1, p2}
    Keys = {k1, k2}
    SignerParties <- MCSignerParties
    SignerKeys <- MCSignerKeys
    Faulty = {}
    Messages = {"m1"}
    MaxDkg = 1
    MaxGen = 2
    MaxNonce = 0
    MaxSign = 0
    MaxBatch = 1
    MaxQuorum = 1
    Network = "Any"
SPECIFICATION Spec
INVARIANT TypeOK CompletionNotPending
CHECK_DEADLOCK FALSE
