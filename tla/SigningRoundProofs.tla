------------------------- MODULE SigningRoundProofs -------------------------
(***************************************************************************)
(* Proofs about the signer state machine of SigningRound, for every set of *)
(* signers, parties and keys and every bound.                              *)
(***************************************************************************)
EXTENDS SigningRound, TLAPS

\* The per-signer functions the completion check reads are total on Signers.
Domains ==
    /\ DOMAIN state = Signers
    /\ DOMAIN commitments = Signers
    /\ DOMAIN decrypted_shares = Signers

\* CompletionNotPending strengthened to be inductive.
IInv == Domains /\ CompletionNotPending

-----------------------------------------------------------------------------
(* The empty set has no elements (from the definition of Cardinality).   *)
LEMMA EmptySetCardinality == Cardinality({}) = 0
<1> DEFINE g == [T \in SUBSET {} |-> 0]
<1>1. g = [T \in SUBSET {} |-> IF T = {} THEN 0
                                ELSE 1 + g[T \ {CHOOSE x : x \in T}]]
  OBVIOUS
<1> QED BY <1>1 DEF Cardinality

(* reset leaves an empty map, and an empty map has no entries to count.   *)
LEMMA EmptyMapCardinality == Cardinality(DOMAIN EmptyMap) = 0
<1>1. DOMAIN EmptyMap = {}
  BY DEF EmptyMap
<1> QED BY <1>1, EmptySetCardinality

(* After the completion check of process, whichever of its three         *)
(* outcomes is taken, neither completion predicate holds for the signer   *)
(* that processed the packet, and no other signer's state changed.        *)
LEMMA ProcessSettles ==
  ASSUME NEW s \in Signers, NEW st, NEW outs,
         DOMAIN state = Signers,
         Process(s, st, outs)
  PROVE  /\ ~PublicSharesDone(state'[s], commitments'[s])
         /\ ~CanDkgEnd(state'[s], commitments'[s], decrypted_shares'[s])
         /\ \A t \in Signers \ {s} : state'[t] = state[t]
         /\ DOMAIN state' = Signers
BY DEF Process, PublicSharesDone, CanDkgEnd

(* A handler that ends in the completion check, and changes the           *)
(* bookkeeping of the processing signer only, preserves the invariant.    *)
LEMMA ProcessStep ==
  ASSUME NEW s \in Signers, NEW st, NEW outs,
         IInv, Process(s, st, outs),
         DOMAIN commitments' = Signers, DOMAIN decrypted_shares' = Signers,
         \A t \in Signers \ {s} : /\ commitments'[t] = commitments[t]
                                  /\ decrypted_shares'[t] = decrypted_shares[t]
  PROVE  IInv'
<1>1. /\ ~PublicSharesDone(state'[s], commitments'[s])
      /\ ~CanDkgEnd(state'[s], commitments'[s], decrypted_shares'[s])
      /\ \A t \in Signers \ {s} : state'[t] = state[t]
      /\ DOMAIN state' = Signers
  BY ProcessSettles DEF IInv, Domains
<1>2. ASSUME NEW t \in Signers \ {s}
      PROVE  /\ ~PublicSharesDone(state'[t], commitments'[t])
             /\ ~CanDkgEnd(state'[t], commitments'[t], decrypted_shares'[t])
  BY <1>1 DEF IInv, CompletionNotPending
<1> QED BY <1>1, <1>2 DEF IInv, Domains, CompletionNotPending

-----------------------------------------------------------------------------
(* The initial state satisfies the invariant: every signer is Idle.       *)
LEMMA InitIInv == Init => IInv
BY DEF Init, IInv, Domains, CompletionNotPending, PublicSharesDone, CanDkgEnd

(* Every step of Next or stutter preserves the invariant.                 *)
LEMMA NextIInv == IInv /\ [Next]_vars => IInv'
<1> SUFFICES ASSUME IInv, [Next]_vars PROVE IInv'
  OBVIOUS
<1>1. ASSUME NEW s \in Signers, NEW m \in msgs, DkgBegin(s, m) PROVE IInv'
  <2>1. CASE Process(s, "DkgPublicGather",
                     <<[type |-> "DkgPublicShares", dkg_id |-> m.dkg_id, signer_id |-> s,
                        comms |-> [p \in SignerParties[s] |-> poly_gen'[s]]]>>)
    BY <1>1, <2>1, ProcessStep DEF DkgBegin, IInv, Domains
  <2>2. CASE Fail(s)
    \* move_to failed after reset: the state is kept, the commitments are empty.
    <3>1. state' = state
      BY <2>2 DEF Fail
    <3>2. commitments'[s] = EmptyMap /\ Cardinality(DOMAIN EmptyMap) # NumParties
      BY <1>1, EmptyMapCardinality, NumPartiesAssumption DEF DkgBegin, IInv, Domains
    <3>3. \A t \in Signers \ {s} : commitments'[t] = commitments[t]
                                   /\ decrypted_shares'[t] = decrypted_shares[t]
      BY <1>1 DEF DkgBegin
    <3> QED BY <1>1, <3>1, <3>2, <3>3
            DEF DkgBegin, IInv, Domains, CompletionNotPending, PublicSharesDone, CanDkgEnd
  <2> QED BY <1>1, <2>1, <2>2 DEF DkgBegin
<1>2. ASSUME NEW s \in Signers, NEW m \in msgs, DkgPrivateBegin(s, m) PROVE IInv'
  <2>1. CASE \E enc \in EncryptedShares(s) :
                Process(s, "DkgPrivateGather",
                        <<[type |-> "DkgPrivateShares", dkg_id |-> dkg_id[s],
                           signer_id |-> s, shares |-> enc]>>)
    BY <1>2, <2>1, ProcessStep DEF DkgPrivateBegin, IInv, Domains
  <2>2. CASE Fail(s)
    BY <1>2, <2>2 DEF DkgPrivateBegin, Fail, IInv, Domains, CompletionNotPending
  <2> QED BY <1>2, <2>1, <2>2 DEF DkgPrivateBegin
<1>3. ASSUME NEW s \in Signers, NEW m \in msgs, DkgPublicShare(s, m) PROVE IInv'
  BY <1>3, ProcessStep DEF DkgPublicShare, IInv, Domains
<1>4. ASSUME NEW s \in Signers, NEW m \in msgs, DkgPrivateShares(s, m) PROVE IInv'
  BY <1>4, ProcessStep DEF DkgPrivateShares, IInv, Domains
<1>5. ASSUME NEW s \in Signers, NEW m \in msgs, NonceRequest(s, m) PROVE IInv'
  BY <1>5, ProcessStep DEF NonceRequest, IInv, Domains
<1>6. ASSUME NEW s \in Signers, NEW m \in msgs, SignShareRequest(s, m) PROVE IInv'
  BY <1>6, ProcessStep DEF SignShareRequest, IInv, Domains
<1>7. ASSUME NEW s \in Signers, NEW m \in msgs, Ignore(s, m) PROVE IInv'
  BY <1>7, ProcessStep DEF Ignore, IInv, Domains
<1>8. CASE Coordinator
  BY <1>8 DEF Coordinator, CoordDkgBegin, CoordDkgPrivateBegin, CoordNonceRequest,
              CoordSignRequest, round_vars, IInv, Domains, CompletionNotPending
<1>9. CASE UNCHANGED vars
  BY <1>9 DEF vars, round_vars, IInv, Domains, CompletionNotPending
<1> QED BY <1>1, <1>2, <1>3, <1>4, <1>5, <1>6, <1>7, <1>8, <1>9 DEF Next

(* After every packet a signer processes, neither public_shares_done nor  *)
(* can_dkg_end is left holding: the completion check of process, and the  *)
(* error paths that skip it, never leave a round that could advance       *)
(* waiting for another packet.                                             *)
THEOREM CompletionNeverPending == Spec => []CompletionNotPending
<1>1. IInv => CompletionNotPending
  BY DEF IInv
<1> QED BY InitIInv, NextIInv, <1>1, PTL DEF Spec


-----------------------------------------------------------------------------
(***************************************************************************)
(* Type correctness.                                                       *)
(***************************************************************************)

(* The coordinator builds every quorum from distinct signers; with it a    *)
(* signer finds itself at most once in a SignatureShareRequest.           *)
QuorumsDistinct ==
    \A r \in msgs :
        r.type = "SignatureShareRequest" =>
            \A i, j \in 1 .. Len(r.nonce_responses) :
                i # j => r.nonce_responses[i].signer_id # r.nonce_responses[j].signer_id

TInv == TypeOK /\ QuorumsDistinct

(* A function from a subset of D to R is a finite map from D to R.         *)
LEMMA MapIntro ==
  ASSUME NEW D, NEW R, NEW S \in SUBSET D, NEW f \in [S -> R]
  PROVE  f \in Map(D, R)
BY DEF Map

(* A finite map from D to R is a function from a subset of D to R.         *)
LEMMA MapElim ==
  ASSUME NEW D, NEW R, NEW f \in Map(D, R)
  PROVE  DOMAIN f \subseteq D /\ f \in [DOMAIN f -> R]
BY DEF Map

(* Inserting the entries of one map into another keeps the map's type.    *)
LEMMA OverrideMap ==
  ASSUME NEW D, NEW R, NEW f \in Map(D, R), NEW g \in Map(D, R)
  PROVE  Override(f, g) \in Map(D, R)
<1>1. DOMAIN f \subseteq D /\ f \in [DOMAIN f -> R] /\ DOMAIN g \subseteq D /\ g \in [DOMAIN g -> R]
  BY MapElim
<1>2. Override(f, g) \in [DOMAIN f \cup DOMAIN g -> R]
  BY <1>1 DEF Override
<1> QED BY <1>1, <1>2, MapIntro

LEMMA EmptyMapType ==
  ASSUME NEW D, NEW R
  PROVE  EmptyMap \in Map(D, R)
<1>1. {} \in SUBSET D /\ EmptyMap \in [{} -> R]
  BY DEF EmptyMap
<1> QED BY <1>1, MapIntro

(* A set with one element has one element.                                *)
LEMMA SingletonCardinality ==
  ASSUME NEW i
  PROVE  Cardinality({i}) = 1
<1> DEFINE F(CS) == [T \in SUBSET {i} |-> IF T = {} THEN 0
                                           ELSE 1 + CS[T \ {CHOOSE x : x \in T}]]
           g == [T \in SUBSET {i} |-> IF T = {} THEN 0 ELSE 1]
           C == CHOOSE CS : CS = F(CS)
<1>1. (CHOOSE x : x \in {i}) = i
  OBVIOUS
<1>2. \A T \in SUBSET {i} : T = {} \/ T = {i}
  OBVIOUS
<1>3. g = F(g)
  BY <1>1, <1>2
<1>4. C = F(C)
  BY <1>3
<1>5. C[{i}] = 1 + C[{}] /\ C[{}] = 0
  BY <1>1, <1>4
<1>6. Cardinality({i}) = C[{i}]
  BY DEF Cardinality
<1> QED BY <1>5, <1>6

(* A signer sends only the packets a signer sends.                         *)
LEMMA SignerPacketType ==
  ASSUME NEW p \in SignerPacket
  PROVE  p \in Packet /\ p.type # "SignatureShareRequest"
BY DEF SignerPacket, Packet, NonceResponse

(* Emit either keeps a typed call going or publishes it, and publishes     *)
(* no SignatureShareRequest.                                              *)
LEMMA EmitType ==
  ASSUME TInv, NEW s \in Signers, NEW out \in Seq(SignerPacket), Emit(s, out)
  PROVE  /\ responses' \in [Signers -> Seq(SignerPacket)]
         /\ batch_len' \in [Signers -> 0 .. MaxBatch]
         /\ msgs' \subseteq Packet
         /\ \A r \in msgs' \ msgs : r.type # "SignatureShareRequest"
<1>1. CASE batch_len[s] + 1 < MaxBatch /\ responses' = [responses EXCEPT ![s] = out]
           /\ batch_len' = [batch_len EXCEPT ![s] = @ + 1] /\ UNCHANGED msgs
  BY <1>1, ConstAssumption DEF TInv, TypeOK
<1>2. CASE /\ Broadcast(out)
           /\ responses' = [responses EXCEPT ![s] = <<>>]
           /\ batch_len' = [batch_len EXCEPT ![s] = 0]
  <2>1. {out[i] : i \in 1 .. Len(out)} \subseteq SignerPacket
    OBVIOUS
  <2> QED BY <1>2, <2>1, SignerPacketType, ConstAssumption DEF Broadcast, TInv, TypeOK
<1> QED BY <1>1, <1>2 DEF Emit


\* The records of dkg_ends.
DkgEndRecord ==
    [signer_id : Signers, dkg_id : DkgIds, status : {"Success", "Failure"},
     key : Map(Parties, Gens)]

(* The DkgEnd that dkg_ended builds is a packet a signer sends.            *)
LEMMA DkgEndedType ==
  ASSUME NEW s \in Signers, dkg_id' \in [Signers -> DkgIds]
  PROVE  DkgEnded(s) \in SignerPacket
BY DEF DkgEnded, SignerPacket

(* The completion check of process, given a handler that kept the round's *)
(* bookkeeping typed and returned typed outputs, keeps everything typed.  *)
LEMMA ProcessType ==
  ASSUME TInv, NEW s \in Signers, NEW st \in States, NEW outs \in Seq(SignerPacket),
         Process(s, st, outs),
         dkg_id' \in [Signers -> DkgIds],
         commitments' \in [Signers -> Map(Parties, Gens)]
  PROVE  /\ state' \in [Signers -> States]
         /\ group_key' \in [Signers -> Map(Parties, Gens)]
         /\ dkg_ends' \subseteq DkgEndRecord
         /\ responses' \in [Signers -> Seq(SignerPacket)]
         /\ batch_len' \in [Signers -> 0 .. MaxBatch]
         /\ msgs' \subseteq Packet
         /\ \A r \in msgs' \ msgs : r.type # "SignatureShareRequest"
<1>1. responses[s] \o outs \in Seq(SignerPacket)
  BY DEF TInv, TypeOK
<1>2. DkgEnded(s) \in SignerPacket
  BY DkgEndedType
<1>3. Append(responses[s] \o outs, DkgEnded(s)) \in Seq(SignerPacket)
  BY <1>1, <1>2
<1>4. dkg_ends \subseteq DkgEndRecord /\ group_key \in [Signers -> Map(Parties, Gens)]
      /\ state \in [Signers -> States]
  BY DEF TInv, TypeOK, DkgEndRecord
<1>5. CASE /\ state' = [state EXCEPT ![s] = "DkgPrivateDistribute"]
           /\ Emit(s, responses[s] \o outs)
           /\ UNCHANGED <<group_key, dkg_ends>>
  BY <1>1, <1>4, <1>5, EmitType DEF States
<1>6. CASE /\ state' = [state EXCEPT ![s] = "Idle"]
           /\ Emit(s, Append(responses[s] \o outs, DkgEnded(s)))
           /\ \E k \in SecretsAfter(s) : group_key' = [group_key EXCEPT ![s] = k]
           /\ dkg_ends' = dkg_ends \cup
                 {[signer_id |-> s, dkg_id |-> dkg_id'[s], status |-> DkgEnded(s).status,
                   key |-> commitments'[s]]}
  <2>1. DkgEnded(s).status \in {"Success", "Failure"}
    BY DEF DkgEnded
  <2>2. [signer_id |-> s, dkg_id |-> dkg_id'[s], status |-> DkgEnded(s).status,
         key |-> commitments'[s]] \in DkgEndRecord
    BY <2>1 DEF DkgEndRecord
  <2>5. SecretsAfter(s) \subseteq Map(Parties, Gens)
    BY <1>4 DEF SecretsAfter
  <2>3. group_key' \in [Signers -> Map(Parties, Gens)]
    BY <1>4, <1>6, <2>5
  <2>4. state' \in [Signers -> States]
    BY <1>4, <1>6 DEF States
  <2> QED BY <1>3, <1>4, <1>6, <2>2, <2>3, <2>4, EmitType
<1>7. CASE /\ state' = [state EXCEPT ![s] = st]
           /\ Emit(s, responses[s] \o outs)
           /\ UNCHANGED <<group_key, dkg_ends>>
  BY <1>1, <1>4, <1>7, EmitType
<1> QED BY <1>5, <1>6, <1>7 DEF Process


\* The round bookkeeping a handler writes, typed.
RoundTyped ==
    /\ dkg_id \in [Signers -> DkgIds]
    /\ commitments \in [Signers -> Map(Parties, Gens)]
    /\ decrypted_shares \in [Signers -> Map(Parties, Map(Keys, Gens))]
    /\ invalid_private_shares \in [Signers -> SUBSET Parties]
    /\ poly_gen \in [Signers -> Gens]
    /\ nonce \in [Signers -> Nonces]

(* A handler that keeps the bookkeeping typed and returns typed outputs,  *)
(* followed by the completion check, preserves TInv.                      *)
LEMMA HandlerType ==
  ASSUME TInv, NEW s \in Signers, NEW st \in States, NEW outs \in Seq(SignerPacket),
         Process(s, st, outs), RoundTyped', UNCHANGED <<coord_dkg, coord_sign>>
  PROVE  TInv'
<1>1. /\ state' \in [Signers -> States]
      /\ group_key' \in [Signers -> Map(Parties, Gens)]
      /\ dkg_ends' \subseteq DkgEndRecord
      /\ responses' \in [Signers -> Seq(SignerPacket)]
      /\ batch_len' \in [Signers -> 0 .. MaxBatch]
      /\ msgs' \subseteq Packet
      /\ \A r \in msgs' \ msgs : r.type # "SignatureShareRequest"
  BY ProcessType DEF RoundTyped
<1>2. TypeOK'
  BY <1>1 DEF TInv, TypeOK, RoundTyped, DkgEndRecord
<1>3. QuorumsDistinct'
  BY <1>1 DEF TInv, QuorumsDistinct
<1> QED BY <1>2, <1>3 DEF TInv

(* A handler that fails after changing typed bookkeeping preserves TInv.  *)
LEMMA FailType ==
  ASSUME TInv, NEW s \in Signers, Fail(s), RoundTyped',
         UNCHANGED <<coord_dkg, coord_sign>>
  PROVE  TInv'
<1>1. responses' \in [Signers -> Seq(SignerPacket)] /\ batch_len' \in [Signers -> 0 .. MaxBatch]
  BY ConstAssumption DEF Fail, TInv, TypeOK
<1> QED BY <1>1 DEF Fail, TInv, TypeOK, RoundTyped, QuorumsDistinct


(* What the fields of each kind of packet hold.                            *)
LEMMA PacketFields ==
  ASSUME NEW m \in Packet
  PROVE  /\ m.type = "DkgBegin" => m.dkg_id \in DkgIds
         /\ m.type = "DkgPublicShares" => m.comms \in Map(Parties, Gens)
         /\ m.type = "DkgPrivateShares" => m.shares \in Map(Parties, [Keys -> Ciphertext])
         /\ m.type = "NonceRequest" => m.sign_id \in SignIds
         /\ m.type = "SignatureShareRequest" =>
               /\ m.sign_id \in SignIds /\ m.nonce_responses \in Quorums
               /\ m.message \in Messages /\ m.is_taproot \in BOOLEAN
BY DEF Packet, CoordPacket, SignerPacket, NonceResponse

LEMMA DkgBeginType ==
  ASSUME TInv, NEW s \in Signers, NEW m \in msgs, DkgBegin(s, m)
  PROVE  TInv'
<1>1. m \in Packet /\ m.type = "DkgBegin"
  BY DEF DkgBegin, TInv, TypeOK
<1>2. RoundTyped'
  <2>1. m.dkg_id \in DkgIds
    BY <1>1, PacketFields
  <2>2. EmptyMap \in Map(Parties, Gens) /\ EmptyMap \in Map(Parties, Map(Keys, Gens))
    BY EmptyMapType
  <2>3. poly_gen' \in [Signers -> Gens]
    BY ConstAssumption DEF DkgBegin, TInv, TypeOK, Gens
  <2> QED BY <2>1, <2>2, <2>3 DEF DkgBegin, TInv, TypeOK, RoundTyped
<1>3. CASE Process(s, "DkgPublicGather",
                   <<[type |-> "DkgPublicShares", dkg_id |-> m.dkg_id, signer_id |-> s,
                      comms |-> [p \in SignerParties[s] |-> poly_gen'[s]]]>>)
  <2>1. [p \in SignerParties[s] |-> poly_gen'[s]] \in Map(Parties, Gens)
    <3>1. SignerParties[s] \in SUBSET Parties /\ poly_gen'[s] \in Gens
      BY <1>2, ConstAssumption DEF RoundTyped
    <3> QED BY <3>1, MapIntro
  <2>2. <<[type |-> "DkgPublicShares", dkg_id |-> m.dkg_id, signer_id |-> s,
           comms |-> [p \in SignerParties[s] |-> poly_gen'[s]]]>> \in Seq(SignerPacket)
    BY <1>1, <2>1, PacketFields DEF SignerPacket
  <2> QED BY <1>2, <1>3, <2>2, HandlerType DEF DkgBegin, States
<1>4. CASE Fail(s)
  BY <1>2, <1>4, FailType DEF DkgBegin
<1> QED BY <1>3, <1>4 DEF DkgBegin


(* The private shares dkg_private_begin encrypts are a map from our        *)
(* parties to a ciphertext per key.                                       *)
LEMMA EncryptedSharesType ==
  ASSUME TInv, NEW s \in Signers
  PROVE  EncryptedShares(s) \subseteq Map(Parties, [Keys -> Ciphertext])
<1> SUFFICES ASSUME NEW enc \in EncryptedShares(s)
             PROVE  enc \in Map(Parties, [Keys -> Ciphertext])
  OBVIOUS
<1>1. SignerParties[s] \in SUBSET Parties /\ poly_gen[s] \in Gens
  BY ConstAssumption DEF TInv, TypeOK
<1> DEFINE ok == IF s \in Faulty THEN BOOLEAN ELSE {TRUE}
<1>2. PICK f \in [SignerParties[s] -> [Keys -> ok]] :
        enc = [p \in SignerParties[s] |-> [k \in Keys |-> [gen |-> poly_gen[s], ok |-> f[p][k]]]]
  BY DEF EncryptedShares
<1>3. ok \subseteq BOOLEAN
  OBVIOUS
<1>4. \A p \in SignerParties[s], k \in Keys : f[p][k] \in BOOLEAN
  BY <1>2, <1>3
<1>5. enc \in [SignerParties[s] -> [Keys -> Ciphertext]]
  BY <1>1, <1>2, <1>4 DEF Ciphertext
<1> QED BY <1>1, <1>5, MapIntro

LEMMA DkgPrivateBeginType ==
  ASSUME TInv, NEW s \in Signers, NEW m \in msgs, DkgPrivateBegin(s, m)
  PROVE  TInv'
<1>1. RoundTyped'
  BY DEF DkgPrivateBegin, TInv, TypeOK, RoundTyped
<1>2. CASE \E enc \in EncryptedShares(s) :
              Process(s, "DkgPrivateGather",
                      <<[type |-> "DkgPrivateShares", dkg_id |-> dkg_id[s],
                         signer_id |-> s, shares |-> enc]>>)
  <2>1. PICK enc \in EncryptedShares(s) :
              Process(s, "DkgPrivateGather",
                      <<[type |-> "DkgPrivateShares", dkg_id |-> dkg_id[s],
                         signer_id |-> s, shares |-> enc]>>)
    BY <1>2
  <2>2. <<[type |-> "DkgPrivateShares", dkg_id |-> dkg_id[s],
           signer_id |-> s, shares |-> enc]>> \in Seq(SignerPacket)
    <3>1. enc \in Map(Parties, [Keys -> Ciphertext]) /\ dkg_id[s] \in DkgIds
      BY EncryptedSharesType DEF TInv, TypeOK
    <3>2. [type |-> "DkgPrivateShares", dkg_id |-> dkg_id[s],
           signer_id |-> s, shares |-> enc] \in SignerPacket
      BY <3>1 DEF SignerPacket
    <3> QED BY <3>2
  <2> QED BY <1>1, <2>1, <2>2, HandlerType DEF DkgPrivateBegin, States
<1>3. CASE Fail(s)
  BY <1>1, <1>3, FailType DEF DkgPrivateBegin
<1> QED BY <1>2, <1>3 DEF DkgPrivateBegin

LEMMA DkgPublicShareType ==
  ASSUME TInv, NEW s \in Signers, NEW m \in msgs, DkgPublicShare(s, m)
  PROVE  TInv'
<1>1. m.comms \in Map(Parties, Gens) /\ commitments[s] \in Map(Parties, Gens)
  BY PacketFields DEF DkgPublicShare, TInv, TypeOK
<1>2. Override(m.comms, commitments[s]) \in Map(Parties, Gens)
  BY <1>1, OverrideMap
<1>3. RoundTyped'
  BY <1>2 DEF DkgPublicShare, TInv, TypeOK, RoundTyped
<1>4. state[s] \in States
  BY DEF TInv, TypeOK
<1>5. Process(s, state[s], <<>>) /\ UNCHANGED <<coord_dkg, coord_sign>>
  BY DEF DkgPublicShare
<1>6. <<>> \in Seq(SignerPacket)
  OBVIOUS
<1> QED BY <1>3, <1>4, <1>5, <1>6, HandlerType


LEMMA DkgPrivateSharesType ==
  ASSUME TInv, NEW s \in Signers, NEW m \in msgs, DkgPrivateShares(s, m)
  PROVE  TInv'
<1> DEFINE ours(src) == DOMAIN m.shares[src] \cap SignerKeys[s]
           good(src) == {k \in ours(src) : m.shares[src][k].ok}
           got == [src \in DOMAIN m.shares |->
                     [k \in good(src) |-> m.shares[src][k].gen]]
           bad == {src \in DOMAIN m.shares : good(src) # ours(src)}
<1>1. /\ decrypted_shares' = [decrypted_shares EXCEPT ![s] = Override(got, @)]
      /\ invalid_private_shares' = [invalid_private_shares EXCEPT ![s] = @ \cup bad]
      /\ Process(s, state[s], <<>>)
      /\ UNCHANGED <<dkg_id, commitments, poly_gen, nonce, coord_dkg, coord_sign>>
  BY DEF DkgPrivateShares
<1>2. m.shares \in Map(Parties, [Keys -> Ciphertext])
  BY PacketFields DEF DkgPrivateShares, TInv, TypeOK
<1>3. DOMAIN m.shares \subseteq Parties /\ m.shares \in [DOMAIN m.shares -> [Keys -> Ciphertext]]
  BY <1>2, MapElim
<1>4. \A src \in DOMAIN m.shares : got[src] \in Map(Keys, Gens)
  <2> SUFFICES ASSUME NEW src \in DOMAIN m.shares PROVE got[src] \in Map(Keys, Gens)
    OBVIOUS
  <2>1. good(src) \subseteq Keys
    BY <1>3
  <2>2. got[src] \in [good(src) -> Gens]
    BY <1>3 DEF Ciphertext
  <2> QED BY <2>1, <2>2, MapIntro
<1>5. got \in Map(Parties, Map(Keys, Gens))
  BY <1>3, <1>4, MapIntro
<1>6. Override(got, decrypted_shares[s]) \in Map(Parties, Map(Keys, Gens))
  BY <1>5, OverrideMap DEF TInv, TypeOK
<1>7. bad \subseteq Parties
  BY <1>3
<1>8. RoundTyped'
  BY <1>1, <1>6, <1>7 DEF TInv, TypeOK, RoundTyped
<1>9. state[s] \in States /\ <<>> \in Seq(SignerPacket)
  BY DEF TInv, TypeOK
<1> QED BY <1>1, <1>8, <1>9, HandlerType

LEMMA NonceRequestType ==
  ASSUME TInv, NEW s \in Signers, NEW m \in msgs, NonceRequest(s, m)
  PROVE  TInv'
<1>1. RoundTyped'
  BY ConstAssumption DEF NonceRequest, TInv, TypeOK, RoundTyped, Nonces
<1>2. m.sign_id \in SignIds
  BY PacketFields DEF NonceRequest, TInv, TypeOK
<1>3. <<[type |-> "NonceResponse", sign_id |-> m.sign_id, signer_id |-> s,
         nonce |-> nonce'[s]]>> \in Seq(SignerPacket)
  BY <1>1, <1>2 DEF RoundTyped, SignerPacket, NonceResponse
<1>4. state[s] \in States
  BY DEF TInv, TypeOK
<1> QED BY <1>1, <1>3, <1>4, HandlerType DEF NonceRequest

LEMMA IgnoreType ==
  ASSUME TInv, NEW s \in Signers, NEW m \in msgs, Ignore(s, m)
  PROVE  TInv'
<1>1. RoundTyped'
  BY DEF Ignore, TInv, TypeOK, RoundTyped
<1>2. state[s] \in States /\ <<>> \in Seq(SignerPacket)
  BY DEF TInv, TypeOK
<1> QED BY <1>1, <1>2, HandlerType DEF Ignore


(* In a quorum of distinct signers a signer finds itself at most once, so *)
(* sign_share_request answers with a sequence of zero or one response.    *)
LEMMA SignatureShareResponsesType ==
  ASSUME TInv, NEW s \in Signers, NEW m \in msgs, m.type = "SignatureShareRequest"
  PROVE  SignatureShareResponses(s, m) \in Seq(SignerPacket)
<1> DEFINE q == m.nonce_responses
           mine == {i \in 1 .. Len(q) : q[i].signer_id = s}
           resp == [type |-> "SignatureShareResponse", sign_id |-> m.sign_id,
                    signer_id |-> s,
                    signature_shares |->
                       [message |-> m.message, nonce_responses |-> q,
                        is_taproot |-> m.is_taproot, nonce |-> nonce[s],
                        key |-> group_key[s]]]
<1>1. /\ m.sign_id \in SignIds /\ q \in Quorums
      /\ m.message \in Messages /\ m.is_taproot \in BOOLEAN
  BY PacketFields DEF TInv, TypeOK
<1>2. resp \in SignerPacket
  BY <1>1 DEF TInv, TypeOK, SignerPacket, SignatureShare
<1>3. \A i, j \in mine : i = j
  BY DEF TInv, QuorumsDistinct
<1>4. Cardinality(mine) \in Nat
  <2>1. CASE mine = {}
    <3>1. Cardinality(mine) = Cardinality({})
      BY <2>1, Zenon
    <3> QED BY <3>1, EmptySetCardinality
  <2>2. CASE mine # {}
    <3>1. PICK i \in mine : TRUE
      BY <2>2
    <3>2. mine = {i}
      BY <1>3
    <3>3. Cardinality({i}) = 1
      BY SingletonCardinality
    <3>4. Cardinality(mine) = 1
      BY <3>2, <3>3, Zenon
    <3> QED BY <3>4
  <2> QED BY <2>1, <2>2
<1> QED BY <1>2, <1>4 DEF SignatureShareResponses

LEMMA SignShareRequestType ==
  ASSUME TInv, NEW s \in Signers, NEW m \in msgs, SignShareRequest(s, m)
  PROVE  TInv'
<1>1. RoundTyped'
  BY DEF SignShareRequest, TInv, TypeOK, RoundTyped
<1>2. SignatureShareResponses(s, m) \in Seq(SignerPacket)
  BY SignatureShareResponsesType DEF SignShareRequest
<1>3. state[s] \in States
  BY DEF TInv, TypeOK
<1> QED BY <1>1, <1>2, <1>3, HandlerType DEF SignShareRequest


(* A packet of type NonceResponse is a NonceResponse.                      *)
LEMMA NonceResponseField ==
  ASSUME NEW r \in Packet, r.type = "NonceResponse"
  PROVE  r \in NonceResponse
BY DEF Packet, CoordPacket, SignerPacket, NonceResponse

LEMMA CoordinatorType ==
  ASSUME TInv, Coordinator
  PROVE  TInv'
<1>1. CASE CoordDkgBegin
  BY <1>1, ConstAssumption DEF CoordDkgBegin, Broadcast, TInv, TypeOK, QuorumsDistinct, round_vars,
                               call_vars, Packet, CoordPacket, DkgIds
<1>2. CASE CoordDkgPrivateBegin
  BY <1>2 DEF CoordDkgPrivateBegin, Broadcast, TInv, TypeOK, QuorumsDistinct, round_vars,
              call_vars, Packet, CoordPacket
<1>3. CASE CoordNonceRequest
  BY <1>3, ConstAssumption DEF CoordNonceRequest, Broadcast, TInv, TypeOK, QuorumsDistinct, round_vars,
                               call_vars, Packet, CoordPacket, SignIds
<1>4. CASE CoordSignRequest
  <2>1. PICK n \in 1 .. MaxQuorum, msg \in Messages, taproot \in BOOLEAN :
          \E q \in [1 .. n -> {r \in msgs : r.type = "NonceResponse" /\ r.sign_id = coord_sign}] :
             /\ \A i, j \in 1 .. n : i # j => q[i].signer_id # q[j].signer_id
             /\ Broadcast(<<[type |-> "SignatureShareRequest", sign_id |-> coord_sign,
                               nonce_responses |-> q, message |-> msg,
                               is_taproot |-> taproot]>>)
    BY <1>4 DEF CoordSignRequest
  <2>2. PICK q \in [1 .. n -> {r \in msgs : r.type = "NonceResponse" /\ r.sign_id = coord_sign}] :
             /\ \A i, j \in 1 .. n : i # j => q[i].signer_id # q[j].signer_id
             /\ Broadcast(<<[type |-> "SignatureShareRequest", sign_id |-> coord_sign,
                               nonce_responses |-> q, message |-> msg,
                               is_taproot |-> taproot]>>)
    BY <2>1
  <2>3. q \in Quorums
    <3>1. \A i \in 1 .. n : q[i] \in NonceResponse
      BY NonceResponseField DEF TInv, TypeOK
    <3> QED BY <3>1 DEF Quorums
  <2>4. coord_sign \in SignIds
    BY <1>4 DEF CoordSignRequest, TInv, TypeOK, SignIds
  <2>5. Len(q) = n
    OBVIOUS
  <2>8. msgs' = msgs \cup {[type |-> "SignatureShareRequest", sign_id |-> coord_sign,
                            nonce_responses |-> q, message |-> msg, is_taproot |-> taproot]}
    BY <2>2 DEF Broadcast
  <2>9. [type |-> "SignatureShareRequest", sign_id |-> coord_sign,
         nonce_responses |-> q, message |-> msg, is_taproot |-> taproot] \in Packet
    BY <2>3, <2>4 DEF Packet, CoordPacket
  <2>10. msgs' \subseteq Packet
    BY <2>8, <2>9 DEF TInv, TypeOK
  <2>6. TypeOK'
    BY <1>4, <2>10 DEF CoordSignRequest, TInv, TypeOK, round_vars, call_vars
  <2>7. QuorumsDistinct'
    BY <1>4, <2>2, <2>8, <2>5 DEF CoordSignRequest, TInv, QuorumsDistinct
  <2> QED BY <2>6, <2>7 DEF TInv
<1> QED BY <1>1, <1>2, <1>3, <1>4 DEF Coordinator

(* The initial state is typed.                                             *)
LEMMA InitTInv == Init => TInv
<1> SUFFICES ASSUME Init PROVE TInv
  OBVIOUS
<1>1. EmptyMap \in Map(Parties, Gens) /\ EmptyMap \in Map(Parties, Map(Keys, Gens))
  BY EmptyMapType
<1>2. /\ state \in [Signers -> States]
      /\ dkg_id \in [Signers -> DkgIds]
      /\ poly_gen \in [Signers -> Gens]
      /\ nonce \in [Signers -> Nonces]
      /\ batch_len \in [Signers -> 0 .. MaxBatch]
      /\ coord_dkg \in DkgIds /\ coord_sign \in 0 .. MaxSign
  BY ConstAssumption DEF Init, States, DkgIds, Gens, Nonces
<1>3. /\ commitments \in [Signers -> Map(Parties, Gens)]
      /\ decrypted_shares \in [Signers -> Map(Parties, Map(Keys, Gens))]
      /\ group_key \in [Signers -> Map(Parties, Gens)]
      /\ invalid_private_shares \in [Signers -> SUBSET Parties]
  BY <1>1 DEF Init
<1>4. responses \in [Signers -> Seq(SignerPacket)]
  BY DEF Init
<1>5. msgs = {} /\ dkg_ends = {}
  BY DEF Init
<1> QED BY <1>2, <1>3, <1>4, <1>5 DEF TInv, TypeOK, QuorumsDistinct

(* Every step of Next or stutter preserves TInv.                           *)
LEMMA NextTInv == TInv /\ [Next]_vars => TInv'
<1> SUFFICES ASSUME TInv, [Next]_vars PROVE TInv'
  OBVIOUS
<1>1. CASE UNCHANGED vars
  BY <1>1 DEF vars, round_vars, call_vars, net_vars, TInv, TypeOK, QuorumsDistinct
<1> QED BY <1>1, DkgBeginType, DkgPrivateBeginType, DkgPublicShareType,
           DkgPrivateSharesType, NonceRequestType, SignShareRequestType, IgnoreType,
           CoordinatorType DEF Next

(* Type correctness: every variable keeps the type the code's fields and   *)
(* the packets of net::Message give it, whatever the interleaving of      *)
(* signers, the packets delivered and the bounds.                         *)
THEOREM TypeCorrect == Spec => []TypeOK
<1>1. TInv => TypeOK
  BY DEF TInv
<1> QED BY InitTInv, NextTInv, <1>1, PTL DEF Spec

=============================================================================
