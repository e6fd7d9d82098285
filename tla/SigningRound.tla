---------------------------- MODULE SigningRound ----------------------------
(***************************************************************************)
(* The signer state machine of src/state_machine/signer/mod.rs: a set of   *)
(* signers, each running SigningRound::process_inbound_messages on packets *)
(* taken from a shared network, and the external coordinator that drives  *)
(* the DKG and signing rounds.                                             *)
(*                                                                         *)
(* The transport is a parameter. With Network = "Any" it is the set msgs  *)
(* of every packet ever sent: a packet may be received any number of      *)
(* times, by any signer, in any order, or never. With "Once" and "Fifo"   *)
(* every packet is broadcast to all signers through the log of packets in *)
(* sending order, and each signer consumes each entry at most once: in    *)
(* any order ("Once"), or in log order ("Fifo", a total-order relay).     *)
(* The cryptography is abstracted: a polynomial (and the commitment and    *)
(* private shares derived from it) is identified by its generation, the    *)
(* number of reset_polys calls of its owner; a ciphertext carries the      *)
(* share's generation and whether it decrypts and parses.                  *)
(***************************************************************************)
EXTENDS Naturals, Sequences, FiniteSets

CONSTANTS
    Signers,        \* signer ids of all participants
    Parties,        \* party ids: the unit counted by get_num_parties
    Keys,           \* key ids
    SignerParties,  \* SignerParties[s]: parties whose polynomials s holds
    SignerKeys,     \* SignerKeys[s]: key ids s owns (get_key_ids)
    Faulty,         \* signers whose private shares may fail to decrypt
    Messages,       \* byte strings a SignatureShareRequest may ask to sign
    MaxDkg,         \* dkg ids the coordinator uses: 1..MaxDkg
    MaxGen,         \* bound on reset_polys calls per signer
    MaxNonce,       \* bound on gen_nonces calls per signer
    MaxSign,        \* sign ids the coordinator uses: 1..MaxSign
    MaxBatch,       \* bound on packets per process_inbound_messages call
    MaxQuorum,      \* bound on the nonce responses of a SignatureShareRequest
    Network         \* the transport: "Any", "Once" or "Fifo"

ASSUME ConstAssumption ==
    /\ Parties # {} /\ IsFiniteSet(Parties)
    /\ SignerParties \in [Signers -> SUBSET Parties]
    /\ SignerKeys \in [Signers -> SUBSET Keys]
    /\ Faulty \subseteq Signers
    /\ {MaxDkg, MaxGen, MaxNonce, MaxSign} \subseteq Nat
    /\ MaxBatch \in Nat \ {0}
    /\ MaxQuorum \in Nat \ {0}
    /\ Network \in {"Any", "Once", "Fifo"}

\* get_num_parties of the cryptographic signer
NumParties == Cardinality(Parties)

\* A Signer counts itself among the parties, so get_num_parties is positive.
ASSUME NumPartiesAssumption == NumParties \in Nat \ {0}

States == {"Idle", "DkgPublicDistribute", "DkgPublicGather",
           "DkgPrivateDistribute", "DkgPrivateGather", "SignGather", "Signed"}

DkgIds == 0 .. MaxDkg
SignIds == 1 .. MaxSign
Gens == 0 .. MaxGen
Nonces == 0 .. MaxNonce

\* A finite map (BTreeMap / HashMap) from a subset of D to R.
Map(D, R) == UNION {[S -> R] : S \in SUBSET D}
EmptyMap == [x \in {} |-> 0]

\* Insert every entry of new into old, overwriting (last writer wins).
Override(new, old) ==
    [x \in DOMAIN new \cup DOMAIN old |-> IF x \in DOMAIN new THEN new[x] ELSE old[x]]

Ciphertext == [gen : Gens, ok : BOOLEAN]

NonceResponse ==
    [type : {"NonceResponse"}, sign_id : SignIds, signer_id : Signers, nonce : Nonces]

Quorums == UNION {[1 .. n -> NonceResponse] : n \in 1 .. MaxQuorum}

SignatureShare ==
    [message : Messages, nonce_responses : Quorums, is_taproot : BOOLEAN,
     nonce : Nonces, key : Map(Parties, Gens)]

\* The net::Message variants the coordinator sends.
CoordPacket ==
         [type : {"DkgBegin", "DkgPrivateBegin"}, dkg_id : DkgIds]
    \cup [type : {"NonceRequest"}, sign_id : SignIds]
    \cup [type : {"SignatureShareRequest"}, sign_id : SignIds,
          nonce_responses : Quorums, message : Messages, is_taproot : BOOLEAN]

\* The net::Message variants a signer sends.
SignerPacket ==
         [type : {"DkgPublicShares"}, dkg_id : DkgIds, signer_id : Signers,
          comms : Map(Parties, Gens)]
    \cup [type : {"DkgPrivateShares"}, dkg_id : DkgIds, signer_id : Signers,
          shares : Map(Parties, [Keys -> Ciphertext])]
    \cup [type : {"DkgEnd"}, dkg_id : DkgIds, signer_id : Signers,
          status : {"Success", "Failure"}]
    \cup NonceResponse
    \cup [type : {"SignatureShareResponse"}, sign_id : SignIds, signer_id : Signers,
          signature_shares : SignatureShare]

Packet == CoordPacket \cup SignerPacket

VARIABLES
    state,                  \* SigningRound.state
    dkg_id,                 \* SigningRound.dkg_id
    commitments,            \* SigningRound.commitments: party_id -> generation
    decrypted_shares,       \* src party -> (dst key -> generation)
    invalid_private_shares, \* src parties whose share failed (as a set)
    poly_gen,               \* generation of the Signer's polynomials
    nonce,                  \* the Signer's current nonce (gen_nonces count)
    group_key,              \* commitments the Signer's secrets were computed from
    responses,              \* outbound packets of the current call
    batch_len,              \* packets processed in the current call
    msgs,                   \* every packet ever sent
    coord_dkg,              \* the coordinator's current dkg id
    coord_sign,             \* the coordinator's current sign id
    dkg_ends,               \* history: every DkgEnd computed, with its key
    log,                    \* "Once"/"Fifo": every packet sent, in order
    consumed                \* "Once"/"Fifo": log indices each signer consumed

round_vars == <<state, dkg_id, commitments, decrypted_shares,
                invalid_private_shares, poly_gen, nonce, group_key>>
call_vars == <<responses, batch_len>>
net_vars == <<msgs, log, consumed>>
vars == <<round_vars, call_vars, net_vars, coord_dkg, coord_sign, dkg_ends>>

(* Every variable holds a value of its type: the states, ids, maps and  *)
(* packets the code's types allow, within the bounds of the model.       *)
TypeOK ==
    /\ state \in [Signers -> States]
    /\ dkg_id \in [Signers -> DkgIds]
    /\ commitments \in [Signers -> Map(Parties, Gens)]
    /\ decrypted_shares \in [Signers -> Map(Parties, Map(Keys, Gens))]
    /\ invalid_private_shares \in [Signers -> SUBSET Parties]
    /\ poly_gen \in [Signers -> Gens]
    /\ nonce \in [Signers -> Nonces]
    /\ group_key \in [Signers -> Map(Parties, Gens)]
    /\ responses \in [Signers -> Seq(SignerPacket)]
    /\ batch_len \in [Signers -> 0 .. MaxBatch]
    /\ msgs \subseteq Packet
    /\ coord_dkg \in DkgIds
    /\ coord_sign \in 0 .. MaxSign
    /\ dkg_ends \subseteq [signer_id : Signers, dkg_id : DkgIds,
                          status : {"Success", "Failure"}, key : Map(Parties, Gens)]

-----------------------------------------------------------------------------
(* SigningRound::new *)
Init ==
    /\ state = [s \in Signers |-> "Idle"]
    /\ dkg_id = [s \in Signers |-> 0]
    /\ commitments = [s \in Signers |-> EmptyMap]
    /\ decrypted_shares = [s \in Signers |-> EmptyMap]
    /\ invalid_private_shares = [s \in Signers |-> {}]
    /\ poly_gen = [s \in Signers |-> 0]
    /\ nonce = [s \in Signers |-> 0]
    /\ group_key = [s \in Signers |-> EmptyMap]
    /\ responses = [s \in Signers |-> <<>>]
    /\ batch_len = [s \in Signers |-> 0]
    /\ msgs = {}
    /\ coord_dkg = 0
    /\ coord_sign = 0
    /\ dkg_ends = {}
    /\ log = <<>>
    /\ consumed = [s \in Signers |-> {}]

(* StateMachine::can_move_to: the transitions move_to accepts *)
CanMoveTo(prev, next) ==
    \/ next = "Idle"
    \/ next = "DkgPublicDistribute"
         /\ prev \in {"Idle", "DkgPublicGather", "DkgPrivateDistribute"}
    \/ next = "DkgPublicGather" /\ prev = "DkgPublicDistribute"
    \/ next = "DkgPrivateDistribute" /\ prev = "DkgPublicGather"
    \/ next = "DkgPrivateGather" /\ prev = "DkgPrivateDistribute"
    \/ next = "SignGather" /\ prev = "Idle"
    \/ next = "Signed" /\ prev = "SignGather"

(* public_shares_done, on the state a handler left *)
PublicSharesDone(st, cm) ==
    st = "DkgPublicGather" /\ Cardinality(DOMAIN cm) = NumParties

(* can_dkg_end, on the state a handler left *)
CanDkgEnd(st, cm, ds) ==
    /\ st = "DkgPrivateGather"
    /\ Cardinality(DOMAIN cm) = NumParties
    /\ Cardinality(DOMAIN ds) = NumParties

(* Signer::compute_secrets (external, from the spec): every party sent a   *)
(* share to each of our keys, and each share verifies against the         *)
(* commitment of the same polynomial.                                      *)
ComputeSecretsOk(s, cm, ds) ==
    \A p \in Parties :
        /\ p \in DOMAIN cm /\ p \in DOMAIN ds
        /\ SignerKeys[s] \subseteq DOMAIN ds[p]
        /\ \A k \in SignerKeys[s] : ds[p][k] = cm[p]

(* dkg_ended: the DkgEnd of s on the round state a handler left; the      *)
(* Failure diagnostic string is abstracted away.                          *)
DkgEndOk(s) ==
    /\ invalid_private_shares'[s] = {}
    /\ ComputeSecretsOk(s, commitments'[s], decrypted_shares'[s])

DkgEnded(s) ==
    [type |-> "DkgEnd", dkg_id |-> dkg_id'[s], signer_id |-> s,
     status |-> IF DkgEndOk(s) THEN "Success" ELSE "Failure"]

(* The secrets of s after dkg_ended: compute_secrets runs only when no   *)
(* private share was invalid. On Ok it installs the round's secrets; on   *)
(* Err (it takes &mut self, traits.rs) nothing says what it has already   *)
(* overwritten, so the Signer holds its old secrets or the round's.       *)
SecretsAfter(s) ==
    IF invalid_private_shares'[s] # {} THEN {group_key[s]}
    ELSE IF DkgEndOk(s) THEN {commitments'[s]}
    ELSE {group_key[s], commitments'[s]}

(* The `?` of process_inbound_messages: the call returns the error and   *)
(* the responses gathered so far are dropped; what the failing handler    *)
(* already changed stays changed.                                          *)
Fail(s) ==
    /\ responses' = [responses EXCEPT ![s] = <<>>]
    /\ batch_len' = [batch_len EXCEPT ![s] = 0]
    /\ UNCHANGED <<state, group_key, msgs, log, dkg_ends>>

(* The transport sends the packets of out to every signer. *)
Broadcast(out) ==
    /\ msgs' = msgs \cup {out[i] : i \in 1 .. Len(out)}
    /\ log' = IF Network = "Any" THEN log ELSE log \o out

(* After a packet is processed with responses out so far, the call either *)
(* goes on with the next packet of its slice, or returns Ok(out), which  *)
(* the transport broadcasts.                                              *)
Emit(s, out) ==
    \/ /\ batch_len[s] + 1 < MaxBatch
       /\ responses' = [responses EXCEPT ![s] = out]
       /\ batch_len' = [batch_len EXCEPT ![s] = @ + 1]
       /\ UNCHANGED <<msgs, log>>
    \/ /\ Broadcast(out)
       /\ responses' = [responses EXCEPT ![s] = <<>>]
       /\ batch_len' = [batch_len EXCEPT ![s] = 0]

\* Mutant: process computing the DkgEnd without the move_to(Idle) after it
ProcessKeepState(s, st, outs) ==
    LET done == PublicSharesDone(st, commitments'[s])
        end == CanDkgEnd(st, commitments'[s], decrypted_shares'[s])
    IN
    /\ \/ /\ done
          /\ state' = [state EXCEPT ![s] = "DkgPrivateDistribute"]
          /\ Emit(s, responses[s] \o outs)
          /\ UNCHANGED <<group_key, dkg_ends>>
       \/ /\ ~done /\ end
          /\ state' = [state EXCEPT ![s] = st]
          /\ Emit(s, Append(responses[s] \o outs, DkgEnded(s)))
          /\ \E k \in SecretsAfter(s) : group_key' = [group_key EXCEPT ![s] = k]
          /\ dkg_ends' = dkg_ends \cup
                {[signer_id |-> s, dkg_id |-> dkg_id'[s], status |-> DkgEnded(s).status,
                  key |-> commitments'[s]]}
       \/ /\ ~done /\ ~end
          /\ state' = [state EXCEPT ![s] = st]
          /\ Emit(s, responses[s] \o outs)
          /\ UNCHANGED <<group_key, dkg_ends>>

(* The tail of process after a handler returned Ok(outs) leaving state    *)
(* st: the completion predicates, checked in order, may advance the state *)
(* and append a DkgEnd; the outputs join the call's responses.            *)
Process(s, st, outs) ==
    LET done == PublicSharesDone(st, commitments'[s])
        end == CanDkgEnd(st, commitments'[s], decrypted_shares'[s])
    IN
    /\ \/ /\ done
          /\ state' = [state EXCEPT ![s] = "DkgPrivateDistribute"]
          /\ Emit(s, responses[s] \o outs)
          /\ UNCHANGED <<group_key, dkg_ends>>
       \/ /\ ~done /\ end
          /\ state' = [state EXCEPT ![s] = "Idle"]
          /\ Emit(s, Append(responses[s] \o outs, DkgEnded(s)))
          /\ \E k \in SecretsAfter(s) : group_key' = [group_key EXCEPT ![s] = k]
          /\ dkg_ends' = dkg_ends \cup
                {[signer_id |-> s, dkg_id |-> dkg_id'[s], status |-> DkgEnded(s).status,
                  key |-> commitments'[s]]}
       \/ /\ ~done /\ ~end
          /\ state' = [state EXCEPT ![s] = st]
          /\ Emit(s, responses[s] \o outs)
          /\ UNCHANGED <<group_key, dkg_ends>>

(* The log entries s has not consumed yet *)
Pending(s) == (1 .. Len(log)) \ consumed[s]

(* m may be handed to process as the next packet of s's current call; on *)
(* the log transports this consumes its entry.                           *)
Receivable(s, m) ==
    \/ Network = "Any" /\ m \in msgs /\ UNCHANGED consumed
    \/ /\ Network # "Any"
       /\ \E i \in Pending(s) :
             /\ log[i] = m
             /\ Network = "Fifo" => \A j \in Pending(s) : i <= j
             /\ consumed' = [consumed EXCEPT ![s] = @ \cup {i}]

-----------------------------------------------------------------------------
(* Handlers of process, each followed by the completion check.            *)

(* dkg_begin: reset (new dkg_id, empty bookkeeping, reset_polys), then    *)
(* move_to(DkgPublicDistribute), which fails from DkgPrivateGather after  *)
(* the reset is done; otherwise dkg_public_begin emits the commitments of *)
(* the fresh polynomials and moves on to DkgPublicGather.                 *)
DkgBegin(s, m) ==
    /\ Receivable(s, m) /\ m.type = "DkgBegin"
    /\ UNCHANGED <<nonce, coord_dkg, coord_sign>>
    /\ poly_gen[s] < MaxGen
    /\ dkg_id' = [dkg_id EXCEPT ![s] = m.dkg_id]
    /\ commitments' = [commitments EXCEPT ![s] = EmptyMap]
    /\ decrypted_shares' = [decrypted_shares EXCEPT ![s] = EmptyMap]
    /\ invalid_private_shares' = [invalid_private_shares EXCEPT ![s] = {}]
    /\ poly_gen' = [poly_gen EXCEPT ![s] = @ + 1]
    /\ \/ /\ CanMoveTo(state[s], "DkgPublicDistribute")
          /\ Process(s, "DkgPublicGather",
                     <<[type |-> "DkgPublicShares", dkg_id |-> m.dkg_id, signer_id |-> s,
                        comms |-> [p \in SignerParties[s] |-> poly_gen'[s]]]>>)
       \/ /\ ~CanMoveTo(state[s], "DkgPublicDistribute")
          /\ Fail(s)

(* The shares get_shares returns, each encrypted for its destination key: *)
(* one per (own party, key); a faulty sender's may fail to decrypt.       *)
EncryptedShares(s) ==
    LET ok == IF s \in Faulty THEN BOOLEAN ELSE {TRUE}
    IN {[p \in SignerParties[s] |-> [k \in Keys |-> [gen |-> poly_gen[s], ok |-> f[p][k]]]] :
          f \in [SignerParties[s] -> [Keys -> ok]]}

-----------------------------------------------------------------------------
(* Mutants: plausible bugs in the handlers below, each used in place of   *)
(* the handler it names to show that a property can catch it.             *)

\* dkg_public_share keying the commitments by sender instead of party_id
DkgPublicShareBySender(s, m) ==
    /\ Receivable(s, m) /\ m.type = "DkgPublicShares"
    /\ UNCHANGED <<dkg_id, decrypted_shares, invalid_private_shares,
                   poly_gen, nonce, coord_dkg, coord_sign>>
    /\ commitments' = [commitments EXCEPT ![s] =
                          Override([x \in {m.signer_id} |-> m.comms[CHOOSE p \in DOMAIN m.comms : TRUE]], @)]
    /\ Process(s, state[s], <<>>)

\* dkg_private_begin moving to DkgPrivateGather without the completion check
DkgPrivateBeginNoCheck(s, m) ==
    /\ Receivable(s, m) /\ m.type = "DkgPrivateBegin"
    /\ UNCHANGED <<dkg_id, commitments, decrypted_shares, invalid_private_shares,
                   poly_gen, nonce, coord_dkg, coord_sign, group_key, dkg_ends>>
    /\ \/ /\ CanMoveTo(state[s], "DkgPrivateGather")
          /\ \E enc \in EncryptedShares(s) :
                /\ state' = [state EXCEPT ![s] = "DkgPrivateGather"]
                /\ Emit(s, Append(responses[s],
                                  [type |-> "DkgPrivateShares", dkg_id |-> dkg_id[s],
                                   signer_id |-> s, shares |-> enc]))
       \/ /\ ~CanMoveTo(state[s], "DkgPrivateGather")
          /\ Fail(s)

\* nonce_request answering without calling gen_nonces
NonceRequestNoGen(s, m) ==
    /\ Receivable(s, m) /\ m.type = "NonceRequest"
    /\ UNCHANGED <<dkg_id, commitments, decrypted_shares, invalid_private_shares,
                   poly_gen, nonce, coord_dkg, coord_sign>>
    /\ Process(s, state[s],
               <<[type |-> "NonceResponse", sign_id |-> m.sign_id, signer_id |-> s,
                  nonce |-> nonce[s]]>>)

\* nonce_request answering with the public nonce from before gen_nonces
NonceRequestOldNonce(s, m) ==
    /\ Receivable(s, m) /\ m.type = "NonceRequest"
    /\ UNCHANGED <<dkg_id, commitments, decrypted_shares, invalid_private_shares,
                   poly_gen, coord_dkg, coord_sign>>
    /\ nonce[s] < MaxNonce
    /\ nonce' = [nonce EXCEPT ![s] = @ + 1]
    /\ Process(s, state[s],
               <<[type |-> "NonceResponse", sign_id |-> m.sign_id, signer_id |-> s,
                  nonce |-> nonce[s]]>>)

\* dkg_private_shares storing a src only when some share of it decrypted
DkgPrivateSharesGoodOnly(s, m) ==
    /\ Receivable(s, m) /\ m.type = "DkgPrivateShares"
    /\ UNCHANGED <<dkg_id, commitments, poly_gen, nonce, coord_dkg, coord_sign>>
    /\ LET ours(src) == DOMAIN m.shares[src] \cap SignerKeys[s]
           good(src) == {k \in ours(src) : m.shares[src][k].ok}
           got == [src \in {x \in DOMAIN m.shares : good(x) # {}} |->
                     [k \in good(src) |-> m.shares[src][k].gen]]
           bad == {src \in DOMAIN m.shares : good(src) # ours(src)}
       IN /\ decrypted_shares' = [decrypted_shares EXCEPT ![s] = Override(got, @)]
          /\ invalid_private_shares' = [invalid_private_shares EXCEPT ![s] = @ \cup bad]
    /\ Process(s, state[s], <<>>)

(* dkg_private_begin: emit the encrypted private shares and move to       *)
(* DkgPrivateGather, which fails unless the state is DkgPrivateDistribute.*)
DkgPrivateBegin(s, m) ==
    /\ Receivable(s, m) /\ m.type = "DkgPrivateBegin"
    /\ UNCHANGED <<dkg_id, commitments, decrypted_shares, invalid_private_shares,
                   poly_gen, nonce, coord_dkg, coord_sign>>
    /\ \/ /\ CanMoveTo(state[s], "DkgPrivateGather")
          /\ \E enc \in EncryptedShares(s) :
                Process(s, "DkgPrivateGather",
                        <<[type |-> "DkgPrivateShares", dkg_id |-> dkg_id[s],
                           signer_id |-> s, shares |-> enc]>>)
       \/ /\ ~CanMoveTo(state[s], "DkgPrivateGather")
          /\ Fail(s)

(* dkg_public_share: store every (party_id, commitment), whatever the     *)
(* state and the packet's dkg_id.                                         *)
DkgPublicShare(s, m) ==
    /\ Receivable(s, m) /\ m.type = "DkgPublicShares"
    /\ UNCHANGED <<dkg_id, decrypted_shares, invalid_private_shares,
                   poly_gen, nonce, coord_dkg, coord_sign>>
    /\ commitments' = [commitments EXCEPT ![s] = Override(m.comms, @)]
    /\ Process(s, state[s], <<>>)

(* dkg_private_shares: for each src party, decrypt the shares addressed to *)
(* our keys; those that decrypt and parse are kept, a failure marks src   *)
(* invalid; src always gets an entry, possibly empty.                     *)
DkgPrivateShares(s, m) ==
    /\ Receivable(s, m) /\ m.type = "DkgPrivateShares"
    /\ UNCHANGED <<dkg_id, commitments, poly_gen, nonce, coord_dkg, coord_sign>>
    /\ LET ours(src) == DOMAIN m.shares[src] \cap SignerKeys[s]
           good(src) == {k \in ours(src) : m.shares[src][k].ok}
           got == [src \in DOMAIN m.shares |->
                     [k \in good(src) |-> m.shares[src][k].gen]]
           bad == {src \in DOMAIN m.shares : good(src) # ours(src)}
       IN /\ decrypted_shares' = [decrypted_shares EXCEPT ![s] = Override(got, @)]
          /\ invalid_private_shares' = [invalid_private_shares EXCEPT ![s] = @ \cup bad]
    /\ Process(s, state[s], <<>>)

(* nonce_request: gen_nonces, and answer with the fresh public nonce.      *)
NonceRequest(s, m) ==
    /\ Receivable(s, m) /\ m.type = "NonceRequest"
    /\ UNCHANGED <<dkg_id, commitments, decrypted_shares, invalid_private_shares,
                   poly_gen, coord_dkg, coord_sign>>
    /\ nonce[s] < MaxNonce
    /\ nonce' = [nonce EXCEPT ![s] = @ + 1]
    /\ Process(s, state[s],
               <<[type |-> "NonceResponse", sign_id |-> m.sign_id, signer_id |-> s,
                  nonce |-> nonce'[s]]>>)

(* The responses of sign_share_request to m: one SignatureShareResponse   *)
(* for every entry of the quorum whose signer_id is ours, each signed     *)
(* (sign, or sign_taproot) with the Signer's current nonce and secrets.   *)
SignatureShareResponses(s, m) ==
    LET q == m.nonce_responses
        mine == {i \in 1 .. Len(q) : q[i].signer_id = s}
        resp == [type |-> "SignatureShareResponse", sign_id |-> m.sign_id,
                 signer_id |-> s,
                 signature_shares |->
                    [message |-> m.message, nonce_responses |-> q,
                     is_taproot |-> m.is_taproot, nonce |-> nonce[s],
                     key |-> group_key[s]]]
    IN [i \in 1 .. Cardinality(mine) |-> resp]

SignShareRequest(s, m) ==
    /\ Receivable(s, m) /\ m.type = "SignatureShareRequest"
    /\ UNCHANGED <<dkg_id, commitments, decrypted_shares, invalid_private_shares,
                   poly_gen, nonce, coord_dkg, coord_sign>>
    /\ Process(s, state[s], SignatureShareResponses(s, m))

(* Any other packet: no handler output, but the completion check runs.   *)
Ignore(s, m) ==
    /\ Receivable(s, m)
    /\ UNCHANGED <<dkg_id, commitments, decrypted_shares, invalid_private_shares,
                   poly_gen, nonce, coord_dkg, coord_sign>>
    /\ m.type \in {"DkgEnd", "NonceResponse", "SignatureShareResponse"}
    /\ Process(s, state[s], <<>>)

-----------------------------------------------------------------------------
(* The coordinator (not part of this repository; from the spec). It may  *)
(* start a new DKG round or a new signing round at any time (a timeout    *)
(* and retry), and waits for a round's inputs before asking for the next  *)
(* step.                                                                   *)

CoordDkgBegin ==
    /\ coord_dkg < MaxDkg
    /\ coord_dkg' = coord_dkg + 1
    /\ Broadcast(<<[type |-> "DkgBegin", dkg_id |-> coord_dkg + 1]>>)
    /\ UNCHANGED <<round_vars, call_vars, consumed, coord_sign, dkg_ends>>

(* DkgPrivateBegin once every signer's DkgPublicShares of the round is in *)
CoordDkgPrivateBegin ==
    /\ coord_dkg > 0
    /\ \A s \in Signers : \E m \in msgs :
          m.type = "DkgPublicShares" /\ m.dkg_id = coord_dkg /\ m.signer_id = s
    /\ [type |-> "DkgPrivateBegin", dkg_id |-> coord_dkg] \notin msgs
    /\ Broadcast(<<[type |-> "DkgPrivateBegin", dkg_id |-> coord_dkg]>>)
    /\ UNCHANGED <<round_vars, call_vars, consumed, coord_dkg, coord_sign, dkg_ends>>

CoordNonceRequest ==
    /\ coord_sign < MaxSign
    /\ coord_sign' = coord_sign + 1
    /\ Broadcast(<<[type |-> "NonceRequest", sign_id |-> coord_sign + 1]>>)
    /\ UNCHANGED <<round_vars, call_vars, consumed, coord_dkg, dkg_ends>>

(* One SignatureShareRequest per sign round, over nonce responses of that *)
(* round from distinct signers.                                            *)
CoordSignRequest ==
    /\ coord_sign > 0
    /\ ~\E r \in msgs : r.type = "SignatureShareRequest" /\ r.sign_id = coord_sign
    /\ \E n \in 1 .. MaxQuorum, msg \in Messages, taproot \in BOOLEAN :
       \E q \in [1 .. n -> {r \in msgs : r.type = "NonceResponse" /\ r.sign_id = coord_sign}] :
          /\ \A i, j \in 1 .. n : i # j => q[i].signer_id # q[j].signer_id
          /\ Broadcast(<<[type |-> "SignatureShareRequest", sign_id |-> coord_sign,
                           nonce_responses |-> q, message |-> msg,
                           is_taproot |-> taproot]>>)
    /\ UNCHANGED <<round_vars, call_vars, consumed, coord_dkg, coord_sign, dkg_ends>>

-----------------------------------------------------------------------------
Coordinator ==
    \/ CoordDkgBegin
    \/ CoordDkgPrivateBegin
    \/ CoordNonceRequest
    \/ CoordSignRequest

Next ==
    \/ \E s \in Signers, m \in msgs : DkgBegin(s, m)
    \/ \E s \in Signers, m \in msgs : DkgPrivateBegin(s, m)
    \/ \E s \in Signers, m \in msgs : DkgPublicShare(s, m)
    \/ \E s \in Signers, m \in msgs : DkgPrivateShares(s, m)
    \/ \E s \in Signers, m \in msgs : NonceRequest(s, m)
    \/ \E s \in Signers, m \in msgs : SignShareRequest(s, m)
    \/ \E s \in Signers, m \in msgs : Ignore(s, m)
    \/ Coordinator

Spec == Init /\ [][Next]_vars

(* Every packet process_inbound_messages is handed to s, whichever handler *)
(* it reaches.                                                             *)
SignerStep(s) ==
    \E m \in msgs :
        \/ DkgBegin(s, m) \/ DkgPrivateBegin(s, m) \/ DkgPublicShare(s, m)
        \/ DkgPrivateShares(s, m) \/ NonceRequest(s, m) \/ SignShareRequest(s, m)
        \/ Ignore(s, m)

(* Weak fairness: a signer's task keeps calling process_inbound_messages  *)
(* while the transport holds a packet for it (it never blocks elsewhere), *)
(* and the coordinator keeps driving a round whose next step it may take. *)
Fairness ==
    /\ \A s \in Signers : WF_vars(SignerStep(s))
    /\ WF_vars(Coordinator)

LiveSpec == Spec /\ Fairness

-----------------------------------------------------------------------------
(* Properties *)

(* After every packet, neither completion predicate of process is left    *)
(* holding. The predicates are only evaluated after a handler returns Ok, *)
(* so a handler that completes the bookkeeping (including dkg_private_begin *)
(* when every share arrived early) must be followed by the check, and the *)
(* error paths, which skip it, must not leave a predicate true: otherwise  *)
(* the signer sits in DkgPublicGather/DkgPrivateGather with everything it *)
(* needs and moves on only when some unrelated packet happens to arrive.  *)
CompletionNotPending ==
    \A s \in Signers :
        /\ ~PublicSharesDone(state[s], commitments[s])
        /\ ~CanDkgEnd(state[s], commitments[s], decrypted_shares[s])

(* The spec (section 4.5): a nonce is never used for two signing requests, *)
(* since two signature shares under one nonce and different challenges    *)
(* reveal the signer's secret share. sign_share_request signs with the    *)
(* Signer's current nonce, whichever request it answers.                  *)
NoNonceReuse ==
    \A r1, r2 \in msgs :
        /\ r1.type = "SignatureShareResponse" /\ r2.type = "SignatureShareResponse"
        /\ r1.signer_id = r2.signer_id
        /\ r1.signature_shares.nonce = r2.signature_shares.nonce
        => /\ r1.signature_shares.message = r2.signature_shares.message
           /\ r1.signature_shares.nonce_responses = r2.signature_shares.nonce_responses
           /\ r1.signature_shares.is_taproot = r2.signature_shares.is_taproot

(* The coordinator aggregates a signature share with the public nonce the *)
(* signer advertised in the SignatureShareRequest's nonce_responses; a    *)
(* share made with any other nonce spoils the signature. sign_share_request *)
(* signs with the Signer's nonce current when the request is processed    *)
(* (mod.rs:353), not with the nonce of the quorum entry naming it.        *)
SignsAdvertisedNonce ==
    \A r \in msgs :
        r.type = "SignatureShareResponse" =>
            \A i \in DOMAIN r.signature_shares.nonce_responses :
                r.signature_shares.nonce_responses[i].signer_id = r.signer_id =>
                    r.signature_shares.nonce_responses[i].nonce = r.signature_shares.nonce

(* DKG agreement: signers that end the same DKG round (dkg_id) with       *)
(* Success computed their secrets from the same polynomials, so hold      *)
(* shares of one group key. dkg_begin, dkg_public_share and               *)
(* dkg_private_shares never compare a packet's dkg_id with the round's.   *)
DkgAgreement ==
    \A e, f \in dkg_ends :
        e.dkg_id = f.dkg_id /\ e.status = "Success" /\ f.status = "Success"
        => e.key = f.key

(* While a signer gathers or distributes shares of its round, the         *)
(* commitments of its current polynomials for that dkg_id have been sent  *)
(* or are in the responses of the current call; peers cannot complete the *)
(* round without them. dkg_begin resets before move_to can fail, and      *)
(* process_inbound_messages drops the responses of a call that fails.     *)
OwnRoundPublished ==
    \A s \in Signers :
        state[s] \in {"DkgPublicGather", "DkgPrivateDistribute", "DkgPrivateGather"} =>
           \E m \in msgs \cup {responses[s][i] : i \in 1 .. Len(responses[s])} :
              /\ m.type = "DkgPublicShares" /\ m.signer_id = s /\ m.dkg_id = dkg_id[s]
              /\ \A p \in DOMAIN m.comms : m.comms[p] = poly_gen[s]

(* The spec (I4): a DkgEnd is emitted once per DKG round. Every DkgEnd    *)
(* process computes is on the network or in the responses of the call    *)
(* that computed it. process_inbound_messages returns the first error of *)
(* its slice, so a later packet of the same call that fails drops the     *)
(* DkgEnd, while the signer is already Idle with its new secrets.         *)
DkgEndEmitted ==
    \A e \in dkg_ends :
        \E r \in msgs \cup {responses[e.signer_id][i] : i \in 1 .. Len(responses[e.signer_id])} :
            /\ r.type = "DkgEnd" /\ r.signer_id = e.signer_id
            /\ r.dkg_id = e.dkg_id /\ r.status = e.status

(* s has computed a DkgEnd for round d (dkg_ended, mod.rs:241) *)
Ended(s, d) == \E e \in dkg_ends : e.signer_id = s /\ e.dkg_id = d

(* DKG termination: a round the coordinator starts and does not abandon   *)
(* for a newer one ends at every signer, since each signer's public and   *)
(* private shares reach all others. It fails if a packet arrives before   *)
(* the handler that expects it: dkg_private_begin's move_to fails before  *)
(* the public shares are all in (mod.rs:475), and reset clears shares     *)
(* stored before the signer's own DkgBegin (mod.rs:143).                  *)
DkgRoundEnds ==
    \A d \in 1 .. MaxDkg :
        coord_dkg = d ~> (coord_dkg # d \/ \A s \in Signers : Ended(s, d))

=============================================================================
