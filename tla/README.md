# TLA+ models of the wsts signer state machine

This directory holds a formal model of `src/src/state_machine/signer/mod.rs`
(the `SigningRound` state machine) and of the parts of `src/src/traits.rs` it
uses. It contains TLC configurations that model-check the model on small
instances, and TLAPS proofs of what holds for every instance.

## The system

A signer takes part in distributed key generation (DKG) and threshold signing,
driven by an external coordinator. In the code, these parts (the letters are
the spec's) interact as follows:

| Part | Code | What it does |
|---|---|---|
| Dispatch (G) | `process_inbound_messages` (151-199), `process` (202-239) | Runs one handler per packet of a call. After each handler that returns Ok, it checks `public_shares_done`, then `can_dkg_end`. The first error ends the call (`?`), and the responses gathered so far are dropped. |
| State machine (D) | `State`, `move_to`, `can_move_to` (543-575) | Enforces the phase graph. |
| Bookkeeping (E) | `reset`, `dkg_public_share`, `dkg_private_shares`, `dkg_ended` | Holds commitments and decrypted shares keyed by party, plus the invalid senders, and builds the DkgEnd. |
| Signing responder (F) | `nonce_request`, `sign_share_request` | `gen_nonces` runs on every request. A signature share is made with the Signer's current nonce. |
| Share channel (C) | `dkg_private_begin`, `dkg_private_shares` | Encrypts the shares per destination key and decrypts our own. |
| Envelope (B) | the `sign(...).expect(...)` calls in `process_inbound_messages` | Signs outbound packets. |
| Crypto Signer (A), Aggregator | `traits.rs` | External. The implementations are not in `src/`. |

## Modules

- `SigningRound.tla` models all signers and the coordinator.
  - **State.** Each variable is a function of the signer, and each corresponds to a field of `SigningRound`: `state`, `dkg_id`, `commitments`, `decrypted_shares`, `invalid_private_shares` (as a set).
  - **Signer state.** The Signer's internal state is `poly_gen`, the number of `reset_polys` calls, which names the current polynomials. It also has `nonce`, the number of `gen_nonces` calls, and `group_key`, the commitments its secrets were computed from.
  - **A call.** A `process_inbound_messages` call is `responses` plus `batch_len`. Each step processes one packet. `Emit` either continues the call or returns Ok and publishes the responses. `Fail` is the `?`: it drops them and keeps every state change the failing handler already made.
  - **Network.** The transport is the constant `Network`. The code has no transport: a caller hands `process_inbound_messages` a slice of packets and broadcasts what it returns.
    - `"Any"`: `msgs` holds every packet ever sent, and any signer may receive any of them at any time. A packet may be lost, duplicated or reordered.
    - `"Once"`: each packet is broadcast to every signer, the sender included, through `log`, the packets in sending order. Each signer consumes each log entry once (`consumed`), in any order.
    - `"Fifo"`: as `"Once"`, but each signer consumes the log in order. This is a relay that puts all packets in one total order.
    - `Broadcast` sends the responses of a call that returns Ok; `Receivable` hands a packet to a handler and consumes its entry.
  - **History.** `dkg_ends` records every DkgEnd a signer computed, together with the key it computed.
  - **Actions.** There is one action per handler: `DkgBegin` (reset, then `move_to`, then `dkg_public_begin`), `DkgPrivateBegin`, `DkgPublicShare`, `DkgPrivateShares`, `NonceRequest`, `SignShareRequest`, and `Ignore` for the `_ => Ok(vec![])` arm. Each handler ends in `Process`, the completion check of `process`, or in `Fail`.
  - **Crypto abstraction.** A commitment or a share is identified by the generation of the polynomial it comes from. A ciphertext carries that generation and whether it decrypts and parses; it may fail only for signers in `Faulty`. `compute_secrets` (from the spec) succeeds iff every party sent a share for each of our keys from the same polynomial as its commitment. It takes `&mut self` (traits.rs:42-46), and neither the trait nor the spec says what it leaves behind when it returns Err. `SecretsAfter` therefore lets an Err leave either the old secrets or the round's.
  - **Coordinator.** It is not in this repository and is modelled from the spec:
    - its dkg ids and sign ids are monotone;
    - it sends DkgPrivateBegin once per round, only after every signer's DkgPublicShares of the round has been sent;
    - it may start a new DKG round at any time, which is how it retries (spec section 5);
    - it sends one SignatureShareRequest per sign id, over nonce responses of distinct signers.
- `DkgPhases.tla` is the abstract DKG specification, what a signer promises about its phases:
  - each signer walks Idle → Public → PrivateDistribute → PrivateGather → Idle;
  - it restarts the public phase from any phase but PrivateGather;
  - it records a DkgEnd exactly when it leaves a private phase for Idle;
  - `End` may start from PrivateDistribute, because `dkg_private_begin` ends the round in the same packet when every share arrived early.
- `DkgRefinement.tla` is the refinement mapping:
  - `PhaseMap` sends each signer's `State` to its phase (`PhaseOf`), with DkgPublicDistribute, which only lasts inside `dkg_begin`, in Public;
  - `EndsMap` sends each computed DkgEnd to its signer, dkg id and status;
  - `DkgPhasesSpec` is the abstract `Spec` through `INSTANCE DkgPhases WITH ...`.
- `MCSigningRound.tla` fixes two signers, each holding one party and one key.
- `SigningRoundProofs.tla` holds the TLAPS proofs of the invariants.
- `DkgRefinementProofs.tla` holds the TLAPS proof of the refinement.

## Runs

All runs use two signers, two parties and two keys.

| Run | Checks | Bounds | Result |
|---|---|---|---|
| `dkg` | `TypeOK`, `CompletionNotPending` | 1 dkg id, 2 generations (a duplicate DkgBegin restarts the round), 1 packet per call | passes, 195k states |
| `dkg_replay` | `DkgAgreement` | 2 dkg ids, 2 generations | violated |
| `restart_in_private_gather` | `OwnRoundPublished` | 1 dkg id, 2 generations, 1 packet per call | violated |
| `batch_abort` | `OwnRoundPublished` | 1 dkg id, 2 generations, 2 packets per call | violated |
| `nonce_reuse` | `NoNonceReuse` | 2 sign ids, 2 messages, 2 nonces, quorums up to 2, 1 packet per call | violated |
| `fifo_sign` | `NoNonceReuse`, `SignsAdvertisedNonce` | `"Fifo"`, 2 sign ids, 1 message, 2 nonces, quorums up to 2, 2 packets per call | passes, 447k states |
| `dkgend` | `DkgEndEmitted` | 1 dkg id, 1 generation, 2 packets per call | violated |
| `refine` | `DkgPhasesSpec` | as `dkg` | passes, 195k states |
| `live` | `DkgRoundEnds` under `LiveSpec` | `"Fifo"`, 1 dkg id, 1 generation, s2 faulty, 1 packet per call | passes, 582 states |
| `live_once` | `DkgRoundEnds` under `LiveSpec` | `"Once"`, 1 dkg id, 1 generation | violated |
| `live_retry` | `DkgRoundEnds` under `LiveSpec` | `"Fifo"`, 2 dkg ids, 2 generations | violated |

All runs but `fifo_sign` and the `live` ones use `Network = "Any"`.

What the properties say:

- **CompletionNotPending.** No signer is ever left with a completion predicate true. If one were, it would advance only when some unrelated packet arrived. The predicates are evaluated only after a handler returns Ok, so this depends on every path, error paths included.
- **NoNonceReuse** (spec 4.5). A signer never signs two different requests with one nonce.
- **SignsAdvertisedNonce.** A signature share is made with the nonce that the request's quorum entry for this signer advertised. The coordinator aggregates with that nonce. `sign_share_request` uses whatever nonce is current (mod.rs:353).
- **DkgAgreement.** Two Success ends of one dkg id computed the same key.
- **OwnRoundPublished.** A signer that gathers shares for its round has sent the commitments of its current polynomials for that round, or is about to send them.
- **DkgPhasesSpec** (refinement). Every step is a step of `DkgPhases` or a stutter of it:
  - a handler and the completion check of `process` after it (two moves in one packet) take together one edge of the phase graph;
  - a failing `dkg_begin` leaves the phase alone;
  - a DkgEnd is computed exactly when the signer moves from a private phase to Idle.
- **DkgEndEmitted** (spec I4). Every DkgEnd a signer computed is returned by its call or is still held in the call.
- **DkgRoundEnds** (liveness). A DKG round the coordinator starts, and does not abandon for a newer one, ends at every signer with a DkgEnd.

### Findings

The violations are findings (see `findings` in PROJECT.json):

1. **A duplicated DkgBegin can give one dkg id two different keys** (`dkg_replay`).
   - The trigger is a DkgBegin of a round the signer already finished.
   - The signer restarts that round with fresh polynomials.
   - Its peer's stale packets from the same round then complete it again, with a different key.
   - Cause: no handler compares dkg ids.
2. **dkg_begin can reset the round and then fail** (`restart_in_private_gather`).
   - `dkg_begin` resets before `move_to(DkgPublicDistribute)`.
   - That `move_to` fails in DkgPrivateGather.
   - The signer keeps gathering, with polynomials it never announced.
3. **A failing packet drops the announcement of a restart** (`batch_abort`).
   - The `?` of `process_inbound_messages` drops the DkgPublicShares of an earlier packet of the same call.
   - The reset that packet made stays.
4. **Two signing rounds can share a nonce** (`nonce_reuse`).
   - `sign_share_request` signs with the current nonce.
   - A request answered after the next NonceRequest therefore uses the nonce of the next round.
   - The coordinator sends SignatureShareRequest(i) before NonceRequest(i+1). Over a total-order relay every signer therefore answers them in that order, and `fifo_sign` finds neither this reuse nor a share signed with a nonce other than the advertised one. The reuse needs reordering.
5. **Exactly-once delivery in any order does not end a round** (`live_once`). The trace shows both hazards:
   - a peer's DkgPublicShares reaches s2 before its own DkgBegin, and `reset` (mod.rs:143) clears it;
   - the DkgPrivateBegin then reaches s2 before the public shares are complete, and `move_to` fails (mod.rs:475); the packet is gone.
   - The spec says `process_inbound_messages` consumes already-delivered packets in order, but not what order the transport must deliver them in. Over a total-order relay (`live`), every round ends.
6. **A coordinator retry wedges signers in DkgPrivateGather** (`live_retry`).
   - The spec says a coordinator may restart DKG at any time with a new DkgBegin, which resets the bookkeeping.
   - A DkgBegin(2) that reaches both signers in DkgPrivateGather resets their shares, then `move_to(DkgPublicDistribute)` fails.
   - Only `can_dkg_end` leaves DkgPrivateGather, and it never holds again, since every later DkgBegin fails the same way. Neither round 2 nor any later round ends.
   - This is the liveness side of finding 2.
7. **A failing packet drops a DkgEnd** (`dkgend`).
   - s2 ends its round in the first packet of a call: `dkg_ended` computes the secrets, the DkgEnd is pushed and s2 moves to Idle (mod.rs:231-233).
   - A duplicated DkgPrivateBegin, the second packet of the call, fails `move_to` in Idle, and the `?` at mod.rs:156 returns Err.
   - s2 holds the new secrets and is Idle, but the coordinator never receives its DkgEnd (spec I4).

### Bounds and why they are enough

- **Two signers.** Each signer's round depends on the other signer's packets, and two are the fewest that make that interaction happen.
- **Two generations with one dkg id.** This lets a duplicate DkgBegin restart a round, so packets of two polynomials of one signer coexist. Every violation found needs exactly that.
- **Two packets per call.** This is the fewest at which a call can fail after a packet that succeeded. In `fifo_sign` it lets one call answer a NonceRequest and a later packet before its response is published.
- **Two sign ids and two nonces** (`nonce_reuse`, `fifo_sign`). Two signing rounds are the fewest in which a nonce can be reused. `fifo_sign` uses one message, since the two requests already differ in their quorums or taproot flag; with two messages the run takes 2.5 minutes and finds nothing new.
- **Larger bounds.** With two dkg ids and two generations, the `dkg` run goes beyond five minutes without reaching new kinds of steps. The same holds for `refine` with a faulty signer (over 600k states in three minutes).
- **The `live` run.**
  - One dkg id and one generation leave the coordinator no retry. With a retry, the round is not expected to end (`live_retry`).
  - s2 is faulty, so the run also covers a round that ends with Failure.
  - It uses one packet per call, because the model lets a call wait for a next packet that may never come. In the code, a call ends with its slice.

### Mutants

Each property of a passing run is broken by a plausible bug in the code it is about:

| Property | Mutant | What it changes |
|---|---|---|
| `TypeOK` | `DkgPublicShareBySender` | keys commitments by sender instead of party_id |
| `CompletionNotPending` | `DkgPrivateBeginNoCheck` | skips the completion check after `dkg_private_begin` |
| `NoNonceReuse` | `NonceRequestNoGen` | omits `gen_nonces` |
| `SignsAdvertisedNonce` | `NonceRequestOldNonce` | `nonce_request` answers with the public nonce from before `gen_nonces` |
| `DkgPhasesSpec` | `ProcessKeepState` | `process` computes the DkgEnd but omits `move_to(Idle)` |
| `DkgRoundEnds` | `DkgPrivateSharesGoodOnly` | `dkg_private_shares` stores a src only if some share of it decrypted, so a faulty sender's round never completes |

### Fairness

`Spec` assumes no fairness. The safety runs do not check deadlock (`CHECK_DEADLOCK FALSE`): the coordinator's and the generations' bounds end every behaviour, and the real system then simply waits for packets.

`LiveSpec == Spec /\ Fairness` adds weak fairness, and the `live` runs use it:
- **`WF_vars(SignerStep(s))` for every signer.** The state machine has no suspension points (spec section 5). A signer's task keeps calling `process_inbound_messages` while the transport holds a packet for it, and every packet type has a handler arm.
- **`WF_vars(Coordinator)`.** The coordinator keeps driving a round whose next step is enabled.

Weak fairness is enough. On the `"Once"` and `"Fifo"` transports a pending packet stays pending until it is consumed, so a signer step stays enabled. Delivery itself is what `Network` fixes.

## Proofs

`SigningRoundProofs.tla` proves two theorems with TLAPS, and `DkgRefinementProofs.tla` proves a third. All three hold for every set of signers, parties and keys, for every bound, and for every `Network` mode. They assume `ConstAssumption` and `NumPartiesAssumption`, which says get_num_parties is positive.

### `TypeCorrect == Spec => []TypeOK`

`TypeOK` is not inductive. `sign_share_request` emits one response per quorum entry that names the signer, and only a quorum of distinct signers bounds that to at most one. That bound is needed to know the length `Cardinality(mine)` of the output is a natural number.

The inductive invariant is `TInv == TypeOK /\ QuorumsDistinct`. TLC checked `TInv` on the `dkg` instance and on a signing instance with two sign ids. The steps are:

- `EmitType` and `ProcessType` type the call machinery and the completion check of `process`.
- `HandlerType` and `FailType` reduce each handler to typing its own bookkeeping and outputs.
- One lemma per handler: `DkgBeginType`, `DkgPrivateBeginType`, `DkgPublicShareType`, `DkgPrivateSharesType`, `NonceRequestType`, `SignShareRequestType` and `IgnoreType`.
- `CoordinatorType` covers the coordinator, which is where `QuorumsDistinct` comes from.
- The helper lemmas:
  - about finite maps: `MapIntro`, `MapElim`, `OverrideMap`;
  - about packets: `PacketFields`;
  - about cardinality: `EmptySetCardinality` and `SingletonCardinality`, proved from the definition of `Cardinality`.

### `CompletionNeverPending == Spec => []CompletionNotPending`

The inductive invariant is `IInv == Domains /\ CompletionNotPending`. `Domains` says that `state`, `commitments` and `decrypted_shares` are functions on `Signers`; without it, `state'[s]` is not determined by a step. The argument:

- `ProcessSettles`: each of the three outcomes of the completion check leaves both predicates false for the processing signer.
- `ProcessStep`: this extends to every handler that changes only its own signer's bookkeeping.
- The two error paths are handled separately:
  - a failing `dkg_private_begin` changes nothing;
  - a failing `dkg_begin` leaves the commitments empty, and `Cardinality({}) = 0 # NumParties`.

### `Refinement == Spec => DkgPhasesSpec`

`DkgRefinementProofs.tla` proves that `SigningRound` implements `DkgPhases`, the standard way:
- the initial states map to `DkgPhases!Init`;
- under `TInv`, every step of `Next` maps to a step of `DkgPhases!Next` or a stutter (`NextRefines`).

`TInv` is needed because `state'[s]` is determined only when `state` is a function on `Signers`, and the dkg id in a DkgEnd must be typed. The lemmas:
- `ProcessRefines` is the core. The completion check of `process`, after a handler that left state `st`, is one abstract step. This holds when `st` is the current state, the edge `dkg_private_begin` takes, or the restart `dkg_begin` takes. For the restart, the cleared commitments (`Cardinality({}) = 0 # NumParties`) rule out completing the public phase in the same packet.
- `FailRefines`: an error path is a stutter.
- `KeepStateRefines`: the handlers that leave the state to `process`.
- `AbsStutter`: the coordinator is a stutter.

### What stays with TLC

The other properties are checked by TLC only:
- the violated `DkgAgreement`, `OwnRoundPublished` and `DkgEndEmitted`;
- `NoNonceReuse` and `SignsAdvertisedNonce`. They hold only over the `"Fifo"` transport, and a proof would have to reason about the order of the log and the coordinator's sign ids;
- the liveness property `DkgRoundEnds`, since TLAPS does not handle `ENABLED` and fairness here.

The library's FiniteSetTheorems and SequenceTheorems reach a RECURSIVE operator through Functions and Folds, so the proofs use only FiniteSets and Sequences.

## Not modelled

- **Envelope signing.** It changes no state, and its failure aborts the process.
- **Cryptographic values.** They are abstracted to generations. The key-id offset at mod.rs:460 is not modelled.
- **Panic paths.** These are the unknown-signer index at mod.rs:506 and the `unwrap`s.
- **Unused fields.** `public_nonces` is cleared and never written, and `sign_id` and `sign_iter_id` are never written after `new`.
- **The Aggregator.**
- **Secrets after a failed round.** When `compute_secrets` returns Err, the model lets the Signer keep its old secrets or hold the round's (`SecretsAfter`). `sign_share_request` does not look at the DKG outcome. Neither the code nor the spec says which secrets a signer may sign with after a DkgEnd(Failure), so no property states it.

- **Sticky `invalid_private_shares`.** The spec's invariant 4 asks exactly for this behaviour (a src is invalid if any of its shares failed), so it is not stated as a violated property. Its interplay with overwritten shares needs duplicated DkgPrivateShares with different contents. Only a faulty sender restarted mid-round produces those, and the bounds above do not reach them in time.

## Plan for further work

1. A coordinator that answers a BadStateChange with a retry, under the `"Once"` transport. This would tell which transports a retrying coordinator makes live.
