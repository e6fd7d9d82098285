------------------------- MODULE DkgRefinementProofs -------------------------
(***************************************************************************)
(* Proof that SigningRound implements DkgPhases under the refinement      *)
(* mapping of DkgRefinement, for every set of signers, parties and keys   *)
(* and every bound. It rests on the type invariant TInv of                *)
(* SigningRoundProofs: the step of a signer is only determined when state *)
(* is a function on Signers and the dkg ids are typed.                    *)
(***************************************************************************)
EXTENDS SigningRoundProofs, DkgRefinement

AbsVars == <<PhaseMap, EndsMap>>

-----------------------------------------------------------------------------
(* A step that changes neither the States nor the DkgEnds is a stutter of *)
(* the abstract specification.                                            *)
LEMMA AbsStutter ==
  ASSUME UNCHANGED <<state, dkg_ends>>
  PROVE  UNCHANGED AbsVars
BY DEF AbsVars, PhaseMap, EndsMap

(* The completion check of process, after a handler that left the state   *)
(* st, is one abstract step of the processing signer s (or a stutter),    *)
(* provided st is the current state, or the edge dkg_private_begin takes, *)
(* or the restart dkg_begin takes, after which the commitments, just      *)
(* cleared, are not complete.                                             *)
LEMMA ProcessRefines ==
  ASSUME TInv, NEW s \in Signers, NEW st \in States, NEW outs,
         Process(s, st, outs), dkg_id'[s] \in DkgIds,
         \/ st = state[s]
         \/ st = "DkgPrivateGather" /\ state[s] = "DkgPrivateDistribute"
         \/ /\ st = "DkgPublicGather"
            /\ state[s] \in {"Idle", "DkgPublicGather", "DkgPrivateDistribute"}
            /\ ~PublicSharesDone(st, commitments'[s])
  PROVE  [AbsPhases!Next]_AbsVars
<1> DEFINE done == PublicSharesDone(st, commitments'[s])
           end == CanDkgEnd(st, commitments'[s], decrypted_shares'[s])
           rec == [signer_id |-> s, dkg_id |-> dkg_id'[s], status |-> DkgEnded(s).status,
                   key |-> commitments'[s]]
<1>0. state \in [Signers -> States]
  BY DEF TInv, TypeOK
<1>1. CASE done /\ state' = [state EXCEPT ![s] = "DkgPrivateDistribute"]
           /\ UNCHANGED dkg_ends
  <2>1. st = "DkgPublicGather" /\ state[s] = "DkgPublicGather"
    BY <1>1 DEF PublicSharesDone
  <2>2. AbsPhases!Gathered(s)
    BY <1>0, <1>1, <2>1 DEF AbsPhases!Gathered, PhaseMap, EndsMap, PhaseOf
  <2> QED BY <2>2 DEF AbsPhases!Next
<1>2. CASE ~done /\ end /\ state' = [state EXCEPT ![s] = "Idle"]
           /\ dkg_ends' = dkg_ends \cup {rec}
  <2>1. state[s] \in {"DkgPrivateDistribute", "DkgPrivateGather"}
    BY <1>2 DEF CanDkgEnd
  <2>2. PhaseMap' = [PhaseMap EXCEPT ![s] = "Idle"]
    BY <1>0, <1>2 DEF PhaseMap, PhaseOf
  <2>3. EndsMap' = EndsMap \cup {[signer_id |-> s, dkg_id |-> dkg_id'[s],
                                  status |-> DkgEnded(s).status]}
    <3> DEFINE proj(e) == [signer_id |-> e.signer_id, dkg_id |-> e.dkg_id,
                           status |-> e.status]
    <3>1. proj(rec) = [signer_id |-> s, dkg_id |-> dkg_id'[s],
                       status |-> DkgEnded(s).status]
      OBVIOUS
    <3>2. EndsMap' = {proj(e) : e \in dkg_ends \cup {rec}}
      BY <1>2 DEF EndsMap
    <3>3. {proj(e) : e \in dkg_ends \cup {rec}} = {proj(e) : e \in dkg_ends} \cup {proj(rec)}
      BY Zenon
    <3> QED BY <3>1, <3>2, <3>3 DEF EndsMap
  <2>4. DkgEnded(s).status \in AbsPhases!Status
    BY DEF DkgEnded, AbsPhases!Status
  <2>5. AbsPhases!End(s)
    BY <1>0, <2>1, <2>2, <2>3, <2>4 DEF AbsPhases!End, PhaseMap, PhaseOf
  <2> QED BY <2>5 DEF AbsPhases!Next
<1>3. CASE ~done /\ ~end /\ state' = [state EXCEPT ![s] = st]
           /\ UNCHANGED dkg_ends
  <2>1. CASE st = state[s]
    <3>1. state' = state
      BY <1>0, <1>3, <2>1
    <3> QED BY <1>3, <3>1, AbsStutter
  <2>2. CASE st = "DkgPrivateGather" /\ state[s] = "DkgPrivateDistribute"
    <3>1. AbsPhases!Distribute(s)
      BY <1>0, <1>3, <2>2 DEF AbsPhases!Distribute, PhaseMap, EndsMap, PhaseOf
    <3> QED BY <3>1 DEF AbsPhases!Next
  <2>3. CASE st = "DkgPublicGather"
             /\ state[s] \in {"Idle", "DkgPublicGather", "DkgPrivateDistribute"}
    <3>1. AbsPhases!Begin(s)
      BY <1>0, <1>3, <2>3 DEF AbsPhases!Begin, PhaseMap, EndsMap, PhaseOf
    <3> QED BY <3>1 DEF AbsPhases!Next
  <2> QED BY <2>1, <2>2, <2>3
<1> QED BY <1>1, <1>2, <1>3 DEF Process

(* A failing handler changes neither the State nor the DkgEnds.          *)
LEMMA FailRefines ==
  ASSUME NEW s \in Signers, Fail(s)
  PROVE  [AbsPhases!Next]_AbsVars
BY AbsStutter DEF Fail

(* A handler that leaves the state to the completion check and keeps the *)
(* dkg id refines DkgPhases.                                              *)
LEMMA KeepStateRefines ==
  ASSUME TInv, NEW s \in Signers, NEW outs, Process(s, state[s], outs),
         UNCHANGED dkg_id
  PROVE  [AbsPhases!Next]_AbsVars
<1>1. state[s] \in States /\ dkg_id'[s] \in DkgIds
  BY DEF TInv, TypeOK
<1> QED BY <1>1, ProcessRefines

-----------------------------------------------------------------------------
(* Every step of Next, or a stutter, is a step of DkgPhases or a stutter  *)
(* of it.                                                                  *)
LEMMA NextRefines == TInv /\ [Next]_vars => [AbsPhases!Next]_AbsVars
<1> SUFFICES ASSUME TInv, [Next]_vars PROVE [AbsPhases!Next]_AbsVars
  OBVIOUS
<1>1. ASSUME NEW s \in Signers, NEW m \in msgs, DkgBegin(s, m)
      PROVE  [AbsPhases!Next]_AbsVars
  <2>1. dkg_id'[s] \in DkgIds
    <3>1. m \in Packet /\ m.type = "DkgBegin"
      BY <1>1 DEF DkgBegin, TInv, TypeOK
    <3>2. m.dkg_id \in DkgIds
      BY <3>1, PacketFields
    <3> QED BY <1>1, <3>2 DEF DkgBegin, TInv, TypeOK
  <2>2. CASE /\ CanMoveTo(state[s], "DkgPublicDistribute")
             /\ Process(s, "DkgPublicGather",
                        <<[type |-> "DkgPublicShares", dkg_id |-> m.dkg_id, signer_id |-> s,
                           comms |-> [p \in SignerParties[s] |-> poly_gen'[s]]]>>)
    <3>1. state[s] \in {"Idle", "DkgPublicGather", "DkgPrivateDistribute"}
      BY <2>2 DEF CanMoveTo
    <3>2. ~PublicSharesDone("DkgPublicGather", commitments'[s])
      <4>1. commitments'[s] = EmptyMap
        BY <1>1 DEF DkgBegin, TInv, TypeOK
      <4>2. Cardinality(DOMAIN commitments'[s]) = 0
        BY <4>1, EmptyMapCardinality, Zenon
      <4> QED BY <4>2, NumPartiesAssumption DEF PublicSharesDone
    <3>3. "DkgPublicGather" \in States
      BY DEF States
    <3> QED BY <2>1, <2>2, <3>1, <3>2, <3>3, ProcessRefines
  <2>3. CASE Fail(s)
    BY <2>3, FailRefines
  <2> QED BY <1>1, <2>2, <2>3 DEF DkgBegin
<1>2. ASSUME NEW s \in Signers, NEW m \in msgs, DkgPrivateBegin(s, m)
      PROVE  [AbsPhases!Next]_AbsVars
  <2>1. CASE /\ CanMoveTo(state[s], "DkgPrivateGather")
             /\ \E enc \in EncryptedShares(s) :
                   Process(s, "DkgPrivateGather",
                           <<[type |-> "DkgPrivateShares", dkg_id |-> dkg_id[s],
                              signer_id |-> s, shares |-> enc]>>)
    <3>1. state[s] = "DkgPrivateDistribute"
      BY <2>1 DEF CanMoveTo
    <3>2. dkg_id'[s] \in DkgIds /\ "DkgPrivateGather" \in States
      BY <1>2 DEF DkgPrivateBegin, TInv, TypeOK, States
    <3> QED BY <2>1, <3>1, <3>2, ProcessRefines
  <2>2. CASE Fail(s)
    BY <2>2, FailRefines
  <2> QED BY <1>2, <2>1, <2>2 DEF DkgPrivateBegin
<1>3. ASSUME NEW s \in Signers, NEW m \in msgs, DkgPublicShare(s, m)
      PROVE  [AbsPhases!Next]_AbsVars
  BY <1>3, KeepStateRefines DEF DkgPublicShare
<1>4. ASSUME NEW s \in Signers, NEW m \in msgs, DkgPrivateShares(s, m)
      PROVE  [AbsPhases!Next]_AbsVars
  BY <1>4, KeepStateRefines DEF DkgPrivateShares
<1>5. ASSUME NEW s \in Signers, NEW m \in msgs, NonceRequest(s, m)
      PROVE  [AbsPhases!Next]_AbsVars
  BY <1>5, KeepStateRefines DEF NonceRequest
<1>6. ASSUME NEW s \in Signers, NEW m \in msgs, SignShareRequest(s, m)
      PROVE  [AbsPhases!Next]_AbsVars
  BY <1>6, KeepStateRefines DEF SignShareRequest
<1>7. ASSUME NEW s \in Signers, NEW m \in msgs, Ignore(s, m)
      PROVE  [AbsPhases!Next]_AbsVars
  BY <1>7, KeepStateRefines DEF Ignore
<1>8. CASE Coordinator
  BY <1>8, AbsStutter DEF Coordinator, CoordDkgBegin, CoordDkgPrivateBegin,
                          CoordNonceRequest, CoordSignRequest, round_vars
<1>9. CASE UNCHANGED vars
  BY <1>9, AbsStutter DEF vars, round_vars
<1> QED BY <1>1, <1>2, <1>3, <1>4, <1>5, <1>6, <1>7, <1>8, <1>9 DEF Next

(* Refinement: the signers and the coordinator together implement the    *)
(* DKG phase graph of DkgPhases. Every handler moves its signer along an  *)
(* edge can_move_to accepts or leaves its phase alone (a failing          *)
(* dkg_begin included), and process computes a DkgEnd (dkg_ended) exactly *)
(* when it moves the signer from a private phase to Idle.                 *)
THEOREM Refinement == Spec => DkgPhasesSpec
<1>1. Init => AbsPhases!Init
  BY DEF Init, AbsPhases!Init, PhaseMap, EndsMap, PhaseOf
<1>2. Spec => []TInv
  BY InitTInv, NextTInv, PTL DEF Spec
<1> QED BY <1>1, <1>2, NextRefines, PTL DEF Spec, DkgPhasesSpec, AbsPhases!Spec, AbsVars

=============================================================================
