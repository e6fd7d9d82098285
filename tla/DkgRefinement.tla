---------------------------- MODULE DkgRefinement ----------------------------
(***************************************************************************)
(* SigningRound implements DkgPhases: the refinement mapping sends each   *)
(* signer's State to its DKG phase and each computed DkgEnd to its        *)
(* signer, dkg id and status.                                             *)
(***************************************************************************)
EXTENDS SigningRound

(* The DKG phase of a State. DkgPublicDistribute only lasts inside        *)
(* dkg_begin; SignGather and Signed, which no handler enters, map outside *)
(* the abstract phases.                                                    *)
PhaseOf(st) ==
    CASE st = "Idle" -> "Idle"
      [] st \in {"DkgPublicDistribute", "DkgPublicGather"} -> "Public"
      [] st = "DkgPrivateDistribute" -> "PrivateDistribute"
      [] st = "DkgPrivateGather" -> "PrivateGather"
      [] OTHER -> "Signing"

(* The refinement mapping: each signer's phase, and the DkgEnds computed *)
PhaseMap == [s \in Signers |-> PhaseOf(state[s])]
EndsMap == {[signer_id |-> e.signer_id, dkg_id |-> e.dkg_id, status |-> e.status] :
              e \in dkg_ends}

AbsPhases == INSTANCE DkgPhases WITH Rounds <- DkgIds, phase <- PhaseMap, ends <- EndsMap

(* Refinement: every step of the signers and the coordinator is a step of *)
(* DkgPhases or leaves the phases and the DkgEnds alone. It fails if a    *)
(* handler moves a signer along an edge can_move_to does not accept, if a *)
(* failing dkg_begin changes the phase, or if process computes a DkgEnd   *)
(* (dkg_ended) without moving to Idle from a private phase.               *)
DkgPhasesSpec == AbsPhases!Spec

=============================================================================
