------------------------------ MODULE DkgPhases ------------------------------
(***************************************************************************)
(* What a signer promises about the DKG, abstractly: each signer walks    *)
(* the phases Idle -> Public -> PrivateDistribute -> PrivateGather -> Idle *)
(* one signer at a time, may restart the public phase from any phase but  *)
(* PrivateGather, and records a DkgEnd exactly when it leaves the private *)
(* phases for Idle. SigningRound refines it (DkgRefinement).              *)
(***************************************************************************)
CONSTANTS
    Signers,    \* signer ids
    Rounds      \* dkg ids a DkgEnd may carry

VARIABLES
    phase,      \* phase[s]: the DKG phase of signer s
    ends        \* every DkgEnd a signer has computed

Phases == {"Idle", "Public", "PrivateDistribute", "PrivateGather"}
Status == {"Success", "Failure"}

Init ==
    /\ phase = [s \in Signers |-> "Idle"]
    /\ ends = {}

(* A DkgBegin (re)starts the public phase; not while gathering private    *)
(* shares.                                                                 *)
Begin(s) ==
    /\ phase[s] \in {"Idle", "Public", "PrivateDistribute"}
    /\ phase' = [phase EXCEPT ![s] = "Public"]
    /\ UNCHANGED ends

(* Every party's commitment is in: the signer may distribute its shares.  *)
Gathered(s) ==
    /\ phase[s] = "Public"
    /\ phase' = [phase EXCEPT ![s] = "PrivateDistribute"]
    /\ UNCHANGED ends

(* The signer has sent its private shares and gathers the others'.        *)
Distribute(s) ==
    /\ phase[s] = "PrivateDistribute"
    /\ phase' = [phase EXCEPT ![s] = "PrivateGather"]
    /\ UNCHANGED ends

(* The signer computes its DkgEnd and goes back to Idle. Distributing and *)
(* ending are one step when every share arrived before DkgPrivateBegin.   *)
End(s) ==
    /\ phase[s] \in {"PrivateDistribute", "PrivateGather"}
    /\ phase' = [phase EXCEPT ![s] = "Idle"]
    /\ \E d \in Rounds, st \in Status :
          ends' = ends \cup {[signer_id |-> s, dkg_id |-> d, status |-> st]}

Next == \E s \in Signers : Begin(s) \/ Gathered(s) \/ Distribute(s) \/ End(s)

Spec == Init /\ [][Next]_<<phase, ends>>

=============================================================================
