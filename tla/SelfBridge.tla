----------------------------- MODULE SelfBridge -----------------------------
(***************************************************************************)
(* The bridge to the Self identity network (packages/self-bridge).  A      *)
(* request becomes one link per age threshold; whoever scans a link with   *)
(* the Self app has the app post a proof to the bridge, which verifies it, *)
(* looks up the request the link belongs to, and keeps the proof for the   *)
(* request's owner to poll.  All of it is in memory.                       *)
(*                                                                         *)
(* A link is its request and its threshold (the code draws a random user   *)
(* id for each, entered in the routing table together with the request).   *)
(* Scanning, proving and the on-chain check of a proof are external: a     *)
(* proof is valid or not, commits to the request's agent key or not, and a *)
(* valid one tells the truth of its human.                                 *)
(***************************************************************************)
EXTENDS Integers, FiniteSets

CONSTANTS Human, Request,
          Age, Nationality,  \* of each human, as the passport says
          Profile,           \* of each request: "minimal" or anything else
          KeyOf,             \* the agent key a request is made for
          AgeThresholds,     \* SELF_AGE_THRESHOLDS (code: 18, 25, 35, 50, 65)
          NoEntry

ASSUME SelfBridgeAssumption ==
  /\ Age \in [Human -> Nat]
  /\ AgeThresholds \subseteq Nat /\ IsFiniteSet(AgeThresholds)
  /\ DOMAIN Nationality = Human
  /\ DOMAIN KeyOf = Request /\ DOMAIN Profile = Request

VARIABLES
  minted,     \* requests ever made
  pending,    \* pending[r]: the results so far, by threshold
  verifying   \* proofs whose verification the bridge awaits

bridgeVars == <<minted, pending, verifying>>

ProfileThresholds(profile) ==
  IF profile = "minimal" \/ AgeThresholds = {} THEN {18} ELSE AgeThresholds

Thresholds(r) == ProfileThresholds(Profile[r])

Proof == [request : Request, threshold : AgeThresholds \cup {18}, human : Human,
          valid : BOOLEAN, bound : BOOLEAN]

BridgeTypeOK ==
  /\ minted \subseteq Request
  /\ DOMAIN pending = Request
  /\ \A r \in Request :
       \/ pending[r] = NoEntry
       \/ /\ r \in minted
          /\ DOMAIN pending[r] \subseteq Thresholds(r)
          /\ \A t \in DOMAIN pending[r] : pending[r][t] \in Proof /\ pending[r][t].threshold = t
  /\ verifying \subseteq Proof
  /\ \A p \in verifying : p.threshold \in Thresholds(p.request)

BridgeInit ==
  /\ minted = {}
  /\ pending = [r \in Request |-> NoEntry]
  /\ verifying = {}

\* POST /requests.
PostRequest(r) ==
  /\ r \notin minted
  /\ minted' = minted \cup {r}
  /\ pending' = [pending EXCEPT ![r] = <<>>]
  /\ UNCHANGED verifying

\* A human scans a link that was shown; the circuit enforces the age bound.
\* At most one thing is wrong with the proof.
Scan(h, r) ==
  /\ r \in minted
  /\ \E t \in Thresholds(r), flaw \in {"none", "invalid", "unbound"} :
       /\ Age[h] >= t
       /\ verifying' = verifying \cup
            {[request |-> r, threshold |-> t, human |-> h,
              valid |-> flaw # "invalid", bound |-> flaw # "unbound"]}
  /\ UNCHANGED <<minted, pending>>

\* verifyOne: what a proof shows once it has been verified.
VerifyOne(p) ==
  [verified          |-> p.valid,
   registryConfirmed |-> p.valid,
   uniqueIdentifier  |-> p.human,
   boundAgentKey     |-> IF p.bound THEN KeyOf[p.request] ELSE NoEntry,
   nationality       |-> Nationality[p.human],
   olderThan         |-> p.threshold]

\* POST /callback after the verification: the proof is routed by its link, and
\* dropped if the request is gone or the proof does not commit to its key.
Callback(p) ==
  /\ p \in verifying
  /\ verifying' = verifying \ {p}
  /\ LET r == p.request
     IN  pending' = IF pending[r] # NoEntry /\ VerifyOne(p).boundAgentKey = KeyOf[r]
                    THEN [pending EXCEPT ![r] =
                            [t \in DOMAIN @ \cup {p.threshold} |->
                               IF t = p.threshold THEN p ELSE @[t]]]
                    ELSE pending
  /\ UNCHANGED minted

\* ... or the verification throws (chain unreachable, root not live).
CallbackFails(p) ==
  /\ p \in verifying
  /\ verifying' = verifying \ {p}
  /\ UNCHANGED <<minted, pending>>

\* The process restarts: requests, routes and results are gone.
BridgeRestarts ==
  /\ pending' = [r \in Request |-> NoEntry]
  /\ verifying' = {}
  /\ pending' # pending
  /\ UNCHANGED minted

\* GET /requests/:id, of a request the bridge knows.
Results(r) == {pending[r][t] : t \in DOMAIN pending[r]}

Complete(r) ==
  /\ pending[r] # NoEntry
  /\ Cardinality(DOMAIN pending[r]) >= Cardinality(Thresholds(r))

AllVerified(r) == \A p \in Results(r) : VerifyOne(p).verified

\* uniqueIdentifier of the first result: of any, in the order they arrived.
Identifiers(r) == {VerifyOne(p).uniqueIdentifier : p \in Results(r)}

BridgeStep == \E p \in verifying : Callback(p) \/ CallbackFails(p)
=============================================================================
