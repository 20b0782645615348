----------------------------- MODULE Canonicalizer -----------------------------
(***************************************************************************)
(* From a proposal to its canonical graph: the screening of the proposal   *)
(* and CanonicalGraphService.canonicalize, element by element and in the   *)
(* order of its loops.  A runtime's proposal passes the validator first;   *)
(* one that an executor of the worker loop makes itself starts at the      *)
(* competition gate.                                                       *)
(*                                                                         *)
(* A node is its canonical id: a source, a claim's key (text, scope and    *)
(* evidence lineage) or a version of a hypothesis.  Titles, rationales,    *)
(* the provenance record with its RECORDED_IN edges, the deduplication     *)
(* counts and the review flags are left out.  The callers' context always  *)
(* names the first current best and holds it, so that the two branches for *)
(* a missing one are left out, too.                                        *)
(***************************************************************************)
EXTENDS Proposal

CONSTANTS
  Proposals,  \* the bundles that executors hand over
  Version     \* versions of the snapshot's hypotheses

ASSUME CanonicalizerAssumption ==
  /\ Proposals \subseteq Bundles
  /\ Version \in [AttackTargets -> Nat \ {0}]
  /\ None \notin Sources

VARIABLES
  proposal,
  stage, at,    \* where the run is, and the index of its loop
  validated,    \* the proposal has passed the validator
  evidenceOf,   \* evidence_aliases
  claimOf,      \* claim_aliases
  versionOf,    \* hypothesis_nodes: version of the latest node, 0 if there is none
  nodes, edges, marked, \* the graph, and its nodes with is_current_best
  reasons       \* kinds of the quarantine reasons

graphVars == <<evidenceOf, claimOf, versionOf, nodes, edges, marked>>
vars == <<proposal, stage, at, validated, graphVars, reasons>>

ClaimKeys == [text : Texts, sources : (SUBSET Sources) \ {{}}]
NoClaim == [text |-> None, sources |-> {}]
Versions == Hypotheses \X (Nat \ {0})

NodeSets ==
  [evidence : SUBSET Sources, claims : SUBSET ClaimKeys, hypotheses : SUBSET Versions]

EdgeSets ==
  [derived    : SUBSET [from : ClaimKeys, to : Sources],
   argued     : SUBSET [stance : Stances, from : ClaimKeys, to : Versions],
   challenges : SUBSET [from : Versions, to : Versions],
   supersedes : SUBSET [from : Versions, to : Versions]]

Loops == {"evidence", "claims", "challengers", "arguments", "revisions"}
Verdicts == {"returned", "invalid", "rejected", "quarantined", "canonical"}
Reasons == {"scope", "evidence", "target", "claims", "predecessor", "successor", "edge"}

\* The node of a hypothesis of the snapshot.
Snapshot(h) == <<h, Version[h]>>

Init ==
  /\ proposal \in Proposals
  /\ stage \in {"validate", "gate"}
  /\ at = 1
  /\ validated = FALSE
  /\ evidenceOf = [a \in Artifacts |-> None]
  /\ claimOf = [c \in ClaimIds |-> NoClaim]
  /\ versionOf = [h \in Hypotheses |-> IF h \in AttackTargets THEN Version[h] ELSE 0]
  /\ nodes = [evidence |-> {}, claims |-> {}, hypotheses |-> {Snapshot(h) : h \in AttackTargets}]
  /\ edges = [derived |-> {}, argued |-> {}, challenges |-> {}, supersedes |-> {}]
  /\ marked = {Snapshot(FirstBest)}
  /\ reasons = {}

-----------------------------------------------------------------------------
\* The end of an attempt in CodexRuntimeCoordinator.execute: acceptance, a
\* repair prompt (whose number is bounded in RuntimeEvents) or quarantine.
Validate ==
  /\ stage = "validate"
  /\ stage' = IF Valid(proposal) THEN "gate"
              ELSE IF Repairable(proposal) THEN "returned" ELSE "invalid"
  /\ validated' = Valid(proposal)
  /\ UNCHANGED <<proposal, at, graphVars, reasons>>

\* accept_competition_proposal
Gate ==
  /\ stage = "gate"
  /\ stage' = IF Accepted(proposal) THEN "evidence" ELSE "rejected"
  /\ UNCHANGED <<proposal, at, validated, graphVars, reasons>>

-----------------------------------------------------------------------------
(* The loops of canonicalize. *)

\* One turn of a loop.
Turn(loop) ==
  /\ stage = loop
  /\ at <= Len(proposal[loop])
  /\ at' = at + 1
  /\ UNCHANGED <<proposal, stage, validated>>

Quarantine(reason) ==
  /\ reasons' = reasons \cup {reason}
  /\ UNCHANGED graphVars

\* Evidence is deduplicated by its source; an artifact id names the last.
AddEvidence ==
  LET e == proposal.evidence[at] IN
  /\ Turn("evidence")
  /\ evidenceOf' = [evidenceOf EXCEPT ![e.artifact] = e.source]
  /\ nodes' = [nodes EXCEPT !.evidence = @ \cup {e.source}]
  /\ UNCHANGED <<claimOf, versionOf, edges, marked, reasons>>

Lineage(c) == {evidenceOf[a] : a \in c.artifacts}

\* Mutant: missing evidence goes unnoticed.
AddClaimUnchecked ==
  LET c == proposal.claims[at]
      key == [text |-> c.text, sources |-> Lineage(c)]
  IN
  /\ Turn("claims")
  /\ c.dated
  /\ claimOf' = [claimOf EXCEPT ![c.id] = key]
  /\ nodes' = [nodes EXCEPT !.claims = @ \cup {key}]
  /\ edges' = [edges EXCEPT !.derived = @ \cup {[from |-> key, to |-> s] : s \in Lineage(c)}]
  /\ UNCHANGED <<evidenceOf, versionOf, marked, reasons>>

AddClaim ==
  LET c == proposal.claims[at]
      key == [text |-> c.text, sources |-> Lineage(c)]
  IN
  /\ Turn("claims")
  /\ c.dated /\ None \notin Lineage(c)
  /\ claimOf' = [claimOf EXCEPT ![c.id] = key]
  /\ nodes' = [nodes EXCEPT !.claims = @ \cup {key}]
  /\ edges' = [edges EXCEPT !.derived = @ \cup {[from |-> key, to |-> s] : s \in Lineage(c)}]
  /\ UNCHANGED <<evidenceOf, versionOf, marked, reasons>>

QuarantineClaim ==
  LET c == proposal.claims[at] IN
  /\ Turn("claims")
  /\ \/ ~c.dated /\ Quarantine("scope")
     \/ c.dated /\ None \in Lineage(c) /\ Quarantine("evidence")

\* A challenger takes the place of the snapshot's hypothesis of the same id,
\* were it the current best itself.
AddChallenger ==
  LET h == proposal.challengers[at]
      node == IF h \in AttackTargets THEN Snapshot(h) ELSE <<h, 1>>
  IN
  /\ Turn("challengers")
  /\ versionOf' = [versionOf EXCEPT ![h] = node[2]]
  /\ nodes' = [nodes EXCEPT !.hypotheses = @ \cup {node}]
  /\ marked' = marked \ {node}
  /\ edges' = [edges EXCEPT !.challenges = @ \cup {[from |-> node, to |-> Snapshot(FirstBest)]}]
  /\ UNCHANGED <<evidenceOf, claimOf, reasons>>

AddArgument ==
  LET a == proposal.arguments[at]
      node == <<a.target, versionOf[a.target]>>
  IN
  /\ Turn("arguments")
  /\ versionOf[a.target] # 0
  /\ \A c \in a.claims : claimOf[c] # NoClaim
  /\ edges' = [edges EXCEPT !.argued = @ \cup
                 {[stance |-> a.stance, from |-> claimOf[c], to |-> node] : c \in a.claims}]
  /\ UNCHANGED <<evidenceOf, claimOf, versionOf, nodes, marked, reasons>>

QuarantineArgument ==
  LET a == proposal.arguments[at] IN
  /\ Turn("arguments")
  /\ \/ versionOf[a.target] = 0 /\ Quarantine("target")
     \/ /\ versionOf[a.target] # 0
        /\ \E c \in a.claims : claimOf[c] = NoClaim
        /\ Quarantine("claims")

\* The other revisions leave the graph alone.
SkipRevision ==
  /\ Turn("revisions")
  /\ proposal.revisions[at].action # "supersede"
  /\ UNCHANGED <<graphVars, reasons>>

\* Mutant: the new version continues the hypothesis' own number.
SupersedeByOwnNumber ==
  LET r == proposal.revisions[at]
      old == <<r.of, versionOf[r.of]>>
      new == <<r.of, versionOf[r.of] + 1>>
  IN
  /\ Turn("revisions")
  /\ r.action = "supersede"
  /\ r.replaces \in AttackTargets
  /\ versionOf[r.of] # 0
  /\ versionOf' = [versionOf EXCEPT ![r.of] = new[2]]
  /\ nodes' = [nodes EXCEPT !.hypotheses = @ \cup {new}]
  /\ marked' = IF old \in marked THEN marked \cup {new} ELSE marked \ {new}
  /\ edges' = [edges EXCEPT !.supersedes = @ \cup {[from |-> new, to |-> Snapshot(r.replaces)]}]
  /\ UNCHANGED <<evidenceOf, claimOf, reasons>>

\* Mutant: the properties of the predecessor are copied.
SupersedeCopyingPredecessor ==
  LET r == proposal.revisions[at]
      new == <<r.of, Version[r.replaces] + 1>>
  IN
  /\ Turn("revisions")
  /\ r.action = "supersede"
  /\ r.replaces \in AttackTargets
  /\ versionOf[r.of] # 0
  /\ versionOf' = [versionOf EXCEPT ![r.of] = new[2]]
  /\ nodes' = [nodes EXCEPT !.hypotheses = @ \cup {new}]
  /\ marked' = IF Snapshot(r.replaces) \in marked THEN marked \cup {new} ELSE marked \ {new}
  /\ edges' = [edges EXCEPT !.supersedes = @ \cup {[from |-> new, to |-> Snapshot(r.replaces)]}]
  /\ UNCHANGED <<evidenceOf, claimOf, reasons>>

\* The new version continues the predecessor's number and copies the
\* properties of the hypothesis' latest node.
Supersede ==
  LET r == proposal.revisions[at]
      old == <<r.of, versionOf[r.of]>>
      new == <<r.of, Version[r.replaces] + 1>>
  IN
  /\ Turn("revisions")
  /\ r.action = "supersede"
  /\ r.replaces \in AttackTargets
  /\ versionOf[r.of] # 0
  /\ versionOf' = [versionOf EXCEPT ![r.of] = new[2]]
  /\ nodes' = [nodes EXCEPT !.hypotheses = @ \cup {new}]
  /\ marked' = IF old \in marked THEN marked \cup {new} ELSE marked \ {new}
  /\ edges' = [edges EXCEPT !.supersedes = @ \cup {[from |-> new, to |-> Snapshot(r.replaces)]}]
  /\ UNCHANGED <<evidenceOf, claimOf, reasons>>

QuarantineRevision ==
  LET r == proposal.revisions[at] IN
  /\ Turn("revisions")
  /\ r.action = "supersede"
  /\ \/ r.replaces \notin AttackTargets /\ Quarantine("predecessor")
     \/ r.replaces \in AttackTargets /\ versionOf[r.of] = 0 /\ Quarantine("successor")

Following ==
  [loop \in Loops |-> CASE loop = "evidence"    -> "claims"
                        [] loop = "claims"      -> "challengers"
                        [] loop = "challengers" -> "arguments"
                        [] loop = "arguments"   -> "revisions"
                        [] OTHER                -> "check"]

EndLoop ==
  /\ stage \in Loops
  /\ at > Len(proposal[stage])
  /\ stage' = Following[stage]
  /\ at' = 1
  /\ UNCHANGED <<proposal, validated, graphVars, reasons>>

Anchored ==
  /\ \A e \in edges.derived : e.from \in nodes.claims /\ e.to \in nodes.evidence
  /\ \A e \in edges.argued : e.from \in nodes.claims /\ e.to \in nodes.hypotheses
  /\ \A e \in edges.challenges \cup edges.supersedes : {e.from, e.to} \subseteq nodes.hypotheses

\* _edge_integrity_reasons, and CanonicalizationResult.quarantined.
Check ==
  /\ stage = "check"
  /\ reasons' = IF Anchored THEN reasons ELSE reasons \cup {"edge"}
  /\ stage' = IF reasons' = {} THEN "canonical" ELSE "quarantined"
  /\ UNCHANGED <<proposal, at, validated, graphVars>>

Next ==
  \/ Validate \/ Gate
  \/ AddEvidence
  \/ AddClaim \/ QuarantineClaim
  \/ AddChallenger
  \/ AddArgument \/ QuarantineArgument
  \/ SkipRevision \/ Supersede \/ QuarantineRevision
  \/ EndLoop
  \/ Check

Spec == Init /\ [][Next]_vars

-----------------------------------------------------------------------------
(* Properties. *)

\* Types of the aliases, of the graph and of the reasons.
CanonicalizerTypeOK ==
  /\ proposal \in Proposals
  /\ stage \in {"validate", "gate", "check"} \cup Loops \cup Verdicts
  /\ at \in Nat \ {0}
  /\ validated \in BOOLEAN
  /\ evidenceOf \in [Artifacts -> Sources \cup {None}]
  /\ claimOf \in [ClaimIds -> ClaimKeys \cup {NoClaim}]
  /\ versionOf \in [Hypotheses -> Nat]
  /\ nodes \in NodeSets
  /\ edges \in EdgeSets
  /\ marked \subseteq Versions
  /\ reasons \subseteq Reasons

\* Whatever the proposal refers to, no edge of the graph dangles while it is
\* built, so that the integrity check at the end finds nothing; and
\* supersession ascends, from a version to the one before it, so that no
\* chain of SUPERSEDES edges returns (canonicalize, _edge_integrity_reasons).
EdgesAreAnchored ==
  /\ Anchored
  /\ \A e \in edges.supersedes : e.from[2] = e.to[2] + 1

ContestsBest(b, stance) ==
  \E e \in edges.argued :
    /\ e.stance = stance
    /\ e.to = Snapshot(b)
    /\ \E d \in edges.derived : d.from = e.from /\ d.to \in nodes.evidence

\* A graph that is written contests every current best hypothesis of the
\* snapshot, from both sides and by claims whose evidence it holds: what
\* the gate asks of the proposal is true of the graph (accept_competition_proposal,
\* then canonicalize).
AcceptedIsContested ==
  stage = "canonical" => \A b \in Bests, stance \in Stances : ContestsBest(b, stance)

\* Of a proposal that validator and gate have let through, the canonicalizer
\* refuses nothing but the supersession of a challenger that the proposal
\* itself introduces: a hypothesis that the validator knows and the
\* snapshot does not hold.
ScreenedIsCanonical ==
  validated /\ stage = "quarantined" =>
    /\ reasons = {"predecessor"}
    /\ \E r \in Range(proposal.revisions) :
         /\ r.action = "supersede"
         /\ r.replaces \in ChallengersOf(proposal) \ AttackTargets

\* A proposal promotes nothing: is_current_best, which the graph views
\* read, marks versions of the first current best only, and its snapshot
\* version always, unless a challenger takes its id.
NothingIsPromoted ==
  /\ \A v \in marked : v[1] = FirstBest
  /\ FirstBest \notin ChallengersOf(proposal) => Snapshot(FirstBest) \in marked

=============================================================================
