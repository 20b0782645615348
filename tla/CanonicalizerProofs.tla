-------------------------- MODULE CanonicalizerProofs --------------------------
(***************************************************************************)
(* For every set of proposals and every snapshot: the graph that            *)
(* canonicalize builds holds the ends of its edges, contests what the gate *)
(* saw contested, promotes nothing, and is refused after screening for one *)
(* reason only.                                                            *)
(***************************************************************************)
EXTENDS Canonicalizer, TLAPS

LEMMA ListTypes ==
  ASSUME NEW p \in Bundles
  PROVE  /\ p.evidence \in Seq(Evidence)
         /\ p.claims \in Seq(Claims)
         /\ p.challengers \in Seq(Hypotheses)
         /\ p.arguments \in Seq(Arguments)
         /\ p.revisions \in Seq(Revisions)
  BY DEF Bundles

LEMMA ElementType ==
  ASSUME NEW S, NEW s \in Seq(S), NEW i \in Nat \ {0}, i <= Len(s)
  PROVE  s[i] \in S /\ i \in DOMAIN s /\ s[i] \in Range(s)
  <1>1. i \in DOMAIN s /\ s[i] \in S
    OBVIOUS
  <1>2. QED
    BY <1>1 DEF Range

-----------------------------------------------------------------------------
LEMMA InitTypes == Init => CanonicalizerTypeOK
  <1> SUFFICES ASSUME Init PROVE CanonicalizerTypeOK
    OBVIOUS
  <1>1. \A h \in AttackTargets : h \in Hypotheses /\ Version[h] \in Nat \ {0} /\ Snapshot(h) \in Versions
    BY SnapshotAssumption, CanonicalizerAssumption DEF AttackTargets, Snapshot, Versions
  <1>2. versionOf \in [Hypotheses -> Nat]
    BY <1>1 DEF Init
  <1>3. nodes \in NodeSets
    BY <1>1 DEF Init, NodeSets
  <1>4. edges \in EdgeSets
    BY DEF Init, EdgeSets
  <1>5. marked \subseteq Versions
    BY <1>1, SnapshotAssumption DEF Init, AttackTargets
  <1>6. stage \in {"validate", "gate", "check"} \cup Loops \cup Verdicts
    BY DEF Init
  <1>7. evidenceOf \in [Artifacts -> Sources \cup {None}] /\ claimOf \in [ClaimIds -> ClaimKeys \cup {NoClaim}]
    BY DEF Init
  <1>8. proposal \in Proposals /\ at \in Nat \ {0} /\ reasons \subseteq Reasons
    BY DEF Init
  <1>9. validated \in BOOLEAN
    BY DEF Init
  <1>10. QED
    BY <1>9, <1>8, <1>2, <1>3, <1>4, <1>5, <1>6, <1>7 DEF CanonicalizerTypeOK

-----------------------------------------------------------------------------
\* What a turn leaves alone.
LEMMA TurnTypes ==
  ASSUME CanonicalizerTypeOK, NEW loop, Turn(loop)
  PROVE  /\ proposal' \in Proposals
         /\ stage' \in {"validate", "gate", "check"} \cup Loops \cup Verdicts
         /\ at' \in Nat \ {0}
         /\ validated' \in BOOLEAN
  <1>1. proposal' \in Proposals /\ stage' \in {"validate", "gate", "check"} \cup Loops \cup Verdicts
    BY DEF CanonicalizerTypeOK, Turn
  <1>2. at' \in Nat \ {0}
    BY DEF CanonicalizerTypeOK, Turn
  <1>3. validated' \in BOOLEAN
    BY DEF CanonicalizerTypeOK, Turn
  <1>4. QED
    BY <1>1, <1>2, <1>3

LEMMA QuarantineTypes ==
  ASSUME CanonicalizerTypeOK, NEW loop, Turn(loop), NEW r \in Reasons, Quarantine(r)
  PROVE  CanonicalizerTypeOK'
  <1>1. UNCHANGED graphVars /\ reasons' \subseteq Reasons
    BY DEF Quarantine, CanonicalizerTypeOK
  <1>2. QED
    BY <1>1, TurnTypes DEF CanonicalizerTypeOK, graphVars

LEMMA ElementsTyped ==
  ASSUME CanonicalizerTypeOK
  PROVE  /\ Turn("evidence") => proposal.evidence[at] \in Evidence
         /\ Turn("claims") => proposal.claims[at] \in Claims
         /\ Turn("challengers") => proposal.challengers[at] \in Hypotheses
         /\ Turn("arguments") => proposal.arguments[at] \in Arguments
         /\ Turn("revisions") => proposal.revisions[at] \in Revisions
  <1>1. proposal \in Bundles /\ at \in Nat \ {0}
    BY CanonicalizerAssumption DEF CanonicalizerTypeOK
  <1>2. ASSUME NEW loop PROVE Turn(loop) => at <= Len(proposal[loop])
    BY DEF Turn
  <1>3. Turn("evidence") => at <= Len(proposal.evidence)
    BY <1>2
  <1>4. Turn("claims") => at <= Len(proposal.claims)
    BY <1>2
  <1>5. Turn("challengers") => at <= Len(proposal.challengers)
    BY <1>2
  <1>6. Turn("arguments") => at <= Len(proposal.arguments)
    BY <1>2
  <1>7. Turn("revisions") => at <= Len(proposal.revisions)
    BY <1>2
  <1>8. QED
    BY <1>1, <1>3, <1>4, <1>5, <1>6, <1>7, ListTypes, ElementType

LEMMA SnapshotTypes ==
  /\ FirstBest \in AttackTargets
  /\ AttackTargets \subseteq Hypotheses
  /\ \A h \in AttackTargets : Version[h] \in Nat \ {0} /\ Snapshot(h) \in Versions
  BY SnapshotAssumption, CanonicalizerAssumption DEF AttackTargets, Snapshot, Versions

LEMMA AddEvidenceTypes == CanonicalizerTypeOK /\ AddEvidence => CanonicalizerTypeOK'
  <1> SUFFICES ASSUME CanonicalizerTypeOK, AddEvidence PROVE CanonicalizerTypeOK'
    OBVIOUS
  <1> DEFINE e == proposal.evidence[at]
  <1>1. Turn("evidence") /\ e \in Evidence
    BY ElementsTyped DEF AddEvidence
  <1>2. evidenceOf' \in [Artifacts -> Sources \cup {None}]
    BY <1>1 DEF AddEvidence, CanonicalizerTypeOK, Evidence
  <1>3. nodes' \in NodeSets
    BY <1>1 DEF NodeSets, AddEvidence, CanonicalizerTypeOK, Evidence
  <1>4. QED
    BY <1>1, <1>2, <1>3, TurnTypes DEF AddEvidence, CanonicalizerTypeOK

\* The key of a claim that is added.
LEMMA AddedKey ==
  ASSUME CanonicalizerTypeOK, AddClaim
  PROVE  /\ proposal.claims[at] \in Claims
         /\ Lineage(proposal.claims[at]) \in (SUBSET Sources) \ {{}}
         /\ [text |-> proposal.claims[at].text, sources |-> Lineage(proposal.claims[at])] \in ClaimKeys
  <1> DEFINE c == proposal.claims[at]
  <1>1. c \in Claims /\ None \notin Lineage(c)
    BY ElementsTyped DEF AddClaim
  <1>2. c.artifacts \subseteq Artifacts /\ c.artifacts # {} /\ c.text \in Texts
    BY <1>1 DEF Claims
  <1>3. Lineage(c) \in (SUBSET Sources) \ {{}}
    BY <1>1, <1>2 DEF Lineage, CanonicalizerTypeOK
  <1>4. QED
    BY <1>1, <1>2, <1>3 DEF ClaimKeys

LEMMA AddClaimTypes == CanonicalizerTypeOK /\ AddClaim => CanonicalizerTypeOK'
  <1> SUFFICES ASSUME CanonicalizerTypeOK, AddClaim PROVE CanonicalizerTypeOK'
    OBVIOUS
  <1> DEFINE c == proposal.claims[at]
             key == [text |-> c.text, sources |-> Lineage(c)]
  <1>1. Turn("claims") /\ c.id \in ClaimIds /\ Lineage(c) \subseteq Sources /\ key \in ClaimKeys
    BY AddedKey DEF AddClaim, Claims
  <1> HIDE DEF key
  <1>2. claimOf' \in [ClaimIds -> ClaimKeys \cup {NoClaim}]
    BY <1>1 DEF AddClaim, CanonicalizerTypeOK, key
  <1>3. nodes' \in NodeSets
    BY <1>1 DEF NodeSets, AddClaim, CanonicalizerTypeOK, key
  <1>4. edges' \in EdgeSets
    <2> DEFINE new == {[from |-> key, to |-> s] : s \in Lineage(c)}
    <2>1. new \subseteq [from : ClaimKeys, to : Sources]
      BY <1>1
    <2>2. edges' = [edges EXCEPT !.derived = @ \cup new]
      BY DEF AddClaim, key
    <2> HIDE DEF new
    <2>3. QED
      BY <2>1, <2>2 DEF CanonicalizerTypeOK, EdgeSets
  <1>5. QED
    BY <1>1, <1>2, <1>3, <1>4, TurnTypes DEF AddClaim, CanonicalizerTypeOK

LEMMA AddChallengerTypes == CanonicalizerTypeOK /\ AddChallenger => CanonicalizerTypeOK'
  <1> SUFFICES ASSUME CanonicalizerTypeOK, AddChallenger PROVE CanonicalizerTypeOK'
    OBVIOUS
  <1> DEFINE h == proposal.challengers[at]
             node == IF h \in AttackTargets THEN Snapshot(h) ELSE <<h, 1>>
             edge == [from |-> node, to |-> Snapshot(FirstBest)]
  <1>1. Turn("challengers") /\ h \in Hypotheses
    BY ElementsTyped DEF AddChallenger
  <1>2. node \in Versions /\ node[2] \in Nat
    BY <1>1, SnapshotTypes DEF Versions, Snapshot
  <1>3. edge \in [from : Versions, to : Versions]
    BY <1>2, SnapshotTypes
  <1> HIDE DEF node
  <1>4. versionOf' \in [Hypotheses -> Nat]
    BY <1>1, <1>2 DEF AddChallenger, CanonicalizerTypeOK, node
  <1>5. nodes' \in NodeSets
    <2>1. nodes' = [nodes EXCEPT !.hypotheses = @ \cup {node}]
      BY DEF AddChallenger, node
    <2>2. QED
      BY <1>2, <2>1 DEF NodeSets, CanonicalizerTypeOK
  <1>6. marked' \subseteq Versions
    BY DEF AddChallenger, CanonicalizerTypeOK
  <1>7. edges' \in EdgeSets
    <2>1. edges' = [edges EXCEPT !.challenges = @ \cup {edge}]
      BY DEF AddChallenger, node
    <2> HIDE DEF edge
    <2>2. QED
      BY <1>3, <2>1 DEF EdgeSets, CanonicalizerTypeOK
  <1>8. QED
    BY <1>1, <1>4, <1>5, <1>6, <1>7, TurnTypes DEF AddChallenger, CanonicalizerTypeOK

LEMMA AddArgumentTypes == CanonicalizerTypeOK /\ AddArgument => CanonicalizerTypeOK'
  <1> SUFFICES ASSUME CanonicalizerTypeOK, AddArgument PROVE CanonicalizerTypeOK'
    OBVIOUS
  <1> DEFINE a == proposal.arguments[at]
             node == <<a.target, versionOf[a.target]>>
             new == {[stance |-> a.stance, from |-> claimOf[c], to |-> node] : c \in a.claims}
  <1>1. Turn("arguments") /\ a \in Arguments
    BY ElementsTyped DEF AddArgument
  <1>2. a.stance \in Stances /\ a.target \in Hypotheses /\ a.claims \subseteq ClaimIds
    BY <1>1 DEF Arguments
  <1>3. node \in Versions
    BY <1>2 DEF Versions, AddArgument, CanonicalizerTypeOK
  <1>4. \A c \in a.claims : claimOf[c] \in ClaimKeys
    BY <1>2 DEF AddArgument, CanonicalizerTypeOK
  <1>5. edges' \in EdgeSets
    <2>1. new \subseteq [stance : Stances, from : ClaimKeys, to : Versions]
      <3> HIDE DEF node
      <3>1. QED
        BY <1>2, <1>3, <1>4
    <2>2. edges' = [edges EXCEPT !.argued = @ \cup new]
      BY DEF AddArgument
    <2> HIDE DEF new
    <2>3. QED
      BY <2>1, <2>2 DEF EdgeSets, CanonicalizerTypeOK
  <1>6. QED
    BY <1>1, <1>5, TurnTypes DEF AddArgument, CanonicalizerTypeOK

LEMMA SupersedeTypes == CanonicalizerTypeOK /\ Supersede => CanonicalizerTypeOK'
  <1> SUFFICES ASSUME CanonicalizerTypeOK, Supersede PROVE CanonicalizerTypeOK'
    OBVIOUS
  <1> DEFINE r == proposal.revisions[at]
             new == <<r.of, Version[r.replaces] + 1>>
             edge == [from |-> new, to |-> Snapshot(r.replaces)]
  <1>1. Turn("revisions") /\ r.of \in Hypotheses /\ r.replaces \in AttackTargets
    BY ElementsTyped DEF Supersede, Revisions
  <1>2. new \in Versions /\ new[2] \in Nat
    BY <1>1, SnapshotTypes DEF Versions
  <1>3. edge \in [from : Versions, to : Versions]
    BY <1>1, <1>2, SnapshotTypes
  <1> HIDE DEF new
  <1>4. versionOf' \in [Hypotheses -> Nat]
    BY <1>1, <1>2 DEF Supersede, CanonicalizerTypeOK, new
  <1>5. nodes' \in NodeSets
    <2>1. nodes' = [nodes EXCEPT !.hypotheses = @ \cup {new}]
      BY DEF Supersede, new
    <2>2. QED
      BY <1>2, <2>1 DEF NodeSets, CanonicalizerTypeOK
  <1>6. marked' \subseteq Versions
    <2>1. marked' \subseteq marked \cup {new}
      BY DEF Supersede, new
    <2>2. QED
      BY <1>2, <2>1 DEF CanonicalizerTypeOK
  <1>7. edges' \in EdgeSets
    <2>1. edges' = [edges EXCEPT !.supersedes = @ \cup {edge}]
      BY DEF Supersede, new
    <2> HIDE DEF edge
    <2>2. QED
      BY <1>3, <2>1 DEF EdgeSets, CanonicalizerTypeOK
  <1>8. QED
    BY <1>1, <1>4, <1>5, <1>6, <1>7, TurnTypes DEF Supersede, CanonicalizerTypeOK

LEMMA NextTypes == CanonicalizerTypeOK /\ [Next]_vars => CanonicalizerTypeOK'
  <1> SUFFICES ASSUME CanonicalizerTypeOK, [Next]_vars PROVE CanonicalizerTypeOK'
    OBVIOUS
  <1>1. CASE Validate
    <2>1. validated' \in BOOLEAN
      BY <1>1 DEF Validate, Valid, CanonicalizerTypeOK
    <2>2. stage' \in {"gate", "returned", "invalid"} /\ UNCHANGED <<proposal, at, graphVars, reasons>>
      BY <1>1 DEF Validate
    <2>3. QED
      BY <2>1, <2>2 DEF CanonicalizerTypeOK, graphVars, Verdicts
  <1>2. CASE Gate
    BY <1>2 DEF Gate, CanonicalizerTypeOK, graphVars, Verdicts, Loops
  <1>3. CASE AddEvidence
    BY <1>3, AddEvidenceTypes
  <1>4. CASE AddClaim
    BY <1>4, AddClaimTypes
  <1>5. CASE QuarantineClaim
    <2>1. Turn("claims") /\ (Quarantine("scope") \/ Quarantine("evidence"))
      BY <1>5 DEF QuarantineClaim
    <2>2. QED
      BY <2>1, QuarantineTypes DEF Reasons
  <1>6. CASE AddChallenger
    BY <1>6, AddChallengerTypes
  <1>7. CASE AddArgument
    BY <1>7, AddArgumentTypes
  <1>8. CASE QuarantineArgument
    <2>1. Turn("arguments") /\ (Quarantine("target") \/ Quarantine("claims"))
      BY <1>8 DEF QuarantineArgument
    <2>2. QED
      BY <2>1, QuarantineTypes DEF Reasons
  <1>9. CASE SkipRevision
    BY <1>9, TurnTypes DEF SkipRevision, CanonicalizerTypeOK, graphVars
  <1>10. CASE Supersede
    BY <1>10, SupersedeTypes
  <1>11. CASE QuarantineRevision
    <2>1. Turn("revisions") /\ (Quarantine("predecessor") \/ Quarantine("successor"))
      BY <1>11 DEF QuarantineRevision
    <2>2. QED
      BY <2>1, QuarantineTypes DEF Reasons
  <1>12. CASE EndLoop
    <2>1. stage' \in {"check"} \cup Loops
      BY <1>12 DEF EndLoop, Following, Loops
    <2>2. QED
      BY <1>12, <2>1 DEF EndLoop, CanonicalizerTypeOK, graphVars
  <1>13. CASE Check
    <2>1. stage' \in Verdicts /\ reasons' \subseteq Reasons
      BY <1>13 DEF Check, CanonicalizerTypeOK, Verdicts, Reasons
    <2>2. QED
      BY <1>13, <2>1 DEF Check, CanonicalizerTypeOK, graphVars
  <1>14. CASE UNCHANGED vars
    BY <1>14 DEF vars, CanonicalizerTypeOK, graphVars
  <1>15. QED
    BY <1>1, <1>2, <1>3, <1>4, <1>5, <1>6, <1>7, <1>8, <1>9, <1>10, <1>11, <1>12, <1>13, <1>14
       DEF Next

\* Types are kept for every set of proposals and every snapshot
\* (canonicalize).
THEOREM CanonicalizerTypes == Spec => []CanonicalizerTypeOK
  <1>1. Init => CanonicalizerTypeOK
    BY InitTypes
  <1>2. CanonicalizerTypeOK /\ [Next]_vars => CanonicalizerTypeOK'
    BY NextTypes
  <1>3. QED
    BY <1>1, <1>2, PTL DEF Spec

-----------------------------------------------------------------------------
\* The graph of one step, field by field.

LEMMA AddEvidenceEffect ==
  ASSUME CanonicalizerTypeOK, AddEvidence
  PROVE  LET e == proposal.evidence[at] IN
         /\ e.artifact \in Artifacts /\ e.source \in Sources
         /\ nodes'.evidence = nodes.evidence \cup {e.source}
         /\ nodes'.claims = nodes.claims
         /\ nodes'.hypotheses = nodes.hypotheses
         /\ edges' = edges
  BY ElementsTyped DEF AddEvidence, Evidence, CanonicalizerTypeOK, NodeSets

LEMMA AddClaimEffect ==
  ASSUME CanonicalizerTypeOK, AddClaim
  PROVE  LET c == proposal.claims[at]
             key == [text |-> c.text, sources |-> Lineage(c)] IN
         /\ nodes'.evidence = nodes.evidence
         /\ nodes'.claims = nodes.claims \cup {key}
         /\ nodes'.hypotheses = nodes.hypotheses
         /\ edges'.derived = edges.derived \cup {[from |-> key, to |-> s] : s \in Lineage(c)}
         /\ edges'.argued = edges.argued
         /\ edges'.challenges = edges.challenges
         /\ edges'.supersedes = edges.supersedes
  BY DEF AddClaim, CanonicalizerTypeOK, NodeSets, EdgeSets

LEMMA AddChallengerEffect ==
  ASSUME CanonicalizerTypeOK, AddChallenger
  PROVE  LET h == proposal.challengers[at]
             node == IF h \in AttackTargets THEN Snapshot(h) ELSE <<h, 1>> IN
         /\ node = <<h, node[2]>> /\ node[2] \in Nat \ {0}
         /\ h \in AttackTargets => node[2] = Version[h]
         /\ versionOf' = [versionOf EXCEPT ![h] = node[2]]
         /\ nodes'.evidence = nodes.evidence
         /\ nodes'.claims = nodes.claims
         /\ nodes'.hypotheses = nodes.hypotheses \cup {node}
         /\ edges'.derived = edges.derived
         /\ edges'.argued = edges.argued
         /\ edges'.challenges = edges.challenges \cup {[from |-> node, to |-> Snapshot(FirstBest)]}
         /\ edges'.supersedes = edges.supersedes
  <1> DEFINE h == proposal.challengers[at]
             node == IF h \in AttackTargets THEN Snapshot(h) ELSE <<h, 1>>
  <1>1. node = <<h, node[2]>> /\ node[2] \in Nat \ {0} /\ (h \in AttackTargets => node[2] = Version[h])
    BY SnapshotTypes DEF Snapshot
  <1> HIDE DEF node
  <1>2. /\ versionOf' = [versionOf EXCEPT ![h] = node[2]]
        /\ nodes' = [nodes EXCEPT !.hypotheses = @ \cup {node}]
        /\ edges' = [edges EXCEPT !.challenges = @ \cup {[from |-> node, to |-> Snapshot(FirstBest)]}]
    BY DEF AddChallenger, node
  <1>3. /\ nodes'.evidence = nodes.evidence
        /\ nodes'.claims = nodes.claims
        /\ nodes'.hypotheses = nodes.hypotheses \cup {node}
    BY <1>2 DEF CanonicalizerTypeOK, NodeSets
  <1>4. /\ edges'.derived = edges.derived
        /\ edges'.argued = edges.argued
        /\ edges'.challenges = edges.challenges \cup {[from |-> node, to |-> Snapshot(FirstBest)]}
        /\ edges'.supersedes = edges.supersedes
    BY <1>2 DEF CanonicalizerTypeOK, EdgeSets
  <1>5. QED
    BY <1>1, <1>2, <1>3, <1>4 DEF node

LEMMA AddArgumentEffect ==
  ASSUME CanonicalizerTypeOK, AddArgument
  PROVE  LET a == proposal.arguments[at] IN
         /\ nodes' = nodes
         /\ edges'.derived = edges.derived
         /\ edges'.argued = edges.argued \cup
              {[stance |-> a.stance, from |-> claimOf[c], to |-> <<a.target, versionOf[a.target]>>] : c \in a.claims}
         /\ edges'.challenges = edges.challenges
         /\ edges'.supersedes = edges.supersedes
  BY DEF AddArgument, CanonicalizerTypeOK, EdgeSets

LEMMA SupersedeEffect ==
  ASSUME CanonicalizerTypeOK, Supersede
  PROVE  LET r == proposal.revisions[at]
             new == <<r.of, Version[r.replaces] + 1>> IN
         /\ r.of \in Hypotheses /\ r.replaces \in AttackTargets
         /\ Version[r.replaces] \in Nat \ {0}
         /\ versionOf' = [versionOf EXCEPT ![r.of] = Version[r.replaces] + 1]
         /\ nodes'.evidence = nodes.evidence
         /\ nodes'.claims = nodes.claims
         /\ nodes'.hypotheses = nodes.hypotheses \cup {new}
         /\ edges'.derived = edges.derived
         /\ edges'.argued = edges.argued
         /\ edges'.challenges = edges.challenges
         /\ edges'.supersedes = edges.supersedes \cup {[from |-> new, to |-> Snapshot(r.replaces)]}
  <1> DEFINE r == proposal.revisions[at]
             new == <<r.of, Version[r.replaces] + 1>>
  <1>1. r.of \in Hypotheses /\ r.replaces \in AttackTargets /\ Version[r.replaces] \in Nat \ {0}
    BY ElementsTyped, SnapshotTypes DEF Supersede, Revisions
  <1>2. versionOf' = [versionOf EXCEPT ![r.of] = Version[r.replaces] + 1]
    BY DEF Supersede
  <1>3. /\ nodes' = [nodes EXCEPT !.hypotheses = @ \cup {new}]
        /\ edges' = [edges EXCEPT !.supersedes = @ \cup {[from |-> new, to |-> Snapshot(r.replaces)]}]
    BY DEF Supersede
  <1> HIDE DEF new
  <1>4. /\ nodes'.evidence = nodes.evidence
        /\ nodes'.claims = nodes.claims
        /\ nodes'.hypotheses = nodes.hypotheses \cup {new}
    BY <1>3 DEF CanonicalizerTypeOK, NodeSets
  <1>5. /\ edges'.derived = edges.derived
        /\ edges'.argued = edges.argued
        /\ edges'.challenges = edges.challenges
        /\ edges'.supersedes = edges.supersedes \cup {[from |-> new, to |-> Snapshot(r.replaces)]}
    BY <1>3 DEF CanonicalizerTypeOK, EdgeSets
  <1>6. QED
    BY <1>1, <1>2, <1>4, <1>5 DEF new

\* The steps that leave the graph and its aliases alone.
Idle ==
  \/ Validate \/ Gate \/ QuarantineClaim \/ QuarantineArgument
  \/ SkipRevision \/ QuarantineRevision \/ EndLoop \/ Check \/ UNCHANGED vars

LEMMA IdleKeepsGraph == Idle => UNCHANGED graphVars
  BY DEF Idle, Validate, Gate, QuarantineClaim, QuarantineArgument, Quarantine, SkipRevision,
         QuarantineRevision, EndLoop, Check, vars

LEMMA StepCases ==
  [Next]_vars =>
    Idle \/ AddEvidence \/ AddClaim \/ AddChallenger \/ AddArgument \/ Supersede
  BY DEF Next, Idle

-----------------------------------------------------------------------------
\* Every alias is a node, and every claim holds the edges of its lineage.
Links ==
  /\ \A a \in Artifacts : evidenceOf[a] # None => evidenceOf[a] \in nodes.evidence
  /\ \A c \in ClaimIds : claimOf[c] # NoClaim => claimOf[c] \in nodes.claims
  /\ \A h \in Hypotheses : versionOf[h] # 0 => <<h, versionOf[h]>> \in nodes.hypotheses
  /\ \A h \in AttackTargets : versionOf[h] # 0 /\ Snapshot(h) \in nodes.hypotheses
  /\ \A k \in nodes.claims : \A s \in k.sources :
       s \in nodes.evidence /\ [from |-> k, to |-> s] \in edges.derived

GraphInv == Links /\ EdgesAreAnchored

LEMMA InitGraph == Init => GraphInv
  <1> SUFFICES ASSUME Init PROVE GraphInv
    OBVIOUS
  <1>1. Links
    BY SnapshotTypes DEF Init, Links, Snapshot
  <1>2. EdgesAreAnchored
    BY DEF Init, EdgesAreAnchored, Anchored
  <1>3. QED
    BY <1>1, <1>2 DEF GraphInv

LEMMA AddEvidenceGraph == CanonicalizerTypeOK /\ GraphInv /\ AddEvidence => GraphInv'
  <1> SUFFICES ASSUME CanonicalizerTypeOK, GraphInv, AddEvidence PROVE GraphInv'
    OBVIOUS
  <1> DEFINE e == proposal.evidence[at]
  <1>1. /\ e.artifact \in Artifacts /\ e.source \in Sources
        /\ nodes'.evidence = nodes.evidence \cup {e.source}
        /\ nodes'.claims = nodes.claims
        /\ nodes'.hypotheses = nodes.hypotheses
        /\ edges' = edges
    BY AddEvidenceEffect
  <1>2. /\ evidenceOf' = [evidenceOf EXCEPT ![e.artifact] = e.source]
        /\ UNCHANGED <<claimOf, versionOf>>
    BY DEF AddEvidence
  <1> HIDE DEF e
  <1>3. Links'
    <2>1. \A a \in Artifacts : evidenceOf'[a] # None => evidenceOf'[a] \in nodes'.evidence
      BY <1>1, <1>2 DEF GraphInv, Links, CanonicalizerTypeOK
    <2>2. QED
      BY <1>1, <1>2, <2>1 DEF GraphInv, Links, Snapshot
  <1>4. EdgesAreAnchored'
    BY <1>1 DEF GraphInv, EdgesAreAnchored, Anchored
  <1>5. QED
    BY <1>3, <1>4 DEF GraphInv

LEMMA AddClaimGraph == CanonicalizerTypeOK /\ GraphInv /\ AddClaim => GraphInv'
  <1> SUFFICES ASSUME CanonicalizerTypeOK, GraphInv, AddClaim PROVE GraphInv'
    OBVIOUS
  <1> DEFINE c == proposal.claims[at]
             key == [text |-> c.text, sources |-> Lineage(c)]
  <1>1. /\ nodes'.evidence = nodes.evidence
        /\ nodes'.claims = nodes.claims \cup {key}
        /\ nodes'.hypotheses = nodes.hypotheses
        /\ edges'.derived = edges.derived \cup {[from |-> key, to |-> s] : s \in Lineage(c)}
        /\ edges'.argued = edges.argued
        /\ edges'.challenges = edges.challenges
        /\ edges'.supersedes = edges.supersedes
    BY AddClaimEffect
  <1>2. /\ claimOf' = [claimOf EXCEPT ![c.id] = key]
        /\ UNCHANGED <<evidenceOf, versionOf>>
    BY DEF AddClaim
  <1>3. key.sources = Lineage(c) /\ Lineage(c) \subseteq nodes.evidence
    <2>1. c.artifacts \subseteq Artifacts /\ None \notin Lineage(c)
      BY AddedKey DEF AddClaim, Claims
    <2>2. QED
      BY <2>1 DEF Lineage, GraphInv, Links
  <1> HIDE DEF key
  <1>4. Links'
    <2>1. \A d \in ClaimIds : claimOf'[d] # NoClaim => claimOf'[d] \in nodes'.claims
      BY <1>1, <1>2 DEF GraphInv, Links, CanonicalizerTypeOK
    <2>2. \A k \in nodes'.claims : \A s \in k.sources :
            s \in nodes'.evidence /\ [from |-> k, to |-> s] \in edges'.derived
      BY <1>1, <1>3 DEF GraphInv, Links
    <2>3. QED
      BY <1>1, <1>2, <2>1, <2>2 DEF GraphInv, Links, Snapshot
  <1>5. EdgesAreAnchored'
    <2>1. \A e \in edges'.derived : e.from \in nodes'.claims /\ e.to \in nodes'.evidence
      BY <1>1, <1>3 DEF GraphInv, EdgesAreAnchored, Anchored
    <2>2. QED
      BY <1>1, <2>1 DEF GraphInv, EdgesAreAnchored, Anchored
  <1>6. QED
    BY <1>4, <1>5 DEF GraphInv

LEMMA AddChallengerGraph == CanonicalizerTypeOK /\ GraphInv /\ AddChallenger => GraphInv'
  <1> SUFFICES ASSUME CanonicalizerTypeOK, GraphInv, AddChallenger PROVE GraphInv'
    OBVIOUS
  <1> DEFINE h == proposal.challengers[at]
             node == IF h \in AttackTargets THEN Snapshot(h) ELSE <<h, 1>>
  <1>1. /\ node = <<h, node[2]>> /\ node[2] \in Nat \ {0}
        /\ versionOf' = [versionOf EXCEPT ![h] = node[2]]
        /\ nodes'.evidence = nodes.evidence
        /\ nodes'.claims = nodes.claims
        /\ nodes'.hypotheses = nodes.hypotheses \cup {node}
        /\ edges'.derived = edges.derived
        /\ edges'.argued = edges.argued
        /\ edges'.challenges = edges.challenges \cup {[from |-> node, to |-> Snapshot(FirstBest)]}
        /\ edges'.supersedes = edges.supersedes
    BY AddChallengerEffect
  <1>2. UNCHANGED <<evidenceOf, claimOf>>
    BY DEF AddChallenger
  <1>3. Snapshot(FirstBest) \in nodes.hypotheses
    BY SnapshotTypes DEF GraphInv, Links
  <1> HIDE DEF node
  <1>4. Links'
    <2>1. \A g \in Hypotheses : versionOf'[g] # 0 => <<g, versionOf'[g]>> \in nodes'.hypotheses
      BY <1>1 DEF GraphInv, Links, CanonicalizerTypeOK
    <2>2. \A g \in AttackTargets : versionOf'[g] # 0 /\ Snapshot(g)' \in nodes'.hypotheses
      BY <1>1, SnapshotTypes DEF GraphInv, Links, CanonicalizerTypeOK, Snapshot
    <2>3. QED
      BY <1>1, <1>2, <2>1, <2>2 DEF GraphInv, Links
  <1>5. EdgesAreAnchored'
    <2>1. \A e \in edges'.challenges \cup edges'.supersedes : {e.from, e.to} \subseteq nodes'.hypotheses
      BY <1>1, <1>3 DEF GraphInv, EdgesAreAnchored, Anchored
    <2>2. QED
      BY <1>1, <2>1 DEF GraphInv, EdgesAreAnchored, Anchored
  <1>6. QED
    BY <1>4, <1>5 DEF GraphInv

LEMMA AddArgumentGraph == CanonicalizerTypeOK /\ GraphInv /\ AddArgument => GraphInv'
  <1> SUFFICES ASSUME CanonicalizerTypeOK, GraphInv, AddArgument PROVE GraphInv'
    OBVIOUS
  <1> DEFINE a == proposal.arguments[at]
             node == <<a.target, versionOf[a.target]>>
             new == {[stance |-> a.stance, from |-> claimOf[c], to |-> node] : c \in a.claims}
  <1>1. /\ nodes' = nodes
        /\ edges'.derived = edges.derived
        /\ edges'.argued = edges.argued \cup new
        /\ edges'.challenges = edges.challenges
        /\ edges'.supersedes = edges.supersedes
    BY AddArgumentEffect
  <1>2. UNCHANGED <<evidenceOf, claimOf, versionOf>>
    BY DEF AddArgument
  <1>3. \A e \in new : e.from \in nodes.claims /\ e.to \in nodes.hypotheses
    <2>1. a.target \in Hypotheses /\ a.claims \subseteq ClaimIds
      BY ElementsTyped DEF AddArgument, Arguments
    <2>2. node \in nodes.hypotheses /\ \A c \in a.claims : claimOf[c] \in nodes.claims
      BY <2>1 DEF AddArgument, GraphInv, Links
    <2> HIDE DEF node
    <2>3. QED
      BY <2>2
  <1> HIDE DEF new
  <1>4. Links'
    BY <1>1, <1>2 DEF GraphInv, Links, Snapshot
  <1>5. EdgesAreAnchored'
    BY <1>1, <1>3 DEF GraphInv, EdgesAreAnchored, Anchored
  <1>6. QED
    BY <1>4, <1>5 DEF GraphInv

LEMMA SupersedeGraph == CanonicalizerTypeOK /\ GraphInv /\ Supersede => GraphInv'
  <1> SUFFICES ASSUME CanonicalizerTypeOK, GraphInv, Supersede PROVE GraphInv'
    OBVIOUS
  <1> DEFINE r == proposal.revisions[at]
             new == <<r.of, Version[r.replaces] + 1>>
             edge == [from |-> new, to |-> Snapshot(r.replaces)]
  <1>1. /\ r.of \in Hypotheses /\ r.replaces \in AttackTargets
        /\ Version[r.replaces] \in Nat \ {0}
        /\ versionOf' = [versionOf EXCEPT ![r.of] = Version[r.replaces] + 1]
        /\ nodes'.evidence = nodes.evidence
        /\ nodes'.claims = nodes.claims
        /\ nodes'.hypotheses = nodes.hypotheses \cup {new}
        /\ edges'.derived = edges.derived
        /\ edges'.argued = edges.argued
        /\ edges'.challenges = edges.challenges
        /\ edges'.supersedes = edges.supersedes \cup {edge}
    BY SupersedeEffect
  <1>2. UNCHANGED <<evidenceOf, claimOf>>
    BY DEF Supersede
  <1>3. /\ edge.from = new /\ edge.to \in nodes.hypotheses
        /\ edge.from[2] = edge.to[2] + 1
    BY <1>1 DEF GraphInv, Links, Snapshot
  <1>4. Links'
    <2>1. \A g \in Hypotheses : versionOf'[g] # 0 => <<g, versionOf'[g]>> \in nodes'.hypotheses
      BY <1>1 DEF GraphInv, Links, CanonicalizerTypeOK
    <2>2. \A g \in AttackTargets : versionOf'[g] # 0 /\ Snapshot(g)' \in nodes'.hypotheses
      BY <1>1, SnapshotTypes DEF GraphInv, Links, CanonicalizerTypeOK, Snapshot
    <2>3. QED
      BY <1>1, <1>2, <2>1, <2>2 DEF GraphInv, Links
  <1> HIDE DEF edge, new
  <1>5. EdgesAreAnchored'
    BY <1>1, <1>3 DEF GraphInv, EdgesAreAnchored, Anchored
  <1>6. QED
    BY <1>4, <1>5 DEF GraphInv

LEMMA NextGraph == CanonicalizerTypeOK /\ GraphInv /\ [Next]_vars => GraphInv'
  <1> SUFFICES ASSUME CanonicalizerTypeOK, GraphInv, [Next]_vars PROVE GraphInv'
    OBVIOUS
  <1>1. CASE Idle
    <2>1. UNCHANGED graphVars
      BY <1>1, IdleKeepsGraph
    <2>2. QED
      BY <2>1 DEF graphVars, GraphInv, Links, EdgesAreAnchored, Anchored, Snapshot
  <1>2. QED
    BY <1>1, StepCases, AddEvidenceGraph, AddClaimGraph, AddChallengerGraph, AddArgumentGraph, SupersedeGraph

\* The graph holds both ends of every edge at every moment, for any
\* proposal, and supersession ascends (canonicalize): the reason that the
\* integrity check would add is never added.
THEOREM GraphIsAnchored == Spec => []EdgesAreAnchored
  <1>1. Init => GraphInv
    BY InitGraph
  <1>2. CanonicalizerTypeOK /\ GraphInv /\ [Next]_vars => GraphInv'
    BY NextGraph
  <1>3. GraphInv => EdgesAreAnchored
    BY DEF GraphInv
  <1>4. QED
    BY <1>1, <1>2, <1>3, CanonicalizerTypes, PTL DEF Spec

-----------------------------------------------------------------------------
\* Unless a challenger takes its id, the best's latest node is marked, which
\* is what its next version copies.
MarkInv ==
  /\ NothingIsPromoted
  /\ FirstBest \notin ChallengersOf(proposal) => <<FirstBest, versionOf[FirstBest]>> \in marked

LEMMA NextMarks == CanonicalizerTypeOK /\ MarkInv /\ [Next]_vars => MarkInv'
  <1> SUFFICES ASSUME CanonicalizerTypeOK, MarkInv, [Next]_vars PROVE MarkInv'
    OBVIOUS
  <1> USE DEF MarkInv, NothingIsPromoted
  <1>0. UNCHANGED proposal /\ Snapshot(FirstBest)' = Snapshot(FirstBest)
    BY DEF Next, Validate, Gate, AddEvidence, AddClaim, QuarantineClaim, AddChallenger, AddArgument,
           QuarantineArgument, SkipRevision, Supersede, QuarantineRevision, EndLoop, Check, Turn, vars, Snapshot
  <1>1. CASE UNCHANGED <<marked, versionOf>>
    BY <1>0, <1>1 DEF ChallengersOf
  <1>2. CASE AddChallenger
    <2> DEFINE h == proposal.challengers[at]
               node == IF h \in AttackTargets THEN Snapshot(h) ELSE <<h, 1>>
    <2>1. h \in ChallengersOf(proposal)
      <3>1. proposal.challengers \in Seq(Hypotheses) /\ at \in Nat \ {0} /\ at <= Len(proposal.challengers)
        BY <1>2, ListTypes, CanonicalizerAssumption DEF CanonicalizerTypeOK, AddChallenger, Turn
      <3>2. QED
        BY <3>1, ElementType DEF ChallengersOf
    <2>2. node[1] = h /\ versionOf' = [versionOf EXCEPT ![h] = node[2]] /\ marked' = marked \ {node}
      BY <1>2 DEF AddChallenger, Snapshot
    <2>3. Snapshot(FirstBest)[1] = FirstBest /\ <<FirstBest, versionOf[FirstBest]>>[1] = FirstBest
      BY DEF Snapshot
    <2> HIDE DEF node
    <2>4. FirstBest \notin ChallengersOf(proposal) =>
            /\ Snapshot(FirstBest) \in marked'
            /\ <<FirstBest, versionOf'[FirstBest]>> \in marked'
      BY <2>1, <2>2, <2>3, SnapshotTypes DEF CanonicalizerTypeOK
    <2>5. QED
      BY <1>0, <2>2, <2>4 DEF ChallengersOf
  <1>3. CASE Supersede
    <2> DEFINE r == proposal.revisions[at]
               old == <<r.of, versionOf[r.of]>>
               new == <<r.of, Version[r.replaces] + 1>>
    <2>1. r.of \in Hypotheses /\ versionOf' = [versionOf EXCEPT ![r.of] = Version[r.replaces] + 1]
      BY <1>3, SupersedeEffect
    <2>2. marked' = IF old \in marked THEN marked \cup {new} ELSE marked \ {new}
      BY <1>3 DEF Supersede
    <2>3. \A v \in marked' : v[1] = FirstBest
      BY <2>2
    <2>4. FirstBest \notin ChallengersOf(proposal) =>
            /\ Snapshot(FirstBest) \in marked'
            /\ <<FirstBest, versionOf'[FirstBest]>> \in marked'
      <3>1. CASE r.of = FirstBest
        BY <2>1, <2>2, <3>1 DEF CanonicalizerTypeOK
      <3>2. CASE r.of # FirstBest
        BY <2>1, <2>2, <3>2 DEF CanonicalizerTypeOK, Snapshot
      <3>3. QED
        BY <3>1, <3>2
    <2>5. QED
      BY <1>0, <2>3, <2>4 DEF ChallengersOf
  <1>4. QED
    BY <1>1, <1>2, <1>3, StepCases, IdleKeepsGraph DEF AddEvidence, AddClaim, AddArgument, graphVars

\* No sequence of challengers and revisions marks another hypothesis as the
\* current best (canonicalize).
THEOREM NoPromotion == Spec => []NothingIsPromoted
  <1>1. Init => MarkInv
    BY SnapshotTypes DEF Init, MarkInv, NothingIsPromoted, Snapshot
  <1>2. CanonicalizerTypeOK /\ MarkInv /\ [Next]_vars => MarkInv'
    BY NextMarks
  <1>3. MarkInv => NothingIsPromoted
    BY DEF MarkInv
  <1>4. QED
    BY <1>1, <1>2, <1>3, CanonicalizerTypes, PTL DEF Spec

-----------------------------------------------------------------------------
(* How far the loops are. *)

AfterArguments == {"revisions", "check", "quarantined", "canonical"}
AfterChallengers == {"arguments"} \cup AfterArguments
AfterClaims == {"challengers"} \cup AfterChallengers
AfterEvidence == {"claims"} \cup AfterClaims

EvidenceDone(i) == (stage = "evidence" /\ i < at) \/ stage \in AfterEvidence
ClaimDone(i) == (stage = "claims" /\ i < at) \/ stage \in AfterClaims
ChallengerDone(i) == (stage = "challengers" /\ i < at) \/ stage \in AfterChallengers
ArgumentDone(i) == (stage = "arguments" /\ i < at) \/ stage \in AfterArguments

\* The verdicts are given where they can be, and each loop starts at 1.
Progress ==
  /\ stage \in {"validate", "gate"} => at = 1
  /\ stage = "evidence" \/ stage \in AfterEvidence => Accepted(proposal)
  /\ stage = "canonical" => reasons = {}
  /\ stage = "quarantined" => reasons # {}

LEMMA StepKinds ==
  [Next]_vars =>
    \/ Validate \/ Gate \/ EndLoop \/ Check \/ UNCHANGED vars
    \/ \E loop \in Loops : Turn(loop)
  BY DEF Next, Loops, AddEvidence, AddClaim, QuarantineClaim, AddChallenger, AddArgument,
         QuarantineArgument, SkipRevision, Supersede, QuarantineRevision

LEMMA TurnActions ==
  ASSUME CanonicalizerTypeOK, [Next]_vars
  PROVE  /\ Turn("evidence") => AddEvidence
         /\ Turn("claims") => AddClaim \/ QuarantineClaim
         /\ Turn("challengers") => AddChallenger
         /\ Turn("arguments") => AddArgument \/ QuarantineArgument
         /\ Turn("revisions") => SkipRevision \/ Supersede \/ QuarantineRevision
  <1>1. ASSUME NEW loop, Turn(loop)
        PROVE  ~Validate /\ ~Gate /\ ~EndLoop /\ ~Check /\ ~UNCHANGED vars
    <2>1. stage' = stage /\ at' # at
      BY <1>1 DEF Turn, CanonicalizerTypeOK
    <2>2. Validate \/ Gate \/ Check \/ UNCHANGED vars => at' = at
      BY DEF Validate, Gate, Check, vars
    <2>3. EndLoop => stage' # stage
      BY DEF EndLoop, Following, Loops
    <2>4. QED
      BY <2>1, <2>2, <2>3
  <1>2. ASSUME NEW loop, NEW other, Turn(loop), Turn(other)
        PROVE  loop = other
    BY <1>2 DEF Turn
  <1>3. QED
    BY <1>1, <1>2 DEF Next, AddEvidence, AddClaim, QuarantineClaim, AddChallenger, AddArgument,
                      QuarantineArgument, SkipRevision, Supersede, QuarantineRevision

LEMMA NextProgress ==
  ASSUME CanonicalizerTypeOK, GraphInv, Progress, [Next]_vars
  PROVE  Progress' /\ proposal' = proposal
  <1>1. CASE Validate
    BY <1>1 DEF Validate, Progress, AfterEvidence, AfterClaims, AfterChallengers, AfterArguments
  <1>2. CASE Gate
    BY <1>2 DEF Gate, Progress, AfterEvidence, AfterClaims, AfterChallengers, AfterArguments
  <1>3. CASE \E loop \in Loops : Turn(loop)
    <2>1. stage \in Loops /\ stage' = stage /\ proposal' = proposal
      BY <1>3 DEF Turn
    <2>2. QED
      BY <2>1 DEF Progress, Loops
  <1>4. CASE EndLoop
    <2>1. stage \in Loops /\ stage' = Following[stage] /\ proposal' = proposal
      BY <1>4 DEF EndLoop
    <2>2. stage \in {"evidence"} \cup AfterEvidence /\ stage' \in {"claims", "challengers", "arguments", "revisions", "check"}
      BY <2>1 DEF Following, Loops, AfterEvidence, AfterClaims, AfterChallengers, AfterArguments
    <2>3. QED
      BY <2>1, <2>2 DEF Progress
  <1>5. CASE Check
    <2>1. stage \in AfterEvidence /\ proposal' = proposal /\ stage' \in {"canonical", "quarantined"}
      BY <1>5 DEF Check, AfterEvidence, AfterClaims, AfterChallengers, AfterArguments
    <2>2. (stage' = "canonical") <=> (reasons' = {})
      BY <1>5 DEF Check
    <2>3. QED
      BY <2>1, <2>2 DEF Progress
  <1>6. CASE UNCHANGED vars
    BY <1>6 DEF vars, Progress
  <1>7. QED
    BY <1>1, <1>2, <1>3, <1>4, <1>5, <1>6, StepKinds

\* An element becomes done in its own turn only.
LEMMA DoneInTurn ==
  ASSUME CanonicalizerTypeOK, Progress, [Next]_vars, NEW i \in Nat \ {0}
  PROVE  /\ i \in DOMAIN proposal.evidence /\ EvidenceDone(i)' => EvidenceDone(i) \/ (Turn("evidence") /\ i = at)
         /\ i \in DOMAIN proposal.claims /\ ClaimDone(i)' => ClaimDone(i) \/ (Turn("claims") /\ i = at)
         /\ i \in DOMAIN proposal.challengers /\ ChallengerDone(i)' => ChallengerDone(i) \/ (Turn("challengers") /\ i = at)
         /\ i \in DOMAIN proposal.arguments /\ ArgumentDone(i)' => ArgumentDone(i) \/ (Turn("arguments") /\ i = at)
  <1> USE DEF EvidenceDone, ClaimDone, ChallengerDone, ArgumentDone
  <1> USE DEF AfterEvidence, AfterClaims, AfterChallengers, AfterArguments
  <1>1. CASE Validate
    BY <1>1 DEF Validate
  <1>2. CASE Gate
    BY <1>2 DEF Gate, Progress
  <1>3. CASE \E loop \in Loops : Turn(loop)
    <2>1. PICK loop \in Loops : Turn(loop)
      BY <1>3
    <2>2. stage = loop /\ stage' = stage /\ at' = at + 1 /\ at \in Nat
      BY <2>1 DEF Turn, CanonicalizerTypeOK
    <2>3. QED
      BY <2>1, <2>2
  <1>4. CASE EndLoop
    <2>1. /\ i \in DOMAIN proposal.evidence => i <= Len(proposal.evidence)
          /\ i \in DOMAIN proposal.claims => i <= Len(proposal.claims)
          /\ i \in DOMAIN proposal.challengers => i <= Len(proposal.challengers)
          /\ i \in DOMAIN proposal.arguments => i <= Len(proposal.arguments)
      <3>1. proposal \in Bundles
        BY CanonicalizerAssumption DEF CanonicalizerTypeOK
      <3>2. ASSUME NEW S, NEW s \in Seq(S), i \in DOMAIN s PROVE i <= Len(s)
        BY <3>2
      <3>3. QED
        BY <3>1, <3>2, ListTypes
    <2>2. /\ stage = "evidence" => at > Len(proposal.evidence) /\ stage' = "claims"
          /\ stage = "claims" => at > Len(proposal.claims) /\ stage' = "challengers"
          /\ stage = "challengers" => at > Len(proposal.challengers) /\ stage' = "arguments"
          /\ stage = "arguments" => at > Len(proposal.arguments) /\ stage' = "revisions"
          /\ stage = "revisions" => stage' = "check"
      BY <1>4 DEF EndLoop, Following, Loops
    <2>3. /\ Len(proposal.evidence) \in Nat /\ Len(proposal.claims) \in Nat
          /\ Len(proposal.challengers) \in Nat /\ Len(proposal.arguments) \in Nat
      BY CanonicalizerAssumption, ListTypes DEF CanonicalizerTypeOK
    <2>4. stage \in Loops /\ at' = 1 /\ at \in Nat
      BY <1>4 DEF EndLoop, CanonicalizerTypeOK
    <2>5. QED
      BY <2>1, <2>2, <2>3, <2>4 DEF Loops
  <1>5. CASE Check
    BY <1>5 DEF Check
  <1>6. CASE UNCHANGED vars
    BY <1>6 DEF vars
  <1>7. QED
    BY <1>1, <1>2, <1>3, <1>4, <1>5, <1>6, StepKinds

\* What has a node keeps one.
LEMMA AliasesStay ==
  ASSUME CanonicalizerTypeOK, [Next]_vars
  PROVE  /\ \A a \in Artifacts : evidenceOf[a] # None => evidenceOf'[a] # None
         /\ \A c \in ClaimIds : claimOf[c] # NoClaim => claimOf'[c] # NoClaim
         /\ \A h \in Hypotheses : versionOf[h] # 0 => versionOf'[h] # 0
  <1>1. CASE Idle
    BY <1>1, IdleKeepsGraph DEF graphVars
  <1>2. CASE AddEvidence
    <2>1. proposal.evidence[at].source # None
      BY <1>2, AddEvidenceEffect, CanonicalizerAssumption
    <2>2. QED
      BY <1>2, <2>1 DEF AddEvidence, CanonicalizerTypeOK
  <1>3. CASE AddClaim
    <2> DEFINE key == [text |-> proposal.claims[at].text, sources |-> Lineage(proposal.claims[at])]
    <2>1. key # NoClaim
      BY <1>3, AddedKey DEF NoClaim
    <2> HIDE DEF key
    <2>2. claimOf' = [claimOf EXCEPT ![proposal.claims[at].id] = key] /\ UNCHANGED <<evidenceOf, versionOf>>
      BY <1>3 DEF AddClaim, key
    <2>3. QED
      BY <2>1, <2>2 DEF CanonicalizerTypeOK
  <1>4. CASE AddChallenger
    <2> DEFINE h == proposal.challengers[at]
               node == IF h \in AttackTargets THEN Snapshot(h) ELSE <<h, 1>>
    <2>1. node[2] \in Nat \ {0} /\ versionOf' = [versionOf EXCEPT ![h] = node[2]] /\ UNCHANGED <<evidenceOf, claimOf>>
      BY <1>4, AddChallengerEffect DEF AddChallenger
    <2> HIDE DEF node
    <2>2. QED
      BY <2>1 DEF CanonicalizerTypeOK
  <1>5. CASE AddArgument
    BY <1>5 DEF AddArgument
  <1>6. CASE Supersede
    <2>1. UNCHANGED <<evidenceOf, claimOf>>
      BY <1>6 DEF Supersede
    <2>2. QED
      BY <1>6, <2>1, SupersedeEffect DEF CanonicalizerTypeOK
  <1>7. QED
    BY <1>1, <1>2, <1>3, <1>4, <1>5, <1>6, StepCases

-----------------------------------------------------------------------------
(* What the gate saw contested is contested in the graph. *)

\* Until revisions come, a hypothesis of the snapshot has its version.
Unrevised ==
  stage \notin AfterArguments => \A h \in AttackTargets : versionOf[h] = Version[h]

HasEdge(a) == \E e \in edges.argued : e.stance = a.stance /\ e.to = Snapshot(a.target)

\* Unless something was quarantined, the arguments about the snapshot that
\* have had their turn left an edge.
ArgumentsHeld ==
  reasons = {} =>
    \A i \in DOMAIN proposal.arguments :
      ArgumentDone(i) /\ proposal.arguments[i].target \in AttackTargets => HasEdge(proposal.arguments[i])

ContestInv == GraphInv /\ Progress /\ Unrevised /\ ArgumentsHeld

LEMMA InitContest == Init => ContestInv
  <1> SUFFICES ASSUME Init PROVE ContestInv
    OBVIOUS
  <1> USE DEF AfterEvidence, AfterClaims, AfterChallengers, AfterArguments
  <1>1. Progress
    BY DEF Init, Progress
  <1>2. Unrevised
    BY SnapshotTypes DEF Init, Unrevised
  <1>3. ArgumentsHeld
    BY DEF Init, ArgumentsHeld, ArgumentDone
  <1>4. QED
    BY <1>1, <1>2, <1>3, InitGraph DEF ContestInv

LEMMA NextUnrevised ==
  ASSUME CanonicalizerTypeOK, Unrevised, [Next]_vars
  PROVE  Unrevised'
  <1> USE DEF AfterArguments
  <1>1. stage' \notin AfterArguments => stage \notin AfterArguments
    <2>1. CASE EndLoop
      <3>1. stage = "revisions" => stage' = "check"
        BY <2>1 DEF EndLoop, Following, Loops
      <3>2. QED
        BY <2>1, <3>1 DEF EndLoop, Loops
    <2>2. CASE Validate \/ Gate \/ Check \/ UNCHANGED vars \/ \E loop \in Loops : Turn(loop)
      BY <2>2 DEF Validate, Gate, Check, Turn, vars
    <2>3. QED
      BY <2>1, <2>2, StepKinds
  <1>2. CASE UNCHANGED versionOf
    BY <1>1, <1>2 DEF Unrevised
  <1>3. CASE AddChallenger
    <2> DEFINE h == proposal.challengers[at]
               node == IF h \in AttackTargets THEN Snapshot(h) ELSE <<h, 1>>
    <2>1. (h \in AttackTargets => node[2] = Version[h]) /\ versionOf' = [versionOf EXCEPT ![h] = node[2]]
      BY <1>3, AddChallengerEffect
    <2> HIDE DEF node
    <2>2. QED
      BY <1>1, <2>1, SnapshotTypes DEF Unrevised, CanonicalizerTypeOK
  <1>4. CASE Supersede
    BY <1>1, <1>4 DEF Supersede, Turn, Unrevised
  <1>5. QED
    BY <1>2, <1>3, <1>4, StepCases, IdleKeepsGraph DEF AddEvidence, AddClaim, AddArgument, graphVars

LEMMA ReasonsStay ==
  ASSUME [Next]_vars, reasons' = {}
  PROVE  reasons = {}
  <1>1. CASE Check
    <2>1. reasons \subseteq reasons'
      BY <1>1 DEF Check
    <2>2. QED
      BY <2>1
  <1>2. CASE QuarantineClaim \/ QuarantineArgument \/ QuarantineRevision
    BY <1>2 DEF QuarantineClaim, QuarantineArgument, QuarantineRevision, Quarantine
  <1>3. CASE UNCHANGED reasons
    BY <1>3
  <1>4. QED
    BY <1>1, <1>2, <1>3 DEF Next, Validate, Gate, AddEvidence, AddClaim, AddChallenger, AddArgument,
                            SkipRevision, Supersede, EndLoop, vars

LEMMA ArguedGrows ==
  ASSUME CanonicalizerTypeOK, [Next]_vars
  PROVE  edges.argued \subseteq edges'.argued
  <1>1. CASE Idle
    BY <1>1, IdleKeepsGraph DEF graphVars
  <1>2. QED
    BY <1>1, StepCases, AddEvidenceEffect, AddClaimEffect, AddChallengerEffect, AddArgumentEffect, SupersedeEffect

LEMMA NextHeld ==
  ASSUME CanonicalizerTypeOK, ContestInv, [Next]_vars
  PROVE  ArgumentsHeld'
  <1> USE DEF ContestInv
  <1> SUFFICES ASSUME reasons' = {}, NEW i \in DOMAIN proposal'.arguments, ArgumentDone(i)',
                      proposal'.arguments[i].target \in AttackTargets
               PROVE  HasEdge(proposal.arguments[i])'
    BY DEF ArgumentsHeld
  <1> DEFINE a == proposal.arguments[i]
  <1>1. proposal' = proposal /\ reasons = {} /\ edges.argued \subseteq edges'.argued
    BY NextProgress, ReasonsStay, ArguedGrows
  <1>2. i \in Nat \ {0} /\ a \in Arguments
    BY <1>1, CanonicalizerAssumption, ListTypes DEF CanonicalizerTypeOK
  <1>3. CASE ArgumentDone(i)
    <2>1. HasEdge(a)
      BY <1>1, <1>3 DEF ArgumentsHeld
    <2>2. QED
      BY <1>1, <2>1 DEF HasEdge, Snapshot
  <1>4. CASE Turn("arguments") /\ i = at
    <2>1. CASE QuarantineArgument
      <3>1. reasons' # {}
        BY <2>1 DEF QuarantineArgument, Quarantine
      <3>2. QED
        BY <3>1
    <2>2. CASE AddArgument
      <3>1. a.claims # {} /\ a.target \in AttackTargets
        BY <1>1, <1>2 DEF Arguments
      <3>2. PICK c \in a.claims : TRUE
        BY <3>1
      <3>3. versionOf[a.target] = Version[a.target]
        BY <1>4, <3>1 DEF Unrevised, Turn, AfterArguments
      <3> DEFINE e == [stance |-> a.stance, from |-> claimOf[c], to |-> <<a.target, versionOf[a.target]>>]
      <3>4. e \in edges'.argued
        BY <1>4, <2>2, <3>2, AddArgumentEffect
      <3>5. e.stance = a.stance /\ e.to = Snapshot(a.target)
        BY <3>3 DEF Snapshot
      <3> HIDE DEF e
      <3>6. QED
        BY <1>1, <3>4, <3>5 DEF HasEdge, Snapshot
    <2>3. QED
      BY <1>4, <2>1, <2>2, TurnActions
  <1>5. QED
    BY <1>1, <1>2, <1>3, <1>4, DoneInTurn

LEMMA NextContest == CanonicalizerTypeOK /\ ContestInv /\ [Next]_vars => ContestInv'
  BY NextGraph, NextProgress, NextUnrevised, NextHeld DEF ContestInv

LEMMA ContestIsEnough == CanonicalizerTypeOK /\ ContestInv => AcceptedIsContested
  <1> SUFFICES ASSUME CanonicalizerTypeOK, ContestInv, stage = "canonical",
                      NEW b \in Bests, NEW stance \in Stances
               PROVE  ContestsBest(b, stance)
    BY DEF AcceptedIsContested
  <1> USE DEF ContestInv
  <1>1. reasons = {} /\ Accepted(proposal)
    BY DEF Progress, AfterEvidence, AfterClaims, AfterChallengers, AfterArguments
  <1>2. b \in Contested(proposal, stance) /\ b \in AttackTargets
    BY <1>1 DEF Accepted, AttackTargets
  <1>3. PICK i \in DOMAIN proposal.arguments :
          proposal.arguments[i].stance = stance /\ proposal.arguments[i].target = b
    BY <1>2 DEF Contested, Range
  <1>4. HasEdge(proposal.arguments[i])
    BY <1>1, <1>2, <1>3 DEF ArgumentsHeld, ArgumentDone, AfterArguments
  <1>5. PICK e \in edges.argued : e.stance = stance /\ e.to = Snapshot(b)
    BY <1>3, <1>4 DEF HasEdge
  <1>6. e.from \in nodes.claims /\ e.from.sources # {}
    BY DEF GraphInv, EdgesAreAnchored, Anchored, CanonicalizerTypeOK, EdgeSets, ClaimKeys
  <1>7. PICK s \in e.from.sources : s \in nodes.evidence /\ [from |-> e.from, to |-> s] \in edges.derived
    BY <1>6 DEF GraphInv, Links
  <1>8. QED
    BY <1>5, <1>7 DEF ContestsBest

\* For any snapshot and any proposals: a graph that is not quarantined
\* supports and challenges every current best from evidence, so that the
\* competition the gate demands reaches the store.
THEOREM AcceptedContests == Spec => []AcceptedIsContested
  <1>1. CanonicalizerTypeOK /\ ContestInv /\ [Next]_vars => ContestInv'
    BY NextContest
  <1>2. QED
    BY <1>1, InitContest, ContestIsEnough, CanonicalizerTypes, PTL DEF Spec

-----------------------------------------------------------------------------
(* After screening there is one reason for a quarantine. *)

\* A revision supersedes what the proposal itself introduces.
SupersedesOwn ==
  \E r \in Range(proposal.revisions) :
    /\ r.action = "supersede"
    /\ r.replaces \in ChallengersOf(proposal) \ AttackTargets

\* What has had its turn has a node.
Resolved ==
  /\ \A i \in DOMAIN proposal.evidence :
       EvidenceDone(i) => evidenceOf[proposal.evidence[i].artifact] # None
  /\ \A i \in DOMAIN proposal.claims :
       ClaimDone(i) => claimOf[proposal.claims[i].id] # NoClaim
  /\ \A i \in DOMAIN proposal.challengers :
       ChallengerDone(i) => versionOf[proposal.challengers[i]] # 0

Screened ==
  /\ Valid(proposal)
  /\ Resolved
  /\ reasons \subseteq {"predecessor"}
  /\ reasons # {} => SupersedesOwn

ScreenInv ==
  /\ GraphInv /\ Progress
  /\ validated => Screened
  /\ stage \in {"validate", "gate"} => reasons = {}

\* In a valid proposal, nothing but a predecessor can be missing.
LEMMA ClaimResolves ==
  ASSUME CanonicalizerTypeOK, Screened
  PROVE  ~QuarantineClaim
  <1> SUFFICES ASSUME QuarantineClaim PROVE FALSE
    OBVIOUS
  <1> DEFINE c == proposal.claims[at]
  <1>1. proposal \in Bundles /\ c \in Range(proposal.claims) /\ stage = "claims"
    <2>1. at <= Len(proposal.claims) /\ stage = "claims"
      BY DEF QuarantineClaim, Turn
    <2>2. QED
      BY <2>1, CanonicalizerAssumption, ListTypes, ElementType DEF CanonicalizerTypeOK
  <1>2. c.dated /\ c.artifacts \subseteq ArtifactsOf(proposal)
    BY <1>1 DEF Screened, Valid, Unclear, Unsound
  <1>3. \A a \in c.artifacts : evidenceOf[a] # None
    <2> SUFFICES ASSUME NEW a \in c.artifacts PROVE evidenceOf[a] # None
      OBVIOUS
    <2>1. PICK i \in DOMAIN proposal.evidence : proposal.evidence[i].artifact = a
      BY <1>2 DEF ArtifactsOf, Range
    <2>2. EvidenceDone(i)
      BY <1>1 DEF EvidenceDone, AfterEvidence
    <2>3. QED
      BY <2>1, <2>2 DEF Screened, Resolved
  <1>4. None \notin Lineage(c)
    BY <1>3 DEF Lineage
  <1>5. QED
    BY <1>2, <1>4 DEF QuarantineClaim

LEMMA NamedResolves ==
  ASSUME CanonicalizerTypeOK, GraphInv, Screened, stage \in AfterChallengers, NEW h \in Named(proposal)
  PROVE  versionOf[h] # 0
  <1>1. CASE h \in Bests
    BY <1>1 DEF AttackTargets, GraphInv, Links
  <1>2. CASE h \in ChallengersOf(proposal)
    <2>1. PICK i \in DOMAIN proposal.challengers : proposal.challengers[i] = h
      BY <1>2 DEF ChallengersOf, Range
    <2>2. QED
      BY <2>1 DEF Screened, Resolved, ChallengerDone
  <1>3. QED
    BY <1>1, <1>2 DEF Named

LEMMA ArgumentResolves ==
  ASSUME CanonicalizerTypeOK, GraphInv, Screened
  PROVE  ~QuarantineArgument
  <1> SUFFICES ASSUME QuarantineArgument PROVE FALSE
    OBVIOUS
  <1> DEFINE a == proposal.arguments[at]
  <1>1. a \in Range(proposal.arguments) /\ stage = "arguments"
    <2>1. at <= Len(proposal.arguments) /\ stage = "arguments"
      BY DEF QuarantineArgument, Turn
    <2>2. QED
      BY <2>1, CanonicalizerAssumption, ListTypes, ElementType DEF CanonicalizerTypeOK
  <1>2. a.claims \subseteq ClaimsOf(proposal) /\ a.target \in Named(proposal)
    BY <1>1 DEF Screened, Valid, Unsound
  <1>3. versionOf[a.target] # 0
    BY <1>1, <1>2, NamedResolves DEF AfterChallengers
  <1>4. \A c \in a.claims : claimOf[c] # NoClaim
    <2> SUFFICES ASSUME NEW c \in a.claims PROVE claimOf[c] # NoClaim
      OBVIOUS
    <2>1. PICK i \in DOMAIN proposal.claims : proposal.claims[i].id = c
      BY <1>2 DEF ClaimsOf, Range
    <2>2. ClaimDone(i)
      BY <1>1 DEF ClaimDone, AfterClaims, AfterChallengers
    <2>3. QED
      BY <2>1, <2>2 DEF Screened, Resolved
  <1>5. QED
    BY <1>3, <1>4 DEF QuarantineArgument

LEMMA RevisionResolves ==
  ASSUME CanonicalizerTypeOK, GraphInv, Screened, QuarantineRevision
  PROVE  reasons' = reasons \cup {"predecessor"} /\ SupersedesOwn
  <1> DEFINE r == proposal.revisions[at]
  <1>1. r \in Range(proposal.revisions) /\ stage = "revisions" /\ r.action = "supersede"
    <2>1. at <= Len(proposal.revisions) /\ stage = "revisions" /\ r.action = "supersede"
      BY DEF QuarantineRevision, Turn
    <2>2. QED
      BY <2>1, CanonicalizerAssumption, ListTypes, ElementType DEF CanonicalizerTypeOK
  <1>2. r.of \in Named(proposal) /\ r.replaces \in Named(proposal)
    BY <1>1 DEF Screened, Valid, Unsound, Unclear
  <1>3. versionOf[r.of] # 0
    BY <1>1, <1>2, NamedResolves DEF AfterChallengers, AfterArguments
  <1>4. r.replaces \notin AttackTargets /\ reasons' = reasons \cup {"predecessor"}
    BY <1>3 DEF QuarantineRevision, Quarantine
  <1>5. QED
    BY <1>1, <1>2, <1>4 DEF SupersedesOwn, Named, AttackTargets

LEMMA NextReasons ==
  ASSUME CanonicalizerTypeOK, GraphInv, Screened, proposal' = proposal, [Next]_vars
  PROVE  /\ reasons' \subseteq {"predecessor"}
         /\ reasons' # {} => SupersedesOwn'
  <1>1. CASE QuarantineRevision
    BY <1>1, RevisionResolves DEF Screened, SupersedesOwn, ChallengersOf
  <1>2. CASE Check
    <2>1. reasons' = reasons
      BY <1>2 DEF Check, GraphInv, EdgesAreAnchored
    <2>2. QED
      BY <2>1 DEF Screened, SupersedesOwn, ChallengersOf
  <1>3. CASE UNCHANGED reasons
    BY <1>3 DEF Screened, SupersedesOwn, ChallengersOf
  <1>4. QED
    BY <1>1, <1>2, <1>3, ClaimResolves, ArgumentResolves
       DEF Next, Validate, Gate, AddEvidence, AddClaim, AddChallenger, AddArgument,
           SkipRevision, Supersede, EndLoop, vars

LEMMA NextResolved ==
  ASSUME CanonicalizerTypeOK, GraphInv, Progress, Screened, proposal' = proposal, [Next]_vars
  PROVE  Resolved'
  <1>1. proposal \in Bundles
    BY CanonicalizerAssumption DEF CanonicalizerTypeOK
  <1>2. ASSUME NEW i \in DOMAIN proposal.evidence, EvidenceDone(i)'
        PROVE  evidenceOf'[proposal.evidence[i].artifact] # None
    <2>1. i \in Nat \ {0} /\ proposal.evidence[i].artifact \in Artifacts
      <3>1. proposal.evidence \in Seq(Evidence)
        BY <1>1, ListTypes
      <3>2. i \in Nat \ {0} /\ proposal.evidence[i] \in Evidence
        BY <3>1
      <3>3. QED
        BY <3>2 DEF Evidence
    <2>2. CASE EvidenceDone(i)
      BY <2>1, <2>2, AliasesStay DEF Screened, Resolved
    <2>3. CASE Turn("evidence") /\ i = at
      <3>1. AddEvidence
        BY <2>3, TurnActions
      <3>2. proposal.evidence[i].source # None
        BY <2>3, <3>1, AddEvidenceEffect, CanonicalizerAssumption
      <3>3. QED
        BY <2>1, <2>3, <3>1, <3>2 DEF AddEvidence, CanonicalizerTypeOK
    <2>4. QED
      BY <1>2, <2>1, <2>2, <2>3, DoneInTurn
  <1>3. ASSUME NEW i \in DOMAIN proposal.claims, ClaimDone(i)'
        PROVE  claimOf'[proposal.claims[i].id] # NoClaim
    <2>1. i \in Nat \ {0} /\ proposal.claims[i].id \in ClaimIds
      <3>1. proposal.claims \in Seq(Claims)
        BY <1>1, ListTypes
      <3>2. i \in Nat \ {0} /\ proposal.claims[i] \in Claims
        BY <3>1
      <3>3. QED
        BY <3>2 DEF Claims
    <2>2. CASE ClaimDone(i)
      BY <2>1, <2>2, AliasesStay DEF Screened, Resolved
    <2>3. CASE Turn("claims") /\ i = at
      <3>1. AddClaim
        BY <2>3, TurnActions, ClaimResolves
      <3> DEFINE key == [text |-> proposal.claims[at].text, sources |-> Lineage(proposal.claims[at])]
      <3>2. key # NoClaim
        BY <3>1, AddedKey DEF NoClaim
      <3>3. claimOf' = [claimOf EXCEPT ![proposal.claims[i].id] = key]
        BY <2>3, <3>1 DEF AddClaim
      <3> HIDE DEF key
      <3>4. QED
        BY <2>1, <3>2, <3>3 DEF CanonicalizerTypeOK
    <2>4. QED
      BY <1>3, <2>1, <2>2, <2>3, DoneInTurn
  <1>4. ASSUME NEW i \in DOMAIN proposal.challengers, ChallengerDone(i)'
        PROVE  versionOf'[proposal.challengers[i]] # 0
    <2>1. i \in Nat \ {0} /\ proposal.challengers[i] \in Hypotheses
      BY <1>1, ListTypes
    <2>2. CASE ChallengerDone(i)
      BY <2>1, <2>2, AliasesStay DEF Screened, Resolved
    <2>3. CASE Turn("challengers") /\ i = at
      <3>1. AddChallenger
        BY <2>3, TurnActions
      <3> DEFINE node == IF proposal.challengers[at] \in AttackTargets
                         THEN Snapshot(proposal.challengers[at]) ELSE <<proposal.challengers[at], 1>>
      <3>2. node[2] # 0 /\ versionOf' = [versionOf EXCEPT ![proposal.challengers[i]] = node[2]]
        BY <2>3, <3>1, AddChallengerEffect
      <3> HIDE DEF node
      <3>3. QED
        BY <2>1, <3>2 DEF CanonicalizerTypeOK
    <2>4. QED
      BY <1>4, <2>1, <2>2, <2>3, DoneInTurn
  <1>5. QED
    BY <1>2, <1>3, <1>4 DEF Resolved

LEMMA NextScreen == CanonicalizerTypeOK /\ ScreenInv /\ [Next]_vars => ScreenInv'
  <1> SUFFICES ASSUME CanonicalizerTypeOK, ScreenInv, [Next]_vars PROVE ScreenInv'
    OBVIOUS
  <1> USE DEF ScreenInv
  <1>1. GraphInv' /\ Progress' /\ proposal' = proposal
    BY NextGraph, NextProgress
  <1>2. stage' \in {"validate", "gate"} => reasons' = {}
    <2>1. CASE Validate
      BY <2>1 DEF Validate
    <2>2. CASE Gate \/ Check
      BY <2>2 DEF Gate, Check
    <2>3. CASE EndLoop
      BY <2>3 DEF EndLoop, Following, Loops
    <2>4. CASE \E loop \in Loops : Turn(loop)
      BY <2>4 DEF Turn, Loops
    <2>5. CASE UNCHANGED vars
      BY <2>5 DEF vars
    <2>6. QED
      BY <2>1, <2>2, <2>3, <2>4, <2>5, StepKinds
  <1>3. validated' => Screened'
    <2>1. CASE Validate
      <3>1. reasons' = {} /\ stage' \notin {"evidence"} \cup AfterEvidence
        BY <2>1 DEF Validate, AfterEvidence, AfterClaims, AfterChallengers, AfterArguments
      <3>2. Resolved'
        BY <3>1 DEF Resolved, EvidenceDone, ClaimDone, ChallengerDone,
                    AfterEvidence, AfterClaims, AfterChallengers, AfterArguments
      <3>3. validated' => Valid(proposal')
        BY <1>1, <2>1 DEF Validate
      <3>4. QED
        BY <3>1, <3>2, <3>3 DEF Screened
    <2>2. CASE UNCHANGED validated
      <3> SUFFICES ASSUME validated PROVE Screened'
        BY <2>2
      <3>1. Screened
        OBVIOUS
      <3>2. Valid(proposal')
        BY <1>1, <3>1 DEF Screened
      <3>3. Resolved'
        BY <1>1, <3>1, NextResolved
      <3>4. reasons' \subseteq {"predecessor"} /\ (reasons' # {} => SupersedesOwn')
        BY <1>1, <3>1, NextReasons
      <3>5. QED
        BY <3>2, <3>3, <3>4 DEF Screened
    <2>3. QED
      BY <2>1, <2>2, StepKinds DEF Gate, EndLoop, Check, vars, Turn
  <1>4. QED
    BY <1>1, <1>2, <1>3

LEMMA ScreenIsEnough == ScreenInv => ScreenedIsCanonical
  BY DEF ScreenInv, Screened, Progress, SupersedesOwn, ScreenedIsCanonical

\* For any snapshot and any proposals: what validator and gate let through
\* is quarantined for the supersession of an own challenger only.
THEOREM ScreeningSuffices == Spec => []ScreenedIsCanonical
  <1>1. Init => ScreenInv
    <2>1. Init => Progress /\ reasons = {} /\ ~validated
      BY InitContest DEF ContestInv, Init
    <2>2. QED
      BY <2>1, InitGraph DEF ScreenInv
  <1>2. CanonicalizerTypeOK /\ ScreenInv /\ [Next]_vars => ScreenInv'
    BY NextScreen
  <1>3. QED
    BY <1>1, <1>2, ScreenIsEnough, CanonicalizerTypes, PTL DEF Spec

=============================================================================
