------------------------------- MODULE Proposal -------------------------------
(***************************************************************************)
(* A proposal bundle, and the two layers that screen it before its graph   *)
(* is made: the runtime's ProposalValidator, which decides whether a final *)
(* message is taken, sent back for repair or quarantined, and the          *)
(* orchestrator's competition gate, which decides whether a proposal       *)
(* contests the topic's current best hypotheses.                           *)
(*                                                                         *)
(* The lists are sequences, as their order and repetitions matter.  Of the *)
(* text only this is kept: whether a claim's temporal scope matches the    *)
(* pattern that the validator and the canonicalizer share (dated), and     *)
(* whether some field holds a citation placeholder.                        *)
(***************************************************************************)
EXTENDS Naturals, Sequences, Functions

CONSTANTS
  Artifacts,   \* ids a proposal gives to its evidence
  Sources,     \* kind and url of a piece of evidence
  ClaimIds,
  Texts,       \* normalised text and scope of a claim
  Hypotheses,  \* hypothesis ids
  Bests,       \* the snapshot's current best hypotheses
  FirstBest,   \* the first of them
  Targets,     \* the snapshot's challenger targets
  Retained,    \* artifacts that outlived the compaction of the context, if any
  None

ASSUME SnapshotAssumption ==
  /\ FirstBest \in Bests
  /\ Bests \cup Targets \subseteq Hypotheses
  /\ None \notin Hypotheses

AttackTargets == Bests \cup Targets

Stances == {"support", "challenge"}

Evidence == [artifact : Artifacts, source : Sources]
Claims == [id : ClaimIds, text : Texts, dated : BOOLEAN,
           artifacts : (SUBSET Artifacts) \ {{}}]
Arguments == [stance : Stances, target : Hypotheses, claims : (SUBSET ClaimIds) \ {{}}]
Revisions == [action : {"strengthen", "weaken", "retire", "supersede"},
              of : Hypotheses, replaces : Hypotheses \cup {None}]

\* reconciles: an active conflict is assessed as reconciled or escalated.
Bundles ==
  [evidence : Seq(Evidence), claims : Seq(Claims), arguments : Seq(Arguments),
   challengers : Seq(Hypotheses), revisions : Seq(Revisions),
   reconciles : BOOLEAN, placeholder : BOOLEAN]

ArtifactsOf(p) == {e.artifact : e \in Range(p.evidence)}
ClaimsOf(p) == {c.id : c \in Range(p.claims)}
ChallengersOf(p) == Range(p.challengers)

-----------------------------------------------------------------------------
(* ProposalValidator.validate_text, once the bundle has been parsed. *)

\* What an argument or a revision may name: not the challenger targets.
Named(p) == Bests \cup ChallengersOf(p)

\* Mutant: the validator's pattern takes any scope.
UnclearButForScopes(p) ==
  \E r \in Range(p.revisions) : r.action = "supersede" /\ r.replaces = None

\* Repairable violations.
Unclear(p) ==
  \/ \E c \in Range(p.claims) : ~c.dated
  \/ \E r \in Range(p.revisions) : r.action = "supersede" /\ r.replaces = None

Repeats(p) ==
  \/ \E i, j \in DOMAIN p.evidence : i # j /\ p.evidence[i].artifact = p.evidence[j].artifact
  \/ \E i, j \in DOMAIN p.claims : i # j /\ p.claims[i].id = p.claims[j].id
  \/ ~IsInjective(p.challengers)

\* The violations that no repair prompt may mend.
Unsound(p) ==
  \/ Repeats(p)
  \/ \E c \in Range(p.claims) : ~(c.artifacts \subseteq ArtifactsOf(p))
  \/ \E a \in Range(p.arguments) : ~(a.claims \subseteq ClaimsOf(p)) \/ a.target \notin Named(p)
  \/ \E r \in Range(p.revisions) : r.of \notin Named(p) \/ r.replaces \notin Named(p) \cup {None}
  \/ ~(ArtifactsOf(p) \subseteq Retained)
  \/ p.placeholder

Valid(p) == ~Unclear(p) /\ ~Unsound(p)
Repairable(p) == Unclear(p) /\ ~Unsound(p)

-----------------------------------------------------------------------------
(* RunOrchestrator.validate_proposal_for_competition, whose requirements   *)
(* build_frontier_selection_input and build_run_intent always switch on.   *)

\* claims_by_id keeps the last claim of an id.
IsLastOfItsId(p, i) ==
  \A j \in DOMAIN p.claims : j > i => p.claims[j].id # p.claims[i].id

\* Arguments about the frontier rest on declared claims, and these on
\* declared evidence.
Grounded(p) ==
  \A a \in {x \in Range(p.arguments) : x.target \in AttackTargets} :
    /\ a.claims \subseteq ClaimsOf(p)
    /\ \A i \in DOMAIN p.claims :
         p.claims[i].id \in a.claims /\ IsLastOfItsId(p, i)
           => p.claims[i].artifacts \subseteq ArtifactsOf(p)

Contested(p, stance) ==
  {b \in Bests : \E a \in Range(p.arguments) : a.stance = stance /\ a.target = b}

\* _revision_targets_attack_frontier
Presses(r) ==
  \/ r.action \in {"weaken", "retire", "supersede"} /\ r.of \in AttackTargets
  \/ r.action = "supersede" /\ r.replaces \in AttackTargets

\* Mutant: one contested best is enough.
AcceptedForOne(p) ==
  /\ Grounded(p)
  /\ \A stance \in Stances : Contested(p, stance) # {}
  /\ p.challengers # <<>>
  /\ p.reconciles \/ \E r \in Range(p.revisions) : Presses(r)

Accepted(p) ==
  /\ Grounded(p)
  /\ \A stance \in Stances : Contested(p, stance) = Bests
  /\ p.challengers # <<>>
  /\ p.reconciles \/ \E r \in Range(p.revisions) : Presses(r)

-----------------------------------------------------------------------------
\* The proposal that LocalProposalRunExecutor writes itself, with the ids
\* that it derives from the run's: no validator sees it.  It contests the
\* first current best only.
LocalProposal(artifact, source, claim, text, challenger, escalates) ==
  [evidence    |-> <<[artifact |-> artifact, source |-> source]>>,
   claims      |-> <<[id |-> claim, text |-> text, dated |-> TRUE, artifacts |-> {artifact}]>>,
   arguments   |-> <<[stance |-> "support", target |-> FirstBest, claims |-> {claim}],
                     [stance |-> "challenge", target |-> FirstBest, claims |-> {claim}]>>,
   challengers |-> <<challenger>>,
   revisions   |-> <<[action |-> "weaken", of |-> FirstBest, replaces |-> None]>>,
   reconciles  |-> escalates,
   placeholder |-> FALSE]

=============================================================================
