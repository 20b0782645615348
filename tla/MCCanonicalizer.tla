--------------------------- MODULE MCCanonicalizer ---------------------------
(***************************************************************************)
(* Model-checking instance of Canonicalizer: a snapshot with two current   *)
(* bests and a challenger target, and every bundle made of some lists of   *)
(* evidence, claims, arguments, challengers and of up to two revisions.    *)
(***************************************************************************)
EXTENDS Canonicalizer

CONSTANTS a1, a2, a3, s1, s2, c1, c2, text, best, second, target, rival, other, foreign

OneVersion == [h \in AttackTargets |-> 1]

Ev(a, s) == [artifact |-> a, source |-> s]
Cl(c, arts, dated) == [id |-> c, text |-> text, dated |-> dated, artifacts |-> arts]
Arg(s, h, cs) == [stance |-> s, target |-> h, claims |-> cs]
Rev(action, h, replaced) == [action |-> action, of |-> h, replaces |-> replaced]

\* One source under two ids, one id twice, evidence lost by the compaction.
EvidenceLists ==
  {<<Ev(a1, s1)>>, <<Ev(a1, s1), Ev(a2, s1)>>, <<Ev(a1, s1), Ev(a2, s2)>>,
   <<Ev(a1, s1), Ev(a1, s2)>>, <<Ev(a1, s1), Ev(a3, s2)>>}

\* Repeated ids, missing evidence, a scope that is not canonical.
ClaimLists ==
  {<<Cl(c1, {a1}, TRUE)>>, <<Cl(c1, {a1}, TRUE), Cl(c2, {a1, a2}, TRUE)>>,
   <<Cl(c1, {a2}, TRUE), Cl(c1, {a1}, TRUE)>>, <<Cl(c1, {a1}, TRUE), Cl(c2, {a1}, FALSE)>>}

\* Both sides of both bests, and then some, or less.
BothSides == <<Arg("support", best, {c1}), Arg("challenge", best, {c1}),
               Arg("support", second, {c1}), Arg("challenge", second, {c1, c2})>>
OneClaim  == [BothSides EXCEPT ![4].claims = {c1}]

ArgumentLists ==
  {BothSides, OneClaim, SubSeq(OneClaim, 1, 3)}
    \cup {Append(OneClaim, Arg("challenge", h, {c1})) : h \in {target, rival, foreign}}

ChallengerLists == {<<>>, <<rival>>, <<best>>, <<target, rival>>, <<rival, other>>, <<rival, rival>>}

SomeRevisions ==
  {Rev("weaken", best, None), Rev("supersede", rival, best), Rev("supersede", best, best),
   Rev("supersede", rival, target), Rev("supersede", best, rival), Rev("supersede", second, None),
   Rev("supersede", other, second)}

RevisionLists ==
  {<<>>} \cup {<<r>> : r \in SomeRevisions} \cup {<<q, r>> : q, r \in SomeRevisions}

Products ==
  [evidence : EvidenceLists, claims : ClaimLists, arguments : ArgumentLists,
   challengers : ChallengerLists, revisions : RevisionLists,
   reconciles : {FALSE}, placeholder : {FALSE}]

Sound == CHOOSE p \in Products : p.revisions = <<>> /\ p.challengers = <<rival>>

SomeProposals ==
  Products
    \cup {[Sound EXCEPT !.reconciles = TRUE, !.placeholder = held] : held \in BOOLEAN}
    \cup {LocalProposal(a1, s1, c1, text, rival, escalates) : escalates \in BOOLEAN}

=============================================================================
