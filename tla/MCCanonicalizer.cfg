CONSTANTS
  a1 = a1
  a2 = a2
  a3 = a3
  s1 = s1
  s2 = s2
  c1 = c1
  c2 = c2
  text = text
  best = best
  second = second
  target = target
  rival = rival
  other = other
  foreign = foreign
  None = None
  Artifacts = {a1, a2, a3}
  Sources = {s1, s2}
  ClaimIds = {c1, c2}
  Texts = {text}
  Hypotheses = {best, second, target, rival, other, foreign}
  Bests = {best, second}
  FirstBest = best
  Targets = {target}
  Retained = {a1, a2}
  Proposals <- SomeProposals
  Version <- OneVersion
SPECIFICATION Spec
INVARIANTS
  CanonicalizerTypeOK
  EdgesAreAnchored
  AcceptedIsContested
  ScreenedIsCanonical
  NothingIsPromoted
CHECK_DEADLOCK FALSE
