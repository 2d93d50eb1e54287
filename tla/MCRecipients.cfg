SPECIFICATION Spec
CONSTANTS
  a1 = a1
  a2 = a2
  k1 = k1
  k2 = k2
  Keys = {k1, k2}
  Typos = {typo}
  Artifacts = {secret, bundle}
  Secrets = {secret}
  Actors = {a1, a2}
  Identity <- MCIdentity
  Overlap = FALSE
  None = None
  Cut = Cut
  MaxCrashes = 1
INVARIANT RecipientSafety
PROPERTY ReadersKept
