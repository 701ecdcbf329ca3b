\* Up to three builds in one OUT_DIR, interrupted anywhere; and every way to find GMP.
CONSTANTS
  Sites <- MCSites
  Trees <- MCTrees
  MaxEdits = 1
SPECIFICATION Spec
INVARIANTS LibraryIsCurrent OutcomeIsJustified
