\* Two turns of the timer and three runs of the effect.
SPECIFICATION FairSpec
CONSTANTS
  Selections <- SomeSelections
  Interval = 2
  None = None
  MaxEffects = 3
  MaxTime = 4
\* The clock and the effects of a run are bounded.
CHECK_DEADLOCK FALSE
INVARIANTS
  IInv
PROPERTIES
  AnswersOfTheSelectionOnly
  GoesBackOnlyIfSlow
  SelectionIsShown
