SPECIFICATION Spec
INVARIANTS
  
  StoreSurvives
  
  
  
  EditorIsTrue
  DumpsAreTrue
  AnswersAreTrue
  SettingsAreTrue
PROPERTIES
  WritesWhatWasSeen
  DeletesWhatWasMarked
  FormsAreTrue
CHECK_DEADLOCK FALSE
