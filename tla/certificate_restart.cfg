SPECIFICATION Spec
CONSTANT None = None
INVARIANT AutoCreateSurvivesRestart
