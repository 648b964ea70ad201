SPECIFICATION Spec
CONSTANTS
  Projects <- AllProjects
  KeysWithImage <- Images
INVARIANTS RefersToSavedProgram GeneratedVariablesAreFed StartValuesAreKept KeysAreServed ConversionFailsOnlyFor
