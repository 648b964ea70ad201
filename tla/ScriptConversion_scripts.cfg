CONSTANTS
  NumberTexts <- MCNumberTexts
  SpriteNames = {"Cat"}
  ThisSprite = "Stage"
  ListNames = {"items"}
  VariableNames = {"v"}
  SoundNames = {"pop"}
  LookNames = {"look1"}
  LookCount = 2
  OwnLookCount = 2
  IsStage = TRUE
  Scripts <- MCScripts
  Formats <- MCFormats
SPECIFICATION Spec
INVARIANTS LoopsAreClosed ResultMatchesRecursion UnsupportedLeavesNote WalkRebuildsScript AbortsOnlyFor FactorsGetBrackets LooksAreCounted
