---------------------------- MODULE BrickConversion ----------------------------
(***************************************************************************)
(* What one Scratch block becomes in Catrobat: _converted_script_element   *)
(* of converter.py with its handlers and its regular conversion.  The      *)
(* arguments are what the block's own arguments became: values, formula    *)
(* elements, bricks, lists of bricks, or unmapped blocks.  A conversion    *)
(* gives a sequence of them, or Fail where the code raises an exception,   *)
(* which puts one note in the place of the block and of all it holds.      *)
(* Numbers are integers here, names of looks are unique, and the call of a *)
(* custom block is not modelled.                                           *)
(***************************************************************************)
EXTENDS Integers, SequencesExt, ScratchCode

CONSTANTS ListNames, VariableNames, SoundNames, LookNames,    \* what the sprite's project defines
          LookCount, OwnLookCount,             \* the number of looks of the background, and of the sprite
          IsStage                              \* whether the sprite is the background itself

ASSUME BrickAssumption ==
  {LookCount, OwnLookCount} \subseteq Nat \ {0} /\ IsStage \in BOOLEAN /\ (IsStage => OwnLookCount = LookCount)

Formula(name, args) == Node("formula", name, args)
Brick(name, args)   == Node("brick", name, args)
BrickList(bricks)   == Node("list", "", bricks)
Unmapped(name)      == Node("unmapped", name, <<>>)
Note                == Brick("Note", <<>>)

IsFormula(n)  == n.k = "formula"
IsBrick(n)    == n.k = "brick"
IsUnmapped(n) == n.k = "unmapped"

Zero == Formula("number", <<Num("0")>>)    \* a formula element

Fail == <<Node("fail", "", <<>>)>>
Only(cond, result) == IF cond THEN result ELSE Fail

\* create_formula_with_value takes numbers, texts and formula elements, and asserts that it got one.
IsValue(n)   == n.k \in {"num", "str", "formula"}
AreValues(args) == \A i \in DOMAIN args : IsValue(args[i])

-------------------------------------------------------------------------------
\* The rows of complete_mapping that name an enumeration constant: sensors, operators and functions.
Sensors == {"xpos", "ypos", "heading", "scale", "mousePressed", "mouseX", "mouseY", "sceneName", "costumeName",
            "backgroundIndex", "costumeIndex"}
EnumFunctions == MathFunctions \ {"10 ^"}
EnumNames == Sensors \union EnumFunctions \union MathBinary \union {"not"}

\* _regular_block_conversion of such a row: formula_element_for takes two operands and no more.  A false operand is the
\* number 0, None an operand that is not there, and a brick or a list none at all.
Operand(n) == IF n = False THEN Num("0") ELSE n
EnumFormula(name, args) ==
  LET used    == SubSeq(args, 1, IF Len(args) < 2 THEN Len(args) ELSE 2)
      present == SelectSeq(used, LAMBDA n : n # Null)
      fits    == \A i \in DOMAIN used : IsValue(used[i]) \/ used[i] \in {False, Null}
      isUnary == Len(used) >= 1 /\ used[1] # Null /\ (Len(used) = 2 => used[2] = Null)
  IN Only(fits /\ (name = "not" => isUnary), <<Formula(name, [i \in DOMAIN present |-> Operand(present[i])])>>)

\* The formula of a helper call: both operands are values here.
Op(name, x, y) == Formula(name, <<x, y>>)

\* The reporters with a handler of their own.
TimesAndDates == {"second", "minute", "hour", "day of week", "date", "month", "year"}
LineCount(list) == Formula("lineCountOfList:", <<list>>)
IsListName(n)   == IsStr(n) /\ n.t \in ListNames
Position(n, list) ==
  CASE n = Str("last")   -> LineCount(list)
    [] n = Str("random") -> Op("randomFrom:to:", Num("1"), LineCount(list))
    [] OTHER             -> n

HandledReporters == {"()", "10 ^", "readVariable", "getParam", "answer", "soundLevel", "touching:", "timeAndDate",
                     "lineCountOfList:", "contentsOfList:", "list:contains:", "getLine:ofList:",
                     "stringLength:", "letter:of:", "concatenate:with:"}
ReporterFormula(name, args) ==
  CASE name = "()"               -> Only(Len(args) = 1 /\ IsFormula(args[1]), <<Formula("()", args)>>)
    [] name = "10 ^"             -> Only(Len(args) = 1 /\ IsValue(args[1]),
                                         <<Formula("rounded", <<Formula("e^", <<Op("*", args[1], Formula("ln", <<Num("10")>>))>>)>>)>>)
    [] name = "readVariable"     -> Only(Len(args) = 1, <<Formula(name, args)>>)
    [] name = "getParam"         -> Only(Len(args) = 2, <<Formula("readVariable", <<args[1]>>)>>)
    [] name = "answer"           -> <<Formula("readVariable", <<Str("answer_var")>>)>>
    [] name = "soundLevel"       -> <<Formula(name, <<>>)>>
    [] name = "touching:"        -> Only(Len(args) >= 1 /\ (IsStr(args[1]) \/ args[1] = Null), <<Formula(name, <<args[1]>>)>>)
    [] name = "timeAndDate"      -> Only(Len(args) = 1,
                                         IF args[1] \notin {Str(t) : t \in TimesAndDates} THEN <<Note>>
                                         ELSE IF args[1] = Str("day of week") THEN <<Op("+", Formula(name, args), Num("1"))>>
                                         ELSE <<Formula(name, args)>>)
    [] name = "lineCountOfList:" -> Only(Len(args) = 1 /\ IsListName(args[1]), <<LineCount(args[1])>>)
    [] name = "contentsOfList:"  -> Only(Len(args) >= 1 /\ IsListName(args[1]), <<Formula(name, <<args[1]>>)>>)
    [] name = "list:contains:"   -> Only(Len(args) = 2 /\ IsListName(args[1]) /\ IsValue(args[2]), <<Formula(name, args)>>)
    [] name = "getLine:ofList:"  -> Only(Len(args) = 2 /\ IsListName(args[2]) /\ IsValue(args[1]),
                                         <<Formula(name, <<Position(args[1], args[2]), args[2]>>)>>)
    [] name = "stringLength:"    -> Only(Len(args) = 1 /\ AreValues(args), <<Formula(name, args)>>)
    [] name \in {"letter:of:", "concatenate:with:"} -> Only(Len(args) = 2 /\ AreValues(args), <<Formula(name, args)>>)

-------------------------------------------------------------------------------
\* The bricks that take just values, by how many.
NoValue   == {"bounceOffEdge", "nextCostume", "nextScene", "filterReset", "show", "hide", "comeToFront", "stopAllSounds",
              "deleteClone", "putPenDown", "putPenUp", "stampCostume", "clearPenTrails"}
OneValue  == {"wait:elapsed:from:", "doWaitUntil", "turnRight:", "turnLeft:", "heading:", "forward:", "changeXposBy:",
              "changeYposBy:", "xpos:", "ypos:", "changeSizeBy:", "setSizeTo:", "goBackByLayers:", "changeVolumeBy:", "setVolumeTo:",
              "say:", "think:", "doAsk"}
TwoValues == {"gotoX:y:", "say:duration:elapsed:from:", "think:duration:elapsed:from:"}
PlainBricks ==
  [name \in NoValue \union OneValue \union TwoValues \union {"glideSecs:toX:y:elapsed:from:"} |->
     IF name \in NoValue THEN 0 ELSE IF name \in OneValue THEN 1 ELSE IF name \in TwoValues THEN 2 ELSE 3]
\* A brick made by its class takes false for 0; the others make a formula of it first, which is refused.
MadeByClass == {"turnRight:", "turnLeft:", "heading:", "forward:", "changeXposBy:", "changeYposBy:", "xpos:", "ypos:",
                "changeSizeBy:", "setSizeTo:", "goBackByLayers:", "changeVolumeBy:", "setVolumeTo:", "gotoX:y:",
                "glideSecs:toX:y:elapsed:from:"}
PlainBrick(name, args) ==
  LET fits == \A i \in DOMAIN args : IsValue(args[i]) \/ (name \in MadeByClass /\ args[i] = False)
  IN Only(Len(args) = PlainBricks[name] /\ fits, <<Brick(name, [i \in DOMAIN args |-> Operand(args[i])])>>)

\* Loops and branches: the start brick, the bricks of the body, the end brick.  Only some of them accept a body of None.
IsBody(n)        == n.k = "list"
IsBodyOrNone(n)  == IsBody(n) \/ n = Null

\* Mutant: the end of a conditional loop is forgotten.
LoopBricks_Unclosed(name, args) ==
  CASE name = "doForever" -> Only(Len(args) = 1 /\ IsBodyOrNone(args[1]),
                                  <<Brick(name, <<>>)>> \o args[1].a \o <<Brick("LoopEnd", <<>>)>>)
    [] OTHER -> Only(Len(args) = 2 /\ IsValue(args[1]) /\ IsBody(args[2]), <<Brick(name, <<args[1]>>)>> \o args[2].a)

LoopBricks(name, args) ==                           \* doForever, doRepeat, doUntil
  CASE name = "doForever" -> Only(Len(args) = 1 /\ IsBodyOrNone(args[1]),
                                  <<Brick(name, <<>>)>> \o args[1].a \o <<Brick("LoopEnd", <<>>)>>)
    [] OTHER -> Only(Len(args) = 2 /\ IsValue(args[1]) /\ IsBody(args[2]),
                     <<Brick(name, <<args[1]>>)>> \o args[2].a \o <<Brick("LoopEnd", <<>>)>>)

BranchBricks(name, args) ==                         \* doIf, doIfElse
  CASE name = "doIf"     -> Only(Len(args) = 2 /\ IsValue(args[1]) /\ IsBodyOrNone(args[2]),
                                 <<Brick(name, <<args[1]>>)>> \o args[2].a \o <<Brick("IfEnd", <<>>)>>)
    [] name = "doIfElse" -> Only(Len(args) = 3 /\ IsValue(args[1]) /\ IsBodyOrNone(args[2]) /\ IsBodyOrNone(args[3]),
                                 <<Brick(name, <<args[1]>>)>> \o args[2].a \o <<Brick("Else", <<>>)>> \o args[3].a
                                   \o <<Brick("IfEnd", <<>>)>>)
LoopNames == {"doForever", "doRepeat", "doUntil"}
BranchNames == {"doIf", "doIfElse"}

\* Mutant: one is added before the remainder is taken.
Wrapped_AddFirst(index, count) ==
  IF count = 1 THEN Num("1") ELSE Op("%", Op("+", index, Num("1")), Num(ToString(count)))

\* Looks and backgrounds, by name or by number; a number wraps around the number of looks there are.
Wrapped(index, count) == IF count = 1 THEN Num("1") ELSE Op("+", Op("%", index, Num(ToString(count))), Num("1"))
LookIndex(value, count) == Wrapped(Op("-", Operand(value), Num("1")), count)
LookByIndex(name, index) == <<Brick(name, <<index>>)>>
IsIndex(n) == IsFormula(n) \/ IsNum(n) \/ n = False        \* for Python, False is an int
LookByName(name, n) == IF IsStr(n) /\ n.t \in LookNames THEN <<Brick(name, <<n>>)>> ELSE <<Note>>
Neighbour(n) == IF n = Str("next backdrop") THEN <<Brick("nextCostume", <<>>)>> ELSE <<Brick("previousCostume", <<>>)>>
Neighbours == {Str("next backdrop"), Str("previous backdrop")}

SceneBricks(args) ==                                \* startScene
  LET n == args[1]
      step == IF n = Str("next backdrop") THEN "+" ELSE "-"
  IN CASE IsIndex(n)                    -> LookByIndex("startSceneByIndex", LookIndex(n, LookCount))
       [] n \in Neighbours /\ IsStage   -> Neighbour(n)
       [] n \in Neighbours /\ ~IsStage  -> LookByIndex("startSceneByIndex", Op(step, Formula("backgroundIndex", <<>>), Num("1")))
       [] OTHER                         -> LookByName("startScene", n)
SceneAndWaitBricks(args) ==                         \* startSceneAndWait
  LET n == args[1]
  IN Only(IsStage, CASE IsIndex(n)       -> LookByIndex("startSceneAndWaitByIndex", Wrapped(Operand(n), LookCount))
                     [] n \in Neighbours -> Neighbour(n)
                     [] OTHER            -> LookByName("startSceneAndWait", n))
LookBricks(args) ==                                 \* lookLike:
  LET n == args[1]
  IN IF IsIndex(n) THEN LookByIndex("lookLikeByIndex", LookIndex(n, OwnLookCount))
     ELSE Only(IsStr(n), LookByName("lookLike:", n))

\* Lists: "all" deletes the first item as often as there are items.
ListBricks(name, args) ==
  CASE name = "append:toList:" -> Only(Len(args) = 2 /\ IsListName(args[2]) /\ IsValue(args[1]), <<Brick(name, args)>>)
    [] name = "insert:at:ofList:" ->
         Only(Len(args) = 3 /\ IsListName(args[3]) /\ IsValue(args[1]) /\ IsValue(args[2]),
              IF args[2] = Str("last") THEN <<Brick("append:toList:", <<args[1], args[3]>>)>>
              ELSE <<Brick(name, <<args[1], Position(args[2], args[3]), args[3]>>)>>)
    [] name = "setLine:ofList:to:" ->
         Only(Len(args) = 3 /\ IsListName(args[2]) /\ IsValue(args[1]) /\ IsValue(args[3]),
              <<Brick(name, <<Position(args[1], args[2]), args[2], args[3]>>)>>)
    [] name = "deleteLine:ofList:" ->
         LET n == args[1]
             list == args[2]
             delete(i) == Brick(name, <<i, list>>)
         IN Only(Len(args) = 2 /\ IsListName(list) /\ IsValue(n),
                 CASE n = Str("last") -> <<delete(LineCount(list))>>
                   [] n = Str("all")  -> <<Brick("doRepeat", <<LineCount(list)>>), delete(Num("1")), Brick("LoopEnd", <<>>)>>
                   [] OTHER           -> <<delete(n)>>)
ListBlocks == {"append:toList:", "insert:at:ofList:", "setLine:ofList:to:", "deleteLine:ofList:"}

\* The pen: its values go through new variables.
SetVariable(name, value) == Brick("setVar:to:", <<Str(name), value>>)
PenColor(args) ==
  IF ~IsNum(args[1]) /\ ~IsFormula(args[1]) THEN <<Note>>
  ELSE [i \in 1..3 |-> SetVariable(<<"red", "green", "blue">>[i], Num("channel"))] \o <<Brick("penColor:", <<Num("channel")>>)>>
PenSize(args) == Only(AreValues(args), <<SetVariable("pen_size", args[1]), Brick("penSize:", args)>>)

\* Messages: a number, and false, is made a text.  That every message gets lower case is left out.
Broadcasts == {"broadcast:", "doBroadcastAndWait"}
BroadcastBrick(name, args) ==
  IF args = <<>> THEN Fail
  ELSE IF IsFormula(args[1]) THEN <<Note>>
  ELSE Only(args[1].k \in {"num", "str", "bool"}, <<Brick(name, <<Str(args[1].t)>>)>>)

\* The other handlers of one argument, a text or a formula.
TargetBrick(name, n) == IF IsStr(n) THEN <<Brick(name, <<n>>)>> ELSE <<Note>>
CloneBrick(n) ==
  CASE IsFormula(n) \/ n = Str("")  -> <<Note>>
    [] IsStr(n) /\ n # Str("")      -> <<Brick("createCloneOf", <<n>>)>>
    [] ~IsFormula(n) /\ ~IsStr(n)   -> Fail
Effects == {Str("brightness"), Str("ghost"), Str("color")}
EffectBrick(name, args) ==
  LET shifted == name = "setGraphicEffect:to:" /\ args[1] = Str("brightness")
      value   == IF shifted THEN EnumFormula("+", <<args[2], Num("100")>>) ELSE Only(IsValue(args[2]), <<args[2]>>)
  IN IF args[1] \notin Effects THEN <<Note>> ELSE Only(value # Fail, <<Brick(name, <<args[1]>> \o value)>>)

\* What a menu offers.
Rotation(n) == Only(n.t \in {"left-right", "all around", "don't rotate"}, <<Brick("setRotationStyle", <<n>>)>>)
Stop(n) == Only(n.t \in {"this script", "all", "other scripts in sprite", "other scripts in stage"}, <<Brick("stopScripts", <<n>>)>>)

\* The variable and the sound must be there.
ShownVariable(name, n) == Only(IsStr(n) /\ n.t \in VariableNames, <<Brick(name, <<n>>)>>)
PlayedSound(name, n) == Only(IsStr(n) /\ n.t \in SoundNames, <<Brick(name, <<n>>)>>)

SingleHandlers == {"startScene", "startSceneAndWait", "lookLike:", "penColor:", "penSize:",
                   "pointTowards:", "gotoSpriteOrMouse:", "showVariable:", "hideVariable:", "createCloneOf", "playSound:", "doPlaySoundAndWait",
                   "setRotationStyle", "stopScripts", "setVideoState"}
SingleBrick(name, args) ==
  LET n == args[1]
  IN CASE name = "startScene"                                 -> SceneBricks(args)
       [] name = "startSceneAndWait"                          -> SceneAndWaitBricks(args)
       [] name = "lookLike:"                                  -> LookBricks(args)
       [] name = "penColor:"                                  -> PenColor(args)
       [] name = "penSize:"                                   -> PenSize(args)
       [] name \in {"showVariable:", "hideVariable:"}         -> ShownVariable(name, n)
       [] name \in {"pointTowards:", "gotoSpriteOrMouse:"}    -> TargetBrick(name, n)
       [] name = "createCloneOf"                              -> CloneBrick(n)
       [] name \in {"playSound:", "doPlaySoundAndWait"}       -> PlayedSound(name, n)
       [] name = "setRotationStyle"                           -> Rotation(n)
       [] name = "stopScripts"                                -> Stop(n)
       [] name = "setVideoState"                              -> Only(IsStr(n), <<Brick("chooseCamera", <<>>), Brick("camera", args)>>)

SingleBricks(name, args) == IF Len(args) = 1 THEN SingleBrick(name, args) ELSE Fail

PairHandlers == {"setVar:to:", "changeVar:by:", "setGraphicEffect:to:", "changeGraphicEffect:by:"}
PairBricks(name, args) ==
  CASE name \in {"setVar:to:", "changeVar:by:"} -> Only(Len(args) = 2 /\ IsStr(args[1]) /\ IsValue(args[2]), <<Brick(name, args)>>)
    [] name \in {"setGraphicEffect:to:", "changeGraphicEffect:by:"} -> IF Len(args) = 2 THEN EffectBrick(name, args) ELSE Fail

\* The handlers of showList: and hideList: assert a text, which is always true, and return nothing.
IgnoredBlocks == {"showList:", "hideList:"}

Conversion(name, args) ==
  CASE name \in EnumNames           -> EnumFormula(name, args)
    [] name \in HandledReporters    -> ReporterFormula(name, args)
    [] name \in DOMAIN PlainBricks  -> PlainBrick(name, args)
    [] name \in LoopNames           -> LoopBricks(name, args)
    [] name \in BranchNames         -> BranchBricks(name, args)
    [] name \in ListBlocks          -> ListBricks(name, args)
    [] name \in Broadcasts          -> BroadcastBrick(name, args)
    [] name \in SingleHandlers      -> SingleBricks(name, args)
    [] name \in PairHandlers        -> PairBricks(name, args)
    [] name \in IgnoredBlocks       -> <<Null>>
    [] OTHER                        -> <<Unmapped(name)>>

-------------------------------------------------------------------------------
\* Mutant: the notes for the unmapped arguments are dropped.
ConvertedBlock_NoNotes(name, args) ==
  LET replaced == [i \in DOMAIN args |-> IF IsUnmapped(args[i]) THEN Zero ELSE args[i]]
      result   == Conversion(name, replaced)
  IN IF result = Fail THEN <<Note>> ELSE result

\* _converted_script_element of a block: an argument that is unmapped counts as the formula 0 and leaves a note before the
\* result; an exception leaves a single note instead of everything.
ConvertedBlock(name, args) ==
  LET notes    == [i \in 1..Cardinality({i \in DOMAIN args : IsUnmapped(args[i])}) |-> Note]
      replaced == [i \in DOMAIN args |-> IF IsUnmapped(args[i]) THEN Zero ELSE args[i]]
      result   == Conversion(name, replaced)
  IN IF result = Fail THEN <<Note>> ELSE notes \o result

\* Of a list of blocks: one list, with notes for the unmapped ones.
ConvertedList(args) == <<BrickList([i \in DOMAIN args |-> IF IsUnmapped(args[i]) THEN Note ELSE args[i]])>>
================================================================================
