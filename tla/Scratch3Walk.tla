----------------------------- MODULE Scratch3Walk -----------------------------
(***************************************************************************)
(* From the blocks of a Scratch 3 project to Scratch 2 code: the walk of   *)
(* scratch3visitor over the linked blocks of a sprite, with the handler    *)
(* table of every opcode family.  A stored block has an opcode, the next   *)
(* block of its stack, inputs and fields; an input holds another block, a  *)
(* literal or nothing, with the mode that tells a shadow (1) from a block  *)
(* (2 and 3).  A row of a handler table is the Scratch 2 name and the way  *)
(* each argument is fetched.                                               *)
(***************************************************************************)
EXTENDS Integers, SequencesExt, ScratchCode

CONSTANT NumberTexts    \* the texts a literal field may hold that Python reads as a number

NoId == <<>>                                        \* ids are paths: non-empty tuples of numbers

-------------------------------------------------------------------------------
\* How a handler fetches an argument.
Get(how, key) == [how |-> how, key |-> key]
In(key)   == Get("input", key)                      \* visitGeneric
Bool(key) == Get("bool", key)                       \* visitGeneric, and None replaced by False
Key(key)  == Get("key", key)                        \* visitGeneric, and "" replaced by "space"
Fld(key)  == Get("field", key)
Sub(key)  == Get("substack", key)
Cond      == Get("condition", "CONDITION")

Row(name, gets) == [form |-> "block", name |-> name, gets |-> gets]
Menu(key)       == [form |-> "menu", name |-> key, gets |-> <<>>]      \* a shadow menu gives its field
Choice(key)     == [form |-> "choice", name |-> key, gets |-> <<>>]
Nothing         == [form |-> "nothing", name |-> "", gets |-> <<>>]    \* handlers that only pass

EventVisitors ==
  ("event_whenflagclicked" :> Row("whenGreenFlag", <<>>)) @@
  ("event_broadcast" :> Row("broadcast:", <<In("BROADCAST_INPUT")>>)) @@
  ("event_broadcastandwait" :> Row("doBroadcastAndWait", <<In("BROADCAST_INPUT")>>)) @@
  ("event_whenthisspriteclicked" :> Row("whenClicked", <<>>)) @@
  ("event_whenkeypressed" :> Row("whenKeyPressed", <<Fld("KEY_OPTION")>>)) @@
  ("event_whenbackdropswitchesto" :> Row("whenSceneStarts", <<Fld("BACKDROP")>>)) @@
  ("event_whenbroadcastreceived" :> Row("whenIReceive", <<Fld("BROADCAST_OPTION")>>)) @@
  ("event_whengreaterthan" :> Row("whenSensorGreaterThan", <<Fld("WHENGREATERTHANMENU"), In("VALUE")>>))

ControlVisitors ==
  ("control_wait" :> Row("wait:elapsed:from:", <<In("DURATION")>>)) @@
  ("control_repeat" :> Row("doRepeat", <<In("TIMES"), Sub("SUBSTACK")>>)) @@
  ("control_if" :> Row("doIf", <<Cond, Sub("SUBSTACK")>>)) @@
  ("control_if_else" :> Row("doIfElse", <<Cond, Sub("SUBSTACK"), Sub("SUBSTACK2")>>)) @@
  ("control_wait_until" :> Row("doWaitUntil", <<Cond>>)) @@
  ("control_repeat_until" :> Row("doUntil", <<Cond, Sub("SUBSTACK")>>)) @@
  ("control_create_clone_of" :> Row("createCloneOf", <<In("CLONE_OPTION")>>)) @@
  ("control_create_clone_of_menu" :> Menu("CLONE_OPTION")) @@
  ("control_stop" :> Row("stopScripts", <<Fld("STOP_OPTION")>>)) @@
  ("control_start_as_clone" :> Row("whenCloned", <<>>)) @@
  ("control_delete_this_clone" :> Row("deleteClone", <<>>)) @@
  ("control_forever" :> Row("doForever", <<Sub("SUBSTACK")>>))

OperatorVisitors ==
  LET binary(name, a, b) == Row(name, <<In(a), In(b)>>)
  IN ("operator_add" :> binary("+", "NUM1", "NUM2")) @@
     ("operator_subtract" :> binary("-", "NUM1", "NUM2")) @@
     ("operator_multiply" :> binary("*", "NUM1", "NUM2")) @@
     ("operator_divide" :> binary("/", "NUM1", "NUM2")) @@
     ("operator_mod" :> binary("%", "NUM1", "NUM2")) @@
     ("operator_gt" :> binary(">", "OPERAND1", "OPERAND2")) @@
     ("operator_lt" :> binary("<", "OPERAND1", "OPERAND2")) @@
     ("operator_equals" :> binary("=", "OPERAND1", "OPERAND2")) @@
     ("operator_random" :> binary("randomFrom:to:", "FROM", "TO")) @@
     ("operator_join" :> binary("concatenate:with:", "STRING1", "STRING2")) @@
     ("operator_letter_of" :> binary("letter:of:", "LETTER", "STRING")) @@
     ("operator_contains" :> binary("contains:", "STRING1", "STRING2")) @@
     ("operator_length" :> Row("stringLength:", <<In("STRING")>>)) @@
     ("operator_round" :> Row("rounded", <<In("NUM")>>)) @@
     ("operator_mathop" :> Row("computeFunction:of:", <<Fld("OPERATOR"), In("NUM")>>)) @@
     ("operator_not" :> Row("not", <<Bool("OPERAND")>>)) @@
     ("operator_and" :> Row("&", <<Bool("OPERAND1"), Bool("OPERAND2")>>)) @@
     ("operator_or" :> Row("|", <<Bool("OPERAND1"), Bool("OPERAND2")>>))

DataVisitors ==
  ("data_setvariableto" :> Row("setVar:to:", <<Fld("VARIABLE"), In("VALUE")>>)) @@
  ("data_changevariableby" :> Row("changeVar:by:", <<Fld("VARIABLE"), In("VALUE")>>)) @@
  ("data_showvariable" :> Row("showVariable:", <<Fld("VARIABLE")>>)) @@
  ("data_hidevariable" :> Row("hideVariable:", <<Fld("VARIABLE")>>)) @@
  ("data_addtolist" :> Row("append:toList:", <<In("ITEM"), Fld("LIST")>>)) @@
  ("data_deleteoflist" :> Row("deleteLine:ofList:", <<In("INDEX"), Fld("LIST")>>)) @@
  ("data_insertatlist" :> Row("insert:at:ofList:", <<In("ITEM"), In("INDEX"), Fld("LIST")>>)) @@
  ("data_replaceitemoflist" :> Row("setLine:ofList:to:", <<In("INDEX"), Fld("LIST"), In("ITEM")>>)) @@
  ("data_itemoflist" :> Row("getLine:ofList:", <<In("INDEX"), Fld("LIST")>>)) @@
  ("data_itemnumoflist" :> Row("itemNum:ofList:", <<Fld("LIST"), In("ITEM")>>)) @@
  ("data_lengthoflist" :> Row("lineCountOfList:", <<Fld("LIST")>>)) @@
  ("data_listcontainsitem" :> Row("list:contains:", <<Fld("LIST"), In("ITEM")>>)) @@
  ("data_showlist" :> Row("showList:", <<Fld("LIST")>>)) @@
  ("data_hidelist" :> Row("hideList:", <<Fld("LIST")>>)) @@
  ("data_contentsoflist" :> Row("contentsOfList:", <<Fld("LIST")>>))

LooksVisitors ==
  ("looks_sayforsecs" :> Row("say:duration:elapsed:from:", <<In("MESSAGE"), In("SECS")>>)) @@
  ("looks_say" :> Row("say:", <<In("MESSAGE")>>)) @@
  ("looks_thinkforsecs" :> Row("think:duration:elapsed:from:", <<In("MESSAGE"), In("SECS")>>)) @@
  ("looks_think" :> Row("think:", <<In("MESSAGE")>>)) @@
  ("looks_switchcostumeto" :> Row("lookLike:", <<In("COSTUME")>>)) @@
  ("looks_nextcostume" :> Row("nextCostume", <<>>)) @@
  ("looks_switchbackdropto" :> Row("startScene", <<In("BACKDROP")>>)) @@
  ("looks_nextbackdrop" :> Row("nextBackdropPlaceholder", <<>>)) @@
  ("looks_changesizeby" :> Row("changeSizeBy:", <<In("CHANGE")>>)) @@
  ("looks_setsizeto" :> Row("setSizeTo:", <<In("SIZE")>>)) @@
  ("looks_changeeffectby" :> Row("changeGraphicEffect:by:", <<Fld("EFFECT"), In("CHANGE")>>)) @@
  ("looks_seteffectto" :> Row("setGraphicEffect:to:", <<Fld("EFFECT"), In("VALUE")>>)) @@
  ("looks_cleargraphiceffects" :> Row("filterReset", <<>>)) @@
  ("looks_show" :> Row("show", <<>>)) @@
  ("looks_hide" :> Row("hide", <<>>)) @@
  ("looks_gotofrontback" :> Row("comeToFront", <<>>)) @@
  ("looks_goforwardbackwardlayers" :> Row("goBackByLayers:", <<In("NUM")>>)) @@
  ("looks_costumenumbername" :> Choice("NUMBER_NAME")) @@
  ("looks_backdropnumbername" :> Row("sceneNamePlaceholder", <<>>)) @@
  ("looks_size" :> Row("scale", <<>>)) @@
  ("looks_costume" :> Menu("COSTUME")) @@
  ("looks_backdrops" :> Menu("BACKDROP"))

SensingVisitors ==
  ("sensing_touchingobject" :> Row("touching:", <<In("TOUCHINGOBJECTMENU")>>)) @@
  ("sensing_touchingobjectmenu" :> Menu("TOUCHINGOBJECTMENU")) @@
  ("sensing_askandwait" :> Row("doAsk", <<In("QUESTION")>>)) @@
  ("sensing_setdragmode" :> Row("dragMode", <<Fld("DRAG_MODE")>>)) @@
  ("sensing_resettimer" :> Row("timerReset", <<>>)) @@
  ("sensing_loudness" :> Row("soundLevel", <<>>)) @@
  ("sensing_distanceto" :> Row("distanceTo:", <<In("DISTANCETOMENU")>>)) @@
  ("sensing_distancetomenu" :> Menu("DISTANCETOMENU")) @@
  ("sensing_coloristouchingcolor" :> Row("touchingColor:", <<In("COLOR"), In("COLOR2")>>)) @@
  ("sensing_of" :> Row("getAttribute:of:", <<Fld("PROPERTY"), In("OBJECT")>>)) @@
  ("sensing_of_object_menu" :> Menu("OBJECT")) @@
  ("sensing_current" :> Row("timeAndDate", <<In("CURRENTMENU")>>)) @@
  ("sensing_currentmenu" :> Menu("CURRENTMENU")) @@
  ("sensing_answer" :> Row("answer", <<>>)) @@
  ("sensing_dayssince2000" :> Row("timestamp", <<>>)) @@
  ("sensing_keypressed" :> Row("keyPressed:", <<Key("KEY_OPTION")>>)) @@
  ("sensing_keyoptions" :> Menu("KEY_OPTION")) @@
  ("sensing_mousex" :> Row("mouseX", <<>>)) @@
  ("sensing_mousedown" :> Row("mousePressed", <<>>)) @@
  ("sensing_mousey" :> Row("mouseY", <<>>)) @@
  ("sensing_timer" :> Row("timer", <<>>)) @@
  ("sensing_touchingcolor" :> Row("touchingColor:", <<In("COLOR")>>)) @@
  ("sensing_username" :> Row("getUserName", <<>>))

MotionVisitors ==
  ("motion_movesteps" :> Row("forward:", <<In("STEPS")>>)) @@
  ("motion_turnright" :> Row("turnRight:", <<In("DEGREES")>>)) @@
  ("motion_turnleft" :> Row("turnLeft:", <<In("DEGREES")>>)) @@
  ("motion_goto" :> Row("gotoSpriteOrMouse:", <<In("TO")>>)) @@
  ("motion_gotoxy" :> Row("gotoX:y:", <<In("X"), In("Y")>>)) @@
  ("motion_glideto" :> Row("glideTo:", <<In("SECS"), In("TO")>>)) @@
  ("motion_glidesecstoxy" :> Row("glideSecs:toX:y:elapsed:from:", <<In("SECS"), In("X"), In("Y")>>)) @@
  ("motion_pointindirection" :> Row("heading:", <<In("DIRECTION")>>)) @@
  ("motion_pointtowards" :> Row("pointTowards:", <<In("TOWARDS")>>)) @@
  ("motion_changexby" :> Row("changeXposBy:", <<In("DX")>>)) @@
  ("motion_setx" :> Row("xpos:", <<In("X")>>)) @@
  ("motion_changeyby" :> Row("changeYposBy:", <<In("DY")>>)) @@
  ("motion_sety" :> Row("ypos:", <<In("Y")>>)) @@
  ("motion_ifonedgebounce" :> Row("bounceOffEdge", <<>>)) @@
  ("motion_setrotationstyle" :> Row("setRotationStyle", <<Fld("STYLE")>>)) @@
  ("motion_direction" :> Row("heading", <<>>)) @@
  ("motion_yposition" :> Row("ypos", <<>>)) @@
  ("motion_xposition" :> Row("xpos", <<>>)) @@
  ("motion_goto_menu" :> Menu("TO")) @@
  ("motion_glideto_menu" :> Menu("TO")) @@
  ("motion_pointtowards_menu" :> Menu("TOWARDS"))

SoundVisitors ==
  ("sound_play" :> Row("playSound:", <<In("SOUND_MENU")>>)) @@
  ("sound_playuntildone" :> Row("doPlaySoundAndWait", <<In("SOUND_MENU")>>)) @@
  ("sound_stopallsounds" :> Row("stopAllSounds", <<>>)) @@
  ("sound_changeeffectby" :> Nothing) @@
  ("sound_seteffectto" :> Nothing) @@
  ("sound_cleareffects" :> Row("clearSoundEffects", <<>>)) @@
  ("sound_changevolumeby" :> Row("changeVolumeBy:", <<In("VOLUME")>>)) @@
  ("sound_setvolumeto" :> Row("setVolumeTo:", <<In("VOLUME")>>)) @@
  ("sound_volume" :> Row("volume", <<>>)) @@
  ("sound_sounds_menu" :> Menu("SOUND_MENU"))

PenVisitors ==
  ("pen_clear" :> Row("clearPenTrails", <<>>)) @@
  ("pen_stamp" :> Row("stampCostume", <<>>)) @@
  ("pen_penDown" :> Row("putPenDown", <<>>)) @@
  ("pen_penUp" :> Row("putPenUp", <<>>)) @@
  ("pen_setPenColorToColor" :> Row("penColor:", <<In("COLOR")>>)) @@
  ("pen_changePenColorParamBy" :> Row("changePenHueBy:", <<In("COLOR_PARAM"), In("VALUE")>>)) @@
  ("pen_menu_colorParam" :> Menu("colorParam")) @@
  ("pen_setPenColorParamTo" :> Row("setPenHueTo:", <<In("COLOR_PARAM"), In("VALUE")>>)) @@
  ("pen_changePenSizeBy" :> Row("changePenSizeBy:", <<In("SIZE")>>)) @@
  ("pen_setPenSizeTo" :> Row("penSize:", <<In("SIZE")>>)) @@
  ("pen_setPenShadeToNumber" :> Row("penShade:", <<In("SHADE")>>)) @@
  ("pen_changePenShadeBy" :> Row("changePenShadeBy:", <<In("SHADE")>>)) @@
  ("pen_setPenHueToNumber" :> Row("penHue:", <<In("HUE")>>))

visitormap == EventVisitors @@ ControlVisitors @@ OperatorVisitors @@ DataVisitors @@ LooksVisitors @@ SensingVisitors
                @@ MotionVisitors @@ SoundVisitors @@ PenVisitors

-------------------------------------------------------------------------------
\* unpack_block_list: a chain of one block that is a list stands for that block.
unpack_block_list(n) == IF Len(n.a) = 1 /\ IsLst(First(n)) THEN First(n) ELSE n

\* visitLiteral: the number fields of types 4 and 8 are read with float(), which fails on a text like "-"; the other
\* types keep what they cannot read.
FloatTypes == {4, 8}
IsNumber(text) == text \in NumberTexts
visitLiteral(input) ==
  CASE input.holds = "none" -> Null
    [] input.type = 12 -> Block("readVariable", <<input.value>>)
    [] input.type = 13 -> Block("contentsOfList:", <<input.value>>)
    [] input.type \in FloatTypes /\ input.value = Str("") -> Num("0")
    [] input.type \in 4..8 /\ IsNumber(input.value.t) -> Num(input.value.t)
    [] OTHER -> input.value

\* The walk fails when it reads such a field.  Every stored block of a script is visited.
BadNumber(store) ==
  \E id \in DOMAIN store : \E key \in DOMAIN store[id].inputs :
    LET input == store[id].inputs[key]
    IN input.holds = "literal" /\ input.type \in FloatTypes /\ input.value # Str("") /\ ~IsNumber(input.value.t)

RECURSIVE Visited(_, _), Chain(_, _)

\* visitBlockList: the visited blocks of a stack, from id on.
Chain(store, id) == IF id = NoId THEN <<>> ELSE <<Visited(store, id)>> \o Chain(store, store[id].next)

visitBlock(store, id)     == unpack_block_list(Lst(Chain(store, id)))
visitBlockList(store, id) == Lst(Chain(store, id))

\* Mutant: a shadow is visited like a block.
visitGeneric_NoShadow(store, block, key) ==
  IF key \notin DOMAIN block.inputs THEN Lst(<<False>>)
  ELSE IF block.inputs[key].holds # "block" THEN visitLiteral(block.inputs[key])
  ELSE visitBlock(store, block.inputs[key].id)

\* visitGeneric: an input that is not there is [False]; a shadow gives the first item of what is visited.
visitGeneric(store, block, key) ==
  IF key \notin DOMAIN block.inputs THEN Lst(<<False>>)
  ELSE LET input == block.inputs[key]
       IN IF input.holds # "block" THEN visitLiteral(input)
          ELSE IF input.mode = 1 THEN First(visitBlock(store, input.id))
          ELSE visitBlock(store, input.id)

visitCondition(store, block) ==
  IF "CONDITION" \notin DOMAIN block.inputs \/ block.inputs["CONDITION"].holds # "block" THEN False
  ELSE visitGeneric(store, block, "CONDITION")

visitSubstack(store, block, key) ==
  IF key \notin DOMAIN block.inputs \/ block.inputs[key].holds # "block" THEN Null
  ELSE visitBlockList(store, block.inputs[key].id)

Fetched(store, block, get) ==
  CASE get.how = "input"     -> visitGeneric(store, block, get.key)
    [] get.how = "bool"      -> LET v == visitGeneric(store, block, get.key) IN IF v = Null THEN False ELSE v
    [] get.how = "key"       -> LET v == visitGeneric(store, block, get.key) IN IF v = Str("") THEN Str("space") ELSE v
    [] get.how = "field"     -> block.fields[get.key]
    [] get.how = "condition" -> visitCondition(store, block)
    [] get.how = "substack"  -> visitSubstack(store, block, get.key)

\* visitCostumenumbername chooses the block by its field.
CostumeReporter(field) ==
  CASE field = Str("number") -> "costumeIndex"
    [] field = Str("name")   -> "costumeName"
    [] OTHER                 -> "costumeIndexPlaceholder"

\* The handler of the block's opcode; visitDefault says that there is none.
Visited(store, id) ==
  LET block == store[id]
      row   == visitormap[block.opcode]
  IN IF block.opcode \notin DOMAIN visitormap THEN Block("say:", <<Str("ERROR: BLOCK NOT FOUND")>>)
     ELSE IF row.form = "nothing" THEN Null
     ELSE IF row.form = "choice" THEN Block(CostumeReporter(block.fields[row.name]), <<>>)
     ELSE IF row.form = "menu" THEN block.fields[row.name]
     ELSE Block(row.name, [i \in DOMAIN row.gets |-> Fetched(store, block, row.gets[i])])

\* visitScriptBlock: the hat and the blocks under it.
visitScriptBlock(store, id) == Lst(Chain(store, id))
================================================================================
