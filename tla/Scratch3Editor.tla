---------------------------- MODULE Scratch3Editor ----------------------------
(***************************************************************************)
(* What the Scratch 3 editor stores for a script (external: the converter  *)
(* reads such projects from the Scratch web API): one entry per block,     *)
(* linked by ids; an argument is an input or a field of its block.  Texts  *)
(* and numbers typed into a slot are literals of the slot's type, a choice *)
(* from a menu is a shadow block of its own, and a slot left empty is not  *)
(* stored at all or stored without a block, as "empties" says.             *)
(***************************************************************************)
EXTENDS Integers, SequencesExt, FiniteSetsExt, ScratchCode

LOCAL NoId == <<>>

Slot(how, key, type, menu) == [how |-> how, key |-> key, type |-> type, menu |-> menu]
Number(key)     == Slot("value", key, 4, "")
Positive(key)   == Slot("value", key, 5, "")
Integer(key)    == Slot("value", key, 7, "")
Text(key)       == Slot("value", key, 10, "")
Message(key)    == Slot("value", key, 11, "")
Boolean(key)    == Slot("block", key, 0, "")
Stack(key)      == Slot("block", key, 0, "")
Field(key)      == Slot("field", key, 0, "")
Choice(key, menu) == Slot("menu", key, 0, menu)

Opcode(opcode, slots) == [opcode |-> opcode, slots |-> slots]

\* The editor's opcodes, by the name the block had in Scratch 2 (a few have no such name).
Opcodes ==
  ("whenGreenFlag"          :> Opcode("event_whenflagclicked", <<>>)) @@
  ("whenSensorGreaterThan"  :> Opcode("event_whengreaterthan", <<Field("WHENGREATERTHANMENU"), Number("VALUE")>>)) @@
  ("whenSceneStarts"        :> Opcode("event_whenbackdropswitchesto", <<Field("BACKDROP")>>)) @@
  ("broadcast:"             :> Opcode("event_broadcast", <<Message("BROADCAST_INPUT")>>)) @@
  ("wait:elapsed:from:"     :> Opcode("control_wait", <<Positive("DURATION")>>)) @@
  ("doForever"              :> Opcode("control_forever", <<Stack("SUBSTACK")>>)) @@
  ("doRepeat"               :> Opcode("control_repeat", <<Integer("TIMES"), Stack("SUBSTACK")>>)) @@
  ("doUntil"                :> Opcode("control_repeat_until", <<Boolean("CONDITION"), Stack("SUBSTACK")>>)) @@
  ("doIf"                   :> Opcode("control_if", <<Boolean("CONDITION"), Stack("SUBSTACK")>>)) @@
  ("doIfElse"               :> Opcode("control_if_else", <<Boolean("CONDITION"), Stack("SUBSTACK"), Stack("SUBSTACK2")>>)) @@
  ("say:"                   :> Opcode("looks_say", <<Text("MESSAGE")>>)) @@
  ("lookLike:"              :> Opcode("looks_switchcostumeto", <<Choice("COSTUME", "looks_costume")>>)) @@
  ("startScene"             :> Opcode("looks_switchbackdropto", <<Choice("BACKDROP", "looks_backdrops")>>)) @@
  ("startSceneAndWait"      :> Opcode("looks_switchbackdroptoandwait", <<Choice("BACKDROP", "looks_backdrops")>>)) @@
  ("changeXposBy:"          :> Opcode("motion_changexby", <<Number("DX")>>)) @@
  ("setVar:to:"             :> Opcode("data_setvariableto", <<Field("VARIABLE"), Text("VALUE")>>)) @@
  ("showVariable:"          :> Opcode("data_showvariable", <<Field("VARIABLE")>>)) @@
  ("hideVariable:"          :> Opcode("data_hidevariable", <<Field("VARIABLE")>>)) @@
  ("setGraphicEffect:to:"   :> Opcode("looks_seteffectto", <<Field("EFFECT"), Number("VALUE")>>)) @@
  ("createCloneOf"          :> Opcode("control_create_clone_of", <<Choice("CLONE_OPTION", "control_create_clone_of_menu")>>)) @@
  ("deleteLine:ofList:"     :> Opcode("data_deleteoflist", <<Integer("INDEX"), Field("LIST")>>)) @@
  ("penSize:"               :> Opcode("pen_setPenSizeTo", <<Number("SIZE")>>)) @@
  ("changePenSizeBy:"       :> Opcode("pen_changePenSizeBy", <<Number("SIZE")>>)) @@
  ("timerReset"             :> Opcode("sensing_resettimer", <<>>)) @@
  ("soundEffect"            :> Opcode("sound_seteffectto", <<Number("VALUE")>>)) @@
  ("xpos"                   :> Opcode("motion_xposition", <<>>)) @@
  ("timer"                  :> Opcode("sensing_timer", <<>>)) @@
  ("getUserName"            :> Opcode("sensing_username", <<>>)) @@
  ("contains:"              :> Opcode("operator_contains", <<Text("STRING1"), Text("STRING2")>>)) @@
  ("+"                      :> Opcode("operator_add", <<Number("NUM1"), Number("NUM2")>>)) @@
  ("-"                      :> Opcode("operator_subtract", <<Number("NUM1"), Number("NUM2")>>)) @@
  ("*"                      :> Opcode("operator_multiply", <<Number("NUM1"), Number("NUM2")>>)) @@
  ("<"                      :> Opcode("operator_lt", <<Text("OPERAND1"), Text("OPERAND2")>>)) @@
  ("&"                      :> Opcode("operator_and", <<Boolean("OPERAND1"), Boolean("OPERAND2")>>)) @@
  ("not"                    :> Opcode("operator_not", <<Boolean("OPERAND")>>)) @@
  ("computeFunction:of:"    :> Opcode("operator_mathop", <<Field("OPERATOR"), Number("NUM")>>)) @@
  ("keyPressed:"            :> Opcode("sensing_keypressed", <<Choice("KEY_OPTION", "sensing_keyoptions")>>)) @@
  ("distanceTo:"            :> Opcode("sensing_distanceto", <<Choice("DISTANCETOMENU", "sensing_distancetomenu")>>)) @@
  ("getAttribute:of:"       :> Opcode("sensing_of", <<Field("PROPERTY"), Choice("OBJECT", "sensing_of_object_menu")>>))

Names == DOMAIN Opcodes

LOCAL Input(mode, holds, id, type, value) == [mode |-> mode, holds |-> holds, id |-> id, type |-> type, value |-> value]
LOCAL NoInputs == [key \in {} |-> Null]
LOCAL Stored(opcode, next, inputs, fields) == [opcode |-> opcode, next |-> next, inputs |-> inputs, fields |-> fields]

\* The blocks stored for a stack: <<id, block>> pairs, the i-th block of a stack at path p having the id p \o <<i>>.
RECURSIVE StoredStack(_, _, _)

StoredStack(blocks, path, empties) ==
  LET slots(i)   == Opcodes[First(blocks[i]).t].slots
      arg(i, j)  == Args(blocks[i])[j]
      child(i, j) == path \o <<i, j>>
      isEmpty(v) == v \in {Null, False}
      stack(v)   == IF IsBlockList(v) THEN v.a ELSE <<v>>          \* a reporter is a stack of one block
      holdsBlock(i, j) == slots(i)[j].how # "field" /\ IsLst(arg(i, j))
      input(i, j) ==
        LET slot == slots(i)[j]
        IN CASE holdsBlock(i, j)     -> Input(IF slot.how = "block" THEN 2 ELSE 3, "block", child(i, j) \o <<1>>, 0, Null)
             [] slot.how = "menu"    -> Input(1, "block", child(i, j) \o <<1>>, 0, Null)
             [] isEmpty(arg(i, j))   -> Input(1, "none", NoId, 0, Null)
             [] OTHER                -> Input(1, "literal", NoId, slot.type, Str(arg(i, j).t))
      isStored(i, j) == slots(i)[j].how # "field" /\ (isEmpty(arg(i, j)) => empties = "stored")
      inputs(i) == LET js == {j \in DOMAIN slots(i) : isStored(i, j)}
                   IN [key \in {slots(i)[j].key : j \in js} |-> input(i, ChooseUnique(js, LAMBDA j : slots(i)[j].key = key))]
      fields(i) == LET js == {j \in DOMAIN slots(i) : slots(i)[j].how = "field"}
                   IN [key \in {slots(i)[j].key : j \in js} |->
                         arg(i, ChooseUnique(js, LAMBDA j : slots(i)[j].key = key))]
      choice(i, j) == Stored(slots(i)[j].menu, NoId, NoInputs, slots(i)[j].key :> arg(i, j))
      below(i, j) ==
        CASE holdsBlock(i, j)         -> StoredStack(stack(arg(i, j)), child(i, j), empties)
          [] slots(i)[j].how = "menu" -> {<<child(i, j) \o <<1>>, choice(i, j)>>}
          [] OTHER                    -> {}
      next(i) == IF i < Len(blocks) THEN path \o <<i + 1>> ELSE NoId
      entry(i) == <<path \o <<i>>, Stored(Opcodes[First(blocks[i]).t].opcode, next(i), inputs(i), fields(i))>>
  IN {entry(i) : i \in DOMAIN blocks}
     \union UNION {UNION {below(i, j) : j \in DOMAIN slots(i)} : i \in DOMAIN blocks}

Root == <<1>>
Store(blocks, empties) ==
  LET pairs == StoredStack(blocks, <<>>, empties)
  IN [id \in {p[1] : p \in pairs} |-> ChooseUnique(pairs, LAMBDA p : p[1] = id)[2]]
================================================================================
