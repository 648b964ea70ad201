-------------------------- MODULE ProjectPreparation --------------------------
(***************************************************************************)
(* What RawProject.__init__ makes of the objects of a project before they  *)
(* are converted: preprocess_object takes blocks Catrobat does not have    *)
(* out of every script and says what they need instead, and the project    *)
(* adds helper scripts and generated variables to the objects that have to *)
(* provide it.  ScriptRewriting looks at one script in detail; here blocks *)
(* are a name and what they are about, and the whole project is in view.   *)
(***************************************************************************)
EXTENDS Integers, Sequences, SequencesExt

Stage == "Stage"
Mouse == "_mouse_"
Background == "Hintergrund"  \* the name of the stage in the scene

\* A block: what it does, and the kind and the name of what it does it to.
Block(op, kind, name) == [op |-> op, kind |-> kind, name |-> name]

\* A script: its hat block, with the key or the sensor it waits for, and its blocks.
Script(hat, arg, blocks) == [hat |-> hat, arg |-> arg, blocks |-> blocks]

\* An object of the project file: its variables and lists, and whether an item
\* of its lists is a truth value, which no formula can hold.
Object(name, scripts, vars, lists, oddItem) ==
  [name |-> name, scripts |-> scripts, vars |-> vars, lists |-> lists, oddItem |-> oddItem]

GreenFlag(blocks) == Script("whenGreenFlag", "", blocks)

\* The definition of a custom block: its header, the labels of its parameters, and whether a default value is no
\* number where its parameter is one.
Definition(header, labels, odd, blocks) ==
  [hat |-> "procDef", arg |-> header, blocks |-> blocks, labels |-> labels, odd |-> odd]

\* The blocks, scripts and objects of a project file: only some blocks name a sprite or a list, and what the workarounds
\* generate (timers, positions, answers...) no block of the file is about.
Targets      == {"createCloneOf", "pointTowards:", "gotoSpriteOrMouse:"}
ListOps      == {"append:toList:", "insert:at:ofList:", "deleteLine:ofList:", "setLine:ofList:to:",
                 "lineCountOfList:", "list:contains:", "getLine:ofList:", "contentsOfList:"}
PenOps       == {"penColor:", "penSize:"}
SourceBlocks ==
  {b \in [op : STRING, kind : {"", "user", "list", "sprite", "good", "odd"}, name : STRING] :
     /\ b.kind = "sprite" => b.op \in Targets \union {"distanceTo:", "getAttribute:of:"}
     /\ b.kind = "list" => b.op \in ListOps}
SourceScripts ==
  {s \in [hat : STRING, arg : STRING, blocks : Seq(SourceBlocks)] : s.hat # "procDef"}
    \union [hat : {"procDef"}, arg : STRING, blocks : Seq(SourceBlocks), labels : STRING, odd : BOOLEAN]
SourceObjects ==
  [name : STRING, scripts : Seq(SourceScripts), vars : SUBSET STRING, lists : SUBSET STRING, oddItem : BOOLEAN]

-------------------------------------------------------------------------------
BlocksIn(scripts)    == UNION {ToSet(scripts[i].blocks) : i \in DOMAIN scripts}
NamesIn(op, scripts) == {b.name : b \in {c \in BlocksIn(scripts) : c.op = op}}

\* has_distance_to_object_block: the distances of a script are replaced only if one of them is to a sprite there is.
NeedsDistance(script, names) == \E b \in ToSet(script.blocks) : b.op = "distanceTo:" /\ b.name \in names \union {Mouse}

\* A block of an object after the workarounds.
Replaced(b, object, script, names) ==
  CASE b.op = "timer"                                          -> Block("readVariable", "timer", "")
    [] b.op = "timerReset"                                     -> Block("doBroadcastAndWait", "timer", "")
    [] b.op = "keyPressed:"                                    -> Block("readVariable", "key", b.name)
    [] b.op = "distanceTo:" /\ NeedsDistance(script, names)    -> Block("readVariable", "position", b.name)
    [] b.op = "getAttribute:of:" /\ b.name = object.name       -> Block("say", "", "")
    [] b.op = "getAttribute:of:" /\ b.name # object.name       -> Block("readVariable", "attribute", b.name)
    [] OTHER                                                   -> b

preprocessed(object, names) ==
  [i \in DOMAIN object.scripts |->
     [object.scripts[i] EXCEPT !.blocks = [k \in DOMAIN @ |-> Replaced(@[k], object, object.scripts[i], names)]]]

\* What the workarounds of one object ask of the project.
WorkaroundInfo(object, names) ==
  LET scripts == object.scripts
      near    == {i \in DOMAIN scripts : NeedsDistance(scripts[i], names)}
  IN [timer      |-> \/ "timer" \in {b.op : b \in BlocksIn(scripts)}
                     \/ \E i \in DOMAIN scripts : scripts[i].arg = "timer",
      reset      |-> "timerReset" \in {b.op : b \in BlocksIn(scripts)},
      keys       |-> {[key |-> k, type |-> "keyPressedBrick"] : k \in NamesIn("keyPressed:", scripts)},
      positions  |-> UNION {NamesIn("distanceTo:", <<scripts[i]>>) : i \in near},
      attributes |-> NamesIn("getAttribute:of:", scripts) \ {object.name}]

NoWorkarounds == [timer |-> FALSE, reset |-> FALSE, keys |-> {}, positions |-> {}, attributes |-> {}]

\* Mutant: an object's workarounds replace those of the objects before it.
Merged_Last(info, more) == more

Merged(info, more) ==
  [timer |-> info.timer \/ more.timer, reset |-> info.reset \/ more.reset, keys |-> info.keys \union more.keys,
   positions |-> info.positions \union more.positions, attributes |-> info.attributes \union more.attributes]

-------------------------------------------------------------------------------
\* The helper scripts.  A monitor is a watcher the stage shows: [cmd, target].
TimerScript      == GreenFlag(<<Block("changeVar:by:", "timer", "")>>)
TimerResetScript == Script("whenIReceive", "timer", <<Block("setVar:to:", "timer", "")>>)
PositionScript(name)  == GreenFlag(<<Block("setVar:to:", "position", name)>>)
AttributeScript(name) == GreenFlag(<<Block("setVar:to:", "attribute", name)>>)
SensorScript(name)    == GreenFlag(<<Block("setVar:to:", "sensor", name)>>)

SensorMonitors(monitors, name) == {m \in monitors : m.target = name /\ m.cmd # "getVar:"}
Watches(monitors, name, cmd)   == \E m \in SensorMonitors(monitors, name) : m.cmd = cmd

\* A list of at most one script.
If(condition, script) == IF condition THEN <<script>> ELSE <<>>

\* The stage's timer runs for the blocks that read it or reset it, and again for a watcher if no block reads it.
TimerScripts(info, monitors) ==
  If(info.timer \/ info.reset, TimerScript) \o If(info.reset, TimerResetScript)
    \o If(~info.timer /\ \E m \in monitors : m.cmd = "timer", TimerScript)

\* The scripts that the project adds to an object.
HelperScripts(object, info, monitors) ==
  LET n == object.name IN
  (IF n = Stage THEN TimerScripts(info, monitors) ELSE <<>>)
    \o If(n \in info.positions \ {Mouse}, PositionScript(n))
    \o If(Watches(monitors, n, "xpos"), SensorScript(n))
    \o If(n \in info.attributes, AttributeScript(n))

\* The generated variables that the project adds to an object's own: [kind, name].
HelperVariables(object, info, monitors) ==
  LET n       == object.name
      timer   == info.timer \/ info.reset \/ \E m \in monitors : m.cmd = "timer"
      answer  == \E m \in monitors : m.cmd = "answer"
      sensor  == IF Watches(monitors, n, "xpos") THEN {[kind |-> "sensor", name |-> n]} ELSE {}
      asked(kind, names) == {[kind |-> kind, name |-> m] : m \in names}
  IN IF n # Stage THEN sensor
     ELSE sensor \union asked("position", info.positions \ {Mouse}) \union asked("attribute", info.attributes)
            \union (IF timer THEN {[kind |-> "timer", name |-> ""]} ELSE {})
            \union (IF answer THEN {[kind |-> "answer", name |-> ""]} ELSE {})

\* Mutant: the mouse pointer is looked for among the sprites.
UnknownSprites_Mouse(info, monitors, names) ==
  (info.positions \union info.attributes \union {m.target : m \in {o \in monitors : o.cmd # "getVar:"}}) \ names

\* A sprite that a block or a watcher names and the project does not have is a KeyError.
UnknownSprites(info, monitors, names) ==
  ((info.positions \ {Mouse}) \union info.attributes \union {m.target : m \in {o \in monitors : o.cmd # "getVar:"}}) \ names
================================================================================
