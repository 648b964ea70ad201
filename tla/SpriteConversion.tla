--------------------------- MODULE SpriteConversion ---------------------------
(***************************************************************************)
(* The conversion of a whole project: its objects are prepared, converted  *)
(* one after the other with all their scripts, and sprites for the keys    *)
(* and for the mouse pointer are added.  What is hard about it is what one *)
(* object leaves behind for the next: the sprites that bricks name before  *)
(* they are converted, the variables and lists declared so far, and two    *)
(* class attributes that say which project is being converted.             *)
(*                                                                         *)
(* ScriptConversion converts the blocks of one script in detail; here a    *)
(* block becomes a brick that refers to a sprite, a variable or a list.    *)
(***************************************************************************)
EXTENDS ProjectPreparation, FiniteSets

CONSTANTS Projects,     \* the projects TLC converts: [objects, monitors], the stage first
          KeysWithImage \* the keys there is a picture for

\* What the project file says: the stage comes first, every sprite has a name of its own, and none is called like the
\* mouse pointer, or as the stage is in the scene.
ASSUME ProjectsAssumption ==
  \A p \in Projects :
    /\ p.objects \in Seq(SourceObjects) /\ p.objects # <<>> /\ p.objects[1].name = Stage
    /\ \A i, j \in DOMAIN p.objects : p.objects[i].name = p.objects[j].name => i = j
    /\ \A i \in DOMAIN p.objects : p.objects[i].name \notin {Mouse, Background}

\* There is a picture for the key that stands for any key.
ASSUME PicturesAssumption == "a" \in KeysWithImage

VARIABLES project,   \* the project that is converted; never changes
          phase,     \* where the conversion is
          scripts,   \* per object: its scripts, with the blocks and the helpers of the preparation
          wanted,    \* what the workarounds of the objects asked for
          keys,      \* listened_keys: [key, type]
          converter, \* the project in _ScratchObjectConverter's class attributes
          at,        \* the object whose turn it is
          here,      \* the sprite that is being converted
          upcoming,  \* Context.upcoming_sprites: names of sprites made before their turn
          scene,     \* the sprites of the converted program, in order
          variables, \* per program: the variables declared in its data container
          lists,     \* per program: the lists declared
          board      \* the sprites of keys so far

vars == <<project, phase, scripts, wanted, keys, converter, at, here, upcoming, scene, variables, lists, board>>

Programs == {"saved", "dummy"}  \* the program that is saved, and the one made to convert a sensor's formula
Phases   == {"objects", "helpers", "sprites", "keys", "space", "cursor", "done", "failed"}

\* A sprite of the program is known by its name and by whether a brick made it ahead of its turn.
SpriteId(name, made) == [name |-> name, made |-> made]
Everyone == SpriteId("", "")  \* whoever owns the variables of all sprites

\* A variable that was never declared.
Loose == SpriteId("", "loose")

\* What a script becomes: a script, the body of a custom block, which is known by the definition brick of that, or
\* a start script in the place of one that cannot be converted.
Plain       == SpriteId("", "script")
Replacement == SpriteId("", "replacement")

objects == project.objects
Names   == {objects[i].name : i \in DOMAIN objects}

\* A sprite: which it is, its scripts and what each of them is, the definition bricks of its custom blocks
\* (user_script_definition_brick_map), those whose definition was met, and what its start script sets.
NewSprite(id, in) ==
  [id |-> id, in |-> in, scripts |-> <<>>, roles |-> <<>>, definitions |-> {}, declared |-> {}, starts |-> {}]
NoSprite == NewSprite(Everyone, "saved")

\* A brick: what it does to what, who owns that, and in which program it was looked up.
Brick(op, kind, name, owner, in) == [op |-> op, kind |-> kind, name |-> name, owner |-> owner, in |-> in]
Note == Brick("note", "", "", Everyone, "saved")

Init ==
  /\ project \in Projects
  /\ phase = "objects"
  /\ scripts = <<>> /\ wanted = NoWorkarounds /\ keys = {}
  /\ converter = "saved"
  /\ at = 1 /\ here = NoSprite
  /\ upcoming = {} /\ scene = <<>>
  /\ variables = [p \in Programs |-> {}] /\ lists = [p \in Programs |-> {}]
  /\ board = [pos |-> 0, sprites |-> {}, seen |-> {}, tapAny |-> {}, pressAny |-> {}]

-------------------------------------------------------------------------------
\* One object's preprocess_object.
PreprocessObject ==
  /\ phase = "objects"
  /\ LET object == objects[at]
         info   == WorkaroundInfo(object, Names)
     IN /\ scripts' = Append(scripts, preprocessed(object, Names))
        /\ wanted' = Merged(wanted, info)
        /\ keys' = keys \union info.keys
  /\ IF at < Len(objects) THEN at' = at + 1 /\ phase' = phase ELSE at' = 1 /\ phase' = "helpers"
  /\ UNCHANGED <<project, converter, here, upcoming, scene, variables, lists, board>>

\* The helper scripts of all objects; then the hats of the scripts say which keys are listened to.
AddHelpers ==
  /\ phase = "helpers"
  /\ IF UnknownSprites(wanted, project.monitors, Names) # {}
     THEN phase' = "failed" /\ UNCHANGED <<scripts, keys, lists>>
     ELSE /\ phase' = "sprites"
          /\ scripts' = [i \in DOMAIN scripts |-> scripts[i] \o HelperScripts(objects[i], wanted, project.monitors)]
          /\ keys' = keys \union UNION {{[key |-> s.arg, type |-> "listenedKeys"] :
                              s \in {t \in ToSet(scripts[i]) : t.hat = "whenKeyPressed"}} : i \in DOMAIN scripts}
          /\ lists' = [lists EXCEPT !["saved"] = {[owner |-> Everyone, name |-> l] : l \in objects[1].lists}]
  /\ UNCHANGED <<project, wanted, converter, at, here, upcoming, scene, variables, board>>

-------------------------------------------------------------------------------
\* The variables of an object, its own and the generated ones.
VariablesOf(i) ==
  {[kind |-> "user", name |-> v] : v \in objects[i].vars} \union HelperVariables(objects[i], wanted, project.monitors)

Owned(owner, vs) == {[owner |-> owner, kind |-> v.kind, name |-> v.name] : v \in vs}

\* Mutant: the sprite that a brick made ahead of its turn is not taken.
SpriteFor_Fresh(name) == SpriteId(name, "inTurn")

\* The sprite of an object: the one a brick made ahead of its turn, or a new one.
SpriteFor(name) == SpriteId(name, IF name \in upcoming THEN "ahead" ELSE "inTurn")

\* _catrobat_sprite_from, up to the scripts: declares the sprite's lists and variables in the scene of the project
\* of the class attributes.
StartSprite ==
  /\ phase = "sprites" /\ here = NoSprite
  /\ LET id    == SpriteFor(objects[at].name)
         owner == IF at = 1 THEN Everyone ELSE id
         own   == IF at = 1 THEN {} ELSE {[owner |-> id, name |-> l] : l \in objects[at].lists}
     IN /\ here' = NewSprite(id, converter)
        /\ variables' = [variables EXCEPT ![converter] = @ \union Owned(owner, VariablesOf(at))]
        /\ lists' = [lists EXCEPT ![converter] = @ \union own]
  /\ UNCHANGED <<project, phase, scripts, wanted, keys, converter, at, upcoming, scene, board>>

Converted == Len(here.scripts)                  \* the script that is being converted
Source    == scripts[at][Converted].blocks
Bricks    == here.scripts[Converted]
ScriptEnded == Converted > 0 => Len(Bricks) = Len(Source)

\* Mutant: every sensor hat does.
ConverterAfter_Number(hat) == IF hat \in {"whenSensorFormula", "whenSensorNumber"} THEN "dummy" ELSE converter

\* A sensor hat makes another converter, for a dummy project, to convert a value that is no number: a block, mostly, for
\* which "whenSensorFormula" stands, or a text.
ConverterAfter(hat) == IF hat = "whenSensorFormula" THEN "dummy" ELSE converter

\* The definition of a custom block has the parameters of the last definition of that block in the object
\* (user_script_declared_labels_map), is the first one of the block, and has default values of the right kind.
DefinitionsOf(header) == {k \in DOMAIN scripts[at] : scripts[at][k].hat = "procDef" /\ scripts[at][k].arg = header}
LabelsAgree(s) == \E last \in DefinitionsOf(s.arg) :
                    (\A k \in DefinitionsOf(s.arg) : k <= last) /\ s.labels = scripts[at][last].labels

\* Mutant: only a call looks for the brick that is there already.
DefinitionBrick_OwnOne(header, maker) ==
  LET made == {d \in here.definitions : d.name = header}
  IN IF made # {} /\ maker = "call" THEN CHOOSE d \in made : TRUE ELSE SpriteId(header, maker)

\* The definition brick of a custom block is made by the first of its calls and its definition.
DefinitionBrick(header, maker) ==
  LET made == {d \in here.definitions : d.name = header}
  IN IF made # {} THEN CHOOSE d \in made : TRUE ELSE SpriteId(header, maker)

\* create_script, for the next script of the object: a definition that cannot be converted is replaced by a script
\* that runs when the program starts, and so does its body.
StartScript ==
  /\ phase = "sprites" /\ here # NoSprite
  /\ ScriptEnded /\ Converted < Len(scripts[at])
  /\ LET s     == scripts[at][Converted + 1]
         more  == [here EXCEPT !.scripts = Append(@, <<>>)]
         met   == [more EXCEPT !.declared = @ \union {s.arg}]
         brick == DefinitionBrick(s.arg, "definition")
         fits  == LabelsAgree(s) /\ s.arg \notin here.declared
     IN here' = CASE s.hat # "procDef"                    -> [more EXCEPT !.roles = Append(@, Plain)]
                  [] s.hat = "procDef" /\ ~fits           -> [more EXCEPT !.roles = Append(@, Replacement)]
                  [] s.hat = "procDef" /\ fits /\ s.odd   -> [met EXCEPT !.roles = Append(@, Replacement)]
                  [] OTHER -> [met EXCEPT !.roles = Append(@, brick), !.definitions = @ \union {brick}]
  /\ converter' = ConverterAfter(scripts[at][Converted + 1].hat)
  /\ UNCHANGED <<project, phase, scripts, wanted, keys, at, upcoming, scene, variables, lists, board>>

-------------------------------------------------------------------------------
\* The next block of the script, and the brick it becomes.
IsNext(ops, b) == phase = "sprites" /\ ~ScriptEnded /\ b = Source[Len(Bricks) + 1] /\ b.op \in ops
Add(brick)     == here' = [here EXCEPT !.scripts[Converted] = Append(@, brick)]

\* The sprites of the program's scene with a name; the dummy program has none.
NameInScene(id) == IF id.name = Stage THEN Background ELSE id.name
InScene(program, name) ==
  {scene[i].id : i \in {k \in DOMAIN scene : program = "saved" /\ NameInScene(scene[k].id) = name}}

\* createCloneOf, pointTowards: and gotoSpriteOrMouse: with the name of a sprite, not with a formula, nothing to clone
\* or a random place.
NamesSprite(b) ==
  /\ b.kind = "sprite"
  /\ b.op = "createCloneOf" => b.name # ""
  /\ b.op = "gotoSpriteOrMouse:" => b.name # "_random_"

\* The sprite is made ahead if its turn has not come.
ConvertTarget(b) ==
  /\ IsNext(Targets, b) /\ NamesSprite(b)
  /\ LET own   == b.op = "createCloneOf" /\ b.name \in {"_myself_", NameInScene(here.id)}
         found == IF own THEN {here.id} ELSE InScene(converter, b.name)
         id    == IF found # {} THEN CHOOSE i \in found : TRUE ELSE SpriteId(b.name, "ahead")
     IN /\ Add(Brick(b.op, "sprite", b.name, id, converter))
        /\ upcoming' = IF found # {} THEN upcoming ELSE upcoming \union {b.name}
  /\ UNCHANGED <<project, phase, scripts, wanted, keys, converter, at, scene, variables, lists, board>>

\* Only a random place is no note.
ConvertNoTarget(b) ==
  /\ IsNext(Targets, b) /\ ~NamesSprite(b)
  /\ Add(IF b.kind = "sprite" /\ b.op = "gotoSpriteOrMouse:" THEN Brick(b.op, "", b.name, Everyone, converter) ELSE Note)
  /\ UNCHANGED <<project, phase, scripts, wanted, keys, converter, at, upcoming, scene, variables, lists, board>>

\* getUserVariable and getUserList: what is the sprite's own or of all sprites.
Lookup(kind, name) == {v \in variables[converter] : v.kind = kind /\ v.name = name /\ v.owner \in {here.id, Everyone}}
LookupList(name)   == {l \in lists[converter] : l.name = name /\ l.owner \in {here.id, Everyone}}

\* Mutant: what is of all sprites comes first.
OwnerIn_Shared(found) == IF \E v \in found : v.owner = Everyone THEN Everyone ELSE here.id

\* The sprite's own comes first.
OwnerIn(found) == IF \E v \in found : v.owner = here.id THEN here.id ELSE Everyone

\* setVar:to:, changeVar:by: declare a variable for the sprite if there is none yet.
ConvertVariable(b) ==
  /\ IsNext({"setVar:to:", "changeVar:by:"}, b)
  /\ LET found == Lookup(b.kind, b.name)
         owner == IF found # {} THEN OwnerIn(found) ELSE here.id
     IN /\ Add(Brick(b.op, b.kind, b.name, owner, converter))
        /\ variables' = [variables EXCEPT ![converter] = @ \union Owned(owner, {[kind |-> b.kind, name |-> b.name]})]
  /\ UNCHANGED <<project, phase, scripts, wanted, keys, converter, at, upcoming, scene, lists, board>>

\* showVariable: and hideVariable: without their variable are an assertion, which leaves a note.
ConvertShown(b) ==
  /\ IsNext({"showVariable:", "hideVariable:"}, b)
  /\ LET found == Lookup(b.kind, b.name)
     IN Add(IF found = {} THEN Note ELSE Brick(b.op, b.kind, b.name, OwnerIn(found), converter))
  /\ UNCHANGED <<project, phase, scripts, wanted, keys, converter, at, upcoming, scene, variables, lists, board>>

\* penColor: and penSize: declare variables for the sprite, but the bricks that should set them set variables of the same
\* names that nobody declares.  A colour that is no number is a note.
PenVariables(op) == IF op = "penColor:" THEN {"red", "green", "blue"} ELSE {"pen_size"}

ConvertPen(b) ==
  /\ IsNext(PenOps, b)
  /\ LET good  == b.op = "penColor:" => b.kind = "good"
         made  == IF good THEN {[kind |-> "user", name |-> v] : v \in PenVariables(b.op)} ELSE {}
     IN /\ Add(IF good THEN Brick(b.op, "user", b.name, Loose, converter) ELSE Note)
        /\ variables' = [variables EXCEPT ![converter] = @ \union Owned(here.id, made)]
  /\ UNCHANGED <<project, phase, scripts, wanted, keys, converter, at, upcoming, scene, lists, board>>

\* So do the blocks of a list without the list, those that read it too.
ConvertList(b) ==
  /\ IsNext(ListOps, b)
  /\ LET found == LookupList(b.name)
     IN Add(IF found = {} THEN Note ELSE Brick(b.op, "list", b.name, OwnerIn(found), converter))
  /\ UNCHANGED <<project, phase, scripts, wanted, keys, converter, at, upcoming, scene, variables, lists, board>>

\* doAsk and answer declare the answer variable of all sprites (_get_or_create_shared_global_answer_variable).
ConvertAnswer(b) ==
  /\ IsNext({"doAsk", "answer"}, b)
  /\ Add(Brick(b.op, "answer", "", Everyone, converter))
  /\ variables' = [variables EXCEPT ![converter] = @ \union Owned(Everyone, {[kind |-> "answer", name |-> ""]})]
  /\ UNCHANGED <<project, phase, scripts, wanted, keys, converter, at, upcoming, scene, lists, board>>

\* call: of a block that the object defines somewhere, with values of the right kind; otherwise a note.
ConvertCall(b) ==
  /\ IsNext({"call"}, b)
  /\ LET brick == DefinitionBrick(b.name, "call")
         good  == b.kind = "good" /\ DefinitionsOf(b.name) # {}
         added == Append(Bricks, IF good THEN Brick("call", "block", b.name, brick, converter) ELSE Note)
     IN here' = [here EXCEPT !.scripts[Converted] = added, !.definitions = IF good THEN @ \union {brick} ELSE @]
  /\ UNCHANGED <<project, phase, scripts, wanted, keys, converter, at, upcoming, scene, variables, lists, board>>

\* The other blocks refer to nothing that is declared: a formula only has the name of the variable that it reads.
VariableOps == {"setVar:to:", "changeVar:by:", "showVariable:", "hideVariable:"}
Referring   == Targets \union VariableOps \union PenOps \union ListOps \union {"doAsk", "answer", "call"}

ConvertOther(b) ==
  /\ IsNext({b.op}, b) /\ b.op \notin Referring
  /\ Add(Brick(b.op, b.kind, b.name, Everyone, converter))
  /\ UNCHANGED <<project, phase, scripts, wanted, keys, converter, at, upcoming, scene, variables, lists, board>>

ConvertBlock ==
  \E b \in (IF phase = "sprites" /\ ~ScriptEnded THEN {Source[Len(Bricks) + 1]} ELSE {}) :
    \/ ConvertTarget(b) \/ ConvertNoTarget(b)
    \/ ConvertVariable(b) \/ ConvertShown(b) \/ ConvertPen(b) \/ ConvertAnswer(b) \/ ConvertList(b)
    \/ ConvertCall(b) \/ ConvertOther(b)

-------------------------------------------------------------------------------
\* _add_default_behaviour_to: the lists' items and the place, look, size and direction an object starts with are put
\* into its start script together ("settings"), then the values of its variables, then the watchers that are shown.
\* The first error ends it and is only logged.
ListsAreFound == IF at = 1 THEN converter = "saved" ELSE objects[at].lists = {} \/ here.in = converter
SettingsAdded == ListsAreFound /\ ~objects[at].oddItem
AnswerExists  == at = 1 /\ [owner |-> Everyone, kind |-> "answer", name |-> ""] \in variables[here.in]

DefaultBehaviour ==
  IF ~SettingsAdded THEN {}
  ELSE {"settings", "variables"} \union (IF AnswerExists THEN {"answer"} ELSE {})
                                 \union (IF converter = "saved" THEN {"shown"} ELSE {})

\* The sprite is finished and added to the scene of the program that is saved.
FinishSprite ==
  /\ phase = "sprites" /\ here # NoSprite
  /\ ScriptEnded /\ Converted = Len(scripts[at])
  /\ scene' = Append(scene, [here EXCEPT !.starts = DefaultBehaviour])
  /\ here' = NoSprite
  /\ IF at < Len(objects) THEN at' = at + 1 /\ phase' = phase ELSE at' = 1 /\ phase' = "keys"
  /\ UNCHANGED <<project, scripts, wanted, keys, converter, upcoming, variables, lists, board>>

-------------------------------------------------------------------------------
\* _add_key_sprites_to.  A key sprite: [key, x, y, runs], where runs names its scripts: tap and press for its own key,
\* tapAny and pressAny for "any".
HasAny(type)  == [key |-> "any", type |-> type] \in keys
OwnKeys       == {k \in keys : k.key # "any"}
SpaceListened == \E k \in keys : k.key = "space"
\* Mutant: "any" is nobody's when there is no other key.
Listened_Own == OwnKeys

\* With no other key, "any" is given to the sprite of the key a.
Listened      == IF OwnKeys = {} /\ keys # {} THEN {[key |-> "a", type |-> "any"]} ELSE OwnKeys

\* The row of the space key keeps four places free for it.
Free(pos) == IF SpaceListened /\ pos = 4 THEN pos + 4 ELSE pos

HasSprite(key) == \E s \in board.sprites : s.key = key
Place(pos)     == [x |-> 40 * ((pos % 12) + 1) - 260, y |-> 40 * ((pos \div 12) + 1) - 200]

\* A sprite is made at a place or, if there is one already, is given more scripts.
WithScripts(sprites, key, place, runs) ==
  IF \E s \in sprites : s.key = key
  THEN {IF s.key = key THEN [s EXCEPT !.runs = @ \union runs] ELSE s : s \in sprites}
  ELSE sprites \union {[key |-> key, x |-> place.x, y |-> place.y, runs |-> runs]}

\* The set of keys is gone through in any order.  Each of the two workarounds of a key says whether it made the
\* sprite; only the answer of the last one decides whether the next key gets the next place.
AddKeySprite(k) ==
  /\ phase = "keys" /\ k \in Listened /\ k \notin board.seen /\ k.key # "space"
  /\ LET tap    == k.type = "listenedKeys" \/ HasAny("listenedKeys")
         press  == k.type = "keyPressedBrick" \/ HasAny("keyPressedBrick")
         pos    == Free(board.pos)
         taps   == (IF k.type = "listenedKeys" THEN {"tap"} ELSE {})
                     \union (IF k.key \in board.tapAny THEN {} ELSE {"tapAny"})
         presses == (IF k.type = "keyPressedBrick" THEN {"press"} ELSE {})
                     \union (IF k.key \in board.pressAny THEN {} ELSE {"pressAny"})
         tapped == IF tap THEN WithScripts(board.sprites, k.key, Place(pos), taps) ELSE board.sprites
         both   == IF press THEN WithScripts(tapped, k.key, Place(pos), presses) ELSE tapped
         added  == IF press THEN both # tapped /\ ~\E s \in tapped : s.key = k.key
                   ELSE tap /\ ~HasSprite(k.key)
     IN IF ~HasSprite(k.key) /\ k.key \notin KeysWithImage THEN phase' = "failed" /\ board' = board
        ELSE /\ phase' = phase
             /\ board' = [pos |-> IF added THEN pos + 1 ELSE pos, sprites |-> both, seen |-> board.seen \union {k},
                          tapAny   |-> IF tap THEN board.tapAny \union {k.key} ELSE board.tapAny,
                          pressAny |-> IF press THEN board.pressAny \union {k.key} ELSE board.pressAny]
  /\ UNCHANGED <<project, scripts, wanted, keys, converter, at, here, upcoming, scene, variables, lists>>

\* The space key comes last and has a place of its own.
AddSpaceSprite ==
  /\ phase = "keys" /\ \A k \in Listened : k \in board.seen \/ k.key = "space"
  /\ LET tap   == HasAny("listenedKeys") \/ [key |-> "space", type |-> "listenedKeys"] \in keys
         press == HasAny("keyPressedBrick") \/ [key |-> "space", type |-> "keyPressedBrick"] \in keys
         runs  == (IF tap THEN {"tap"} ELSE {}) \union (IF press THEN {"press"} ELSE {})
                    \union (IF HasAny("listenedKeys") THEN {"tapAny"} ELSE {})
                    \union (IF HasAny("keyPressedBrick") THEN {"pressAny"} ELSE {})
     IN board' = IF SpaceListened THEN [board EXCEPT !.sprites = WithScripts(@, "space", [x |-> 0, y |-> -160], runs)]
                 ELSE board
  /\ phase' = "cursor"
  /\ UNCHANGED <<project, scripts, wanted, keys, converter, at, here, upcoming, scene, variables, lists>>

\* add_cursor_sprite_to.  The condition that the pointer touches no key's sprite cannot be built without a key.
CursorNeeded == Mouse \in upcoming \/ Mouse \in wanted.positions

AddCursorSprite ==
  /\ phase = "cursor"
  /\ IF ~CursorNeeded THEN phase' = "done" /\ UNCHANGED <<scene, variables>>
     ELSE IF Listened = {} THEN phase' = "failed" /\ UNCHANGED <<scene, variables>>
     ELSE LET asked    == Mouse \in wanted.positions
              position == [kind |-> "position", name |-> Mouse]
              set      == Brick("setVar:to:", "position", Mouse, Everyone, "saved")
          IN /\ phase' = "done"
             /\ scene' = Append(scene, [NoSprite EXCEPT !.id = SpriteFor(Mouse), !.scripts = If(asked, <<set>>)])
             /\ variables' = [variables EXCEPT !["saved"] = @ \union (IF asked THEN Owned(Everyone, {position}) ELSE {})]
  /\ UNCHANGED <<project, scripts, wanted, keys, converter, at, here, upcoming, lists, board>>

Ended == phase \in {"done", "failed"} /\ UNCHANGED vars

Next ==
  \/ PreprocessObject \/ AddHelpers
  \/ StartSprite \/ StartScript \/ ConvertBlock \/ FinishSprite
  \/ \E k \in keys \union {[key |-> "a", type |-> "any"]} : AddKeySprite(k)
  \/ AddSpaceSprite \/ AddCursorSprite
  \/ Ended

Spec == Init /\ [][Next]_vars

-------------------------------------------------------------------------------
\* The objects up to which, and including which, a sensor hat has replaced the project of the converter.
Replacing(i)  == \E s \in ToSet(objects[i].scripts) : s.hat = "whenSensorFormula"
Unaffected(i) == i \in DOMAIN objects /\ \A j \in 1..i : ~Replacing(j)

SceneIds    == {scene[i].id : i \in DOMAIN scene}
BricksOf(s) == UNION {ToSet(s.scripts[k]) : k \in DOMAIN s.scripts}
Declares(v) == v \in variables["saved"]

\* The bricks of all blocks but those of the pen refer to what the saved program holds: their variable and their list
\* are declared there, and the sprite they name is one of the scene, however early the brick was made, unless the project
\* has no sprite of that name.  What the pen's bricks set is never declared; the variables that are declared for them
\* are others.
\* The sprites from the first sensor hat with a formula on are the exception: the hat has replaced the project.  So is
\* a brick that names the stage, to clone it too, or the sprite it is in (a script dragged there from another sprite
\* may): it may refer to a second sprite of that name, which nobody adds to the scene.
NamesItself(b, object) == b.name = Stage \/ (b.op # "createCloneOf" /\ b.name = object.name)
RefersToScene ==
  phase = "done" =>
    \A i \in {k \in DOMAIN objects : Unaffected(k)} : \A b \in BricksOf(scene[i]) :
      /\ b.kind = "sprite" /\ b.name \in Names \union {Mouse} => b.owner \in SceneIds \/ NamesItself(b, objects[i])
      /\ b.kind = "list" => [owner |-> b.owner, name |-> b.name] \in lists["saved"]
      /\ b.op \in VariableOps \union {"doAsk", "answer"} => Declares([owner |-> b.owner, kind |-> b.kind, name |-> b.name])

\* Whatever the order of a custom block's calls and its definition, all of them share one definition brick, so that a
\* call runs the body.  A block with a definition that cannot be converted is the exception, and only that or a second
\* definition lets a body run when the program starts.
Odd(i, header)    == \E s \in ToSet(objects[i].scripts) : s.hat = "procDef" /\ s.arg = header /\ s.odd
Bodies(i, header) == {k \in DOMAIN scene[i].roles : scene[i].roles[k] \in {SpriteId(header, m) : m \in {"call", "definition"}}}
CallsHaveBodies ==
  phase = "done" =>
    \A i \in DOMAIN objects :
      /\ \A b \in {c \in BricksOf(scene[i]) : c.op = "call"} :
           \/ \E k \in Bodies(i, b.name) : Bodies(i, b.name) = {k} /\ scene[i].roles[k] = b.owner
           \/ Odd(i, b.name)
      /\ \A k \in DOMAIN objects[i].scripts : scene[i].roles[k] = Replacement =>
           LET s == objects[i].scripts[k]
           IN s.odd \/ \E other \in DOMAIN objects[i].scripts \ {k} :
                         objects[i].scripts[other].hat = "procDef" /\ objects[i].scripts[other].arg = s.arg

\* A variable or a list that the project file declares is the one that a block of that name gets: the object's own, or
\* else that of all sprites.  But a pen that is used in the object declares variables for it, which hide those of all
\* sprites of the same names from its blocks.
Shadowed(i, name)  == \E b \in BlocksIn(objects[i].scripts) : b.op \in PenOps /\ name \in PenVariables(b.op)
OwnVariable(i, name) == i # 1 /\ name \in objects[i].vars
OwnList(i, name)     == i # 1 /\ name \in objects[i].lists
Means(i, id, b) ==
  /\ b.kind = "user" /\ b.op \in VariableOps =>
       /\ OwnVariable(i, b.name) => b.owner = id
       /\ b.name \in objects[1].vars => b.owner = Everyone \/ OwnVariable(i, b.name) \/ Shadowed(i, b.name)
  /\ b.kind = "list" =>
       /\ OwnList(i, b.name) => b.owner = id
       /\ b.name \in objects[1].lists => b.owner = Everyone \/ OwnList(i, b.name)
NamesAreMeant ==
  phase = "done" =>
    \A i \in {k \in DOMAIN objects : Unaffected(k)} : \A b \in BricksOf(scene[i]) : Means(i, scene[i].id, b)

RefersToSavedProgram == RefersToScene /\ CallsHaveBodies /\ NamesAreMeant

\* The timer is counted by one script, or it would run twice as fast; the stage's watcher adds a second one to a
\* project that resets the timer and never reads it.
TimerRunsOnce ==
  LET counting == {k \in DOMAIN scene[1].scripts :
                     \E b \in ToSet(scene[1].scripts[k]) : b.op = "changeVar:by:" /\ b.kind = "timer"}
  IN Cardinality(counting) > 1 => Cardinality(counting) = 2 /\ wanted.reset /\ ~wanted.timer

\* A generated variable that some brick reads is set, in the saved program and for all sprites, by a script of the
\* sprite it is about: the stage for the timer, the other sprite for a position or an attribute.
SetsFor(i, kind, name) ==
  \E b \in BricksOf(scene[i]) : /\ b.op \in {"setVar:to:", "changeVar:by:"} /\ b.kind = kind /\ b.name = name
                                /\ b.in = "saved" /\ b.owner = Everyone
VariablesRead ==
  \A i \in DOMAIN scene : \A b \in {c \in BricksOf(scene[i]) : c.op = "readVariable"} :
    \A j \in DOMAIN scene :
      (/\ b.kind \in {"timer", "position", "attribute"}
       /\ scene[j].id.name = (IF b.kind = "timer" THEN Stage ELSE b.name)
       /\ j \in DOMAIN objects => Unaffected(j)) => SetsFor(j, b.kind, b.name)
GeneratedVariablesAreFed == phase = "done" => VariablesRead /\ TimerRunsOnce

\* An object keeps the place, look and size it starts with, its lists' items and the values of its variables unless a
\* list holds a truth value; where a sensor hat has replaced the project, objects without lists keep them still, and
\* only what is shown of their variables is lost.
KeptStartValues ==
  phase = "done" =>
    \A i \in {k \in DOMAIN objects : ~objects[k].oddItem} :
      /\ Unaffected(i) => {"settings", "variables", "shown"} \subseteq scene[i].starts
      /\ i # 1 /\ objects[i].lists = {} => {"settings", "variables"} \subseteq scene[i].starts

\* The answer of all sprites starts empty in the stage's start script whenever the stage uses it; when only other
\* sprites do, it is declared after the stage was finished and has no start value.
AnswerStartsEmpty ==
  phase = "done" /\ Unaffected(1) /\ ~objects[1].oddItem =>
    ("answer" \in scene[1].starts <=>
       \/ \E b \in BlocksIn(objects[1].scripts) : b.op \in {"doAsk", "answer"}
       \/ \E m \in project.monitors : m.cmd = "answer")
StartValuesAreKept == KeptStartValues /\ AnswerStartsEmpty

\* Two keys' sprites overlap, the space key being wider than the others, only when "any" key is waited for in one way
\* and a key of its own in the other, so that the second workaround of a key hides that the first has made its sprite.
Overlap(s, t) == /\ s.key # t.key /\ s.y = t.y
                 /\ s.x = t.x \/ (s.key = "space" /\ t.x \in {-60, -20, 20, 60})
KeysHaveTheirPlaces ==
  \A s, t \in board.sprites :
    Overlap(s, t) => \/ HasAny("listenedKeys") /\ \E k \in OwnKeys : k.type = "keyPressedBrick"
                     \/ HasAny("keyPressedBrick") /\ \E k \in OwnKeys : k.type = "listenedKeys"

\* Every key that a hat or a block waits for has a sprite that answers it, and so has "any" key.
KeysAreAnswered ==
  phase = "done" =>
    \A k \in keys : \E s \in board.sprites :
      IF k.key = "any" THEN (IF k.type = "listenedKeys" THEN "tapAny" ELSE "pressAny") \in s.runs
      ELSE s.key = k.key /\ (IF k.type = "listenedKeys" THEN "tap" ELSE "press") \in s.runs
KeysAreServed == KeysAreAnswered /\ KeysHaveTheirPlaces

\* What happens between the objects gives up the conversion of a whole project only for an attribute, a watcher or a
\* distance (next to a distance to a sprite there is) of a sprite that was deleted, a key without a picture, or the mouse
\* pointer without any key.  What in a script may end it is AbortsOnlyFor of ScriptConversion.
Uses(op, name)         == \E i \in DOMAIN objects : \E b \in BlocksIn(objects[i].scripts) : b.op = op /\ b.name = name
UsesUnknown(op, known) == \E i \in DOMAIN objects : \E b \in BlocksIn(objects[i].scripts) : b.op = op /\ b.name \notin known
WaitsForNoKey ==
  ~\E i \in DOMAIN objects : \E t \in ToSet(objects[i].scripts) : t.hat = "whenKeyPressed" \/ NamesIn("keyPressed:", <<t>>) # {}
ConversionFailsOnlyFor ==
  phase = "failed" =>
    \/ UsesUnknown("getAttribute:of:", Names) \/ \E m \in project.monitors : m.target \notin Names /\ m.cmd # "getVar:"
    \/ UsesUnknown("distanceTo:", Names \union {Mouse}) /\ \E n \in Names \union {Mouse} : Uses("distanceTo:", n)
    \/ \E k \in keys : k.key \notin KeysWithImage \union {"any"}
    \/ WaitsForNoKey /\ \E op \in Targets \union {"distanceTo:"} : Uses(op, Mouse)
================================================================================
