----------------------- MODULE SpriteConversion_proofs -----------------------
(***************************************************************************)
(* Proofs about SpriteConversion, for every set of projects, of any number *)
(* of objects, scripts and blocks.                                         *)
(*                                                                         *)
(* What a brick refers to is decided when it is made, and whether that is  *)
(* in the program only when the last object was converted. Between the two *)
(* a brick may refer to a sprite made ahead of its turn: it is waited for  *)
(* in upcoming until its turn comes (BrickRefers). The custom blocks of an *)
(* object are followed definition by definition (CustomBlocks). A name     *)
(* keeps its meaning because what an object owns is declared before its    *)
(* first brick, and only its pen declares more of its own (MeantInv).      *)
(***************************************************************************)
EXTENDS SpriteConversion, SequenceTheorems, FiniteSetTheorems, TLAPS

-------------------------------------------------------------------------------
(* Types *)

\* Strings; the prover knows of none that it is one, so those of the definitions are listed.
Texts == STRING \union
  {"", Stage, Mouse, Background, "procDef", "readVariable", "doBroadcastAndWait", "say", "changeVar:by:", "setVar:to:", "note", "call",
   "timer", "key", "position", "attribute", "sensor", "sprite", "list", "answer", "block", "user", "good", "odd", "a", "space",
   "whenGreenFlag", "whenIReceive"}

Blocks  == [op : Texts, kind : Texts, name : Texts]
Scripts ==
  {s \in [hat : Texts, arg : Texts, blocks : Seq(Blocks)] : s.hat # "procDef"}
    \union [hat : {"procDef"}, arg : Texts, blocks : Seq(Blocks), labels : Texts, odd : BOOLEAN]
Ids       == [name : Texts, made : {"", "ahead", "inTurn", "call", "definition", "script", "replacement", "loose"}]
AnyBricks == [op : Texts, kind : Texts, name : Texts, owner : Ids, in : Programs]
Sprites ==
  [id : Ids, in : Programs, scripts : Seq(Seq(AnyBricks)), roles : Seq(Ids), definitions : SUBSET Ids,
   declared : SUBSET Texts, starts : SUBSET {"settings", "variables", "answer", "shown"}]

\* A variable has an owner, a kind and a name.
Recorded == \A p \in Programs : \A v \in variables[p] : v = [owner |-> v.owner, kind |-> v.kind, name |-> v.name]

TypeOK ==
  /\ project \in Projects
  /\ phase \in Phases
  /\ scripts \in Seq(Seq(Scripts))
  /\ converter \in Programs
  /\ at \in DOMAIN objects
  /\ here \in Sprites
  /\ scene \in Seq(Sprites)
  /\ DOMAIN variables = Programs /\ DOMAIN lists = Programs
  /\ Recorded
  /\ \A p \in Programs : \A l \in lists[p] : l = [owner |-> l.owner, name |-> l.name]

\* Where the conversion is: how many objects are prepared and how many are sprites.
InOrder ==
  /\ phase = "objects" => Len(scripts) = at - 1
  /\ phase \notin {"objects", "failed"} => Len(scripts) = Len(objects)
  /\ phase \in {"objects", "helpers"} => scene = <<>> /\ converter = "saved"
  /\ phase = "helpers" => at = 1
  /\ phase = "sprites" => Len(scene) = at - 1
  /\ phase \in {"keys", "space", "cursor"} => Len(scene) = Len(objects)
  /\ phase = "done" => Len(scene) >= Len(objects)
  /\ phase # "sprites" => here = NoSprite
  /\ phase = "sprites" /\ converter = "dummy" => \E j \in 1..at : Replacing(j)

-------------------------------------------------------------------------------
(* What the preparation makes of the scripts of object i *)

\* The blocks that later steps look for stay what and where they are.
Looked == Targets \union PenOps \union {"doAsk", "answer"}
SameScript(s, t) ==
  /\ s.hat = t.hat /\ s.arg = t.arg /\ (t.hat = "procDef" => s.labels = t.labels /\ s.odd = t.odd)
  /\ Len(s.blocks) = Len(t.blocks)
  /\ \A n \in DOMAIN t.blocks : s.blocks[n].op \in Looked \/ t.blocks[n].op \in Looked => s.blocks[n] = t.blocks[n]

\* Only a distance names a sprite and refers to none, if there is none; and no block is about the answer variable.
GoodBlock(b) ==
  /\ b.kind # "answer"
  /\ b.kind = "sprite" => b.op \in Targets \/ (b.op = "distanceTo:" /\ b.name \notin Names \union {Mouse})
  /\ b.kind = "list" => b.op \in ListOps

Prepared(i) ==
  /\ Len(scripts[i]) >= Len(objects[i].scripts)
  /\ \A k \in DOMAIN objects[i].scripts : SameScript(scripts[i][k], objects[i].scripts[k])
  /\ \A k \in DOMAIN scripts[i] \ DOMAIN objects[i].scripts :
       /\ scripts[i][k].hat \notin {"procDef", "whenSensorFormula"}
       /\ \A b \in ToSet(scripts[i][k].blocks) : b.op \notin Looked
  /\ \A k \in DOMAIN scripts[i] : \A b \in ToSet(scripts[i][k].blocks) : GoodBlock(b)

-------------------------------------------------------------------------------
(* The sprites that were begun: those of the scene, and the one that is being converted *)

Begun(i)    == i \in DOMAIN objects /\ (i \in DOMAIN scene \/ (here # NoSprite /\ i = at))
SpriteOf(i) == IF i \in DOMAIN scene THEN scene[i] ELSE here
BegunIds    == SceneIds \union (IF here # NoSprite THEN {here.id} ELSE {})

\* Brick b of object i refers to what is there, or will be.
BrickRefers(i, b) ==
  /\ b.kind = "sprite" /\ b.name \in Names \union {Mouse} =>
        \/ b.owner \in BegunIds
        \/ b.owner = SpriteId(b.name, "ahead") /\ b.name \in upcoming /\ \A id \in BegunIds : id.name # b.name
        \/ NamesItself(b, objects[i])
  /\ b.kind = "list" => [owner |-> b.owner, name |-> b.name] \in lists["saved"]
  /\ b.op \in VariableOps \union {"doAsk", "answer"} => Declares([owner |-> b.owner, kind |-> b.kind, name |-> b.name])

\* The definitions of a block in object i, as DefinitionsOf and LabelsAgree have them while it is converted.
Defs(i, header) == {k \in DOMAIN scripts[i] : scripts[i][k].hat = "procDef" /\ scripts[i][k].arg = header}
IsLast(i, k)    == \A m \in Defs(i, scripts[i][k].arg) : m <= k
Agrees(i, k)    == \E last \in Defs(i, scripts[i][k].arg) :
                     IsLast(i, last) /\ scripts[i][k].labels = scripts[i][last].labels

\* What script k of object i became, in sprite s.
RoleIsRight(i, s, k) ==
  \/ s.roles[k] = Plain /\ scripts[i][k].hat # "procDef"
  \/ /\ s.roles[k] = Replacement
     /\ k \in Defs(i, scripts[i][k].arg)
     /\ scripts[i][k].odd \/ \E other \in Defs(i, scripts[i][k].arg) : other # k
  \/ /\ s.roles[k] \in s.definitions /\ s.roles[k].name = scripts[i][k].arg
     /\ k \in Defs(i, scripts[i][k].arg) /\ scripts[i][k].arg \in s.declared

\* The custom blocks of object i, as far as sprite s has its scripts: each has one definition brick, and the first of its
\* definitions that agrees with the last one has it, unless that one is odd.
CustomBlocks(i, s) ==
  /\ Len(s.roles) = Len(s.scripts) /\ Len(s.scripts) <= Len(scripts[i])
  /\ \A k \in DOMAIN s.scripts : Len(s.scripts[k]) <= Len(scripts[i][k].blocks)
  /\ \A d, e \in s.definitions : d.name = e.name => d = e
  /\ \A d \in s.definitions : d.made \in {"call", "definition"}
  /\ \A k \in DOMAIN s.roles : RoleIsRight(i, s, k)
  /\ \A j, k \in DOMAIN s.roles :
       s.roles[j] \in s.definitions /\ s.roles[k] \in s.definitions /\ s.roles[j].name = s.roles[k].name => j = k
  /\ \A k \in DOMAIN s.roles : scripts[i][k].hat = "procDef" /\ Agrees(i, k) => scripts[i][k].arg \in s.declared
  /\ \A h \in s.declared :
       \/ \E k \in DOMAIN s.roles : s.roles[k] \in s.definitions /\ s.roles[k].name = h
       \/ \E k \in DOMAIN s.roles : k \in Defs(i, h) /\ scripts[i][k].odd
  /\ \A b \in BricksOf(s) : b.op = "call" => b.owner \in s.definitions /\ b.owner.name = b.name /\ Defs(i, b.name) # {}
  /\ \A k \in DOMAIN s.roles : scripts[i][k].hat = "procDef" =>
       \E last \in DOMAIN s.roles \intersect Defs(i, scripts[i][k].arg) :
          \A m \in DOMAIN s.roles \intersect Defs(i, scripts[i][k].arg) : m <= last

SpriteInv(i, s) ==
  /\ s.id.name = objects[i].name /\ s.id.made \in {"ahead", "inTurn"}
  /\ Unaffected(i) => \A b \in BricksOf(s) : BrickRefers(i, b)
  /\ CustomBlocks(i, s)

Inv ==
  /\ TypeOK
  /\ InOrder
  /\ \A i \in DOMAIN scripts : Prepared(i)
  /\ \A i \in DOMAIN objects : Begun(i) => SpriteInv(i, SpriteOf(i))
  /\ \A i \in DOMAIN scene : i \in DOMAIN objects => Len(scene[i].scripts) = Len(scripts[i])
  /\ phase = "done" => (Mouse \in upcoming => \E id \in SceneIds : id.name = Mouse)

-------------------------------------------------------------------------------
(* The keys and the board of their sprites *)

KeyTypes   == {"listenedKeys", "keyPressedBrick"}
KeySprites == [key : Texts, x : Int, y : Int, runs : SUBSET {"tap", "press", "tapAny", "pressAny"}]
Boards ==
  [pos : Nat, sprites : SUBSET KeySprites, seen : SUBSET [key : Texts, type : KeyTypes \union {"any"}],
   tapAny : SUBSET Texts, pressAny : SUBSET Texts]
NoBoard == [pos |-> 0, sprites |-> {}, seen |-> {}, tapAny |-> {}, pressAny |-> {}]

\* Some sprite of the key has the script.
Serves(sprites, key, run) == \E s \in sprites : s.key = key /\ run \in s.runs

\* A key that was dealt with is served, and "any" with it.
SeenIsServed(k) ==
  /\ k \in Listened /\ k.key # "space"
  /\ k.type = "listenedKeys" => Serves(board.sprites, k.key, "tap")
  /\ k.type = "keyPressedBrick" => Serves(board.sprites, k.key, "press")
  /\ HasAny("listenedKeys") => Serves(board.sprites, k.key, "tapAny")
  /\ HasAny("keyPressedBrick") => Serves(board.sprites, k.key, "pressAny")

\* "any" is waited for in one way and a key of its own in the other.
Mixed == \/ HasAny("listenedKeys") /\ \E k \in OwnKeys : k.type = "keyPressedBrick"
         \/ HasAny("keyPressedBrick") /\ \E k \in OwnKeys : k.type = "listenedKeys"

\* The sprites of different keys are in different places before the next free one, none of them the space key's.
IsAt(s, p) == s.x = Place(p).x /\ s.y = Place(p).y
Placed ==
  /\ SpaceListened => board.pos \notin 5..7
  /\ OwnKeys = {} => \A s \in board.sprites : s.key = "a"
  /\ \A s \in board.sprites : s.key = "space" => s.x = 0 /\ s.y = -160 /\ SpaceListened
  /\ OwnKeys # {} /\ ~Mixed =>
       /\ \A s \in board.sprites : s.key # "space" =>
            \E p \in 0..(board.pos - 1) : IsAt(s, p) /\ (SpaceListened => p \notin 4..7)
       /\ \A s, t \in board.sprites : s.x = t.x /\ s.y = t.y => s.key = t.key

KeyInv ==
  /\ keys \subseteq [key : Texts, type : KeyTypes]
  /\ board \in Boards
  /\ phase \in {"objects", "helpers", "sprites"} => board = NoBoard
  /\ phase = "keys" => \A s \in board.sprites : s.key # "space"
  /\ \A k \in board.seen : SeenIsServed(k)
  /\ \A key \in board.tapAny : Serves(board.sprites, key, "tapAny")
  /\ \A key \in board.pressAny : Serves(board.sprites, key, "pressAny")
  /\ Placed
  /\ phase = "cursor" \/ phase = "done" =>
       \A k \in keys : \E s \in board.sprites :
         IF k.key = "any" THEN (IF k.type = "listenedKeys" THEN "tapAny" ELSE "pressAny") \in s.runs
         ELSE s.key = k.key /\ (IF k.type = "listenedKeys" THEN "tap" ELSE "press") \in s.runs

-------------------------------------------------------------------------------
(* What is asked for is in the project *)

FailInv ==
  /\ \A n \in wanted.positions : Uses("distanceTo:", n) /\ \E m \in Names \union {Mouse} : Uses("distanceTo:", m)
  /\ \A n \in wanted.attributes : Uses("getAttribute:of:", n)
  /\ keys = {} => \A i \in DOMAIN scripts : \A t \in ToSet(objects[i].scripts) : NamesIn("keyPressed:", <<t>>) = {}
  /\ keys = {} /\ phase \notin {"objects", "helpers", "failed"} =>
       \A i \in DOMAIN objects : \A t \in ToSet(objects[i].scripts) : t.hat # "whenKeyPressed"
  /\ Mouse \in upcoming => \E op \in Targets : Uses(op, Mouse)
  /\ ConversionFailsOnlyFor

-------------------------------------------------------------------------------
(* What the start script of an object sets *)

IsAnswer(b)    == b.op \in {"doAsk", "answer"}
AnswerDeclared == [owner |-> Everyone, kind |-> "answer", name |-> ""] \in variables["saved"]
AnswerWatched  == \E m \in project.monitors : m.cmd = "answer"
AnswerUsed     == \E k \in DOMAIN here.scripts : \E n \in DOMAIN here.scripts[k] : IsAnswer(scripts[1][k].blocks[n])

KeepsStart(i, s) ==
  ~objects[i].oddItem =>
    /\ Unaffected(i) => {"settings", "variables", "shown"} \subseteq s.starts
    /\ i # 1 /\ objects[i].lists = {} => {"settings", "variables"} \subseteq s.starts

StartedScene ==
  /\ \A i \in DOMAIN scene : i \in DOMAIN objects => KeepsStart(i, scene[i])
  /\ 1 \in DOMAIN scene /\ Unaffected(1) /\ ~objects[1].oddItem =>
       ("answer" \in scene[1].starts <=> AnswerWatched \/ \E b \in BlocksIn(objects[1].scripts) : IsAnswer(b))

\* The stage declares the answer when it is begun, if it is watched, or when it uses it.
StartedHere ==
  /\ Unaffected(at) => here.in = "saved"
  /\ \A k \in 1..(Converted - 1) : Len(here.scripts[k]) = Len(scripts[at][k].blocks)
  /\ at = 1 /\ Unaffected(1) => (AnswerDeclared <=> AnswerWatched \/ AnswerUsed)

StartInv ==
  /\ phase \in {"objects", "helpers"} => variables["saved"] = {}
  /\ phase = "sprites" /\ here = NoSprite /\ at = 1 => variables["saved"] = {}
  /\ phase = "sprites" /\ here # NoSprite => StartedHere
  /\ StartedScene

-------------------------------------------------------------------------------
(* What the generated variables are fed by *)

Fed == {"timer", "position", "attribute"}

\* What the workarounds of object i ask for is asked of the project.
Asked(i) ==
  LET info == WorkaroundInfo(objects[i], Names)
  IN (info.timer => wanted.timer) /\ info.positions \subseteq wanted.positions /\ info.attributes \subseteq wanted.attributes

Helpful(i)   == HelperScripts(objects[i], wanted, project.monitors)
Generated    == HelperVariables(objects[1], wanted, project.monitors)
BeforeSprites == phase \in {"objects", "helpers"}

\* Brick r says of a variable what block b of object i does, and sets a generated one for all sprites.
Mirrors(i, r, b) ==
  /\ r.op \in {"readVariable", "changeVar:by:"} => r.op = b.op /\ r.kind = b.kind /\ r.name = b.name
  /\ b.op \in {"setVar:to:", "changeVar:by:"} =>
       /\ r.op = b.op /\ r.kind = b.kind /\ r.name = b.name
       /\ Unaffected(i) /\ b.kind \in Fed => r.in = "saved" /\ r.owner = Everyone
MirrorsSprite(i, s) ==
  \A k \in DOMAIN s.scripts : \A n \in DOMAIN s.scripts[k] : Mirrors(i, s.scripts[k][n], scripts[i][k].blocks[n])

IsPointer(s) ==
  /\ s.id.name = Mouse /\ \A b \in BricksOf(s) : b.op = "setVar:to:"
  /\ Mouse \in wanted.positions => Brick("setVar:to:", "position", Mouse, Everyone, "saved") \in BricksOf(s)

\* The scripts that are converted are those of the preparation and then the helpers.
FedScripts ==
  /\ \A i \in DOMAIN scripts : Asked(i)
  /\ BeforeSprites => \A i \in DOMAIN scripts : scripts[i] = preprocessed(objects[i], Names)
  /\ ~BeforeSprites /\ phase # "failed" =>
       /\ \A i \in DOMAIN objects : scripts[i] = preprocessed(objects[i], Names) \o Helpful(i)
       /\ wanted.attributes \subseteq Names

\* The generated variables are those of all sprites from when the stage is begun.
FedVariables ==
  Unaffected(1) =>
    /\ \A v \in variables["saved"] : v.kind \in Fed => v.owner = Everyone
    /\ Begun(1) => \A v \in Generated : v.kind \in Fed =>
                     [owner |-> Everyone, kind |-> v.kind, name |-> v.name] \in variables["saved"]

FedSprites ==
  /\ \A i \in DOMAIN objects : Begun(i) => MirrorsSprite(i, SpriteOf(i))
  /\ \A i \in DOMAIN scene : i \in DOMAIN objects =>
       \A k \in DOMAIN scripts[i] : Len(scene[i].scripts[k]) = Len(scripts[i][k].blocks)
  /\ \A i \in DOMAIN scene : i \notin DOMAIN objects => IsPointer(scene[i])

FedInv == FedScripts /\ FedVariables /\ FedSprites

-------------------------------------------------------------------------------
(* What the names of variables and lists mean *)

\* What object i declares, and whom for.
OwnerOf(i) == IF i = 1 THEN Everyone ELSE SpriteOf(i).id
DeclaresOwn(i) ==
  /\ \A n \in objects[i].vars : [owner |-> OwnerOf(i), kind |-> "user", name |-> n] \in variables["saved"]
  /\ i # 1 => \A n \in objects[i].lists : [owner |-> OwnerOf(i), name |-> n] \in lists["saved"]

\* The sprite of object i owns no variable that hides one of all sprites, but for its own and the pen's, and no list but
\* its own.
MayOwn(i, v) == v.kind = "user" /\ v.name \in objects[1].vars => OwnVariable(i, v.name) \/ Shadowed(i, v.name)
OwnsOnly(i) ==
  /\ \A v \in variables["saved"] : v.owner = SpriteOf(i).id => MayOwn(i, v)
  /\ \A l \in lists["saved"] : l.owner = SpriteOf(i).id => OwnList(i, l.name)

Meant(i) == DeclaresOwn(i) /\ OwnsOnly(i) /\ \A b \in BricksOf(SpriteOf(i)) : Means(i, SpriteOf(i).id, b)

\* Who owns something is in the scene, or is being converted.
Owners == BegunIds \union {Everyone}

MeantInv ==
  /\ \A v \in variables["saved"] : v.owner \in Owners
  /\ \A l \in lists["saved"] : l.owner \in Owners
  /\ phase = "sprites" => \A n \in objects[1].lists : [owner |-> Everyone, name |-> n] \in lists["saved"]
  /\ \A i \in DOMAIN objects : Begun(i) /\ Unaffected(i) => Meant(i)

-------------------------------------------------------------------------------
(* The preparation *)

\* What the assumption says of the project that is converted.
LEMMA ProjectFacts ==
  ASSUME project \in Projects
  PROVE  /\ objects \in Seq(SourceObjects) /\ Len(objects) \in Nat \ {0} /\ DOMAIN objects = 1..Len(objects)
         /\ \A i, j \in DOMAIN objects : objects[i].name = objects[j].name => i = j
         /\ \A i \in DOMAIN objects : objects[i] \in SourceObjects /\ objects[i].name \in Texts \ {Mouse}
         /\ objects[1].name = Stage
<1>1. /\ objects \in Seq(SourceObjects) /\ objects # <<>> /\ objects[1].name = Stage
      /\ \A i, j \in DOMAIN objects : objects[i].name = objects[j].name => i = j
      /\ \A i \in DOMAIN objects : objects[i].name # Mouse
  BY ProjectsAssumption DEF objects
<1>2. Len(objects) \in Nat \ {0} /\ DOMAIN objects = 1..Len(objects)
  BY <1>1
<1>3. \A i \in DOMAIN objects : objects[i] \in SourceObjects
  BY <1>1
<1> QED BY <1>1, <1>2, <1>3 DEF SourceObjects, Texts

\* A block after the workarounds: what is left of those that name a sprite or a list.
LEMMA ReplacedBlock ==
  ASSUME NEW object, NEW script, script.blocks \in Seq(SourceBlocks), object.name \in Texts,
         NEW k \in DOMAIN script.blocks
  PROVE  LET b == Replaced(script.blocks[k], object, script, Names)
         IN /\ b \in Blocks /\ GoodBlock(b)
            /\ b.op \in Looked \/ script.blocks[k].op \in Looked => b = script.blocks[k]
<1> DEFINE b == script.blocks[k]
<1>1. b \in SourceBlocks
  OBVIOUS
<1>2. b \in ToSet(script.blocks)
  BY DEF ToSet
<1>3. b.op = "distanceTo:" /\ ~NeedsDistance(script, Names) => b.name \notin Names \union {Mouse}
  BY <1>2 DEF NeedsDistance
<1>4. b.op \in Texts /\ b.kind \in Texts /\ b.name \in Texts /\ b \in Blocks
  BY <1>1 DEF SourceBlocks, Blocks, Texts
<1>5. /\ b.kind = "sprite" => b.op \in Targets \union {"distanceTo:", "getAttribute:of:"}
      /\ b.kind = "list" => b.op \in ListOps
      /\ b.kind # "answer"
  BY <1>1 DEF SourceBlocks
<1>6. \A op, kind, name \in Texts : kind \notin {"sprite", "list", "answer"} =>
        Block(op, kind, name) \in Blocks /\ GoodBlock(Block(op, kind, name))
  BY DEF Block, Blocks, GoodBlock
<1> DEFINE r == Replaced(b, object, script, Names)
<1>7. \/ r = b /\ (b.op = "distanceTo:" => ~NeedsDistance(script, Names)) /\ b.op # "getAttribute:of:"
      \/ r = Block("readVariable", "timer", "")
      \/ r = Block("doBroadcastAndWait", "timer", "")
      \/ r = Block("readVariable", "key", b.name)
      \/ r = Block("readVariable", "position", b.name)
      \/ r = Block("say", "", "")
      \/ r = Block("readVariable", "attribute", b.name)
  BY DEF Replaced
<1>8. r = b /\ (b.op = "distanceTo:" => ~NeedsDistance(script, Names)) /\ b.op # "getAttribute:of:" =>
        r \in Blocks /\ GoodBlock(r)
  BY <1>3, <1>4, <1>5 DEF GoodBlock
<1>9. {"", "readVariable", "doBroadcastAndWait", "say", "timer", "key", "position", "attribute"} \subseteq Texts
  BY DEF Texts
<1>10. b.name \in Texts
  BY <1>4 DEF Texts
<1>11. /\ Block("readVariable", "timer", "") \in Blocks /\ GoodBlock(Block("readVariable", "timer", ""))
       /\ Block("doBroadcastAndWait", "timer", "") \in Blocks /\ GoodBlock(Block("doBroadcastAndWait", "timer", ""))
       /\ Block("readVariable", "key", b.name) \in Blocks /\ GoodBlock(Block("readVariable", "key", b.name))
       /\ Block("readVariable", "position", b.name) \in Blocks /\ GoodBlock(Block("readVariable", "position", b.name))
       /\ Block("say", "", "") \in Blocks /\ GoodBlock(Block("say", "", ""))
       /\ Block("readVariable", "attribute", b.name) \in Blocks /\ GoodBlock(Block("readVariable", "attribute", b.name))
  BY <1>6, <1>9, <1>10
<1>12. r.op \in Looked \/ b.op \in Looked => r = b
  BY DEF Replaced, Looked, Targets, PenOps, Block
<1> HIDE DEF r
<1>13. r \in Blocks /\ GoodBlock(r)
  BY <1>7, <1>8, <1>11
<1> QED BY <1>12, <1>13 DEF r

\* One script after the workarounds.
LEMMA PreparedScript ==
  ASSUME NEW object \in SourceObjects, NEW k \in DOMAIN object.scripts
  PROVE  LET s == preprocessed(object, Names)[k]
         IN /\ s \in Scripts /\ SameScript(s, object.scripts[k])
            /\ \A b \in ToSet(s.blocks) : GoodBlock(b)
<1> DEFINE t  == object.scripts[k]
           bs == [m \in DOMAIN t.blocks |-> Replaced(t.blocks[m], object, t, Names)]
           s  == [t EXCEPT !.blocks = bs]
<1>1. t \in SourceScripts /\ object.name \in Texts
  <2>1. object.scripts \in Seq(SourceScripts) /\ object.name \in STRING
    BY DEF SourceObjects
  <2>2. t \in SourceScripts
    BY <2>1
  <2> QED BY <2>1, <2>2 DEF Texts
<1>2. t.blocks \in Seq(SourceBlocks)
  BY <1>1 DEF SourceScripts
<1>3. /\ bs \in Seq(Blocks) /\ \A b \in ToSet(bs) : GoodBlock(b)
      /\ Len(bs) = Len(t.blocks)
      /\ \A m \in DOMAIN t.blocks : bs[m].op \in Looked \/ t.blocks[m].op \in Looked => bs[m] = t.blocks[m]
  <2>1. \A m \in DOMAIN t.blocks :
          bs[m] \in Blocks /\ GoodBlock(bs[m]) /\ (bs[m].op \in Looked \/ t.blocks[m].op \in Looked => bs[m] = t.blocks[m])
    <3> SUFFICES ASSUME NEW m \in DOMAIN t.blocks
                 PROVE  /\ bs[m] \in Blocks /\ GoodBlock(bs[m])
                        /\ bs[m].op \in Looked \/ t.blocks[m].op \in Looked => bs[m] = t.blocks[m]
      OBVIOUS
    <3>1. bs[m] = Replaced(t.blocks[m], object, t, Names)
      OBVIOUS
    <3> HIDE DEF bs, t
    <3> QED BY <1>1, <1>2, <3>1, ReplacedBlock
  <2>2. DOMAIN bs = DOMAIN t.blocks /\ DOMAIN t.blocks = 1..Len(t.blocks) /\ Len(t.blocks) \in Nat
    BY <1>2
  <2>3. bs \in [1..Len(t.blocks) -> Blocks]
    BY <2>1, <2>2
  <2>4. bs \in Seq(Blocks)
    BY <2>2, <2>3, SeqDef
  <2>5. Len(bs) = Len(t.blocks)
    BY <2>2, <2>3
  <2> QED BY <2>1, <2>2, <2>4, <2>5 DEF ToSet
<1>4. s \in Scripts /\ SameScript(s, t) /\ s.blocks = bs
  BY <1>1, <1>3 DEF SourceScripts, Scripts, SameScript, Texts
<1>5. preprocessed(object, Names)[k] = s
  BY DEF preprocessed
<1> QED BY <1>3, <1>4, <1>5

\* The helper scripts: none defines a block or waits for a sensor, and their blocks set generated variables.
HelperBlocks == {b \in Blocks : b.kind \notin {"sprite", "list", "answer"} /\ b.op \in {"setVar:to:", "changeVar:by:"}}
Helpers      == [hat : {"whenGreenFlag", "whenIReceive"}, arg : Texts, blocks : Seq(HelperBlocks)]

LEMMA HelperScriptsType ==
  ASSUME NEW object, object.name \in Texts, NEW info, NEW monitors
  PROVE  HelperScripts(object, info, monitors) \in Seq(Helpers)
<1>1. \A n \in Texts : {TimerScript, TimerResetScript, PositionScript(n), AttributeScript(n), SensorScript(n)} \subseteq Helpers
  <2>1. \A op \in {"setVar:to:", "changeVar:by:"} : \A kind, name \in Texts :
          kind \notin {"sprite", "list", "answer"} => <<Block(op, kind, name)>> \in Seq(HelperBlocks)
    <3>1. \A b \in HelperBlocks : <<b>> \in Seq(HelperBlocks)
      OBVIOUS
    <3>2. \A op \in {"setVar:to:", "changeVar:by:"} : \A kind, name \in Texts :
            kind \notin {"sprite", "list", "answer"} => Block(op, kind, name) \in HelperBlocks
      <4>1. {"setVar:to:", "changeVar:by:"} \subseteq Texts
        BY DEF Texts
      <4> QED BY <4>1 DEF Block, HelperBlocks, Blocks
    <3> QED BY <3>1, <3>2
  <2>2. \A bs \in Seq(HelperBlocks) : GreenFlag(bs) \in Helpers /\ Script("whenIReceive", "timer", bs) \in Helpers
    BY DEF GreenFlag, Script, Helpers, Texts
  <2>3. TimerScript \in Helpers /\ TimerResetScript \in Helpers
    BY <2>1, <2>2 DEF TimerScript, TimerResetScript, Texts
  <2>4. \A n \in Texts : {PositionScript(n), AttributeScript(n), SensorScript(n)} \subseteq Helpers
    BY <2>1, <2>2 DEF PositionScript, AttributeScript, SensorScript, Texts
  <2> QED BY <2>3, <2>4
<1>2. \A c, s : s \in Helpers => If(c, s) \in Seq(Helpers)
  BY DEF If
<1>3. \A s, t \in Seq(Helpers) : s \o t \in Seq(Helpers)
  OBVIOUS
<1>4. TimerScripts(info, monitors) \in Seq(Helpers)
  BY <1>1, <1>2, <1>3, Zenon DEF TimerScripts
<1>5. <<>> \in Seq(Helpers)
  OBVIOUS
<1> QED BY <1>1, <1>2, <1>3, <1>4, <1>5, Zenon DEF HelperScripts

\* No sprite yet, and the names of sprites.
LEMMA NoSpriteType ==
  /\ NoSprite \in Sprites /\ BricksOf(NoSprite) = {}
  /\ \A n \in Texts : \A m \in {"ahead", "inTurn", "call", "definition"} : SpriteId(n, m) \in Ids
<1>1. \A n \in Texts : \A m \in {"", "ahead", "inTurn", "call", "definition", "script", "replacement"} : SpriteId(n, m) \in Ids
  BY DEF SpriteId, Ids
<1>2. Everyone \in Ids
  BY <1>1 DEF Everyone, Texts
<1>3. <<>> \in Seq(Seq(AnyBricks)) /\ <<>> \in Seq(Ids)
  OBVIOUS
<1>4. NoSprite \in Sprites
  BY <1>2, <1>3 DEF NoSprite, NewSprite, Sprites, Programs
<1>5. BricksOf(NoSprite) = {}
  <2>1. NoSprite.scripts = <<>>
    BY DEF NoSprite, NewSprite
  <2> QED BY <2>1 DEF BricksOf
<1> QED BY <1>1, <1>4, <1>5

LEMMA InvInit == Init => Inv
<1> SUFFICES ASSUME Init PROVE Inv
  OBVIOUS
<1>1. TypeOK
  BY ProjectFacts, NoSpriteType DEF Init, TypeOK, Phases, Programs, Recorded
<1>2. InOrder
  BY ProjectFacts DEF Init, InOrder
<1>3. \A i : ~Begun(i)
  BY DEF Init, Begun
<1> QED BY <1>1, <1>2, <1>3 DEF Inv, Init

LEMMA PreprocessObjectStep == ASSUME Inv, PreprocessObject PROVE Inv'
<1> DEFINE new == preprocessed(objects[at], Names)
<1>1. /\ phase = "objects" /\ Len(scripts) = at - 1 /\ scene = <<>> /\ here = NoSprite /\ converter = "saved"
      /\ scripts \in Seq(Seq(Scripts)) /\ at \in DOMAIN objects /\ project \in Projects
  BY DEF Inv, InOrder, TypeOK, PreprocessObject
<1>2. /\ scripts' = Append(scripts, new) /\ UNCHANGED <<project, converter, here, upcoming, scene, variables, lists>>
      /\ IF at < Len(objects) THEN at' = at + 1 /\ phase' = phase ELSE at' = 1 /\ phase' = "helpers"
  BY DEF PreprocessObject
<1>3. objects' = objects /\ Names' = Names
  BY <1>2 DEF objects, Names
<1>4. /\ at \in 1..Len(objects) /\ Len(objects) \in Nat \ {0} /\ DOMAIN objects = 1..Len(objects)
      /\ objects[at] \in SourceObjects
  BY <1>1, ProjectFacts
<1>5. new \in Seq(Scripts) /\ DOMAIN new = DOMAIN objects[at].scripts /\ Len(new) = Len(objects[at].scripts)
  <2>1. objects[at].scripts \in Seq(SourceScripts)
    BY <1>4 DEF SourceObjects
  <2> DEFINE n == Len(objects[at].scripts)
  <2>2. n \in Nat /\ DOMAIN objects[at].scripts = 1..n
    BY <2>1
  <2>3. \A k \in 1..n : new[k] \in Scripts
    BY <1>4, <2>2, PreparedScript
  <2>4. new \in [1..n -> Scripts]
    BY <2>2, <2>3 DEF preprocessed
  <2> HIDE DEF new
  <2> QED BY <2>2, <2>4, SeqDef
<1>6. /\ scripts' \in Seq(Seq(Scripts)) /\ Len(scripts') = at /\ DOMAIN scripts' = 1..at
      /\ \A i \in DOMAIN scripts : scripts'[i] = scripts[i]
      /\ scripts'[at] = new /\ DOMAIN scripts = 1..(at - 1)
  <2> HIDE DEF new
  <2> QED BY <1>1, <1>2, <1>4, <1>5
<1>7. TypeOK'
  BY <1>2, <1>3, <1>4, <1>6 DEF TypeOK, Inv, Phases, Recorded
<1>8. InOrder'
  BY <1>1, <1>2, <1>3, <1>4, <1>6 DEF InOrder, Inv
<1>9. ASSUME NEW i \in DOMAIN scripts' PROVE Prepared(i)'
  <2>1. CASE i = at
    <3>1. /\ \A k \in DOMAIN new : SameScript(new[k], objects[at].scripts[k])
          /\ \A k \in DOMAIN new : \A b \in ToSet(new[k].blocks) : GoodBlock(b)
      BY <1>4, <1>5, PreparedScript
    <3> HIDE DEF new
    <3>2. \A b : GoodBlock(b) => GoodBlock(b)'
      BY <1>3 DEF GoodBlock
    <3>3. Len(new) >= Len(objects[at].scripts)
      BY <1>5
    <3> QED BY <1>3, <1>5, <1>6, <2>1, <3>1, <3>2, <3>3 DEF Prepared
  <2>2. CASE i # at
    <3>1. i \in DOMAIN scripts /\ Prepared(i) /\ scripts'[i] = scripts[i]
      BY <1>4, <1>6, <2>2 DEF Inv
    <3> QED BY <1>3, <3>1 DEF Prepared, GoodBlock
  <2> QED BY <2>1, <2>2
<1>10. \A i : ~Begun(i)'
  BY <1>1, <1>2 DEF Begun
<1>11. scene' = <<>> /\ phase' # "done"
  BY <1>1, <1>2
<1> QED BY <1>7, <1>8, <1>9, <1>10, <1>11 DEF Inv

LEMMA AddHelpersStep == ASSUME Inv, AddHelpers PROVE Inv'
<1>1. /\ phase = "helpers" /\ Len(scripts) = Len(objects) /\ scene = <<>> /\ here = NoSprite /\ converter = "saved"
      /\ scripts \in Seq(Seq(Scripts)) /\ at \in DOMAIN objects /\ project \in Projects /\ DOMAIN lists = Programs
  BY DEF Inv, InOrder, TypeOK, AddHelpers
<1>2. /\ UNCHANGED <<project, converter, at, here, upcoming, scene, variables>>
      /\ phase' \in {"failed", "sprites"} /\ DOMAIN lists' = DOMAIN lists
      /\ \A p \in Programs : \A l \in lists'[p] : l = [owner |-> l.owner, name |-> l.name]
  BY DEF AddHelpers, Inv, TypeOK, Programs
<1>3. objects' = objects /\ Names' = Names /\ \A j : Replacing(j)' = Replacing(j)
  BY <1>2 DEF objects, Names, Replacing
<1>4. Len(objects) \in Nat \ {0} /\ DOMAIN objects = 1..Len(objects) /\ DOMAIN scripts = 1..Len(scripts)
  BY <1>1, ProjectFacts
<1>5. \A i \in DOMAIN objects : HelperScripts(objects[i], wanted, project.monitors) \in Seq(Helpers)
  BY <1>1, ProjectFacts, HelperScriptsType
<1>6. \/ scripts' = scripts /\ phase' = "failed"
      \/ phase' = "sprites" /\ scripts' = [i \in DOMAIN scripts |-> scripts[i] \o HelperScripts(objects[i], wanted, project.monitors)]
  BY DEF AddHelpers
<1>7. \A h \in Seq(Helpers) : h \in Seq(Scripts)
  <2>1. Helpers \subseteq Scripts
    <3>1. \A bs \in Seq(HelperBlocks) : bs \in Seq(Blocks)
      BY SeqMonotonic DEF HelperBlocks
    <3> QED BY <3>1 DEF Helpers, Scripts, Texts
  <2> QED BY <2>1, SeqMonotonic
<1>8. ASSUME NEW i \in DOMAIN scripts
      PROVE  /\ scripts'[i] \in Seq(Scripts) /\ Len(scripts'[i]) >= Len(scripts[i])
             /\ \A k \in DOMAIN scripts[i] : scripts'[i][k] = scripts[i][k]
             /\ \A k \in DOMAIN scripts'[i] : k \in DOMAIN scripts[i] \/ scripts'[i][k] \in Helpers
  <2>1. scripts[i] \in Seq(Scripts)
    BY <1>1
  <2>2. CASE scripts' = scripts
    BY <2>1, <2>2
  <2>3. CASE scripts' = [j \in DOMAIN scripts |-> scripts[j] \o HelperScripts(objects[j], wanted, project.monitors)]
    <3> DEFINE h == HelperScripts(objects[i], wanted, project.monitors)
    <3>1. h \in Seq(Helpers) /\ h \in Seq(Scripts) /\ scripts'[i] = scripts[i] \o h
      BY <1>1, <1>4, <1>5, <1>7, <2>3
    <3> HIDE DEF h
    <3> QED BY <2>1, <3>1
  <2> QED BY <1>6, <2>2, <2>3
<1>9. DOMAIN scripts' = DOMAIN scripts /\ scripts' \in Seq(Seq(Scripts)) /\ Len(scripts') = Len(scripts)
  <2>1. CASE scripts' = scripts
    BY <1>1, <2>1
  <2>2. CASE scripts' = [j \in DOMAIN scripts |-> scripts[j] \o HelperScripts(objects[j], wanted, project.monitors)]
    <3>1. DOMAIN scripts' = 1..Len(scripts) /\ Len(scripts) \in Nat
      BY <1>4, <1>1, <2>2
    <3>2. scripts' \in [1..Len(scripts) -> Seq(Scripts)]
      BY <1>8, <3>1, <1>4, <2>2
    <3>3. scripts' \in Seq(Seq(Scripts))
      BY <3>1, <3>2, SeqDef
    <3> QED BY <1>4, <3>1, <3>3
  <2> QED BY <1>6, <2>1, <2>2
<1>10. TypeOK'
  BY <1>1, <1>2, <1>3, <1>9 DEF TypeOK, Inv, Phases, Recorded
<1>11. InOrder'
  <2>1. at' = 1 /\ Len(scene') = 0 /\ converter' = "saved"
    BY <1>1, <1>2 DEF Inv, InOrder
  <2> QED BY <1>1, <1>2, <1>3, <1>4, <1>9, <2>1 DEF InOrder, Inv
<1>12. ASSUME NEW i \in DOMAIN scripts' PROVE Prepared(i)'
  <2>1. i \in DOMAIN scripts /\ Prepared(i) /\ i \in DOMAIN objects
    BY <1>1, <1>4, <1>9 DEF Inv
  <2>2. scripts[i] \in Seq(Scripts) /\ objects[i].scripts \in Seq(SourceScripts)
    BY <1>1, <2>1, ProjectFacts DEF SourceObjects
  <2>3. /\ Len(scripts'[i]) >= Len(objects[i].scripts)
        /\ \A k \in DOMAIN objects[i].scripts : k \in DOMAIN scripts[i] /\ SameScript(scripts'[i][k], objects[i].scripts[k])
    BY <1>8, <2>1, <2>2 DEF Prepared
  <2>4. \A s \in Helpers : /\ s.hat \notin {"procDef", "whenSensorFormula"}
                            /\ \A b \in ToSet(s.blocks) : GoodBlock(b) /\ b.op \notin Looked
    BY DEF Helpers, HelperBlocks, ToSet, GoodBlock, Looked, Targets, PenOps
  <2>5. \A k \in DOMAIN scripts'[i] \ DOMAIN objects[i].scripts :
          /\ scripts'[i][k].hat \notin {"procDef", "whenSensorFormula"}
          /\ \A b \in ToSet(scripts'[i][k].blocks) : b.op \notin Looked
    BY <1>8, <2>1, <2>4 DEF Prepared
  <2>6. \A k \in DOMAIN scripts'[i] : \A b \in ToSet(scripts'[i][k].blocks) : GoodBlock(b)
    BY <1>8, <2>1, <2>4 DEF Prepared
  <2>7. \A b : GoodBlock(b) => GoodBlock(b)'
    BY <1>3 DEF GoodBlock
  <2> QED BY <1>3, <2>3, <2>5, <2>6, <2>7 DEF Prepared
<1>13. \A i : ~Begun(i)'
  BY <1>1, <1>2 DEF Begun
<1>14. scene' = <<>> /\ phase' # "done"
  BY <1>1, <1>2
<1> QED BY <1>10, <1>11, <1>12, <1>13, <1>14 DEF Inv

-------------------------------------------------------------------------------
(* What the steps of the sprites keep *)

\* Nothing that was said of the sprites becomes untrue if more is declared, and a sprite that was waited for is the one
\* that begins.
Grows ==
  /\ UNCHANGED <<project, scripts>>
  /\ BegunIds \subseteq BegunIds' /\ upcoming \subseteq upcoming'
  /\ lists["saved"] \subseteq lists'["saved"] /\ variables["saved"] \subseteq variables'["saved"]
  /\ \A id \in BegunIds' : id \in BegunIds \/ (id.name \in upcoming => id = SpriteId(id.name, "ahead"))

LEMMA SameObjects ==
  ASSUME UNCHANGED <<project, scripts>>
  PROVE  /\ objects' = objects /\ Names' = Names
         /\ \A i : (Unaffected(i)' <=> Unaffected(i)) /\ (Replacing(i)' <=> Replacing(i)) /\ (Prepared(i)' <=> Prepared(i))
         /\ \A i, h : Defs(i, h)' = Defs(i, h)
<1>1. objects' = objects
  BY DEF objects
<1>2. Names' = Names
  BY <1>1 DEF Names
<1>3. \A i : Replacing(i)' <=> Replacing(i)
  BY <1>1 DEF Replacing
<1>4. \A i : Unaffected(i)' <=> Unaffected(i)
  BY <1>1, <1>3 DEF Unaffected
<1>5. \A i : Prepared(i)' <=> Prepared(i)
  BY <1>1, <1>2 DEF Prepared, GoodBlock
<1>6. \A i, h : Defs(i, h)' = Defs(i, h)
  BY DEF Defs
<1> QED BY <1>1, <1>2, <1>3, <1>4, <1>5, <1>6

LEMMA BrickKept == ASSUME Grows, NEW i, NEW b, BrickRefers(i, b) PROVE BrickRefers(i, b)'
<1>1. objects' = objects /\ Names' = Names
  BY SameObjects DEF Grows
<1>2. ASSUME b.owner = SpriteId(b.name, "ahead"), b.name \in upcoming, \A id \in BegunIds : id.name # b.name
      PROVE  b.owner \in BegunIds' \/ \A id \in BegunIds' : id.name # b.name
  BY <1>2 DEF Grows
<1>3. NamesItself(b, objects[i])' <=> NamesItself(b, objects[i])
  BY <1>1 DEF NamesItself
<1> QED BY <1>1, <1>2, <1>3 DEF BrickRefers, Grows, Declares

LEMMA CustomBlocksKept ==
  ASSUME UNCHANGED <<project, scripts>>, NEW i, NEW s
  PROVE  CustomBlocks(i, s)' <=> CustomBlocks(i, s)
<1>1. \A h : Defs(i, h)' = Defs(i, h)
  BY SameObjects
<1>2. \A k : Agrees(i, k)' <=> Agrees(i, k)
  BY <1>1 DEF Agrees, IsLast
<1>3. \A k : RoleIsRight(i, s, k)' <=> RoleIsRight(i, s, k)
  BY <1>1 DEF RoleIsRight
<1> QED BY <1>1, <1>2, <1>3 DEF CustomBlocks

LEMMA SpriteKept == ASSUME Grows, NEW i, NEW s, SpriteInv(i, s) PROVE SpriteInv(i, s)'
<1>1. objects' = objects /\ (Unaffected(i)' <=> Unaffected(i)) /\ (CustomBlocks(i, s)' <=> CustomBlocks(i, s))
  BY SameObjects, CustomBlocksKept DEF Grows
<1>2. \A b : BrickRefers(i, b) => BrickRefers(i, b)'
  BY BrickKept
<1> QED BY <1>1, <1>2 DEF SpriteInv

\* The sprite that is being converted.
LEMMA HereFacts ==
  ASSUME Inv, phase = "sprites"
  PROVE  /\ Len(scene) = at - 1 /\ DOMAIN scene = 1..(at - 1) /\ at \in 1..Len(objects) /\ DOMAIN objects = 1..Len(objects)
         /\ Len(objects) \in Nat /\ Len(scripts) = Len(objects) /\ DOMAIN scripts = DOMAIN objects
         /\ scripts[at] \in Seq(Scripts) /\ objects[at].name \in Texts
         /\ here # NoSprite => Begun(at) /\ SpriteOf(at) = here /\ SpriteInv(at, here)
         /\ \A n : \A m \in {"ahead", "inTurn"} : SpriteId(n, m) # Everyone
<1>1. /\ Len(scene) = at - 1 /\ Len(scripts) = Len(objects) /\ scene \in Seq(Sprites) /\ scripts \in Seq(Seq(Scripts))
      /\ at \in DOMAIN objects /\ project \in Projects
  BY DEF Inv, InOrder, TypeOK
<1>2. at \in 1..Len(objects) /\ DOMAIN objects = 1..Len(objects) /\ Len(objects) \in Nat /\ objects[at].name \in Texts
  BY <1>1, ProjectFacts
<1>3. DOMAIN scene = 1..(at - 1) /\ DOMAIN scripts = DOMAIN objects /\ scripts[at] \in Seq(Scripts)
  BY <1>1, <1>2
<1>4. ASSUME here # NoSprite PROVE Begun(at) /\ SpriteOf(at) = here
  BY <1>2, <1>3, <1>4 DEF Begun, SpriteOf
<1>5. here # NoSprite => SpriteInv(at, here)
  <2> SUFFICES ASSUME here # NoSprite PROVE SpriteInv(at, here)
    OBVIOUS
  <2>1. SpriteInv(at, SpriteOf(at))
    BY <1>1, <1>4 DEF Inv
  <2> QED BY <1>4, <2>1
<1>6. \A n : \A m \in {"ahead", "inTurn"} : SpriteId(n, m) # Everyone
  BY DEF SpriteId, Everyone
<1> QED BY <1>1, <1>2, <1>3, <1>4, <1>5, <1>6

\* A step of the sprite that is being converted.
LEMMA HereChanges ==
  ASSUME Inv, phase = "sprites", here # NoSprite, Grows,
         UNCHANGED <<phase, at, scene, lists>>, here' \in Sprites, here'.id = here.id, converter' \in Programs,
         converter' = "dummy" => \E j \in 1..at : Replacing(j),
         DOMAIN variables' = Programs, Recorded',
         Unaffected(at) => \A b \in BricksOf(here') : b \in BricksOf(here) \/ BrickRefers(at, b)',
         CustomBlocks(at, here')
  PROVE  Inv'
<1> USE HereFacts
<1>1. /\ objects' = objects /\ Names' = Names /\ UNCHANGED <<project, scripts>>
      /\ \A i : (Unaffected(i)' <=> Unaffected(i)) /\ (Replacing(i)' <=> Replacing(i)) /\ (Prepared(i)' <=> Prepared(i))
  BY SameObjects DEF Grows
<1>2. here' # NoSprite
  <2>1. here.id # Everyone
    BY DEF SpriteInv, SpriteId, Everyone
  <2> QED BY <2>1 DEF NoSprite, NewSprite
<1>3. TypeOK'
  BY <1>1 DEF TypeOK, Inv
<1>4. InOrder'
  BY <1>1 DEF InOrder, Inv
<1>5. SpriteInv(at, here) /\ CustomBlocks(at, here)' /\ (\A b : BrickRefers(at, b) => BrickRefers(at, b)')
  BY <1>1, CustomBlocksKept, BrickKept
<1>6. /\ here'.id.name = objects[at].name /\ here'.id.made \in {"ahead", "inTurn"}
      /\ Unaffected(at) => \A b \in BricksOf(here') : BrickRefers(at, b)'
      /\ CustomBlocks(at, here)'
  BY <1>5 DEF SpriteInv
<1>7. ASSUME NEW i \in DOMAIN objects, Begun(i)' PROVE SpriteInv(i, SpriteOf(i))'
  <2>1. CASE i = at
    <3>1. SpriteOf(i)' = here'
      BY <2>1, <1>1 DEF SpriteOf
    <3> QED BY <1>1, <1>6, <2>1, <3>1 DEF SpriteInv
  <2>2. CASE i # at
    <3>1. i \in DOMAIN scene /\ SpriteOf(i)' = scene[i] /\ SpriteOf(i) = scene[i] /\ Begun(i)
      BY <1>1, <1>7, <2>2 DEF Begun, SpriteOf
    <3>2. SpriteInv(i, scene[i])
      BY <3>1 DEF Inv
    <3> DEFINE s == scene[i]
    <3>3. \A t : SpriteInv(i, t) => SpriteInv(i, t)'
      BY SpriteKept
    <3> QED BY <1>1, <3>1, <3>2, <3>3
  <2> QED BY <2>1, <2>2
<1> QED BY <1>1, <1>3, <1>4, <1>7 DEF Inv

LEMMA StartSpriteStep == ASSUME Inv, StartSprite PROVE Inv'
<1> DEFINE id == SpriteFor(objects[at].name)
<1>1. /\ phase = "sprites" /\ here = NoSprite /\ here' = NewSprite(id, converter)
      /\ UNCHANGED <<project, phase, scripts, converter, at, upcoming, scene>>
      /\ DOMAIN variables' = Programs /\ DOMAIN lists' = Programs
      /\ lists["saved"] \subseteq lists'["saved"] /\ variables["saved"] \subseteq variables'["saved"]
      /\ \A p \in Programs : \A l \in lists'[p] : l = [owner |-> l.owner, name |-> l.name]
      /\ Recorded'
  BY DEF StartSprite, Inv, TypeOK, Programs, Recorded, Owned
<1>2. /\ id.name = objects[at].name /\ id.made \in {"ahead", "inTurn"} /\ id \in Ids /\ id # Everyone
      /\ id.name \in upcoming => id = SpriteId(id.name, "ahead")
  BY <1>1, HereFacts, NoSpriteType DEF SpriteFor, SpriteId, Everyone
<1> HIDE DEF id
<1>3. here' # NoSprite /\ here'.id = id /\ here'.scripts = <<>> /\ here'.roles = <<>>
      /\ here'.definitions = {} /\ here'.declared = {}
  BY <1>1, <1>2 DEF NewSprite, NoSprite
<1>4. here' \in Sprites
  <2>1. converter \in Programs
    BY DEF Inv, TypeOK
  <2>2. <<>> \in Seq(Seq(AnyBricks)) /\ <<>> \in Seq(Ids)
    OBVIOUS
  <2> QED BY <1>1, <1>2, <2>1, <2>2 DEF NewSprite, Sprites
<1>5. BegunIds' = BegunIds \union {id}
  BY <1>1, <1>3 DEF BegunIds, SceneIds
<1>6. Grows
  BY <1>1, <1>2, <1>5 DEF Grows
<1>7. /\ objects' = objects /\ Names' = Names
      /\ \A i : (Unaffected(i)' <=> Unaffected(i)) /\ (Replacing(i)' <=> Replacing(i)) /\ (Prepared(i)' <=> Prepared(i))
  BY <1>1, SameObjects
<1>8. TypeOK'
  BY <1>1, <1>4, <1>7 DEF TypeOK, Inv
<1>9. InOrder'
  BY <1>1, <1>7 DEF InOrder, Inv
<1>10. SpriteInv(at, here)'
  <2>1. BricksOf(here') = {}
    BY <1>3 DEF BricksOf
  <2>2. CustomBlocks(at, here')
    BY <1>1, <1>3, <2>1, HereFacts DEF CustomBlocks
  <2>3. CustomBlocks(at, here)'
    BY <1>1, <2>2, CustomBlocksKept
  <2> QED BY <1>1, <1>2, <1>3, <1>7, <2>1, <2>3 DEF SpriteInv
<1>11. ASSUME NEW i \in DOMAIN objects, Begun(i)' PROVE SpriteInv(i, SpriteOf(i))'
  <2>1. CASE i = at
    <3>1. SpriteOf(i)' = here'
      BY <1>1, <2>1, HereFacts DEF SpriteOf
    <3> QED BY <1>1, <1>10, <2>1, <3>1
  <2>2. CASE i # at
    <3>1. i \in DOMAIN scene /\ SpriteOf(i)' = scene[i] /\ SpriteOf(i) = scene[i] /\ Begun(i)
      BY <1>1, <1>11, <2>2 DEF Begun, SpriteOf
    <3>2. SpriteInv(i, scene[i])
      BY <3>1 DEF Inv
    <3>3. \A t : SpriteInv(i, t) => SpriteInv(i, t)'
      BY <1>6, SpriteKept
    <3> QED BY <1>1, <3>1, <3>2, <3>3
  <2> QED BY <2>1, <2>2
<1> QED BY <1>1, <1>7, <1>8, <1>9, <1>11 DEF Inv

\* What is put into the start script at the end is of no concern to the sprite's other bricks.
LEMMA SameSprite ==
  ASSUME NEW i, NEW s, NEW t, SpriteInv(i, s), t.id = s.id, t.scripts = s.scripts, t.roles = s.roles,
         t.definitions = s.definitions, t.declared = s.declared
  PROVE  SpriteInv(i, t)
<1>1. BricksOf(t) = BricksOf(s)
  BY DEF BricksOf
<1>2. \A k : RoleIsRight(i, s, k) => RoleIsRight(i, t, k)
  BY DEF RoleIsRight
<1>3. CustomBlocks(i, t)
  BY <1>1, <1>2 DEF SpriteInv, CustomBlocks
<1> QED BY <1>1, <1>3 DEF SpriteInv

LEMMA FinishSpriteStep == ASSUME Inv, FinishSprite PROVE Inv'
<1> DEFINE sprite == [here EXCEPT !.starts = DefaultBehaviour]
<1> USE HereFacts
<1>1. /\ phase = "sprites" /\ here # NoSprite /\ Converted = Len(scripts[at])
      /\ scene' = Append(scene, sprite) /\ here' = NoSprite
      /\ IF at < Len(objects) THEN at' = at + 1 /\ phase' = phase ELSE at' = 1 /\ phase' = "keys"
      /\ UNCHANGED <<project, scripts, converter, upcoming, variables, lists>>
  BY DEF FinishSprite
<1>2. here \in Sprites /\ scene \in Seq(Sprites)
  BY DEF Inv, TypeOK
<1>3. /\ sprite \in Sprites /\ sprite.id = here.id /\ sprite.scripts = here.scripts /\ sprite.roles = here.roles
      /\ sprite.definitions = here.definitions /\ sprite.declared = here.declared
  <2>1. DefaultBehaviour \in SUBSET {"settings", "variables", "answer", "shown"}
    BY DEF DefaultBehaviour
  <2> HIDE DEF DefaultBehaviour
  <2> QED BY <1>2, <2>1 DEF Sprites
<1> HIDE DEF sprite
<1>4. /\ scene' \in Seq(Sprites) /\ Len(scene') = at /\ DOMAIN scene' = 1..at /\ scene'[at] = sprite
      /\ \A i \in DOMAIN scene : scene'[i] = scene[i]
  BY <1>1, <1>2, <1>3
<1>5. BegunIds' = BegunIds
  BY <1>1, <1>3, <1>4 DEF BegunIds, SceneIds
<1>6. Grows
  BY <1>1, <1>5 DEF Grows
<1>7. /\ objects' = objects /\ Names' = Names
      /\ \A i : (Unaffected(i)' <=> Unaffected(i)) /\ (Replacing(i)' <=> Replacing(i)) /\ (Prepared(i)' <=> Prepared(i))
  BY <1>1, SameObjects
<1>8. TypeOK'
  BY <1>1, <1>4, <1>7, NoSpriteType DEF TypeOK, Inv, Phases, Recorded
<1>9. InOrder'
  <2>1. converter = "dummy" => \E j \in 1..at : Replacing(j)
    BY <1>1 DEF Inv, InOrder
  <2>2. CASE at < Len(objects)
    <3>1. phase' = "sprites" /\ at' = at + 1
      BY <1>1, <2>2
    <3> QED BY <1>1, <1>4, <1>7, <2>1, <3>1 DEF InOrder
  <2>3. CASE ~(at < Len(objects))
    <3>1. phase' = "keys" /\ at = Len(objects)
      BY <1>1, <2>3
    <3> QED BY <1>1, <1>4, <1>7, <3>1 DEF InOrder
  <2> QED BY <2>2, <2>3
<1>10. ASSUME NEW i \in DOMAIN objects, Begun(i)'
       PROVE  /\ i \in DOMAIN scene' /\ SpriteOf(i)' = scene'[i] /\ SpriteInv(i, SpriteOf(i))'
              /\ Len(scene'[i].scripts) = Len(scripts[i])
  <2>1. i \in DOMAIN scene' /\ SpriteOf(i)' = scene'[i]
    BY <1>1, <1>10 DEF Begun, SpriteOf
  <2>2. \A t : SpriteInv(i, t) => SpriteInv(i, t)'
    BY <1>6, SpriteKept
  <2>3. CASE i = at
    <3>1. SpriteInv(at, sprite)
      BY <1>1, <1>3, SameSprite
    <3> QED BY <1>1, <1>3, <1>4, <2>1, <2>2, <2>3, <3>1 DEF Converted
  <2>4. CASE i # at
    <3>1. i \in 1..at /\ i \in 1..Len(objects)
      BY <1>4, <2>1
    <3>2. i \in DOMAIN scene /\ scene'[i] = scene[i]
      BY <1>1, <1>4, <2>4, <3>1
    <3>3. i \in DOMAIN scene /\ SpriteOf(i) = scene[i] /\ Begun(i) /\ scene'[i] = scene[i]
      BY <3>2 DEF Begun, SpriteOf
    <3>4. SpriteInv(i, scene[i]) /\ Len(scene[i].scripts) = Len(scripts[i])
      BY <3>3 DEF Inv
    <3> QED BY <1>1, <2>1, <2>2, <3>3, <3>4
  <2> QED BY <2>3, <2>4
<1>11. \A i \in DOMAIN scene' : i \in DOMAIN objects => Begun(i)'
  BY <1>7 DEF Begun
<1>12. phase' # "done"
  BY <1>1
<1> QED BY <1>1, <1>7, <1>8, <1>9, <1>10, <1>11, <1>12 DEF Inv

\* The steps after the objects: of the scene they only add the pointer's sprite.
LEMMA LaterSteps ==
  ASSUME Inv, phase \in {"keys", "space", "cursor"}, phase' \in {"keys", "cursor", "done", "failed"},
         UNCHANGED <<project, scripts, converter, at, here, upcoming, lists>>,
         DOMAIN variables' = Programs, Recorded', variables["saved"] \subseteq variables'["saved"],
         \/ scene' = scene
         \/ phase' = "done" /\ \E s \in Sprites : scene' = Append(scene, s) /\ s.id = SpriteFor(Mouse),
         phase' = "done" /\ Mouse \in upcoming => scene' # scene
  PROVE  Inv'
<1>1. /\ Len(scene) = Len(objects) /\ here = NoSprite /\ Len(scripts) = Len(objects)
      /\ scene \in Seq(Sprites) /\ project \in Projects /\ scripts \in Seq(Seq(Scripts))
  BY DEF Inv, InOrder, TypeOK
<1>2. DOMAIN objects = 1..Len(objects) /\ Len(objects) \in Nat /\ DOMAIN scene = 1..Len(scene) /\ DOMAIN scripts = DOMAIN objects
  BY <1>1, ProjectFacts
<1>3. /\ objects' = objects /\ Names' = Names
      /\ \A i : (Unaffected(i)' <=> Unaffected(i)) /\ (Replacing(i)' <=> Replacing(i)) /\ (Prepared(i)' <=> Prepared(i))
  BY SameObjects
<1>4. /\ scene' \in Seq(Sprites) /\ Len(scene') >= Len(scene) /\ \A i \in DOMAIN scene : i \in DOMAIN scene' /\ scene'[i] = scene[i]
      /\ phase' # "done" => scene' = scene
  <2>1. CASE scene' = scene
    BY <1>1, <2>1
  <2>2. CASE phase' = "done" /\ \E s \in Sprites : scene' = Append(scene, s)
    BY <1>1, <2>2
  <2> QED BY <2>1, <2>2
<1>5. /\ BegunIds \subseteq BegunIds' /\ SceneIds' = BegunIds'
      /\ \A id \in BegunIds' : id \in BegunIds \/ id = SpriteFor(Mouse)
  <2>1. BegunIds = SceneIds /\ BegunIds' = SceneIds'
    BY <1>1 DEF BegunIds
  <2>2. SceneIds \subseteq SceneIds'
    BY <1>4 DEF SceneIds
  <2>3. CASE scene' = scene
    BY <2>1, <2>2, <2>3 DEF SceneIds
  <2>4. CASE phase' = "done" /\ \E s \in Sprites : scene' = Append(scene, s) /\ s.id = SpriteFor(Mouse)
    <3>1. PICK s \in Sprites : scene' = Append(scene, s) /\ s.id = SpriteFor(Mouse)
      BY <2>4
    <3>2. DOMAIN scene' = DOMAIN scene \union {Len(scene) + 1} /\ scene'[Len(scene) + 1] = s
      BY <1>1, <3>1
    <3>3. \A id \in SceneIds' : id \in SceneIds \/ id = SpriteFor(Mouse)
      BY <1>4, <3>1, <3>2 DEF SceneIds
    <3> QED BY <2>1, <2>2, <3>3
  <2> QED BY <2>3, <2>4
<1>6. Grows
  BY <1>5 DEF Grows, SpriteFor, SpriteId
<1>7. TypeOK'
  BY <1>3, <1>4 DEF TypeOK, Inv, Phases
<1>8. InOrder'
  BY <1>1, <1>2, <1>3, <1>4 DEF InOrder
<1>9. ASSUME NEW i \in DOMAIN objects
      PROVE  /\ i \in DOMAIN scene' /\ SpriteOf(i)' = scene'[i] /\ SpriteInv(i, SpriteOf(i))'
             /\ Len(scene'[i].scripts) = Len(scripts[i])
  <2>1. i \in DOMAIN scene /\ SpriteOf(i)' = scene'[i] /\ scene'[i] = scene[i] /\ SpriteOf(i) = scene[i] /\ Begun(i)
    BY <1>1, <1>2, <1>4 DEF SpriteOf, Begun
  <2>2. SpriteInv(i, scene[i]) /\ Len(scene[i].scripts) = Len(scripts[i])
    BY <2>1 DEF Inv
  <2>3. \A t : SpriteInv(i, t) => SpriteInv(i, t)'
    BY <1>6, SpriteKept
  <2> QED BY <1>4, <2>1, <2>2, <2>3
<1>10. phase' = "done" /\ Mouse \in upcoming' => \E id \in SceneIds' : id.name = Mouse
  <2> SUFFICES ASSUME phase' = "done", Mouse \in upcoming PROVE \E id \in SceneIds' : id.name = Mouse
    OBVIOUS
  <2>1. PICK s \in Sprites : scene' = Append(scene, s) /\ s.id = SpriteFor(Mouse)
    OBVIOUS
  <2>2. scene'[Len(scene) + 1] = s /\ Len(scene) + 1 \in DOMAIN scene'
    BY <1>1, <2>1
  <2> QED BY <2>1, <2>2 DEF SceneIds, SpriteFor, SpriteId
<1> QED BY <1>2, <1>3, <1>7, <1>8, <1>9, <1>10 DEF Inv

LEMMA AddKeySpriteStep == ASSUME Inv, NEW k, AddKeySprite(k) PROVE Inv'
<1>1. DOMAIN variables = Programs /\ Recorded
  BY DEF Inv, TypeOK
<1>2. /\ phase = "keys" /\ phase' \in {"keys", "failed"}
      /\ UNCHANGED <<project, scripts, converter, at, here, upcoming, scene, variables, lists>>
  BY DEF AddKeySprite
<1> QED BY <1>1, <1>2, LaterSteps DEF Recorded

LEMMA AddSpaceSpriteStep == ASSUME Inv, AddSpaceSprite PROVE Inv'
<1>1. DOMAIN variables = Programs /\ Recorded
  BY DEF Inv, TypeOK
<1>2. /\ phase = "keys" /\ phase' = "cursor"
      /\ UNCHANGED <<project, scripts, converter, at, here, upcoming, scene, variables, lists>>
  BY DEF AddSpaceSprite
<1> QED BY <1>1, <1>2, LaterSteps DEF Recorded

LEMMA AddCursorSpriteStep == ASSUME Inv, AddCursorSprite PROVE Inv'
<1>1. DOMAIN variables = Programs /\ DOMAIN variables' = Programs /\ variables["saved"] \subseteq variables'["saved"] /\ Recorded'
  BY DEF Inv, TypeOK, AddCursorSprite, Programs, Recorded, Owned
<1>2. phase = "cursor" /\ UNCHANGED <<project, scripts, converter, at, here, upcoming, lists>>
  BY DEF AddCursorSprite
<1>3. CASE scene' = scene /\ phase' = "done" /\ ~CursorNeeded
  BY <1>1, <1>2, <1>3, LaterSteps DEF CursorNeeded
<1>4. CASE scene' = scene /\ phase' = "failed"
  BY <1>1, <1>2, <1>4, LaterSteps
<1> DEFINE set == Brick("setVar:to:", "position", Mouse, Everyone, "saved")
           s   == [NoSprite EXCEPT !.id = SpriteFor(Mouse), !.scripts = If(Mouse \in wanted.positions, <<set>>)]
<1>5. CASE phase' = "done" /\ scene' = Append(scene, s)
  <2>1. s \in Sprites /\ s.id = SpriteFor(Mouse)
    <3>1. SpriteFor(Mouse) \in Ids
      BY NoSpriteType DEF SpriteFor, Texts
    <3>2. Everyone \in Ids /\ {"setVar:to:", "position", Mouse} \subseteq Texts
      BY DEF Everyone, SpriteId, Ids, Texts
    <3>3. set \in AnyBricks
      BY <3>2 DEF Brick, AnyBricks, Programs
    <3> HIDE DEF set
    <3>4. <<set>> \in Seq(AnyBricks)
      BY <3>3
    <3>5. If(Mouse \in wanted.positions, <<set>>) \in Seq(Seq(AnyBricks))
      BY <3>4 DEF If
    <3> QED BY <3>1, <3>5, NoSpriteType DEF Sprites
  <2> HIDE DEF s
  <2>2. scene' # scene
    <3>1. scene \in Seq(Sprites)
      BY DEF Inv, TypeOK
    <3> QED BY <1>5, <2>1, <3>1
  <2> QED BY <1>1, <1>2, <1>5, <2>1, <2>2, LaterSteps
<1> QED BY <1>3, <1>4, <1>5 DEF AddCursorSprite

-------------------------------------------------------------------------------
(* The conversion of a block *)

\* Declaring a variable for an owner.
LEMMA MoreVariables ==
  ASSUME DOMAIN variables = Programs, Recorded, NEW p \in Programs, NEW owner, NEW vs,
         variables' = [variables EXCEPT ![p] = @ \union Owned(owner, vs)]
  PROVE  variables["saved"] \subseteq variables'["saved"] /\ DOMAIN variables' = Programs /\ Recorded'
BY DEF Recorded, Owned, Programs

\* The next block is one of the prepared script, of a sprite that was begun.
LEMMA NextBlock ==
  ASSUME Inv, NEW ops, NEW b, IsNext(ops, b)
  PROVE  /\ phase = "sprites" /\ here # NoSprite /\ b.op \in ops /\ b \in Blocks /\ GoodBlock(b)
         /\ here \in Sprites /\ Converted \in DOMAIN here.scripts /\ Bricks \in Seq(AnyBricks)
         /\ Len(Bricks) < Len(Source)
         /\ Unaffected(at) => converter = "saved"
<1> USE HereFacts
<1>1. phase = "sprites" /\ ~ScriptEnded /\ b = Source[Len(Bricks) + 1] /\ b.op \in ops
  BY DEF IsNext
<1>2. here \in Sprites /\ here.scripts \in Seq(Seq(AnyBricks))
  BY DEF Inv, TypeOK, Sprites
<1>3. Converted \in Nat /\ Converted > 0 /\ DOMAIN here.scripts = 1..Converted
  BY <1>1, <1>2 DEF ScriptEnded, Converted
<1>4. here # NoSprite
  BY <1>3 DEF NoSprite, NewSprite, Converted
<1>5. CustomBlocks(at, here)
  BY <1>1, <1>4 DEF SpriteInv
<1>6. Bricks \in Seq(AnyBricks) /\ Converted \in DOMAIN here.scripts
  BY <1>2, <1>3 DEF Bricks
<1>7. Converted \in DOMAIN scripts[at] /\ Source \in Seq(Blocks)
  <2>1. Converted \in DOMAIN scripts[at] /\ scripts[at][Converted] \in Scripts
    BY <1>1, <1>3, <1>5 DEF CustomBlocks, Converted
  <2> QED BY <2>1 DEF Scripts, Source
<1>8. Len(Bricks) < Len(Source)
  <2>1. Len(Bricks) <= Len(Source) /\ Len(Bricks) # Len(Source)
    BY <1>1, <1>3, <1>5, <1>6 DEF CustomBlocks, Bricks, Source, ScriptEnded
  <2> QED BY <1>6, <1>7, <2>1
<1>9. b \in Blocks /\ b \in ToSet(Source)
  BY <1>1, <1>6, <1>7, <1>8 DEF ToSet
<1>10. GoodBlock(b)
  <2>1. Prepared(at)
    BY <1>1 DEF Inv
  <2> QED BY <1>7, <1>9, <2>1 DEF Prepared, Source
<1>11. Unaffected(at) => converter = "saved"
  BY <1>1 DEF Unaffected, Inv, InOrder, TypeOK, Programs
<1> QED BY <1>1, <1>2, <1>4, <1>6, <1>8, <1>9, <1>10, <1>11

\* One more brick, and perhaps another set of definition bricks.
LEMMA BrickAdded ==
  ASSUME Inv, NEW ops, NEW b, IsNext(ops, b), NEW r \in AnyBricks, NEW D \in SUBSET Ids,
         here' = [here EXCEPT !.scripts[Converted] = Append(@, r), !.definitions = D]
  PROVE  /\ here' \in Sprites /\ here'.id = here.id /\ here'.roles = here.roles /\ here'.declared = here.declared
         /\ here'.definitions = D /\ Len(here'.scripts) = Len(here.scripts) /\ DOMAIN here'.scripts = DOMAIN here.scripts
         /\ \A k \in DOMAIN here.scripts : Len(here'.scripts[k]) <= Len(scripts[at][k].blocks)
         /\ \A x \in BricksOf(here') : x \in BricksOf(here) \/ x = r
<1> DEFINE longer == [here.scripts EXCEPT ![Converted] = Append(@, r)]
<1>1. /\ phase = "sprites" /\ here # NoSprite /\ here \in Sprites
      /\ Converted \in DOMAIN here.scripts /\ Bricks \in Seq(AnyBricks) /\ Len(Bricks) < Len(Source)
  BY NextBlock
<1>2. here.scripts \in Seq(Seq(AnyBricks))
  BY <1>1 DEF Sprites
<1>3. Append(Bricks, r) \in Seq(AnyBricks) /\ Bricks = here.scripts[Converted] /\ Len(Append(Bricks, r)) = Len(Bricks) + 1
  BY <1>1 DEF Bricks
<1>4. /\ longer \in Seq(Seq(AnyBricks)) /\ Len(longer) = Len(here.scripts) /\ DOMAIN longer = DOMAIN here.scripts
      /\ longer[Converted] = Append(Bricks, r) /\ \A k \in DOMAIN here.scripts : k # Converted => longer[k] = here.scripts[k]
  BY <1>1, <1>2, <1>3
<1>5. here' = [here EXCEPT !.scripts = longer, !.definitions = D]
  BY <1>1
<1> HIDE DEF longer
<1>6. /\ here' \in Sprites /\ here'.scripts = longer /\ here'.id = here.id /\ here'.roles = here.roles
      /\ here'.declared = here.declared /\ here'.definitions = D
  BY <1>1, <1>4, <1>5 DEF Sprites
<1>7. CustomBlocks(at, here)
  BY <1>1, HereFacts DEF SpriteInv
<1>8. ASSUME NEW k \in DOMAIN here.scripts PROVE Len(here'.scripts[k]) <= Len(scripts[at][k].blocks)
  <2>1. CASE k = Converted
    <3>1. Source = scripts[at][k].blocks /\ Len(here'.scripts[k]) = Len(Bricks) + 1
      BY <1>3, <1>4, <1>6, <2>1 DEF Source
    <3>2. Source \in Seq(Blocks)
      <4>1. k \in DOMAIN scripts[at] /\ scripts[at][k] \in Scripts
        BY <1>1, <1>2, <1>7, <2>1, HereFacts DEF CustomBlocks
      <4> QED BY <3>1, <4>1 DEF Scripts
    <3> QED BY <1>1, <3>1, <3>2
  <2>2. CASE k # Converted
    BY <1>4, <1>6, <1>7, <2>2 DEF CustomBlocks
  <2> QED BY <2>1, <2>2
<1>9. ASSUME NEW x \in BricksOf(here') PROVE x \in BricksOf(here) \/ x = r
  <2>1. PICK k \in DOMAIN here.scripts : x \in ToSet(longer[k])
    BY <1>4, <1>6 DEF BricksOf
  <2>2. CASE k # Converted
    BY <1>4, <2>1, <2>2 DEF BricksOf
  <2>3. CASE k = Converted
    <3>1. PICK m \in DOMAIN Append(Bricks, r) : x = Append(Bricks, r)[m]
      BY <1>4, <2>1, <2>3 DEF ToSet
    <3>2. x = r \/ x \in ToSet(Bricks)
      BY <1>1, <3>1 DEF ToSet
    <3> QED BY <1>3, <2>3, <3>2 DEF BricksOf
  <2> QED BY <2>2, <2>3
<1> QED BY <1>4, <1>6, <1>8, <1>9

\* A brick that is no call leaves the custom blocks alone.
LEMMA PlainBrickStep ==
  ASSUME Inv, NEW ops, NEW b, IsNext(ops, b), NEW r \in AnyBricks, Add(r), r.op # "call", Grows,
         UNCHANGED <<phase, converter, at, scene, lists>>, DOMAIN variables' = Programs, Recorded',
         Unaffected(at) => BrickRefers(at, r)'
  PROVE  Inv'
<1>1. phase = "sprites" /\ here # NoSprite /\ here \in Sprites /\ converter \in Programs
  BY NextBlock DEF Inv, TypeOK
<1>2. here' = [here EXCEPT !.scripts[Converted] = Append(@, r), !.definitions = here.definitions]
  BY <1>1 DEF Add, Sprites
<1>3. here.definitions \in SUBSET Ids
  BY <1>1 DEF Sprites
<1>4. /\ here' \in Sprites /\ here'.id = here.id /\ here'.roles = here.roles /\ here'.declared = here.declared
      /\ here'.definitions = here.definitions /\ Len(here'.scripts) = Len(here.scripts)
      /\ DOMAIN here'.scripts = DOMAIN here.scripts
      /\ \A k \in DOMAIN here.scripts : Len(here'.scripts[k]) <= Len(scripts[at][k].blocks)
      /\ \A x \in BricksOf(here') : x \in BricksOf(here) \/ x = r
  BY <1>2, <1>3, BrickAdded
<1>5. CustomBlocks(at, here)
  BY <1>1, HereFacts DEF SpriteInv
<1>6. CustomBlocks(at, here')
  <2>1. \A k : RoleIsRight(at, here, k) => RoleIsRight(at, here', k)
    BY <1>4 DEF RoleIsRight
  <2> QED BY <1>4, <1>5, <2>1 DEF CustomBlocks
<1>7. converter' = "dummy" => \E j \in 1..at : Replacing(j)
  BY <1>1 DEF Inv, InOrder
<1> QED BY <1>1, <1>4, <1>6, <1>7, HereChanges

\* No sprite begins when a block is converted.
LEMMA SameBegun ==
  ASSUME here # NoSprite, here'.id = here.id, here' # NoSprite, scene' = scene
  PROVE  BegunIds' = BegunIds
BY DEF BegunIds, SceneIds

\* The brick that a block becomes, and that no sprite begins.
LEMMA NewBrick ==
  ASSUME Inv, NEW ops, NEW b, IsNext(ops, b), NEW r, Add(r), scene' = scene
  PROVE  /\ BegunIds' = BegunIds
         /\ \A kind \in Texts, owner \in Ids : Brick(b.op, kind, b.name, owner, converter) \in AnyBricks
<1>1. here # NoSprite /\ here \in Sprites /\ b \in Blocks /\ converter \in Programs /\ phase = "sprites"
  BY NextBlock DEF Inv, TypeOK
<1>2. here.id # Everyone /\ here'.id = here.id
  BY <1>1, HereFacts DEF SpriteInv, SpriteId, Everyone, Add, Sprites
<1>3. here' # NoSprite
  BY <1>2 DEF NoSprite, NewSprite
<1>4. \A kind \in Texts, owner \in Ids : Brick(b.op, kind, b.name, owner, converter) \in AnyBricks
  BY <1>1 DEF Blocks, Brick, AnyBricks
<1> QED BY <1>1, <1>2, <1>3, <1>4, SameBegun

LEMMA ConvertTargetStep == ASSUME Inv, NEW b, ConvertTarget(b) PROVE Inv'
<1> DEFINE own   == b.op = "createCloneOf" /\ b.name \in {"_myself_", NameInScene(here.id)}
           found == IF own THEN {here.id} ELSE InScene(converter, b.name)
<1> PICK id : id = IF found # {} THEN CHOOSE i \in found : TRUE ELSE SpriteId(b.name, "ahead")
  OBVIOUS
<1> PICK r : r = Brick(b.op, "sprite", b.name, id, converter)
  OBVIOUS
<1>1. /\ IsNext(Targets, b) /\ NamesSprite(b) /\ Add(r)
      /\ upcoming' = IF found # {} THEN upcoming ELSE upcoming \union {b.name}
      /\ UNCHANGED <<project, phase, scripts, converter, at, scene, variables, lists>>
  BY DEF ConvertTarget
<1>2. /\ phase = "sprites" /\ here # NoSprite /\ b \in Blocks /\ b.op \in Targets /\ here \in Sprites
      /\ Unaffected(at) => converter = "saved"
  BY <1>1, NextBlock
<1>3. /\ here.id \in BegunIds /\ here.id.name = objects[at].name /\ here.id \in Ids
      /\ DOMAIN variables = Programs /\ DOMAIN lists = Programs /\ scene \in Seq(Sprites) /\ Recorded
  BY <1>2, HereFacts DEF BegunIds, SpriteInv, Sprites, Inv, TypeOK
<1>4. found \subseteq BegunIds /\ found \subseteq Ids
  <2>1. SceneIds \subseteq Ids
    <3>1. \A i \in DOMAIN scene : scene[i] \in Sprites
      BY <1>3
    <3> QED BY <3>1 DEF SceneIds, Sprites
  <2>2. InScene(converter, b.name) \subseteq SceneIds
    BY DEF InScene, SceneIds
  <2> QED BY <1>3, <2>1, <2>2 DEF BegunIds
<1>5. id \in Ids
  <2>1. CASE found = {}
    BY <1>2, <2>1, NoSpriteType DEF Blocks
  <2>2. CASE found # {}
    BY <1>4, <2>2
  <2> QED BY <2>1, <2>2
<1>6. r.kind = "sprite" /\ r.name = b.name /\ r.op = b.op /\ r.owner = id
  BY DEF Brick
<1>7. found = {} /\ converter = "saved" /\ ~NamesItself(b, objects[at]) => \A x \in BegunIds : x.name # b.name
  <2> SUFFICES ASSUME found = {}, converter = "saved", ~NamesItself(b, objects[at]), NEW x \in BegunIds, x.name = b.name
               PROVE  FALSE
    OBVIOUS
  <2>1. ~own /\ InScene(converter, b.name) = {}
    OBVIOUS
  <2> HIDE DEF own, found
  <2>2. b.name # Stage /\ NameInScene(x) = b.name
    BY DEF NamesItself, NameInScene
  <2>3. x # here.id
    <3>1. CASE b.op = "createCloneOf"
      BY <2>1, <2>2, <3>1 DEF own
    <3>2. CASE b.op # "createCloneOf"
      BY <1>3, <3>2 DEF NamesItself
    <3> QED BY <3>1, <3>2
  <2>4. PICK k \in DOMAIN scene : x = scene[k].id
    BY <1>2, <2>3 DEF BegunIds, SceneIds
  <2>5. x \in InScene(converter, b.name)
    BY <2>2, <2>4 DEF InScene
  <2> QED BY <2>1, <2>5
<1>8. id \in BegunIds \/ (id = SpriteId(b.name, "ahead") /\ b.name \in upcoming' /\ found = {})
  BY <1>1, <1>4
<1> HIDE DEF found
<1>9. r \in AnyBricks /\ BegunIds' = BegunIds
  BY <1>1, <1>5, NewBrick DEF Texts
<1>10. Grows
  BY <1>1, <1>9 DEF Grows
<1>11. Unaffected(at) => BrickRefers(at, r)'
  <2>1. objects' = objects /\ Names' = Names
    BY <1>1, SameObjects
  <2>2. NamesItself(r, objects[at])' <=> NamesItself(b, objects[at])
    BY <1>1, <1>6, <2>1 DEF NamesItself
  <2>3. Unaffected(at) => \/ r.owner \in BegunIds'
                          \/ r.owner = SpriteId(r.name, "ahead") /\ r.name \in upcoming' /\ \A x \in BegunIds' : x.name # r.name
                          \/ NamesItself(r, objects[at])'
    BY <1>2, <1>6, <1>7, <1>8, <1>9, <2>2
  <2>4. r.op \notin VariableOps \union {"doAsk", "answer"}
    BY <1>2, <1>6 DEF Targets, VariableOps
  <2> QED BY <1>6, <2>3, <2>4 DEF BrickRefers
<1>12. r.op # "call"
  BY <1>2, <1>6 DEF Targets
<1> QED BY <1>1, <1>3, <1>9, <1>10, <1>11, <1>12, PlainBrickStep DEF Recorded

LEMMA ConvertVariableStep == ASSUME Inv, NEW b, ConvertVariable(b) PROVE Inv'
<1> DEFINE found == Lookup(b.kind, b.name)
<1> PICK owner : owner = IF found # {} THEN OwnerIn(found) ELSE here.id
  OBVIOUS
<1> PICK r : r = Brick(b.op, b.kind, b.name, owner, converter)
  OBVIOUS
<1>1. /\ IsNext({"setVar:to:", "changeVar:by:"}, b) /\ Add(r)
      /\ variables' = [variables EXCEPT ![converter] = @ \union Owned(owner, {[kind |-> b.kind, name |-> b.name]})]
      /\ UNCHANGED <<project, phase, scripts, converter, at, upcoming, scene, lists>>
  BY DEF ConvertVariable
<1>2. /\ here # NoSprite /\ b \in Blocks /\ GoodBlock(b) /\ b.op \in {"setVar:to:", "changeVar:by:"} /\ here \in Sprites
      /\ Unaffected(at) => converter = "saved"
  BY <1>1, NextBlock
<1>3. DOMAIN variables = Programs /\ converter \in Programs /\ Recorded
  BY DEF Inv, TypeOK
<1>4. owner \in Ids
  <2>1. here.id \in Ids /\ Everyone \in Ids
    BY <1>2, NoSpriteType DEF Sprites, NoSprite, NewSprite
  <2> QED BY <2>1 DEF OwnerIn
<1>5. r \in AnyBricks /\ BegunIds' = BegunIds
  <2>1. b.kind \in Texts
    BY <1>2 DEF Blocks
  <2> QED BY <1>1, <1>4, <2>1, NewBrick
<1>6. r.op = b.op /\ r.kind = b.kind /\ r.name = b.name /\ r.owner = owner
  BY DEF Brick
<1>7. variables["saved"] \subseteq variables'["saved"] /\ DOMAIN variables' = Programs /\ Recorded'
  BY <1>1, <1>3, MoreVariables
<1>8. Grows
  BY <1>1, <1>5, <1>7 DEF Grows
<1>9. Unaffected(at) => BrickRefers(at, r)'
  <2> SUFFICES ASSUME Unaffected(at) PROVE BrickRefers(at, r)'
    OBVIOUS
  <2>1. r.kind \notin {"sprite", "list"}
    BY <1>2, <1>6 DEF GoodBlock, Targets, ListOps
  <2>2. [owner |-> owner, kind |-> b.kind, name |-> b.name] \in variables'["saved"]
    BY <1>1, <1>2, <1>3 DEF Owned
  <2> QED BY <1>6, <2>1, <2>2 DEF BrickRefers, Declares
<1> QED BY <1>1, <1>2, <1>3, <1>5, <1>6, <1>7, <1>8, <1>9, PlainBrickStep

LEMMA ConvertAnswerStep == ASSUME Inv, NEW b, ConvertAnswer(b) PROVE Inv'
<1> PICK r : r = Brick(b.op, "answer", "", Everyone, converter)
  OBVIOUS
<1>1. /\ IsNext({"doAsk", "answer"}, b) /\ Add(r)
      /\ variables' = [variables EXCEPT ![converter] = @ \union Owned(Everyone, {[kind |-> "answer", name |-> ""]})]
      /\ UNCHANGED <<project, phase, scripts, converter, at, upcoming, scene, lists>>
  BY DEF ConvertAnswer
<1>2. b \in Blocks /\ b.op \in {"doAsk", "answer"} /\ (Unaffected(at) => converter = "saved")
  BY <1>1, NextBlock
<1>3. DOMAIN variables = Programs /\ converter \in Programs /\ Recorded
  BY DEF Inv, TypeOK
<1>4. r \in AnyBricks
  <2>1. Everyone \in Ids /\ {"answer", ""} \subseteq Texts
    BY NoSpriteType DEF Sprites, NoSprite, NewSprite, Texts
  <2> QED BY <1>2, <1>3, <2>1 DEF Brick, AnyBricks, Blocks
<1>5. BegunIds' = BegunIds
  BY <1>1, NewBrick
<1>6. r.op = b.op /\ r.kind = "answer" /\ r.name = "" /\ r.owner = Everyone
  BY DEF Brick
<1>7. variables["saved"] \subseteq variables'["saved"] /\ DOMAIN variables' = Programs /\ Recorded'
  BY <1>1, <1>3, MoreVariables
<1>8. Grows
  BY <1>1, <1>5, <1>7 DEF Grows
<1>9. Unaffected(at) => BrickRefers(at, r)'
  <2> SUFFICES ASSUME Unaffected(at) PROVE BrickRefers(at, r)'
    OBVIOUS
  <2>1. [owner |-> Everyone, kind |-> "answer", name |-> ""] \in variables'["saved"]
    BY <1>1, <1>2, <1>3 DEF Owned
  <2> QED BY <1>6, <2>1 DEF BrickRefers, Declares
<1> QED BY <1>1, <1>2, <1>3, <1>4, <1>6, <1>7, <1>8, <1>9, PlainBrickStep

\* A note refers to nothing.
LEMMA NoteStep ==
  ASSUME Inv, NEW ops, NEW b, IsNext(ops, b), Add(Note),
         UNCHANGED <<project, phase, scripts, converter, at, upcoming, scene, variables, lists>>
  PROVE  Inv'
<1>1. Note \in AnyBricks /\ Note.op = "note" /\ Note.kind = ""
  <2>1. Everyone \in Ids /\ {"note", ""} \subseteq Texts
    BY NoSpriteType DEF Sprites, NoSprite, NewSprite, Texts
  <2> QED BY <2>1 DEF Note, Brick, AnyBricks, Programs
<1>2. BegunIds' = BegunIds
  BY NewBrick
<1>3. Grows
  BY <1>2 DEF Grows
<1>4. BrickRefers(at, Note)'
  BY <1>1 DEF BrickRefers, VariableOps
<1>5. DOMAIN variables = Programs /\ Recorded
  BY DEF Inv, TypeOK
<1> QED BY <1>1, <1>3, <1>4, <1>5, PlainBrickStep DEF Recorded

LEMMA ConvertNoTargetStep == ASSUME Inv, NEW b, ConvertNoTarget(b) PROVE Inv'
<1> DEFINE random == b.kind = "sprite" /\ b.op = "gotoSpriteOrMouse:"
<1> PICK r : r = IF random THEN Brick(b.op, "", b.name, Everyone, converter) ELSE Note
  OBVIOUS
<1>1. /\ IsNext(Targets, b) /\ Add(r)
      /\ UNCHANGED <<project, phase, scripts, converter, at, upcoming, scene, variables, lists>>
  BY DEF ConvertNoTarget
<1>2. b \in Blocks /\ b.op \in Targets
  BY <1>1, NextBlock
<1>3. r \in AnyBricks /\ BegunIds' = BegunIds
  <2>1. Everyone \in Ids /\ {"note", ""} \subseteq Texts
    BY NoSpriteType DEF Sprites, NoSprite, NewSprite, Texts
  <2>2. Note \in AnyBricks
    BY <2>1 DEF Note, Brick, AnyBricks, Programs
  <2> QED BY <1>1, <2>1, <2>2, NewBrick
<1>4. r.op \in {b.op, "note"} /\ r.kind = ""
  BY DEF Brick, Note
<1>5. Grows
  BY <1>1, <1>3 DEF Grows
<1>6. BrickRefers(at, r)'
  BY <1>2, <1>4 DEF BrickRefers, VariableOps, Targets
<1>7. DOMAIN variables = Programs /\ Recorded /\ r.op # "call"
  BY <1>2, <1>4 DEF Inv, TypeOK, Targets
<1> QED BY <1>1, <1>3, <1>5, <1>6, <1>7, PlainBrickStep DEF Recorded

\* The owner that a lookup finds is one who has the variable or the list.
LEMMA FoundOwner ==
  ASSUME NEW found, found # {}, \A v \in found : v.owner \in {here.id, Everyone}
  PROVE  OwnerIn(found) \in {here.id, Everyone} /\ \E v \in found : v.owner = OwnerIn(found)
BY DEF OwnerIn

LEMMA ConvertShownStep == ASSUME Inv, NEW b, ConvertShown(b) PROVE Inv'
<1> DEFINE found == Lookup(b.kind, b.name)
<1> PICK r : r = IF found = {} THEN Note ELSE Brick(b.op, b.kind, b.name, OwnerIn(found), converter)
  OBVIOUS
<1>1. /\ IsNext({"showVariable:", "hideVariable:"}, b) /\ Add(r)
      /\ UNCHANGED <<project, phase, scripts, converter, at, upcoming, scene, variables, lists>>
  BY DEF ConvertShown
<1>2. /\ here # NoSprite /\ b \in Blocks /\ GoodBlock(b) /\ b.op \in {"showVariable:", "hideVariable:"} /\ here \in Sprites
      /\ Unaffected(at) => converter = "saved"
  BY <1>1, NextBlock
<1>3. DOMAIN variables = Programs /\ converter \in Programs /\ Recorded
  BY DEF Inv, TypeOK
<1>4. CASE found = {}
  BY <1>1, <1>4, NoteStep
<1>5. CASE found # {}
  <2> PICK owner : owner = OwnerIn(found)
    OBVIOUS
  <2>1. r = Brick(b.op, b.kind, b.name, owner, converter)
    BY <1>5
  <2>2. owner \in {here.id, Everyone} /\ \E v \in found : v.owner = owner
    <3>1. \A v \in found : v.owner \in {here.id, Everyone}
      BY DEF Lookup
    <3> HIDE DEF found
    <3> QED BY <1>5, <3>1, FoundOwner
  <2>3. owner \in Ids
    BY <1>2, <2>2, NoSpriteType DEF Sprites, NoSprite, NewSprite
  <2>4. r \in AnyBricks /\ BegunIds' = BegunIds
    <3>1. b.kind \in Texts
      BY <1>2 DEF Blocks
    <3> QED BY <1>1, <2>1, <2>3, <3>1, NewBrick
  <2>5. r.op = b.op /\ r.kind = b.kind /\ r.name = b.name /\ r.owner = owner
    BY <2>1 DEF Brick
  <2>6. Grows
    BY <1>1, <2>4 DEF Grows
  <2>7. Unaffected(at) => BrickRefers(at, r)'
    <3> SUFFICES ASSUME Unaffected(at) PROVE BrickRefers(at, r)'
      OBVIOUS
    <3>1. r.kind \notin {"sprite", "list"}
      BY <1>2, <2>5 DEF GoodBlock, Targets, ListOps
    <3>2. [owner |-> owner, kind |-> b.kind, name |-> b.name] \in variables["saved"]
      BY <1>2, <1>3, <2>2 DEF Lookup, Recorded, Programs
    <3> QED BY <1>1, <2>5, <3>1, <3>2 DEF BrickRefers, Declares
  <2>8. r.op # "call" /\ Recorded'
    BY <1>1, <1>2, <1>3, <2>5 DEF Recorded
  <2> QED BY <1>1, <1>3, <2>4, <2>6, <2>7, <2>8, PlainBrickStep
<1> QED BY <1>4, <1>5

LEMMA ConvertPenStep == ASSUME Inv, NEW b, ConvertPen(b) PROVE Inv'
<1> DEFINE good == b.op = "penColor:" => b.kind = "good"
<1> PICK made : made = IF good THEN {[kind |-> "user", name |-> v] : v \in PenVariables(b.op)} ELSE {}
  OBVIOUS
<1> PICK r : r = IF good THEN Brick(b.op, "user", b.name, Loose, converter) ELSE Note
  OBVIOUS
<1>1. /\ IsNext(PenOps, b) /\ Add(r)
      /\ variables' = [variables EXCEPT ![converter] = @ \union Owned(here.id, made)]
      /\ UNCHANGED <<project, phase, scripts, converter, at, upcoming, scene, lists>>
  BY DEF ConvertPen
<1>2. b.op \in PenOps /\ b \in Blocks
  BY <1>1, NextBlock
<1>3. DOMAIN variables = Programs /\ converter \in Programs /\ Recorded
  BY DEF Inv, TypeOK
<1>4. r \in AnyBricks /\ BegunIds' = BegunIds
  <2>1. {"user", "note", ""} \subseteq Texts
    BY DEF Texts
  <2>2. Loose \in Ids /\ Everyone \in Ids
    BY <2>1 DEF Loose, Everyone, SpriteId, Ids
  <2>3. Note \in AnyBricks
    BY <2>1, <2>2 DEF Note, Brick, AnyBricks, Programs
  <2> QED BY <1>1, <2>1, <2>2, <2>3, NewBrick
<1>5. r.op \in {b.op, "note"} /\ r.kind \in {"user", ""}
  BY DEF Brick, Note
<1>6. Grows /\ DOMAIN variables' = Programs /\ Recorded'
  <2>1. variables["saved"] \subseteq variables'["saved"] /\ DOMAIN variables' = Programs /\ Recorded'
    BY <1>1, <1>3, MoreVariables
  <2> QED BY <1>1, <1>4, <2>1 DEF Grows
<1>7. BrickRefers(at, r)' /\ r.op # "call"
  BY <1>2, <1>5 DEF BrickRefers, PenOps, VariableOps
<1> QED BY <1>1, <1>4, <1>6, <1>7, PlainBrickStep

LEMMA ConvertListStep == ASSUME Inv, NEW b, ConvertList(b) PROVE Inv'
<1> DEFINE found == LookupList(b.name)
<1> PICK r : r = IF found = {} THEN Note ELSE Brick(b.op, "list", b.name, OwnerIn(found), converter)
  OBVIOUS
<1>1. IsNext(ListOps, b) /\ Add(r) /\ UNCHANGED <<project, phase, scripts, converter, at, upcoming, scene, variables, lists>>
  BY DEF ConvertList
<1>2. /\ here # NoSprite /\ b \in Blocks /\ b.op \in ListOps /\ here \in Sprites
      /\ Unaffected(at) => converter = "saved"
  BY <1>1, NextBlock
<1>3. DOMAIN variables = Programs /\ DOMAIN lists = Programs /\ converter \in Programs /\ Recorded
  BY DEF Inv, TypeOK
<1>4. CASE found = {}
  BY <1>1, <1>4, NoteStep
<1>5. CASE found # {}
  <2> PICK owner : owner = OwnerIn(found)
    OBVIOUS
  <2>1. r = Brick(b.op, "list", b.name, owner, converter)
    BY <1>5
  <2>2. owner \in {here.id, Everyone} /\ \E l \in found : l.owner = owner
    <3>1. \A l \in found : l.owner \in {here.id, Everyone}
      BY DEF LookupList
    <3> HIDE DEF found
    <3> QED BY <1>5, <3>1, FoundOwner
  <2>3. owner \in Ids
    BY <1>2, <2>2, NoSpriteType DEF Sprites, NoSprite, NewSprite
  <2>4. r \in AnyBricks /\ BegunIds' = BegunIds
    <3>1. "list" \in Texts
      BY DEF Texts
    <3> QED BY <1>1, <2>1, <2>3, <3>1, NewBrick
  <2>5. r.op = b.op /\ r.kind = "list" /\ r.owner = owner /\ r.name = b.name
    BY <2>1 DEF Brick
  <2>6. Grows
    BY <1>1, <2>4 DEF Grows
  <2>7. Unaffected(at) => BrickRefers(at, r)'
    <3> SUFFICES ASSUME Unaffected(at) PROVE BrickRefers(at, r)'
      OBVIOUS
    <3>1. PICK l \in lists[converter] : l.name = b.name /\ l.owner = owner
      BY <2>2 DEF LookupList
    <3>2. l \in lists'["saved"] /\ l = [owner |-> owner, name |-> b.name]
      BY <1>1, <1>2, <1>3, <3>1 DEF Inv, TypeOK
    <3>3. r.op \notin VariableOps \union {"doAsk", "answer"}
      BY <1>2, <2>5 DEF VariableOps, ListOps
    <3> QED BY <2>5, <3>2, <3>3 DEF BrickRefers
  <2>8. r.op # "call"
    BY <1>2, <2>5 DEF ListOps
  <2> QED BY <1>1, <1>3, <2>4, <2>6, <2>7, <2>8, PlainBrickStep DEF Recorded
<1> QED BY <1>4, <1>5

LEMMA ConvertOtherStep == ASSUME Inv, NEW b, ConvertOther(b) PROVE Inv'
<1> PICK r : r = Brick(b.op, b.kind, b.name, Everyone, converter)
  OBVIOUS
<1>1. /\ IsNext({b.op}, b) /\ b.op \notin Referring /\ Add(r)
      /\ UNCHANGED <<project, phase, scripts, converter, at, upcoming, scene, variables, lists>>
  BY DEF ConvertOther
<1>2. b \in Blocks /\ GoodBlock(b)
  BY <1>1, NextBlock
<1>3. r \in AnyBricks /\ BegunIds' = BegunIds
  <2>1. Everyone \in Ids /\ b.kind \in Texts
    BY <1>2, NoSpriteType DEF Sprites, NoSprite, NewSprite, Blocks
  <2> QED BY <1>1, <2>1, NewBrick
<1>4. r.op = b.op /\ r.kind = b.kind /\ r.name = b.name
  BY DEF Brick
<1>5. Grows
  BY <1>1, <1>3 DEF Grows
<1>6. BrickRefers(at, r)'
  <2>1. r.kind = "sprite" => r.name \notin Names' \union {Mouse}
    BY <1>1, <1>2, <1>4, SameObjects DEF GoodBlock, Referring
  <2>2. r.kind # "list" /\ r.op \notin VariableOps \union {"doAsk", "answer"}
    BY <1>1, <1>2, <1>4 DEF GoodBlock, Referring
  <2> QED BY <2>1, <2>2 DEF BrickRefers
<1>7. DOMAIN variables = Programs /\ Recorded /\ r.op # "call"
  BY <1>1, <1>4 DEF Inv, TypeOK, Referring
<1> QED BY <1>1, <1>3, <1>5, <1>6, <1>7, PlainBrickStep DEF Recorded

-------------------------------------------------------------------------------
(* Custom blocks *)

\* The definition brick that a call or a definition gets: the one there is, or a new one.
LEMMA TheDefinitionBrick ==
  ASSUME here \in Sprites, CustomBlocks(at, here), NEW h \in Texts, NEW maker \in {"call", "definition"},
         NEW mine, mine = DefinitionBrick(h, maker)
  PROVE  /\ mine \in Ids /\ mine.name = h /\ mine.made \in {"call", "definition"}
         /\ \A x, y \in here.definitions \union {mine} : x.name = y.name => x = y
         /\ \A k \in DOMAIN here.roles : here.roles[k] = mine => mine \in here.definitions
<1> DEFINE there == {x \in here.definitions : x.name = h}
<1>1. here.definitions \subseteq Ids
  BY DEF Sprites
<1>2. \/ mine \in there
      \/ there = {} /\ mine = SpriteId(h, maker)
  BY DEF DefinitionBrick
<1>3. mine \in Ids /\ mine.name = h /\ mine.made \in {"call", "definition"}
  <2>1. CASE mine \in there
    BY <1>1, <2>1 DEF CustomBlocks
  <2>2. CASE mine = SpriteId(h, maker)
    <3>1. mine \in Ids
      BY <2>2, NoSpriteType
    <3>2. mine.name = h /\ mine.made = maker
      BY <2>2 DEF SpriteId
    <3> QED BY <3>1, <3>2
  <2> QED BY <1>2, <2>1, <2>2
<1>4. \A x, y \in here.definitions \union {mine} : x.name = y.name => x = y
  BY <1>2, <1>3 DEF CustomBlocks
<1>5. \A k \in DOMAIN here.roles : here.roles[k] = mine => mine \in here.definitions
  <2>1. mine # Plain /\ mine # Replacement
    <3>1. Plain.made = "script" /\ Replacement.made = "replacement"
      BY DEF Plain, Replacement, SpriteId
    <3> QED BY <1>3, <3>1
  <2> QED BY <2>1 DEF CustomBlocks, RoleIsRight
<1> QED BY <1>3, <1>4, <1>5

LEMMA ConvertCallStep == ASSUME Inv, NEW b, ConvertCall(b) PROVE Inv'
<1> DEFINE good == b.kind = "good" /\ DefinitionsOf(b.name) # {}
<1> PICK mine : mine = DefinitionBrick(b.name, "call")
  OBVIOUS
<1> PICK r : r = IF good THEN Brick("call", "block", b.name, mine, converter) ELSE Note
  OBVIOUS
<1> PICK D : D = IF good THEN here.definitions \union {mine} ELSE here.definitions
  OBVIOUS
<1>1. /\ IsNext({"call"}, b) /\ here' = [here EXCEPT !.scripts[Converted] = Append(Bricks, r), !.definitions = D]
      /\ UNCHANGED <<project, phase, scripts, converter, at, upcoming, scene, variables, lists>>
  BY DEF ConvertCall
<1>2. phase = "sprites" /\ here # NoSprite /\ b \in Blocks /\ here \in Sprites /\ converter \in Programs
  BY <1>1, NextBlock DEF Inv, TypeOK
<1>3. /\ CustomBlocks(at, here) /\ DefinitionsOf(b.name) = Defs(at, b.name) /\ b.name \in Texts
      /\ here.definitions \subseteq Ids
  BY <1>2, HereFacts DEF SpriteInv, DefinitionsOf, Defs, Blocks, Sprites
<1>4. /\ mine \in Ids /\ mine.name = b.name /\ mine.made \in {"call", "definition"}
      /\ \A x, y \in here.definitions \union {mine} : x.name = y.name => x = y
      /\ \A k \in DOMAIN here.roles : here.roles[k] = mine => mine \in here.definitions
  BY <1>2, <1>3, TheDefinitionBrick
<1>5. /\ r \in AnyBricks /\ r.kind \in {"block", ""} /\ r.op \in {"call", "note"}
      /\ r.op = "call" => good /\ r.owner = mine /\ r.name = b.name
  <2>1. Everyone \in Ids /\ {"call", "note", "block", ""} \subseteq Texts
    BY NoSpriteType DEF Sprites, NoSprite, NewSprite, Texts
  <2>2. CASE good
    <3>1. r = Brick("call", "block", b.name, mine, converter)
      BY <2>2
    <3> HIDE DEF good
    <3>2. r \in AnyBricks
      <4>1. "call" \in Texts /\ "block" \in Texts /\ b.name \in Texts /\ mine \in Ids
        BY <1>3, <1>4, <2>1
      <4>2. Brick("call", "block", b.name, mine, converter) \in AnyBricks
        BY <1>2, <4>1 DEF Brick, AnyBricks
      <4> QED BY <3>1, <4>2
    <3>3. r.kind = "block" /\ r.op = "call" /\ r.owner = mine /\ r.name = b.name
      BY <3>1 DEF Brick
    <3> QED BY <2>2, <3>2, <3>3
  <2>3. CASE ~good
    <3>1. r = Note
      BY <2>3
    <3> HIDE DEF good
    <3>2. r \in AnyBricks /\ r.kind = "" /\ r.op = "note"
      <4>1. Note \in AnyBricks /\ Note.kind = "" /\ Note.op = "note"
        BY <2>1 DEF Brick, AnyBricks, Note, Programs
      <4> QED BY <3>1, <4>1
    <3> QED BY <3>2
  <2> QED BY <2>2, <2>3
<1>6. /\ here.definitions \subseteq D /\ D \subseteq here.definitions \union {mine} /\ D \in SUBSET Ids
      /\ good => mine \in D /\ Defs(at, b.name) # {}
  BY <1>3, <1>4
<1>7. here' = [here EXCEPT !.scripts[Converted] = Append(@, r), !.definitions = D]
  BY <1>1 DEF Bricks
<1> HIDE DEF good
<1>8. /\ here' \in Sprites /\ here'.id = here.id /\ here'.roles = here.roles /\ here'.declared = here.declared
      /\ here'.definitions = D /\ Len(here'.scripts) = Len(here.scripts) /\ DOMAIN here'.scripts = DOMAIN here.scripts
      /\ \A k \in DOMAIN here.scripts : Len(here'.scripts[k]) <= Len(scripts[at][k].blocks)
      /\ \A x \in BricksOf(here') : x \in BricksOf(here) \/ x = r
  <2>1. IsNext({"call"}, b) /\ r \in AnyBricks /\ D \in SUBSET Ids
    BY <1>1, <1>5, <1>6
  <2> QED BY <1>7, <2>1, BrickAdded
<1>9. CustomBlocks(at, here')
  <2>1. \A k : RoleIsRight(at, here, k) => RoleIsRight(at, here', k)
    BY <1>6, <1>8 DEF RoleIsRight
  <2>2. \A k \in DOMAIN here.roles : here.roles[k] \in D => here.roles[k] \in here.definitions
    BY <1>4, <1>6
  <2>3. \A x, y \in D : x.name = y.name => x = y
    BY <1>4, <1>6
  <2>4. \A x \in D : x.made \in {"call", "definition"}
    BY <1>3, <1>4, <1>6 DEF CustomBlocks
  <2>5. \A x \in BricksOf(here') : x.op = "call" => x.owner \in D /\ x.owner.name = x.name /\ Defs(at, x.name) # {}
    BY <1>3, <1>4, <1>5, <1>6, <1>8 DEF CustomBlocks
  <2>6. \A h \in here.declared :
          \/ \E k \in DOMAIN here.roles : here.roles[k] \in D /\ here.roles[k].name = h
          \/ \E k \in DOMAIN here.roles : k \in Defs(at, h) /\ scripts[at][k].odd
    BY <1>3, <1>6 DEF CustomBlocks
  <2> QED BY <1>3, <1>8, <2>1, <2>2, <2>3, <2>4, <2>5, <2>6 DEF CustomBlocks
<1>10. here' # NoSprite
  <2>1. here.id # Everyone
    BY <1>2, HereFacts DEF SpriteInv, SpriteId, Everyone
  <2> QED BY <1>8, <2>1 DEF NoSprite, NewSprite
<1>11. Grows
  BY <1>1, <1>2, <1>8, <1>10, SameBegun DEF Grows
<1>12. BrickRefers(at, r)'
  BY <1>5 DEF BrickRefers, VariableOps
<1>13. /\ DOMAIN variables' = Programs /\ Recorded'
       /\ converter' = "dummy" => \E j \in 1..at : Replacing(j)
  BY <1>1, <1>2 DEF Inv, TypeOK, InOrder, Recorded
<1> QED BY <1>1, <1>2, <1>8, <1>9, <1>11, <1>12, <1>13, HereChanges

\* A script more, with what it becomes, and perhaps other definition bricks and definitions met.
WithScript(role, D, M) ==
  [here EXCEPT !.scripts = Append(@, <<>>), !.roles = Append(@, role), !.declared = M, !.definitions = D]

\* What the sprite that is being converted is then.
HasScript(role, D, M) ==
  /\ here' \in Sprites /\ here'.id = here.id /\ here'.declared = M /\ here'.definitions = D
  /\ Converted \in Nat /\ Len(here'.scripts) = Converted + 1 /\ Len(here'.roles) = Converted + 1
  /\ DOMAIN here'.scripts = 1..(Converted + 1) /\ here'.scripts[Converted + 1] = <<>>
  /\ DOMAIN here.roles = 1..Converted /\ DOMAIN here'.roles = 1..(Converted + 1)
  /\ here'.roles[Converted + 1] = role
  /\ \A k \in 1..Converted : here'.roles[k] = here.roles[k] /\ here'.scripts[k] = here.scripts[k]
  /\ BricksOf(here') \subseteq BricksOf(here)

LEMMA ScriptAdded ==
  ASSUME Inv, phase = "sprites", here # NoSprite, NEW role \in Ids, NEW D \in SUBSET Ids, NEW M \in SUBSET Texts,
         here' = WithScript(role, D, M)
  PROVE  HasScript(role, D, M)
<1>1. here \in Sprites /\ here.scripts \in Seq(Seq(AnyBricks)) /\ here.roles \in Seq(Ids)
  BY DEF Inv, TypeOK, Sprites
<1>2. Len(here.roles) = Converted /\ Converted \in Nat
  BY <1>1, HereFacts DEF SpriteInv, CustomBlocks, Converted
<1>3. <<>> \in Seq(AnyBricks)
  OBVIOUS
<1> DEFINE longer == Append(here.scripts, <<>>)
           more   == Append(here.roles, role)
<1>4. /\ longer \in Seq(Seq(AnyBricks)) /\ Len(longer) = Converted + 1 /\ DOMAIN longer = 1..(Converted + 1)
      /\ longer[Converted + 1] = <<>> /\ \A k \in 1..Converted : longer[k] = here.scripts[k]
      /\ DOMAIN here.scripts = 1..Converted
  BY <1>1, <1>2, <1>3 DEF Converted
<1>5. /\ more \in Seq(Ids) /\ Len(more) = Converted + 1 /\ DOMAIN more = 1..(Converted + 1)
      /\ more[Converted + 1] = role /\ (\A k \in 1..Converted : more[k] = here.roles[k]) /\ DOMAIN here.roles = 1..Converted
  BY <1>1, <1>2
<1>6. here' = [here EXCEPT !.scripts = longer, !.roles = more, !.declared = M, !.definitions = D]
  BY DEF WithScript
<1> HIDE DEF longer, more
<1>7. /\ here' \in Sprites /\ here'.id = here.id /\ here'.declared = M /\ here'.definitions = D
      /\ here'.scripts = longer /\ here'.roles = more
  BY <1>1, <1>4, <1>5, <1>6 DEF Sprites
<1>8. ASSUME NEW x \in BricksOf(here') PROVE x \in BricksOf(here)
  <2>1. PICK k \in 1..(Converted + 1) : x \in ToSet(longer[k])
    BY <1>4, <1>7 DEF BricksOf
  <2>2. k \in 1..Converted
    BY <1>2, <1>4, <2>1 DEF ToSet
  <2> QED BY <1>4, <2>1, <2>2 DEF BricksOf
<1> QED BY <1>2, <1>4, <1>5, <1>7, <1>8 DEF HasScript

LEMMA StartScriptStep == ASSUME Inv, StartScript PROVE Inv'
<1> USE HereFacts
<1>1. /\ phase = "sprites" /\ here # NoSprite /\ Converted < Len(scripts[at])
      /\ converter' = ConverterAfter(scripts[at][Converted + 1].hat)
      /\ UNCHANGED <<project, phase, scripts, at, upcoming, scene, variables, lists>>
  BY DEF StartScript
<1>2. /\ here \in Sprites /\ CustomBlocks(at, here) /\ here.definitions \in SUBSET Ids /\ here.declared \in SUBSET Texts
      /\ converter \in Programs /\ DOMAIN variables = Programs /\ Converted \in Nat /\ Len(here.roles) = Converted
  <2>1. here \in Sprites /\ converter \in Programs /\ DOMAIN variables = Programs
    BY DEF Inv, TypeOK
  <2>2. /\ here.definitions \in SUBSET Ids /\ here.declared \in SUBSET Texts
        /\ here.scripts \in Seq(Seq(AnyBricks))
    BY <2>1 DEF Sprites
  <2>3. Converted \in Nat
    BY <2>2 DEF Converted
  <2>4. CustomBlocks(at, here)
    BY <1>1 DEF SpriteInv
  <2>5. Len(here.roles) = Converted
    BY <2>4 DEF CustomBlocks, Converted
  <2> QED BY <2>1, <2>2, <2>3, <2>4, <2>5
<1> PICK k0 : k0 = Converted + 1
  OBVIOUS
<1> PICK s : s = scripts[at][k0]
  OBVIOUS
<1>3. k0 \in DOMAIN scripts[at] /\ s \in Scripts /\ s.arg \in Texts /\ s.blocks \in Seq(Blocks)
  <2>1. k0 \in DOMAIN scripts[at] /\ s \in Scripts
    BY <1>1, <1>2
  <2> QED BY <2>1 DEF Scripts
<1> PICK mine : mine = DefinitionBrick(s.arg, "definition")
  OBVIOUS
<1> DEFINE fits == LabelsAgree(s) /\ s.arg \notin here.declared
<1> PICK role : role = IF s.hat # "procDef" THEN Plain ELSE IF fits /\ ~s.odd THEN mine ELSE Replacement
  OBVIOUS
<1> PICK D : D = IF s.hat = "procDef" /\ fits /\ ~s.odd THEN here.definitions \union {mine} ELSE here.definitions
  OBVIOUS
<1> PICK M : M = IF s.hat = "procDef" /\ fits THEN here.declared \union {s.arg} ELSE here.declared
  OBVIOUS
<1>4. here' = WithScript(role, D, M)
  <2> DEFINE more  == [here EXCEPT !.scripts = Append(@, <<>>)]
             met   == [more EXCEPT !.declared = @ \union {s.arg}]
  <2>1. here' = CASE s.hat # "procDef"                  -> [more EXCEPT !.roles = Append(@, Plain)]
                  [] s.hat = "procDef" /\ ~fits         -> [more EXCEPT !.roles = Append(@, Replacement)]
                  [] s.hat = "procDef" /\ fits /\ s.odd -> [met EXCEPT !.roles = Append(@, Replacement)]
                  [] OTHER -> [met EXCEPT !.roles = Append(@, mine), !.definitions = @ \union {mine}]
    BY DEF StartScript
  <2> HIDE DEF fits
  <2>2. CASE s.hat # "procDef"
    BY <1>2, <2>1, <2>2 DEF Sprites, WithScript
  <2>3. CASE s.hat = "procDef" /\ ~fits
    BY <1>2, <2>1, <2>3 DEF Sprites, WithScript
  <2>4. CASE s.hat = "procDef" /\ fits /\ s.odd
    BY <1>2, <2>1, <2>4 DEF Sprites, WithScript
  <2>5. CASE s.hat = "procDef" /\ fits /\ ~s.odd
    BY <1>2, <2>1, <2>5 DEF Sprites, WithScript
  <2> QED BY <2>2, <2>3, <2>4, <2>5
<1>5. /\ mine \in Ids /\ mine.name = s.arg /\ mine.made \in {"call", "definition"}
      /\ \A x, y \in here.definitions \union {mine} : x.name = y.name => x = y
      /\ \A k \in DOMAIN here.roles : here.roles[k] = mine => mine \in here.definitions
  BY <1>2, <1>3, TheDefinitionBrick
<1>6. /\ Plain \in Ids /\ Replacement \in Ids /\ Plain.made = "script" /\ Replacement.made = "replacement"
  <2>1. "" \in Texts
    BY DEF Texts
  <2> QED BY <2>1 DEF Plain, Replacement, SpriteId, Ids
<1>7. role \in Ids /\ D \in SUBSET Ids /\ M \in SUBSET Texts
  BY <1>2, <1>3, <1>5, <1>6
<1>8. /\ here' \in Sprites /\ here'.id = here.id /\ here'.declared = M /\ here'.definitions = D
      /\ Len(here'.scripts) = k0 /\ Len(here'.roles) = k0
      /\ DOMAIN here'.scripts = 1..k0 /\ here'.scripts[k0] = <<>>
      /\ DOMAIN here.roles = 1..Converted /\ DOMAIN here'.roles = 1..k0
      /\ here'.roles[k0] = role
      /\ \A k \in 1..Converted : here'.roles[k] = here.roles[k] /\ here'.scripts[k] = here.scripts[k]
      /\ BricksOf(here') \subseteq BricksOf(here)
  <2>1. k0 = Converted + 1
    OBVIOUS
  <2> HIDE HereFacts
  <2> HIDE DEF fits
  <2>2. HasScript(role, D, M)
    BY <1>1, <1>4, <1>7, ScriptAdded
  <2> QED BY <2>1, <2>2 DEF HasScript
<1> DEFINE h == s.arg
<1>9. /\ DefinitionsOf(h) = Defs(at, h) /\ (LabelsAgree(s) <=> Agrees(at, k0))
      /\ k0 \in Defs(at, h) <=> s.hat = "procDef"
  <2>1. \A x : DefinitionsOf(x) = Defs(at, x)
    BY DEF DefinitionsOf, Defs
  <2>2. \A last \in Defs(at, h) : IsLast(at, last) <=> \A k \in Defs(at, h) : k <= last
    BY DEF IsLast, Defs
  <2>3. LabelsAgree(s) <=> Agrees(at, k0)
    BY <2>1, <2>2 DEF LabelsAgree, Agrees
  <2> QED BY <1>3, <2>1, <2>3 DEF Defs
<1>10. s.hat = "procDef" /\ ~LabelsAgree(s) => \E other \in Defs(at, h) : other # k0
  <2> SUFFICES ASSUME s.hat = "procDef", \A other \in Defs(at, h) : other = k0 PROVE Agrees(at, k0)
    BY <1>9
  <2>1. k0 \in Defs(at, h) /\ k0 \in Int
    BY <1>2, <1>9
  <2> QED BY <2>1 DEF Agrees, IsLast
<1>11. h \in here.declared => \E other \in Defs(at, h) : other # k0
  <2> SUFFICES ASSUME h \in here.declared PROVE \E other \in Defs(at, h) : other # k0
    OBVIOUS
  <2>1. \/ \E k \in DOMAIN here.roles : here.roles[k] \in here.definitions /\ here.roles[k].name = h
        \/ \E k \in DOMAIN here.roles : k \in Defs(at, h) /\ scripts[at][k].odd
    BY <1>2 DEF CustomBlocks
  <2>2. \A k \in DOMAIN here.roles : k # k0
    BY <1>2, <1>8
  <2>3. ASSUME NEW k \in DOMAIN here.roles, here.roles[k] \in here.definitions, here.roles[k].name = h
        PROVE  k \in Defs(at, h)
    <3>1. here.roles[k] \notin {Plain, Replacement}
      BY <1>2, <1>6, <2>3 DEF CustomBlocks
    <3> QED BY <1>2, <2>3, <3>1 DEF CustomBlocks, RoleIsRight
  <2> QED BY <2>1, <2>2, <2>3
<1> HIDE DEF fits
<1>12. here.definitions \subseteq D /\ D \subseteq here.definitions \union {mine} /\ here.declared \subseteq M /\ M \subseteq here.declared \union {h}
  OBVIOUS
<1>13. \A k \in DOMAIN here.roles : here.roles[k] \in D => here.roles[k] \in here.definitions
  BY <1>5, <1>12
<1>14. \A k \in DOMAIN here'.roles : RoleIsRight(at, here', k)
  <2>1. ASSUME NEW k \in 1..Converted PROVE RoleIsRight(at, here', k)
    <3>1. RoleIsRight(at, here, k)
      BY <1>2, <1>8 DEF CustomBlocks
    <3> QED BY <1>8, <1>12, <2>1, <3>1 DEF RoleIsRight
  <2>2. RoleIsRight(at, here', k0)
    <3>1. CASE s.hat # "procDef"
      BY <1>8, <3>1 DEF RoleIsRight
    <3>2. CASE s.hat = "procDef" /\ (~fits \/ s.odd)
      <4>1. role = Replacement /\ k0 \in Defs(at, h)
        BY <1>9, <3>2
      <4>2. s.odd \/ \E other \in Defs(at, h) : other # k0
        BY <1>10, <1>11, <3>2 DEF fits
      <4> QED BY <1>8, <4>1, <4>2 DEF RoleIsRight
    <3>3. CASE s.hat = "procDef" /\ fits /\ ~s.odd
      <4>1. role = mine /\ mine \in D /\ h \in M /\ k0 \in Defs(at, h)
        BY <1>9, <3>3
      <4> QED BY <1>5, <1>8, <4>1 DEF RoleIsRight
    <3> QED BY <3>1, <3>2, <3>3
  <2> QED BY <1>2, <1>8, <2>1, <2>2
<1>15. \A x, y \in D : x.name = y.name => x = y
  BY <1>5, <1>12
<1>16. \A x \in D : x.made \in {"call", "definition"}
  BY <1>2, <1>5, <1>12 DEF CustomBlocks
\* No two definitions of a block have its brick: the new one has it only if none was met before.
<1>17. ASSUME NEW k \in 1..Converted, here.roles[k] \in D, role \in D, here.roles[k].name = role.name PROVE FALSE
  <2>1. role = mine /\ fits
    BY <1>6, <1>16, <1>17
  <2>2. here.roles[k] \in here.definitions /\ here.roles[k] \notin {Plain, Replacement}
    BY <1>6, <1>8, <1>13, <1>16, <1>17
  <2>3. h \in here.declared
    <3>1. RoleIsRight(at, here, k)
      BY <1>2, <1>8 DEF CustomBlocks
    <3>2. here.roles[k].name = h
      BY <1>5, <1>17, <2>1
    <3> QED BY <2>2, <3>1, <3>2 DEF RoleIsRight
  <2> QED BY <2>1, <2>3 DEF fits
<1>18. \A j, k \in DOMAIN here'.roles :
         here'.roles[j] \in D /\ here'.roles[k] \in D /\ here'.roles[j].name = here'.roles[k].name => j = k
  <2> SUFFICES ASSUME NEW j \in 1..k0, NEW k \in 1..k0, here'.roles[j] \in D, here'.roles[k] \in D,
                      here'.roles[j].name = here'.roles[k].name
               PROVE  j = k
    BY <1>8
  <2>1. \A m \in 1..k0 : m \in 1..Converted \/ m = k0
    BY <1>2
  <2>2. CASE j \in 1..Converted /\ k \in 1..Converted
    <3>1. /\ here'.roles[j] = here.roles[j] /\ j \in DOMAIN here.roles
          /\ here'.roles[k] = here.roles[k] /\ k \in DOMAIN here.roles
      BY <1>8, <2>2
    <3>2. here.roles[j] \in here.definitions /\ here.roles[k] \in here.definitions /\ here.roles[j].name = here.roles[k].name
      BY <1>13, <3>1
    <3> QED BY <1>2, <3>1, <3>2 DEF CustomBlocks
  <2> QED BY <1>8, <1>17, <2>1, <2>2
<1>19. \A k \in DOMAIN here'.roles : scripts[at][k].hat = "procDef" /\ Agrees(at, k) => scripts[at][k].arg \in M
  <2>1. \A k \in 1..Converted : scripts[at][k].hat = "procDef" /\ Agrees(at, k) => scripts[at][k].arg \in M
    BY <1>2, <1>8, <1>12 DEF CustomBlocks
  <2>2. s.hat = "procDef" /\ Agrees(at, k0) => h \in M
    BY <1>9 DEF fits
  <2> QED BY <1>2, <1>8, <2>1, <2>2
<1>20. \A x \in M : \/ \E k \in DOMAIN here'.roles : here'.roles[k] \in D /\ here'.roles[k].name = x
                    \/ \E k \in DOMAIN here'.roles : k \in Defs(at, x) /\ scripts[at][k].odd
  <2>1. \A k \in 1..Converted : k \in DOMAIN here'.roles
    BY <1>2, <1>8
  <2>2. ASSUME NEW x \in here.declared
        PROVE  \/ \E k \in DOMAIN here'.roles : here'.roles[k] \in D /\ here'.roles[k].name = x
               \/ \E k \in DOMAIN here'.roles : k \in Defs(at, x) /\ scripts[at][k].odd
    BY <1>2, <1>8, <1>12, <2>1 DEF CustomBlocks
  <2>3. CASE s.hat = "procDef" /\ fits
    <3>1. k0 \in DOMAIN here'.roles
      BY <1>2, <1>8
    <3>2. s.odd => k0 \in Defs(at, h) /\ scripts[at][k0].odd
      BY <1>9, <2>3
    <3>3. ~s.odd => here'.roles[k0] \in D /\ here'.roles[k0].name = h
      BY <1>5, <1>8, <2>3
    <3> QED BY <1>12, <2>2, <3>1, <3>2, <3>3
  <2>4. CASE ~(s.hat = "procDef" /\ fits)
    BY <2>2, <2>4
  <2> QED BY <2>3, <2>4
<1>21. \A b \in BricksOf(here') : b.op = "call" => b.owner \in D /\ b.owner.name = b.name /\ Defs(at, b.name) # {}
  BY <1>2, <1>8, <1>12 DEF CustomBlocks
<1>22. ASSUME NEW k \in DOMAIN here'.roles, scripts[at][k].hat = "procDef"
       PROVE  \E last \in DOMAIN here'.roles \intersect Defs(at, scripts[at][k].arg) :
                 \A m \in DOMAIN here'.roles \intersect Defs(at, scripts[at][k].arg) : m <= last
  <2>1. CASE k0 \in Defs(at, scripts[at][k].arg)
    BY <1>2, <1>8, <2>1
  <2>2. CASE k0 \notin Defs(at, scripts[at][k].arg)
    <3>1. k \in Defs(at, scripts[at][k].arg)
      BY <1>1, <1>2, <1>8, <1>22 DEF Defs
    <3>2. k \in DOMAIN here.roles
      BY <1>2, <1>8, <2>2, <3>1
    <3>3. DOMAIN here'.roles \intersect Defs(at, scripts[at][k].arg) = DOMAIN here.roles \intersect Defs(at, scripts[at][k].arg)
      BY <1>2, <1>8, <2>2
    <3> QED BY <1>2, <1>22, <3>2, <3>3 DEF CustomBlocks
  <2> QED BY <2>1, <2>2
<1>23. \A k \in DOMAIN here'.scripts : Len(here'.scripts[k]) <= Len(scripts[at][k].blocks)
  <2>1. \A k \in 1..Converted : Len(here'.scripts[k]) <= Len(scripts[at][k].blocks)
    BY <1>2, <1>8 DEF CustomBlocks, Converted
  <2>2. Len(here'.scripts[k0]) <= Len(s.blocks)
    BY <1>3, <1>8
  <2> QED BY <1>2, <1>8, <2>1, <2>2
<1>24. CustomBlocks(at, here')
  <2>1. Len(here'.roles) = Len(here'.scripts) /\ Len(here'.scripts) <= Len(scripts[at])
    BY <1>1, <1>2, <1>3, <1>8
  <2> QED BY <1>8, <1>14, <1>15, <1>16, <1>18, <1>19, <1>20, <1>21, <1>22, <1>23, <2>1 DEF CustomBlocks
<1>25. here' # NoSprite
  <2>1. here.id # Everyone
    BY <1>1 DEF SpriteInv, SpriteId, Everyone
  <2> QED BY <1>8, <2>1 DEF NoSprite, NewSprite
<1>26. Grows
  BY <1>1, <1>8, <1>25, SameBegun DEF Grows
<1>27. converter' \in Programs /\ (converter' = "dummy" => \E j \in 1..at : Replacing(j))
  <2>1. CASE s.hat = "whenSensorFormula"
    <3>1. Prepared(at)
      BY <1>1 DEF Inv
    <3>2. k0 \in DOMAIN objects[at].scripts /\ objects[at].scripts[k0].hat = "whenSensorFormula"
      BY <1>3, <2>1, <3>1 DEF Prepared, SameScript
    <3>3. Replacing(at)
      BY <3>2 DEF Replacing, ToSet
    <3>4. at \in 1..at
      BY <1>1
    <3> QED BY <1>1, <2>1, <3>3, <3>4 DEF ConverterAfter, Programs
  <2>2. CASE s.hat # "whenSensorFormula"
    BY <1>1, <1>2, <2>2 DEF ConverterAfter, Inv, InOrder
  <2> QED BY <2>1, <2>2
<1>28. Recorded'
  BY <1>1 DEF Inv, TypeOK, Recorded
<1> QED BY <1>1, <1>2, <1>8, <1>24, <1>26, <1>27, <1>28, HereChanges

-------------------------------------------------------------------------------
(* The theorems *)

LEMMA InvNext == Inv /\ [Next]_vars => Inv'
<1> SUFFICES ASSUME Inv, [Next]_vars PROVE Inv'
  OBVIOUS
<1>1. CASE UNCHANGED vars
  <2>1. UNCHANGED <<project, phase, scripts, converter, at, here, upcoming, scene, variables, lists>>
    BY <1>1 DEF vars
  <2>2. Grows
    BY <2>1 DEF Grows, BegunIds, SceneIds
  <2>3. /\ objects' = objects
        /\ \A i : (Unaffected(i)' <=> Unaffected(i)) /\ (Replacing(i)' <=> Replacing(i)) /\ (Prepared(i)' <=> Prepared(i))
    BY <2>1, SameObjects
  <2>4. TypeOK' /\ InOrder'
    BY <2>1, <2>3 DEF Inv, TypeOK, InOrder, Recorded
  <2>5. ASSUME NEW i \in DOMAIN objects, Begun(i)' PROVE SpriteInv(i, SpriteOf(i))'
    <3>1. Begun(i) /\ SpriteOf(i)' = SpriteOf(i)
      BY <2>1, <2>3, <2>5 DEF Begun, SpriteOf
    <3>2. SpriteInv(i, SpriteOf(i))
      BY <3>1 DEF Inv
    <3>3. \A t : SpriteInv(i, t) => SpriteInv(i, t)'
      BY <2>2, SpriteKept
    <3> QED BY <3>1, <3>2, <3>3
  <2>6. SceneIds' = SceneIds
    BY <2>1 DEF SceneIds
  <2> QED BY <2>1, <2>3, <2>4, <2>5, <2>6 DEF Inv
<1>2. CASE PreprocessObject
  BY <1>2, PreprocessObjectStep
<1>3. CASE AddHelpers
  BY <1>3, AddHelpersStep
<1>4. CASE StartSprite
  BY <1>4, StartSpriteStep
<1>5. CASE StartScript
  BY <1>5, StartScriptStep
<1>6. CASE ConvertBlock
  <2>1. PICK b : \/ ConvertTarget(b) \/ ConvertNoTarget(b)
                 \/ ConvertVariable(b) \/ ConvertShown(b) \/ ConvertPen(b) \/ ConvertAnswer(b) \/ ConvertList(b)
                 \/ ConvertCall(b) \/ ConvertOther(b)
    BY <1>6 DEF ConvertBlock
  <2> QED BY <2>1, ConvertTargetStep, ConvertNoTargetStep, ConvertVariableStep, ConvertShownStep, ConvertPenStep,
             ConvertAnswerStep, ConvertListStep, ConvertCallStep, ConvertOtherStep
<1>7. CASE FinishSprite
  BY <1>7, FinishSpriteStep
<1>8. CASE \E k \in keys \union {[key |-> "a", type |-> "any"]} : AddKeySprite(k)
  BY <1>8, AddKeySpriteStep
<1>9. CASE AddSpaceSprite
  BY <1>9, AddSpaceSpriteStep
<1>10. CASE AddCursorSprite
  BY <1>10, AddCursorSpriteStep
<1> QED BY <1>1, <1>2, <1>3, <1>4, <1>5, <1>6, <1>7, <1>8, <1>9, <1>10 DEF Next, Ended

\* What was said of the sprites holds in every reachable state, for every set of projects.
THEOREM Invariance == Spec => []Inv
BY InvInit, InvNext, PTL DEF Spec

\* The variables have their types, whatever the projects: every script is a list of blocks, every sprite one of bricks.
THEOREM TypeCorrect == Spec => []TypeOK
<1>1. Inv => TypeOK
  BY DEF Inv
<1> QED BY <1>1, Invariance, PTL

\* When the conversion is done, every object has its sprite with all of its scripts.
LEMMA AtTheEnd ==
  ASSUME Inv, phase = "done", NEW i \in DOMAIN objects
  PROVE  /\ i \in DOMAIN scene /\ scene[i] \in Sprites /\ scene[i].id \in SceneIds /\ SpriteInv(i, scene[i])
         /\ scripts[i] \in Seq(Scripts) /\ Prepared(i)
         /\ DOMAIN scene[i].roles = DOMAIN scripts[i] /\ DOMAIN scripts[i] \subseteq Nat
         /\ BegunIds = SceneIds
<1>1. /\ Len(scene) >= Len(objects) /\ Len(scripts) = Len(objects) /\ here = NoSprite
      /\ scene \in Seq(Sprites) /\ scripts \in Seq(Seq(Scripts)) /\ project \in Projects
  BY DEF Inv, InOrder, TypeOK
<1>2. DOMAIN objects = 1..Len(objects) /\ Len(objects) \in Nat
  BY <1>1, ProjectFacts
<1>3. i \in DOMAIN scene /\ i \in DOMAIN scripts /\ scene[i] \in Sprites /\ scripts[i] \in Seq(Scripts)
  BY <1>1, <1>2
<1>4. Begun(i) /\ SpriteOf(i) = scene[i]
  BY <1>3 DEF Begun, SpriteOf
<1>5. SpriteInv(i, scene[i]) /\ Len(scene[i].scripts) = Len(scripts[i]) /\ Prepared(i)
  <2>1. SpriteInv(i, SpriteOf(i))
    BY <1>4 DEF Inv
  <2> QED BY <1>3, <1>4, <2>1 DEF Inv
<1>6. Len(scene[i].roles) = Len(scripts[i]) /\ scene[i].roles \in Seq(Ids)
  BY <1>3, <1>5 DEF SpriteInv, CustomBlocks, Sprites
<1>7. DOMAIN scene[i].roles = DOMAIN scripts[i] /\ DOMAIN scripts[i] \subseteq Nat
  BY <1>3, <1>6
<1>8. scene[i].id \in SceneIds /\ BegunIds = SceneIds
  BY <1>1, <1>3 DEF SceneIds, BegunIds
<1> QED BY <1>3, <1>5, <1>7, <1>8

\* A sprite that was made ahead of its turn has had its turn by then.
LEMMA RefersAtTheEnd == Inv => RefersToScene
<1> SUFFICES ASSUME Inv, phase = "done", NEW i \in DOMAIN objects, Unaffected(i), NEW b \in BricksOf(scene[i])
             PROVE  /\ b.kind = "sprite" /\ b.name \in Names \union {Mouse} => b.owner \in SceneIds \/ NamesItself(b, objects[i])
                    /\ b.kind = "list" => [owner |-> b.owner, name |-> b.name] \in lists["saved"]
                    /\ b.op \in VariableOps \union {"doAsk", "answer"} =>
                         Declares([owner |-> b.owner, kind |-> b.kind, name |-> b.name])
  BY DEF RefersToScene
<1>1. BrickRefers(i, b)
  BY AtTheEnd DEF SpriteInv
<1>2. ASSUME b.name \in upcoming, b.name \in Names \union {Mouse} PROVE \E id \in BegunIds : id.name = b.name
  <2>1. CASE b.name = Mouse
    BY <1>2, <2>1, AtTheEnd DEF Inv
  <2>2. CASE b.name \in Names
    <3>1. PICK j \in DOMAIN objects : objects[j].name = b.name
      BY <2>2 DEF Names
    <3> QED BY <3>1, AtTheEnd DEF SpriteInv
  <2> QED BY <1>2, <2>1, <2>2
<1> QED BY <1>1, <1>2, AtTheEnd DEF BrickRefers

LEMMA CallsAtTheEnd == Inv => CallsHaveBodies
<1> SUFFICES ASSUME Inv, phase = "done", NEW i \in DOMAIN objects
             PROVE  /\ \A b \in {c \in BricksOf(scene[i]) : c.op = "call"} :
                         \/ \E k \in Bodies(i, b.name) : Bodies(i, b.name) = {k} /\ scene[i].roles[k] = b.owner
                         \/ Odd(i, b.name)
                    /\ \A k \in DOMAIN objects[i].scripts : scene[i].roles[k] = Replacement =>
                         LET s == objects[i].scripts[k]
                         IN s.odd \/ \E other \in DOMAIN objects[i].scripts \ {k} :
                                       objects[i].scripts[other].hat = "procDef" /\ objects[i].scripts[other].arg = s.arg
  BY DEF CallsHaveBodies
<1> PICK s : s = scene[i]
  OBVIOUS
<1>1. /\ s \in Sprites /\ CustomBlocks(i, s) /\ Prepared(i)
      /\ DOMAIN s.roles = DOMAIN scripts[i] /\ DOMAIN scripts[i] \subseteq Nat
  BY AtTheEnd DEF SpriteInv
<1>2. /\ s.definitions \subseteq Ids /\ s.roles \in Seq(Ids)
      /\ \A d \in s.definitions : d.made \in {"call", "definition"}
      /\ \A k \in DOMAIN s.roles : RoleIsRight(i, s, k)
      /\ Plain.made = "script" /\ Replacement.made = "replacement"
  BY <1>1 DEF Sprites, CustomBlocks, Plain, Replacement, SpriteId
<1>3. ASSUME NEW k, k \in Defs(i, scripts[i][k].arg)
      PROVE  /\ k \in DOMAIN objects[i].scripts /\ objects[i].scripts[k].hat = "procDef"
             /\ objects[i].scripts[k].arg = scripts[i][k].arg /\ objects[i].scripts[k].odd = scripts[i][k].odd
  <2>1. k \in DOMAIN scripts[i] /\ scripts[i][k].hat = "procDef"
    BY <1>3 DEF Defs
  <2>2. k \in DOMAIN objects[i].scripts
    BY <1>1, <2>1 DEF Prepared
  <2>3. SameScript(scripts[i][k], objects[i].scripts[k])
    BY <1>1, <2>2 DEF Prepared
  <2> QED BY <2>1, <2>2, <2>3 DEF SameScript
<1>4. \A h : \A k \in Defs(i, h) : k \in Defs(i, scripts[i][k].arg) /\ scripts[i][k].arg = h
  BY DEF Defs
\* A call: the last of the block's definitions agrees with itself, so one of them was met.
<1>5. ASSUME NEW b \in BricksOf(s), b.op = "call"
      PROVE  \/ \E k \in Bodies(i, b.name) : Bodies(i, b.name) = {k} /\ s.roles[k] = b.owner
             \/ Odd(i, b.name)
  <2>1. b.owner \in s.definitions /\ b.owner.name = b.name /\ Defs(i, b.name) # {}
    BY <1>1, <1>5 DEF CustomBlocks
  <2>2. b.name \in s.declared
    <3>1. PICK k \in Defs(i, b.name) : TRUE
      BY <2>1
    <3>2. k \in DOMAIN s.roles /\ scripts[i][k].hat = "procDef" /\ scripts[i][k].arg = b.name
      BY <1>1, <3>1 DEF Defs
    <3>3. PICK last \in DOMAIN s.roles \intersect Defs(i, b.name) :
                  \A m \in DOMAIN s.roles \intersect Defs(i, b.name) : m <= last
      BY <1>1, <3>2 DEF CustomBlocks
    <3>4. scripts[i][last].hat = "procDef" /\ scripts[i][last].arg = b.name
      BY <3>3 DEF Defs
    <3>5. \A m \in Defs(i, b.name) : m <= last
      BY <1>1, <3>3 DEF Defs
    <3>6. Agrees(i, last)
      BY <3>3, <3>4, <3>5 DEF Agrees, IsLast
    <3> QED BY <1>1, <3>3, <3>4, <3>6 DEF CustomBlocks
  <2>3. CASE \E k \in DOMAIN s.roles : s.roles[k] \in s.definitions /\ s.roles[k].name = b.name
    <3>1. PICK k \in DOMAIN s.roles : s.roles[k] \in s.definitions /\ s.roles[k].name = b.name
      BY <2>3
    <3>2. s.roles[k] = b.owner
      BY <1>1, <2>1, <3>1 DEF CustomBlocks
    <3>3. k \in Bodies(i, b.name)
      <4>1. s.roles[k] \in Ids /\ s.roles[k].made \in {"call", "definition"}
        BY <1>2, <3>1
      <4>2. s.roles[k] = SpriteId(b.name, s.roles[k].made)
        BY <3>1, <4>1 DEF Ids, SpriteId
      <4> QED BY <3>1, <4>1, <4>2 DEF Bodies
    <3>4. ASSUME NEW m \in Bodies(i, b.name) PROVE m = k
      <4>1. m \in DOMAIN s.roles /\ s.roles[m].name = b.name /\ s.roles[m].made \in {"call", "definition"}
        BY DEF Bodies, SpriteId
      <4>2. s.roles[m] \in s.definitions
        BY <1>2, <4>1 DEF RoleIsRight
      <4> QED BY <1>1, <3>1, <4>1, <4>2 DEF CustomBlocks
    <3> QED BY <3>2, <3>3, <3>4
  <2>4. CASE \E k \in DOMAIN s.roles : k \in Defs(i, b.name) /\ scripts[i][k].odd
    <3>1. PICK k \in DOMAIN s.roles : k \in Defs(i, b.name) /\ scripts[i][k].odd
      BY <2>4
    <3>2. /\ k \in DOMAIN objects[i].scripts /\ objects[i].scripts[k].hat = "procDef"
          /\ objects[i].scripts[k].arg = b.name /\ objects[i].scripts[k].odd
      BY <1>3, <1>4, <3>1
    <3> QED BY <3>2 DEF Odd, ToSet
  <2> QED BY <1>1, <2>2, <2>3, <2>4 DEF CustomBlocks
<1>6. ASSUME NEW k \in DOMAIN objects[i].scripts, s.roles[k] = Replacement
      PROVE  LET t == objects[i].scripts[k]
             IN t.odd \/ \E other \in DOMAIN objects[i].scripts \ {k} :
                           objects[i].scripts[other].hat = "procDef" /\ objects[i].scripts[other].arg = t.arg
  <2>1. k \in DOMAIN s.roles
    <3>1. /\ objects[i].scripts \in Seq(SourceScripts) /\ scripts[i] \in Seq(Scripts)
          /\ Len(scripts[i]) >= Len(objects[i].scripts)
      BY <1>1, AtTheEnd, ProjectFacts DEF Inv, TypeOK, SourceObjects, Prepared
    <3> QED BY <1>1, <3>1
  <2>2. s.roles[k] # Plain /\ s.roles[k] \notin s.definitions
    BY <1>2, <1>6
  <2>3. /\ k \in Defs(i, scripts[i][k].arg)
        /\ scripts[i][k].odd \/ \E other \in Defs(i, scripts[i][k].arg) : other # k
    BY <1>2, <2>1, <2>2 DEF RoleIsRight
  <2> QED BY <1>3, <1>4, <2>3
<1> QED BY <1>5, <1>6

-------------------------------------------------------------------------------
(* The names *)

\* The blocks of an object.
LEMMA SourceBlocksIn ==
  ASSUME NEW object \in SourceObjects
  PROVE  /\ \A b \in BlocksIn(object.scripts) : b \in SourceBlocks
         /\ \A k \in DOMAIN object.scripts : object.scripts[k] \in SourceScripts /\ object.scripts[k].blocks \in Seq(SourceBlocks)
<1>1. object.scripts \in Seq(SourceScripts)
  BY DEF SourceObjects
<1>2. ASSUME NEW k \in DOMAIN object.scripts
      PROVE  object.scripts[k] \in SourceScripts /\ object.scripts[k].blocks \in Seq(SourceBlocks)
  <2>1. object.scripts[k] \in SourceScripts
    BY <1>1
  <2> QED BY <2>1 DEF SourceScripts
<1>3. ASSUME NEW b \in BlocksIn(object.scripts) PROVE b \in SourceBlocks
  <2>1. PICK k \in DOMAIN object.scripts : b \in ToSet(object.scripts[k].blocks)
    BY DEF BlocksIn
  <2> QED BY <1>2, <2>1 DEF ToSet
<1> QED BY <1>2, <1>3

\* A block that names a sprite, asks, answers or draws is one of the object's own.
LEMMA LookedIsUsed == ASSUME Inv, NEW b, IsNext(Looked, b) PROVE at \in DOMAIN objects /\ b \in BlocksIn(objects[at].scripts)
<1>1. /\ phase = "sprites" /\ here # NoSprite /\ b.op \in Looked /\ Len(Bricks) < Len(Source) /\ Len(Bricks) \in Nat
      /\ b = Source[Len(Bricks) + 1] /\ Converted \in DOMAIN here.scripts
  BY NextBlock DEF IsNext
<1>2. PICK n : n = Len(Bricks) + 1
  OBVIOUS
<1>3. at \in DOMAIN objects /\ at \in DOMAIN scripts /\ scripts[at] \in Seq(Scripts) /\ Prepared(at) /\ CustomBlocks(at, here)
      /\ here.scripts \in Seq(Seq(AnyBricks))
  BY <1>1, HereFacts DEF Inv, SpriteInv, TypeOK, Sprites
<1>4. PICK k \in DOMAIN scripts[at] : k = Converted
  <2>1. Len(here.scripts) <= Len(scripts[at])
    BY <1>3 DEF CustomBlocks
  <2>2. Converted \in DOMAIN scripts[at]
    BY <1>1, <1>3, <2>1 DEF Converted
  <2> QED BY <2>2
<1>5. n \in DOMAIN scripts[at][k].blocks /\ b = scripts[at][k].blocks[n] /\ scripts[at][k].blocks \in Seq(Blocks)
  <2>1. scripts[at][k].blocks \in Seq(Blocks)
    BY <1>3, <1>4 DEF Scripts
  <2> QED BY <1>1, <1>2, <1>4, <2>1 DEF Source
<1>6. b \in ToSet(scripts[at][k].blocks) /\ b.op \in Looked
  BY <1>1, <1>5 DEF ToSet
<1>7. k \in DOMAIN objects[at].scripts
  BY <1>3, <1>4, <1>6 DEF Prepared
<1>8. SameScript(scripts[at][k], objects[at].scripts[k])
  BY <1>3, <1>7 DEF Prepared
<1>9. objects[at].scripts[k].blocks \in Seq(SourceBlocks)
  BY <1>3, <1>7, ProjectFacts, SourceBlocksIn DEF Inv, TypeOK
<1>10. n \in DOMAIN objects[at].scripts[k].blocks /\ objects[at].scripts[k].blocks[n] = b
  BY <1>5, <1>6, <1>8, <1>9 DEF SameScript
<1>11. b \in BlocksIn(objects[at].scripts)
  BY <1>7, <1>10 DEF BlocksIn, ToSet
<1> QED BY <1>3, <1>11

\* Each sprite has an identity of its own.
LEMMA OwnIdentity ==
  ASSUME Inv, NEW i \in DOMAIN objects, Begun(i)
  PROVE  /\ SpriteOf(i).id.name = objects[i].name /\ SpriteOf(i).id # Everyone
         /\ \A j \in DOMAIN objects : Begun(j) /\ SpriteOf(j).id = SpriteOf(i).id => j = i
<1>1. \A j \in DOMAIN objects : Begun(j) => SpriteOf(j).id.name = objects[j].name /\ SpriteOf(j).id.made \in {"ahead", "inTurn"}
  BY DEF Inv, SpriteInv
<1>2. Everyone.made = ""
  BY DEF Everyone, SpriteId
<1>3. \A j, k \in DOMAIN objects : objects[j].name = objects[k].name => j = k
  BY ProjectFacts DEF Inv, TypeOK
<1> QED BY <1>1, <1>2, <1>3

\* What the object asks for has the same meaning as long as the project is the same.
LEMMA SameMeaning ==
  ASSUME UNCHANGED project
  PROVE  /\ objects' = objects
         /\ \A i : (Unaffected(i)' <=> Unaffected(i))
         /\ \A i, v : (MayOwn(i, v)' <=> MayOwn(i, v))
         /\ \A i, n : (OwnVariable(i, n)' <=> OwnVariable(i, n)) /\ (OwnList(i, n)' <=> OwnList(i, n))
         /\ \A i, id, b : (Means(i, id, b)' <=> Means(i, id, b))
<1>1. objects' = objects
  BY DEF objects
<1>2. \A i : (Replacing(i)' <=> Replacing(i))
  BY <1>1 DEF Replacing
<1>3. \A i : (Unaffected(i)' <=> Unaffected(i))
  BY <1>1, <1>2 DEF Unaffected
<1>4. \A i, n : /\ (OwnVariable(i, n)' <=> OwnVariable(i, n)) /\ (OwnList(i, n)' <=> OwnList(i, n))
                /\ (Shadowed(i, n)' <=> Shadowed(i, n))
  BY <1>1 DEF OwnVariable, OwnList, Shadowed
<1>5. \A i, v : (MayOwn(i, v)' <=> MayOwn(i, v))
  BY <1>1, <1>4 DEF MayOwn
<1>6. \A i, id, b : (Means(i, id, b)' <=> Means(i, id, b))
  BY <1>1, <1>4 DEF Means
<1> QED BY <1>1, <1>3, <1>4, <1>5, <1>6

\* More declarations leave the meaning of a sprite's bricks as it is if they are not the sprite's, or it may own them.
LEMMA MeantKept ==
  ASSUME UNCHANGED project, NEW i \in DOMAIN objects, Meant(i), SpriteOf(i)'.id = SpriteOf(i).id,
         variables["saved"] \subseteq variables'["saved"], lists["saved"] \subseteq lists'["saved"],
         \A v \in variables'["saved"] : v \in variables["saved"] \/ v.owner # SpriteOf(i).id \/ MayOwn(i, v),
         \A l \in lists'["saved"] : l \in lists["saved"] \/ l.owner # SpriteOf(i).id,
         \A b \in BricksOf(SpriteOf(i))' : b \in BricksOf(SpriteOf(i)) \/ Means(i, SpriteOf(i).id, b)
  PROVE  Meant(i)'
<1>1. OwnerOf(i)' = OwnerOf(i)
  BY DEF OwnerOf
<1>2. DeclaresOwn(i)'
  BY <1>1, SameMeaning DEF Meant, DeclaresOwn
<1>3. OwnsOnly(i)'
  BY SameMeaning DEF Meant, OwnsOnly
<1>4. \A b \in BricksOf(SpriteOf(i))' : Means(i, SpriteOf(i).id, b)
  BY DEF Meant
<1>5. (\A b \in BricksOf(SpriteOf(i)) : Means(i, SpriteOf(i).id, b))'
  BY <1>4, SameMeaning
<1> QED BY <1>2, <1>3, <1>5 DEF Meant

\* Before the sprites nothing is declared but the lists of all sprites.
LEMMA MeantInvPreparing ==
  ASSUME Inv, MeantInv, PreprocessObject \/ AddHelpers
  PROVE  MeantInv'
<1>1. phase \in {"objects", "helpers"} /\ UNCHANGED <<project, here, scene, variables>> /\ scene = <<>> /\ here = NoSprite
  BY DEF PreprocessObject, AddHelpers, Inv, InOrder
<1>2. Owners' = Owners /\ objects' = objects /\ DOMAIN lists = Programs
  BY <1>1 DEF Owners, BegunIds, SceneIds, objects, Inv, TypeOK
<1>3. \A i : ~Begun(i)'
  BY <1>1 DEF Begun
<1>4. CASE UNCHANGED lists /\ phase' # "sprites"
  BY <1>1, <1>2, <1>3, <1>4 DEF MeantInv
<1>5. CASE lists' = [lists EXCEPT !["saved"] = {[owner |-> Everyone, name |-> l] : l \in objects[1].lists}]
  <2>1. lists'["saved"] = {[owner |-> Everyone, name |-> l] : l \in objects[1].lists}
    BY <1>2, <1>5 DEF Programs
  <2> QED BY <1>1, <1>2, <1>3, <2>1 DEF MeantInv, Owners
<1>6. PreprocessObject => UNCHANGED lists /\ phase' # "sprites"
  BY <1>1 DEF PreprocessObject
<1> QED BY <1>4, <1>5, <1>6 DEF AddHelpers

\* The generated variables are of other kinds than the user's.
LEMMA HelperKinds ==
  ASSUME NEW object, NEW info, NEW monitors, NEW v \in HelperVariables(object, info, monitors)
  PROVE  v.kind # "user"
<1>1. \/ v = [kind |-> "sensor", name |-> object.name]
      \/ \E m : v = [kind |-> "position", name |-> m]
      \/ \E m : v = [kind |-> "attribute", name |-> m]
      \/ v = [kind |-> "timer", name |-> ""]
      \/ v = [kind |-> "answer", name |-> ""]
  BY DEF HelperVariables
<1>2. \A kind, name : kind # "user" /\ v = [kind |-> kind, name |-> name] => v.kind # "user"
  OBVIOUS
<1>3. "sensor" # "user" /\ "position" # "user" /\ "attribute" # "user" /\ "timer" # "user" /\ "answer" # "user"
  OBVIOUS
<1> QED BY <1>1, <1>2, <1>3, Zenon

\* A sprite that begins declares its own, and has no bricks yet.
LEMMA MeantInvStartSprite == ASSUME Inv, MeantInv, StartSprite PROVE MeantInv'
<1> DEFINE id    == SpriteFor(objects[at].name)
           owner == IF at = 1 THEN Everyone ELSE id
           own   == IF at = 1 THEN {} ELSE {[owner |-> id, name |-> l] : l \in objects[at].lists}
<1> USE HereFacts
<1>1. /\ phase = "sprites" /\ here = NoSprite /\ here' = NewSprite(id, converter)
      /\ UNCHANGED <<project, phase, scripts, at, scene>>
      /\ variables' = [variables EXCEPT ![converter] = @ \union Owned(owner, VariablesOf(at))]
      /\ lists' = [lists EXCEPT ![converter] = @ \union own]
      /\ DOMAIN variables = Programs /\ DOMAIN lists = Programs /\ converter \in Programs
  BY DEF StartSprite, Inv, TypeOK
<1>2. Inv'
  BY StartSpriteStep
<1>3. id.name = objects[at].name /\ id.made \in {"ahead", "inTurn"} /\ id # Everyone
  BY <1>1 DEF SpriteFor, SpriteId, Everyone
<1> HIDE DEF id
<1>4. here' # NoSprite /\ here'.id = id /\ here'.scripts = <<>>
  BY <1>1, <1>3 DEF NewSprite, NoSprite
<1>5. /\ at \in DOMAIN objects /\ Begun(at)' /\ SpriteOf(at)' = here' /\ BricksOf(here') = {}
      /\ BegunIds' = BegunIds \union {id}
  BY <1>1, <1>4, SameMeaning DEF Begun, SpriteOf, BricksOf, BegunIds, SceneIds
<1>6. \A x \in BegunIds : x # id
  <2> SUFFICES ASSUME NEW x \in BegunIds, x = id PROVE FALSE
    OBVIOUS
  <2>1. PICK j \in DOMAIN scene : x = scene[j].id
    BY <1>1 DEF BegunIds, SceneIds
  <2>2. j \in DOMAIN objects /\ Begun(j) /\ SpriteOf(j) = scene[j] /\ j # at
    BY <1>1, <2>1 DEF Begun, SpriteOf
  <2>3. objects[j].name = objects[at].name
    BY <1>3, <2>1, <2>2, OwnIdentity
  <2> QED BY <1>5, <2>2, <2>3, ProjectFacts DEF Inv, TypeOK
<1>7. /\ \A v \in variables'["saved"] : v \in variables["saved"] \/ v \in Owned(owner, VariablesOf(at))
      /\ \A l \in lists'["saved"] : l \in lists["saved"] \/ l \in own
      /\ variables["saved"] \subseteq variables'["saved"] /\ lists["saved"] \subseteq lists'["saved"]
  BY <1>1 DEF Programs
<1>8. \A v \in Owned(owner, VariablesOf(at)) : v.owner = owner /\ (v.kind = "user" => v.name \in objects[at].vars)
  <2>1. \A v \in VariablesOf(at) : v.kind = "user" => v.name \in objects[at].vars
    <3>1. \A v \in HelperVariables(objects[at], wanted, project.monitors) : v.kind # "user"
      BY HelperKinds
    <3> QED BY <3>1 DEF VariablesOf
  <2> QED BY <2>1 DEF Owned
<1>9. \A l \in own : l.owner = id /\ at # 1 /\ l.name \in objects[at].lists
  OBVIOUS
<1>10. /\ \A v \in variables'["saved"] : v.owner \in Owners'
       /\ \A l \in lists'["saved"] : l.owner \in Owners'
  BY <1>5, <1>7, <1>8, <1>9 DEF MeantInv, Owners
<1>11. phase' = "sprites" => \A n \in objects'[1].lists : [owner |-> Everyone, name |-> n] \in lists'["saved"]
  BY <1>1, <1>7, SameMeaning DEF MeantInv
<1>12. ASSUME Unaffected(at) PROVE Meant(at)'
  <2>1. OwnerOf(at)' = owner
    BY <1>1, <1>4, <1>5 DEF OwnerOf
  <2>2. converter = "saved"
    BY <1>1, <1>12 DEF Unaffected, Inv, InOrder, Programs
  <2>3. \A n \in objects[at].vars : [owner |-> owner, kind |-> "user", name |-> n] \in variables'["saved"]
    <3>1. \A n \in objects[at].vars : [kind |-> "user", name |-> n] \in VariablesOf(at)
      BY DEF VariablesOf
    <3>2. \A n \in objects[at].vars : [owner |-> owner, kind |-> "user", name |-> n] \in Owned(owner, VariablesOf(at))
      <4>1. \A v \in VariablesOf(at) : [owner |-> owner, kind |-> v.kind, name |-> v.name] \in Owned(owner, VariablesOf(at))
        BY DEF Owned
      <4> SUFFICES ASSUME NEW n \in objects[at].vars
                   PROVE  [owner |-> owner, kind |-> "user", name |-> n] \in Owned(owner, VariablesOf(at))
        OBVIOUS
      <4> PICK v \in VariablesOf(at) : v = [kind |-> "user", name |-> n]
        BY <3>1
      <4>2. v.kind = "user" /\ v.name = n
        OBVIOUS
      <4> QED BY <4>1, <4>2
    <3> QED BY <1>1, <2>2, <3>2 DEF Programs
  <2>4. at # 1 => \A n \in objects[at].lists : [owner |-> owner, name |-> n] \in lists'["saved"]
    BY <1>1, <2>2 DEF Programs
  <2>5. DeclaresOwn(at)'
    BY <1>1, <2>1, <2>3, <2>4, SameMeaning DEF DeclaresOwn
  <2>6. ASSUME NEW v \in variables'["saved"], v.owner = id PROVE MayOwn(at, v)
    <3>1. v \in Owned(owner, VariablesOf(at)) /\ owner = id
      BY <1>3, <1>6, <1>7, <1>8, <2>6 DEF MeantInv, Owners
    <3>2. at # 1
      BY <1>3, <3>1
    <3> QED BY <1>8, <3>1, <3>2 DEF MayOwn, OwnVariable
  <2>7. ASSUME NEW l \in lists'["saved"], l.owner = id PROVE OwnList(at, l.name)
    BY <1>3, <1>6, <1>7, <1>9, <2>7 DEF MeantInv, Owners, OwnList
  <2>8. OwnsOnly(at)'
    BY <1>1, <1>4, <1>5, <2>6, <2>7, SameMeaning DEF OwnsOnly
  <2>9. BricksOf(SpriteOf(at))' = {}
    BY <1>4, <1>5 DEF BricksOf
  <2> QED BY <1>1, <2>5, <2>8, <2>9 DEF Meant
<1>13. ASSUME NEW i \in DOMAIN objects, Begun(i)', Unaffected(i) PROVE Meant(i)'
  <2>1. CASE i = at
    BY <1>1, <1>12, <1>13, <2>1
  <2>2. CASE i # at
    <3>1. i \in DOMAIN scene /\ Begun(i) /\ SpriteOf(i)' = SpriteOf(i)
      BY <1>1, <1>13, <2>2, SameMeaning DEF Begun, SpriteOf
    <3>2. SpriteOf(i).id \in BegunIds /\ SpriteOf(i).id # Everyone /\ Meant(i)
      BY <1>13, <3>1, OwnIdentity DEF BegunIds, SceneIds, SpriteOf, MeantInv
    <3>3. SpriteOf(i).id # id /\ SpriteOf(i).id # owner
      BY <1>6, <3>2
    <3>4. \A v \in variables'["saved"] : v \in variables["saved"] \/ v.owner # SpriteOf(i).id
      BY <1>7, <1>8, <3>3
    <3>5. \A l \in lists'["saved"] : l \in lists["saved"] \/ l.owner # SpriteOf(i).id
      BY <1>7, <1>9, <3>3
    <3>6. BricksOf(SpriteOf(i))' = BricksOf(SpriteOf(i)) /\ SpriteOf(i)'.id = SpriteOf(i).id
      BY <3>1 DEF BricksOf
    <3> HIDE DEF owner, own
    <3> QED BY <1>1, <1>7, <3>2, <3>4, <3>5, <3>6, MeantKept
  <2> QED BY <2>1, <2>2
<1> QED BY <1>1, <1>10, <1>11, <1>13, SameMeaning DEF MeantInv

\* While a sprite is converted nothing is declared but for all sprites and for that one.
LEMMA MeantInvHere ==
  ASSUME Inv, MeantInv, phase = "sprites", here # NoSprite, here' # NoSprite, here'.id = here.id,
         UNCHANGED <<project, phase, at, scene, lists>>, variables["saved"] \subseteq variables'["saved"],
         \A v \in variables'["saved"] : \/ v \in variables["saved"] \/ v.owner = Everyone
                                        \/ v.owner = here.id /\ (Unaffected(at) => MayOwn(at, v)),
         Unaffected(at) => \A b \in BricksOf(here') : b \in BricksOf(here) \/ Means(at, here.id, b)
  PROVE  MeantInv'
<1> USE HereFacts
<1>1. Owners' = Owners /\ here.id \in Owners /\ Everyone \in Owners
  BY SameBegun DEF Owners, BegunIds
<1>2. /\ \A v \in variables'["saved"] : v.owner \in Owners'
      /\ \A l \in lists'["saved"] : l.owner \in Owners'
      /\ phase' = "sprites" => \A n \in objects'[1].lists : [owner |-> Everyone, name |-> n] \in lists'["saved"]
  BY <1>1, SameMeaning DEF MeantInv
<1>3. Begun(at) /\ SpriteOf(at) = here /\ SpriteOf(at)' = here' /\ at \in DOMAIN objects
  BY DEF SpriteOf
<1>4. ASSUME NEW i \in DOMAIN objects, Begun(i)', Unaffected(i) PROVE Meant(i)'
  <2>1. Begun(i) /\ SpriteOf(i)'.id = SpriteOf(i).id
    BY <1>3, <1>4, SameMeaning DEF Begun, SpriteOf
  <2>2. Meant(i) /\ SpriteOf(i).id # Everyone
    BY <1>4, <2>1, OwnIdentity DEF MeantInv
  <2>3. CASE i = at
    <3>1. BricksOf(SpriteOf(i))' = BricksOf(here')
      BY <1>3, <2>3 DEF BricksOf
    <3>2. \A v \in variables'["saved"] : v \in variables["saved"] \/ v.owner # SpriteOf(i).id \/ MayOwn(i, v)
      BY <1>4, <2>2, <2>3
    <3> QED BY <1>3, <1>4, <2>1, <2>2, <2>3, <3>1, <3>2, MeantKept
  <2>4. CASE i # at
    <3>1. SpriteOf(i).id # here.id /\ SpriteOf(i)' = SpriteOf(i)
      <4>1. i \in DOMAIN scene
        BY <1>4, <2>4, SameMeaning DEF Begun
      <4> QED BY <1>3, <2>1, <2>4, <4>1, OwnIdentity DEF SpriteOf
    <3>2. \A v \in variables'["saved"] : v \in variables["saved"] \/ v.owner # SpriteOf(i).id \/ MayOwn(i, v)
      BY <2>2, <3>1
    <3>3. BricksOf(SpriteOf(i))' = BricksOf(SpriteOf(i))
      BY <3>1 DEF BricksOf
    <3> QED BY <2>1, <2>2, <3>2, <3>3, MeantKept
  <2> QED BY <2>3, <2>4
<1> QED BY <1>2, <1>4, SameMeaning DEF MeantInv

LEMMA MeantInvStartScript == ASSUME Inv, MeantInv, StartScript PROVE MeantInv'
<1>1. /\ phase = "sprites" /\ here # NoSprite
      /\ UNCHANGED <<project, phase, at, scene, variables, lists>> /\ here \in Sprites
  BY DEF StartScript, Inv, TypeOK
<1>2. /\ here'.id = here.id /\ here'.scripts = Append(here.scripts, <<>>) /\ here.scripts \in Seq(Seq(AnyBricks))
  BY <1>1 DEF StartScript, Sprites
<1>3. BricksOf(here') \subseteq BricksOf(here) /\ here' # NoSprite
  <2>1. /\ DOMAIN here'.scripts = DOMAIN here.scripts \union {Converted + 1} /\ here'.scripts[Converted + 1] = <<>>
        /\ \A k \in DOMAIN here.scripts : here'.scripts[k] = here.scripts[k]
    BY <1>2 DEF Converted
  <2>2. here' # NoSprite
    BY <2>1 DEF NoSprite, NewSprite
  <2> QED BY <2>1, <2>2 DEF BricksOf, ToSet
<1> QED BY <1>1, <1>2, <1>3, MeantInvHere

\* The bricks of the sprite, with one more.
LEMMA OneMore ==
  ASSUME Inv, NEW ops, NEW b, IsNext(ops, b), NEW r,
         here'.scripts = [here.scripts EXCEPT ![Converted] = Append(@, r)]
  PROVE  here' # NoSprite /\ \A x \in BricksOf(here') : x \in BricksOf(here) \/ x = r
<1>1. here \in Sprites /\ Converted \in DOMAIN here.scripts /\ Bricks \in Seq(AnyBricks)
  BY NextBlock
<1>2. here.scripts \in Seq(Seq(AnyBricks)) /\ Bricks = here.scripts[Converted]
  BY <1>1 DEF Sprites, Bricks
<1>3. ToSet(Append(Bricks, r)) \subseteq ToSet(Bricks) \union {r} /\ Append(Bricks, r) # <<>>
  <2>1. Bricks \in Seq(AnyBricks \union {r})
    BY <1>1, SeqMonotonic
  <2> QED BY <2>1 DEF ToSet
<1>4. /\ DOMAIN here'.scripts = DOMAIN here.scripts /\ here'.scripts[Converted] = Append(Bricks, r)
      /\ \A k \in DOMAIN here.scripts : k # Converted => here'.scripts[k] = here.scripts[k]
  BY <1>1, <1>2
<1>5. here' # NoSprite
  BY <1>1, <1>4 DEF NoSprite, NewSprite
<1>6. ASSUME NEW x \in BricksOf(here') PROVE x \in BricksOf(here) \/ x = r
  <2>1. PICK k \in DOMAIN here.scripts : x \in ToSet(here'.scripts[k])
    BY <1>4 DEF BricksOf
  <2>2. CASE k # Converted
    BY <1>4, <2>1, <2>2 DEF BricksOf
  <2>3. CASE k = Converted
    BY <1>1, <1>2, <1>3, <1>4, <2>1, <2>3 DEF BricksOf
  <2> QED BY <2>2, <2>3
<1> QED BY <1>5, <1>6

\* A block that declares nothing, or only for all sprites or what its sprite may own.
LEMMA MeantInvBrick ==
  ASSUME Inv, MeantInv, NEW ops, NEW b, IsNext(ops, b), NEW r, Add(r), UNCHANGED <<project, phase, at, scene, lists>>,
         NEW owner, NEW new, owner = Everyone \/ (owner = here.id /\ \A w \in Owned(owner, new) : Unaffected(at) => MayOwn(at, w)),
         variables' = [variables EXCEPT ![converter] = @ \union Owned(owner, new)],
         Unaffected(at) => Means(at, here.id, r)
  PROVE  MeantInv'
<1>1. phase = "sprites" /\ here # NoSprite /\ here \in Sprites /\ DOMAIN variables = Programs /\ converter \in Programs
  BY NextBlock DEF Inv, TypeOK
<1>2. here'.id = here.id /\ here'.scripts = [here.scripts EXCEPT ![Converted] = Append(@, r)]
  BY <1>1 DEF Add, Sprites
<1>3. here' # NoSprite /\ \A x \in BricksOf(here') : x \in BricksOf(here) \/ x = r
  BY <1>2, OneMore
<1>4. /\ variables["saved"] \subseteq variables'["saved"]
      /\ \A v \in variables'["saved"] : v \in variables["saved"] \/ v \in Owned(owner, new)
  BY <1>1 DEF Programs
<1>5. \A v \in Owned(owner, new) : v.owner = owner
  BY DEF Owned
<1> QED BY <1>1, <1>2, <1>3, <1>4, <1>5, MeantInvHere

LEMMA MeantInvPlainBrick ==
  ASSUME Inv, MeantInv, NEW ops, NEW b, IsNext(ops, b), NEW r, Add(r), UNCHANGED <<project, phase, at, scene, variables, lists>>,
         Unaffected(at) => Means(at, here.id, r)
  PROVE  MeantInv'
<1>1. phase = "sprites" /\ here # NoSprite /\ here \in Sprites
  BY NextBlock
<1>2. here'.id = here.id /\ here'.scripts = [here.scripts EXCEPT ![Converted] = Append(@, r)]
  BY <1>1 DEF Add, Sprites
<1>3. here' # NoSprite /\ \A x \in BricksOf(here') : x \in BricksOf(here) \/ x = r
  BY <1>2, OneMore
<1> QED BY <1>1, <1>2, <1>3, MeantInvHere

\* A name that the object or the stage declares is found, and is what it means.
LEMMA LookupMeans ==
  ASSUME Inv, MeantInv, phase = "sprites", here # NoSprite, Unaffected(at), converter = "saved", NEW name
  PROVE  LET found == Lookup("user", name)
         IN /\ OwnVariable(at, name) => found # {} /\ OwnerIn(found) = here.id
            /\ name \in objects[1].vars =>
                 found # {} /\ (OwnerIn(found) = Everyone \/ OwnVariable(at, name) \/ Shadowed(at, name))
<1> DEFINE found == Lookup("user", name)
<1> USE HereFacts
<1>1. Meant(at) /\ SpriteOf(at) = here
  BY DEF MeantInv
<1>2. 1 \in DOMAIN objects /\ Begun(1) /\ Unaffected(1)
  BY DEF Begun, Unaffected
<1>3. Meant(1)
  BY <1>2 DEF MeantInv
<1>4. ASSUME OwnVariable(at, name) PROVE \E v \in found : v.owner = here.id
  <2>1. [owner |-> here.id, kind |-> "user", name |-> name] \in variables["saved"]
    BY <1>1, <1>4 DEF Meant, DeclaresOwn, OwnerOf, OwnVariable
  <2>2. [owner |-> here.id, kind |-> "user", name |-> name] \in found
    BY <2>1 DEF Lookup
  <2> QED BY <2>2
<1>5. ASSUME name \in objects[1].vars PROVE [owner |-> Everyone, kind |-> "user", name |-> name] \in found
  <2>1. [owner |-> Everyone, kind |-> "user", name |-> name] \in variables["saved"]
    BY <1>3, <1>5 DEF Meant, DeclaresOwn, OwnerOf
  <2> QED BY <2>1 DEF Lookup
<1>6. ASSUME NEW v \in found, v.owner = here.id, name \in objects[1].vars
      PROVE  OwnVariable(at, name) \/ Shadowed(at, name)
  <2>1. v \in variables["saved"] /\ v.kind = "user" /\ v.name = name
    BY DEF Lookup
  <2> QED BY <1>1, <1>6, <2>1 DEF Meant, OwnsOnly, MayOwn
<1> HIDE DEF found
<1>7. OwnVariable(at, name) => found # {} /\ OwnerIn(found) = here.id
  BY <1>4 DEF OwnerIn
<1>8. name \in objects[1].vars => found # {} /\ (OwnerIn(found) = Everyone \/ OwnVariable(at, name) \/ Shadowed(at, name))
  BY <1>5, <1>6 DEF OwnerIn
<1> QED BY <1>7, <1>8 DEF found

LEMMA LookupListMeans ==
  ASSUME Inv, MeantInv, phase = "sprites", here # NoSprite, Unaffected(at), converter = "saved", NEW name
  PROVE  LET found == LookupList(name)
         IN /\ OwnList(at, name) => found # {} /\ OwnerIn(found) = here.id
            /\ name \in objects[1].lists => found # {} /\ (OwnerIn(found) = Everyone \/ OwnList(at, name))
<1> DEFINE found == LookupList(name)
<1> USE HereFacts
<1>1. Meant(at) /\ SpriteOf(at) = here
  BY DEF MeantInv
<1>2. ASSUME OwnList(at, name) PROVE \E l \in found : l.owner = here.id
  <2>1. [owner |-> here.id, name |-> name] \in lists["saved"]
    BY <1>1, <1>2 DEF Meant, DeclaresOwn, OwnerOf, OwnList
  <2>2. [owner |-> here.id, name |-> name] \in found
    BY <2>1 DEF LookupList
  <2> QED BY <2>2
<1>3. ASSUME name \in objects[1].lists PROVE [owner |-> Everyone, name |-> name] \in found
  <2>1. [owner |-> Everyone, name |-> name] \in lists["saved"]
    BY <1>3 DEF MeantInv
  <2> QED BY <2>1 DEF LookupList
<1>4. ASSUME NEW l \in found, l.owner = here.id PROVE OwnList(at, name)
  <2>1. l \in lists["saved"] /\ l.name = name
    BY DEF LookupList
  <2> QED BY <1>1, <1>4, <2>1 DEF Meant, OwnsOnly
<1> HIDE DEF found
<1>5. OwnList(at, name) => found # {} /\ OwnerIn(found) = here.id
  BY <1>2 DEF OwnerIn
<1>6. name \in objects[1].lists => found # {} /\ (OwnerIn(found) = Everyone \/ OwnList(at, name))
  BY <1>3, <1>4 DEF OwnerIn
<1> QED BY <1>5, <1>6 DEF found

LEMMA MeantInvConvertVariable == ASSUME Inv, MeantInv, NEW b, ConvertVariable(b) PROVE MeantInv'
<1> DEFINE found == Lookup(b.kind, b.name)
           new   == {[kind |-> b.kind, name |-> b.name]}
<1> PICK owner : owner = IF found # {} THEN OwnerIn(found) ELSE here.id
  OBVIOUS
<1> PICK r : r = Brick(b.op, b.kind, b.name, owner, converter)
  OBVIOUS
<1>1. /\ IsNext({"setVar:to:", "changeVar:by:"}, b) /\ Add(r) /\ UNCHANGED <<project, phase, at, scene, lists>>
      /\ variables' = [variables EXCEPT ![converter] = @ \union Owned(owner, new)]
  BY DEF ConvertVariable
<1>2. /\ phase = "sprites" /\ here # NoSprite /\ b \in Blocks /\ GoodBlock(b) /\ b.op \in {"setVar:to:", "changeVar:by:"}
      /\ Unaffected(at) => converter = "saved"
  BY <1>1, NextBlock
<1>3. owner \in {here.id, Everyone} /\ here.id # Everyone
  <2>1. here.id # Everyone
    BY <1>2, HereFacts, OwnIdentity
  <2> QED BY <2>1 DEF OwnerIn
<1>4. r.op = b.op /\ r.kind = b.kind /\ r.name = b.name /\ r.owner = owner
  BY DEF Brick
<1>5. ASSUME Unaffected(at), b.kind = "user"
      PROVE  /\ OwnVariable(at, b.name) => owner = here.id
             /\ b.name \in objects[1].vars => owner = Everyone \/ OwnVariable(at, b.name) \/ Shadowed(at, b.name)
  <2>1. found = Lookup("user", b.name)
    BY <1>5
  <2> HIDE DEF found
  <2> QED BY <1>2, <1>5, <2>1, LookupMeans
<1> HIDE DEF found
<1>6. Unaffected(at) => Means(at, here.id, r)
  <2>1. b.kind # "list"
    BY <1>2 DEF GoodBlock, ListOps
  <2> QED BY <1>4, <1>5, <2>1 DEF Means
<1>7. owner = Everyone \/ (owner = here.id /\ \A w \in Owned(owner, new) : Unaffected(at) => MayOwn(at, w))
  <2>1. \A w \in Owned(owner, new) : w.kind = b.kind /\ w.name = b.name
    BY DEF Owned
  <2> QED BY <1>3, <1>5, <2>1 DEF MayOwn
<1> HIDE DEF new
<1> QED BY <1>1, <1>6, <1>7, MeantInvBrick

LEMMA MeantInvConvertShown == ASSUME Inv, MeantInv, NEW b, ConvertShown(b) PROVE MeantInv'
<1> DEFINE found == Lookup(b.kind, b.name)
<1> PICK r : r = IF found = {} THEN Note ELSE Brick(b.op, b.kind, b.name, OwnerIn(found), converter)
  OBVIOUS
<1>1. /\ IsNext({"showVariable:", "hideVariable:"}, b) /\ Add(r)
      /\ UNCHANGED <<project, phase, at, scene, variables, lists>>
  BY DEF ConvertShown
<1>2. /\ phase = "sprites" /\ here # NoSprite /\ GoodBlock(b) /\ b.op \in {"showVariable:", "hideVariable:"}
      /\ Unaffected(at) => converter = "saved"
  BY <1>1, NextBlock
<1>3. ASSUME Unaffected(at) PROVE Means(at, here.id, r)
  <2>1. found = {} => r.kind = ""
    BY DEF Note, Brick
  <2>2. found # {} => r.kind = b.kind /\ r.name = b.name /\ r.owner = OwnerIn(found)
    BY DEF Brick
  <2>3. b.kind # "list"
    BY <1>2 DEF GoodBlock, ListOps
  <2>4. b.kind = "user" => found = Lookup("user", b.name)
    OBVIOUS
  <2> HIDE DEF found
  <2>5. CASE b.kind = "user" /\ found # {}
    BY <1>2, <1>3, <2>2, <2>4, <2>5, LookupMeans DEF Means
  <2>6. CASE b.kind # "user" \/ found = {}
    BY <2>1, <2>2, <2>3, <2>6 DEF Means
  <2> QED BY <2>5, <2>6
<1> QED BY <1>1, <1>3, MeantInvPlainBrick

LEMMA MeantInvConvertPen == ASSUME Inv, MeantInv, NEW b, ConvertPen(b) PROVE MeantInv'
<1> DEFINE good == b.op = "penColor:" => b.kind = "good"
<1> PICK made : made = IF good THEN {[kind |-> "user", name |-> v] : v \in PenVariables(b.op)} ELSE {}
  OBVIOUS
<1> PICK r : r = IF good THEN Brick(b.op, "user", b.name, Loose, converter) ELSE Note
  OBVIOUS
<1>1. /\ IsNext(PenOps, b) /\ Add(r) /\ UNCHANGED <<project, phase, at, scene, lists>>
      /\ variables' = [variables EXCEPT ![converter] = @ \union Owned(here.id, made)]
  BY DEF ConvertPen
<1>2. b.op \in PenOps /\ b \in BlocksIn(objects[at].scripts)
  <2>1. IsNext(Looked, b)
    BY <1>1 DEF IsNext, Looked
  <2> QED BY <1>1, <2>1, LookedIsUsed, NextBlock
<1>3. \A w \in Owned(here.id, made) : w.name \in PenVariables(b.op)
  BY DEF Owned
<1>4. \A w \in Owned(here.id, made) : MayOwn(at, w)
  BY <1>2, <1>3 DEF MayOwn, Shadowed
<1>5. Means(at, here.id, r)
  <2>1. r.op \in {b.op, "note"} /\ r.kind \in {"user", ""}
    BY DEF Brick, Note
  <2> QED BY <1>2, <2>1 DEF Means, PenOps, VariableOps
<1> QED BY <1>1, <1>4, <1>5, MeantInvBrick

LEMMA MeantInvConvertList == ASSUME Inv, MeantInv, NEW b, ConvertList(b) PROVE MeantInv'
<1> DEFINE found == LookupList(b.name)
<1> PICK r : r = IF found = {} THEN Note ELSE Brick(b.op, "list", b.name, OwnerIn(found), converter)
  OBVIOUS
<1>1. IsNext(ListOps, b) /\ Add(r) /\ UNCHANGED <<project, phase, at, scene, variables, lists>>
  BY DEF ConvertList
<1>2. phase = "sprites" /\ here # NoSprite /\ (Unaffected(at) => converter = "saved")
  BY <1>1, NextBlock
<1>3. ASSUME Unaffected(at) PROVE Means(at, here.id, r)
  <2>1. found = {} => r.kind = ""
    BY DEF Note, Brick
  <2>2. found # {} => r.kind = "list" /\ r.name = b.name /\ r.owner = OwnerIn(found)
    BY DEF Brick
  <2>3. /\ OwnList(at, b.name) => found # {} /\ OwnerIn(found) = here.id
        /\ b.name \in objects[1].lists => found # {} /\ (OwnerIn(found) = Everyone \/ OwnList(at, b.name))
    BY <1>2, <1>3, LookupListMeans
  <2> HIDE DEF found
  <2> QED BY <2>1, <2>2, <2>3 DEF Means
<1> QED BY <1>1, <1>3, MeantInvPlainBrick

\* The other blocks become bricks that are about no variable of the user's and no list.
LEMMA MeantInvOther ==
  ASSUME Inv, MeantInv, NEW b, ConvertTarget(b) \/ ConvertNoTarget(b) \/ ConvertAnswer(b) \/ ConvertCall(b) \/ ConvertOther(b)
  PROVE  MeantInv'
<1>1. ASSUME NEW op, NEW kind, kind \notin {"user", "list"}, NEW name, NEW owner, NEW in
      PROVE  Means(at, here.id, Brick(op, kind, name, owner, in))
  BY <1>1 DEF Means, Brick
<1>2. CASE ConvertTarget(b)
  <2>1. PICK id : Add(Brick(b.op, "sprite", b.name, id, converter))
    BY <1>2 DEF ConvertTarget
  <2>2. IsNext(Targets, b) /\ UNCHANGED <<project, phase, at, scene, variables, lists>>
    BY <1>2 DEF ConvertTarget
  <2>3. Means(at, here.id, Brick(b.op, "sprite", b.name, id, converter))
    BY <1>1
  <2> QED BY <2>1, <2>2, <2>3, MeantInvPlainBrick
<1>3. CASE ConvertNoTarget(b)
  <2>1. IsNext(Targets, b) /\ UNCHANGED <<project, phase, at, scene, variables, lists>>
    BY <1>3 DEF ConvertNoTarget
  <2>2. Add(Note) \/ Add(Brick(b.op, "", b.name, Everyone, converter))
    BY <1>3 DEF ConvertNoTarget
  <2>3. Means(at, here.id, Brick(b.op, "", b.name, Everyone, converter))
    BY <1>1
  <2>4. Means(at, here.id, Note)
    BY <1>1 DEF Note
  <2> QED BY <2>1, <2>2, <2>3, <2>4, MeantInvPlainBrick
<1>4. CASE ConvertAnswer(b)
  <2>1. /\ IsNext({"doAsk", "answer"}, b) /\ Add(Brick(b.op, "answer", "", Everyone, converter))
        /\ variables' = [variables EXCEPT ![converter] = @ \union Owned(Everyone, {[kind |-> "answer", name |-> ""]})]
        /\ UNCHANGED <<project, phase, at, scene, lists>>
    BY <1>4 DEF ConvertAnswer
  <2>2. Means(at, here.id, Brick(b.op, "answer", "", Everyone, converter))
    BY <1>1
  <2> QED BY <2>1, <2>2, MeantInvBrick
<1>5. CASE ConvertCall(b)
  <2>1. /\ IsNext({"call"}, b) /\ UNCHANGED <<project, phase, at, scene, variables, lists>>
        /\ phase = "sprites" /\ here # NoSprite /\ here \in Sprites
    BY <1>5, NextBlock DEF ConvertCall
  <2>2. PICK r, D : /\ here' = [here EXCEPT !.scripts[Converted] = Append(Bricks, r), !.definitions = D]
                    /\ r = Note \/ \E brick : r = Brick("call", "block", b.name, brick, converter)
    BY <1>5 DEF ConvertCall
  <2>3. here'.id = here.id /\ here'.scripts = [here.scripts EXCEPT ![Converted] = Append(@, r)]
    BY <2>1, <2>2 DEF Sprites, Bricks
  <2>4. here' # NoSprite /\ \A x \in BricksOf(here') : x \in BricksOf(here) \/ x = r
    BY <2>1, <2>3, OneMore
  <2>5. Means(at, here.id, r)
    BY <1>1, <2>2 DEF Note
  <2> QED BY <2>1, <2>3, <2>4, <2>5, MeantInvHere
<1>6. CASE ConvertOther(b)
  <2>1. /\ IsNext({b.op}, b) /\ b.op \notin Referring /\ Add(Brick(b.op, b.kind, b.name, Everyone, converter))
        /\ UNCHANGED <<project, phase, at, scene, variables, lists>>
    BY <1>6 DEF ConvertOther
  <2>2. GoodBlock(b)
    BY <2>1, NextBlock
  <2>3. b.kind # "list" /\ b.op \notin VariableOps
    BY <2>1, <2>2 DEF GoodBlock, Referring
  <2>4. Means(at, here.id, Brick(b.op, b.kind, b.name, Everyone, converter))
    BY <2>3 DEF Means, Brick
  <2> QED BY <2>1, <2>4, MeantInvPlainBrick
<1> QED BY <1>2, <1>3, <1>4, <1>5, <1>6

\* Finishing a sprite and what comes after the objects leave the objects' sprites as they are.
LEMMA MeantInvLater ==
  ASSUME Inv, MeantInv,
         \/ FinishSprite \/ AddSpaceSprite \/ AddCursorSprite \/ UNCHANGED vars
         \/ \E k \in keys \union {[key |-> "a", type |-> "any"]} : AddKeySprite(k)
  PROVE  MeantInv'
<1>1. /\ UNCHANGED <<project, lists>> /\ DOMAIN variables = Programs /\ scene \in Seq(Sprites)
      /\ phase' = "sprites" => phase = "sprites"
      /\ variables["saved"] \subseteq variables'["saved"]
      /\ \A v \in variables'["saved"] : v \in variables["saved"] \/ v.owner = Everyone
  <2>1. DOMAIN variables = Programs /\ scene \in Seq(Sprites)
    BY DEF Inv, TypeOK
  <2>2. CASE FinishSprite
    BY <2>1, <2>2 DEF FinishSprite
  <2>3. CASE AddSpaceSprite
    BY <2>1, <2>3 DEF AddSpaceSprite
  <2>4. CASE AddCursorSprite
    BY <2>1, <2>4 DEF AddCursorSprite, Owned, Programs
  <2>5. CASE UNCHANGED vars
    BY <2>1, <2>5 DEF vars
  <2>6. CASE \E k \in keys \union {[key |-> "a", type |-> "any"]} : AddKeySprite(k)
    BY <2>1, <2>6 DEF AddKeySprite
  <2> QED BY <2>2, <2>3, <2>4, <2>5, <2>6
<1>2. /\ BegunIds \subseteq BegunIds'
      /\ \A i \in DOMAIN objects : Begun(i)' =>
           Begun(i) /\ SpriteOf(i)'.id = SpriteOf(i).id /\ SpriteOf(i)'.scripts = SpriteOf(i).scripts
  <2>1. CASE FinishSprite
    <3>1. /\ phase = "sprites" /\ here # NoSprite /\ here \in Sprites /\ here' = NoSprite
          /\ scene' = Append(scene, [here EXCEPT !.starts = DefaultBehaviour])
      BY <2>1 DEF FinishSprite, Inv, TypeOK
    <3> PICK s : s = [here EXCEPT !.starts = DefaultBehaviour]
      OBVIOUS
    <3>2. s.id = here.id /\ s.scripts = here.scripts
      BY <3>1 DEF Sprites
    <3>3. DOMAIN scene = 1..(at - 1) /\ at \in 1..Len(objects) /\ DOMAIN objects = 1..Len(objects)
          /\ Len(scene) = at - 1 /\ Begun(at) /\ SpriteOf(at) = here
      BY <3>1, HereFacts
    <3>4. DOMAIN scene' = 1..at /\ scene'[at] = s /\ \A i \in DOMAIN scene : scene'[i] = scene[i]
      BY <1>1, <3>1, <3>3
    <3>5. BegunIds \subseteq BegunIds'
      BY <3>1, <3>2, <3>3, <3>4 DEF BegunIds, SceneIds
    <3>6. ASSUME NEW i \in DOMAIN objects, Begun(i)'
          PROVE  Begun(i) /\ SpriteOf(i)'.id = SpriteOf(i).id /\ SpriteOf(i)'.scripts = SpriteOf(i).scripts
      <4>1. i \in DOMAIN scene' /\ SpriteOf(i)' = scene'[i]
        BY <3>1, <3>6 DEF Begun, SpriteOf
      <4>2. CASE i = at
        BY <3>2, <3>3, <3>4, <4>1, <4>2
      <4>3. CASE i # at
        <5>1. i \in DOMAIN scene
          BY <3>3, <3>4, <4>1, <4>3
        <5> QED BY <3>4, <4>1, <5>1 DEF Begun, SpriteOf
      <4> QED BY <4>2, <4>3
    <3> QED BY <3>5, <3>6
  <2>2. CASE UNCHANGED <<here, scene, at>>
    BY <1>1, <2>2, SameMeaning DEF BegunIds, SceneIds, Begun, SpriteOf
  <2>3. CASE AddCursorSprite
    <3>1. phase = "cursor" /\ here = NoSprite /\ here' = here /\ Len(scene) = Len(objects) /\ UNCHANGED <<project, at>>
      BY <2>3 DEF AddCursorSprite, Inv, InOrder
    <3>2. DOMAIN objects = 1..Len(objects) /\ Len(objects) \in Nat /\ DOMAIN scene = DOMAIN objects
      BY <1>1, <3>1, ProjectFacts DEF Inv, TypeOK
    <3>3. DOMAIN scene \subseteq DOMAIN scene' /\ \A i \in DOMAIN scene : scene'[i] = scene[i]
      <4>1. CASE scene' = scene
        BY <4>1
      <4>2. CASE \E s : scene' = Append(scene, s)
        <5>1. PICK s : scene' = Append(scene, s)
          BY <4>2
        <5>2. scene \in Seq(Sprites \union {s})
          BY <1>1, SeqMonotonic
        <5> QED BY <5>1, <5>2
      <4> QED BY <2>3, <4>1, <4>2 DEF AddCursorSprite
    <3> QED BY <3>1, <3>2, <3>3 DEF BegunIds, SceneIds, Begun, SpriteOf
  <2> QED BY <2>1, <2>2, <2>3 DEF AddSpaceSprite, AddKeySprite, vars
<1>3. ASSUME NEW i \in DOMAIN objects, Begun(i)', Unaffected(i) PROVE Meant(i)'
  <2>1. Begun(i) /\ SpriteOf(i)'.id = SpriteOf(i).id /\ Meant(i) /\ SpriteOf(i).id # Everyone
    BY <1>2, <1>3, OwnIdentity DEF MeantInv
  <2>2. BricksOf(SpriteOf(i))' = BricksOf(SpriteOf(i))
    BY <1>2, <1>3 DEF BricksOf
  <2> QED BY <1>1, <2>1, <2>2, MeantKept
<1> QED BY <1>1, <1>2, <1>3, SameMeaning DEF MeantInv, Owners

LEMMA MeantInvNext == Inv /\ MeantInv /\ [Next]_vars => MeantInv'
<1> SUFFICES ASSUME Inv, MeantInv, [Next]_vars PROVE MeantInv'
  OBVIOUS
<1>1. CASE PreprocessObject \/ AddHelpers
  BY <1>1, MeantInvPreparing
<1>2. CASE StartSprite \/ StartScript
  BY <1>2, MeantInvStartSprite, MeantInvStartScript
<1>3. CASE ConvertBlock
  <2>1. PICK b : \/ ConvertTarget(b) \/ ConvertNoTarget(b)
                 \/ ConvertVariable(b) \/ ConvertShown(b) \/ ConvertPen(b) \/ ConvertAnswer(b) \/ ConvertList(b)
                 \/ ConvertCall(b) \/ ConvertOther(b)
    BY <1>3 DEF ConvertBlock
  <2> QED BY <2>1, MeantInvConvertVariable, MeantInvConvertShown, MeantInvConvertPen, MeantInvConvertList, MeantInvOther
<1>4. CASE \/ FinishSprite \/ AddSpaceSprite \/ AddCursorSprite \/ UNCHANGED vars
           \/ \E k \in keys \union {[key |-> "a", type |-> "any"]} : AddKeySprite(k)
  BY <1>4, MeantInvLater
<1> QED BY <1>1, <1>2, <1>3, <1>4 DEF Next, Ended

LEMMA MeantInvInit == Init => MeantInv
<1> SUFFICES ASSUME Init PROVE MeantInv
  OBVIOUS
<1>1. \A i : ~Begun(i)
  BY DEF Init, Begun
<1> QED BY <1>1 DEF Init, MeantInv, Programs

LEMMA NamesAtTheEnd == Inv /\ MeantInv => NamesAreMeant
<1> SUFFICES ASSUME Inv, MeantInv, phase = "done", NEW i \in DOMAIN objects, Unaffected(i), NEW b \in BricksOf(scene[i])
             PROVE  Means(i, scene[i].id, b)
  BY DEF NamesAreMeant
<1>1. i \in DOMAIN scene
  BY AtTheEnd
<1>2. Begun(i) /\ SpriteOf(i) = scene[i]
  BY <1>1 DEF Begun, SpriteOf
<1> QED BY <1>2 DEF MeantInv, Meant

-------------------------------------------------------------------------------
(* The theorem of the bricks *)

\* For every set of projects: in the converted program a brick of any block but those of the pen refers to a sprite, a
\* variable or a list that the saved program holds, and to the one that is meant: the object's own, or else that of all
\* sprites, unless the pen has declared a variable of that name. And the calls of a custom block run its body. Whatever
\* the order of the objects, the scripts and the blocks (get_sprite_by_name_or_create, getUserVariable,
\* add_user_variable and user_script_definition_brick_map).
THEOREM BricksReferToSavedProgram == Spec => []RefersToSavedProgram
<1>1. Init => MeantInv
  BY MeantInvInit
<1>2. Inv /\ MeantInv /\ [Next]_vars => MeantInv'
  BY MeantInvNext
<1>3. Inv /\ MeantInv => RefersToSavedProgram
  BY RefersAtTheEnd, CallsAtTheEnd, NamesAtTheEnd DEF RefersToSavedProgram
<1> QED BY <1>1, <1>2, <1>3, Invariance, PTL DEF Spec

-------------------------------------------------------------------------------
(* The keys *)

LEMMA KeyInvInit == Init => KeyInv
<1> SUFFICES ASSUME Init PROVE KeyInv
  OBVIOUS
<1>1. keys = {} /\ board = NoBoard /\ phase = "objects"
  BY DEF Init, NoBoard
<1>2. NoBoard \in Boards /\ NoBoard.sprites = {} /\ NoBoard.seen = {} /\ NoBoard.tapAny = {} /\ NoBoard.pressAny = {} /\ NoBoard.pos = 0
  BY DEF NoBoard, Boards
<1>3. Placed
  BY <1>1, <1>2 DEF Placed
<1> QED BY <1>1, <1>2, <1>3 DEF KeyInv

\* As long as objects are prepared and converted there is no sprite of a key.
LEMMA BeforeKeys ==
  ASSUME KeyInv, phase \in {"objects", "helpers", "sprites"}, board' = board,
         phase' \in {"objects", "helpers", "sprites", "keys", "failed"}, keys' \subseteq [key : Texts, type : KeyTypes]
  PROVE  KeyInv'
<1>1. board' = NoBoard
  BY DEF KeyInv
<1>2. NoBoard \in Boards /\ NoBoard.sprites = {} /\ NoBoard.seen = {} /\ NoBoard.tapAny = {} /\ NoBoard.pressAny = {} /\ NoBoard.pos = 0
  BY DEF NoBoard, Boards
<1>3. Placed'
  BY <1>1, <1>2 DEF Placed
<1> QED BY <1>1, <1>2, <1>3 DEF KeyInv

\* What was said of the keys depends on these only.
LEMMA SameKeys ==
  ASSUME UNCHANGED keys
  PROVE  /\ OwnKeys' = OwnKeys /\ Listened' = Listened /\ (SpaceListened' <=> SpaceListened) /\ (Mixed' <=> Mixed)
         /\ \A t : HasAny(t)' <=> HasAny(t)
<1>1. OwnKeys' = OwnKeys /\ (SpaceListened' <=> SpaceListened)
  BY DEF OwnKeys, SpaceListened
<1>2. Listened' = Listened
  BY <1>1 DEF Listened
<1>3. \A t : HasAny(t)' <=> HasAny(t)
  BY DEF HasAny
<1>4. Mixed' <=> Mixed
  BY <1>1, <1>3 DEF Mixed
<1> QED BY <1>1, <1>2, <1>3, <1>4

LEMMA SameBoard == ASSUME UNCHANGED <<keys, board>> PROVE (Placed' <=> Placed) /\ \A k : SeenIsServed(k)' <=> SeenIsServed(k)
<1>1. \A k : SeenIsServed(k)' <=> SeenIsServed(k)
  BY SameKeys DEF SeenIsServed
<1>2. Placed' <=> Placed
  BY SameKeys DEF Placed
<1> QED BY <1>1, <1>2

\* The sprites of keys when the key got more scripts: a sprite stays where it is and keeps what it has, and a new one is
\* at the place it was to be put.
Gained(sprites, key, place, runs, new) ==
  /\ new \in SUBSET KeySprites
  /\ \A n, run : Serves(sprites, n, run) => Serves(new, n, run)
  /\ \A run \in runs : Serves(new, key, run)
  /\ \A s \in sprites : \E t \in new : t.key = s.key
  /\ \A s \in new : \/ \E t \in sprites : t.key = s.key /\ t.x = s.x /\ t.y = s.y
                    \/ s.key = key /\ s.x = place.x /\ s.y = place.y /\ \A t \in sprites : t.key # key

Runs == SUBSET {"tap", "press", "tapAny", "pressAny"}

LEMMA MoreScripts ==
  ASSUME NEW sprites \in SUBSET KeySprites, NEW key \in Texts, NEW place \in [x : Int, y : Int], NEW runs \in Runs,
         NEW new, new = WithScripts(sprites, key, place, runs)
  PROVE  /\ Gained(sprites, key, place, runs, new)
         /\ (\A t \in sprites : t.key # key) => new # sprites
<1> DEFINE made == [key |-> key, x |-> place.x, y |-> place.y, runs |-> runs]
           more(s) == IF s.key = key THEN [s EXCEPT !.runs = @ \union runs] ELSE s
<1>1. CASE \E s \in sprites : s.key = key
  <2>1. new = {more(s) : s \in sprites}
    BY <1>1 DEF WithScripts
  <2>2. ASSUME NEW s \in sprites
        PROVE  /\ more(s) \in KeySprites /\ more(s).key = s.key /\ more(s).x = s.x /\ more(s).y = s.y
               /\ s.runs \subseteq more(s).runs /\ (s.key = key => runs \subseteq more(s).runs)
    <3>1. CASE s.key = key
      BY <3>1 DEF KeySprites, Runs
    <3>2. CASE s.key # key
      BY <3>2
    <3> QED BY <3>1, <3>2
  <2> HIDE DEF more
  <2> QED BY <1>1, <2>1, <2>2 DEF Serves, Gained
<1>2. CASE \A s \in sprites : s.key # key
  <2>1. new = sprites \union {made}
    BY <1>2 DEF WithScripts
  <2>2. made \in KeySprites /\ made.key = key /\ made.x = place.x /\ made.y = place.y /\ made.runs = runs
    BY DEF KeySprites, Runs
  <2> HIDE DEF made
  <2> QED BY <1>2, <2>1, <2>2 DEF Serves, Gained
<1> QED BY <1>1, <1>2

LEMMA NoMoreScripts == ASSUME NEW sprites \in SUBSET KeySprites, NEW key, NEW place PROVE Gained(sprites, key, place, {}, sprites)
  BY DEF Gained

LEMMA ScriptsTwice ==
  ASSUME NEW one, NEW two, NEW three, NEW key, NEW place, NEW taps, NEW presses,
         Gained(one, key, place, taps, two), Gained(two, key, place, presses, three)
  PROVE  Gained(one, key, place, taps \union presses, three)
  BY DEF Gained

\* Two places are different, none of them is in the middle, and four of the first row touch the space key.
LEMMA Places ==
  /\ \A p \in Nat : Place(p) \in [x : Int, y : Int] /\ Place(p).x # 0
  /\ \A p, q \in Nat : Place(p).x = Place(q).x /\ Place(p).y = Place(q).y => p = q
  /\ \A p \in Nat : Place(p).y = -160 /\ Place(p).x \in {-60, -20, 20, 60} => p \in 4..7
<1>1. \A p \in Nat : Place(p).x = 40 * ((p % 12) + 1) - 260 /\ Place(p).y = 40 * ((p \div 12) + 1) - 200
  BY DEF Place
<1>2. \A p \in Nat : p % 12 \in 0..11 /\ p \div 12 \in Nat /\ p = 12 * (p \div 12) + (p % 12)
  OBVIOUS
<1>3. \A p \in Nat : Place(p) \in [x : Int, y : Int]
  BY <1>2 DEF Place
<1>4. \A p \in Nat : Place(p).x # 0
  BY <1>1, <1>2
<1>5. \A p, q \in Nat : Place(p).x = Place(q).x /\ Place(p).y = Place(q).y => p = q
  <2> SUFFICES ASSUME NEW p \in Nat, NEW q \in Nat, Place(p).x = Place(q).x, Place(p).y = Place(q).y PROVE p = q
    OBVIOUS
  <2>1. p % 12 = q % 12 /\ p \div 12 = q \div 12
    BY <1>1, <1>2
  <2> QED BY <1>2, <2>1
<1>6. \A p \in Nat : Place(p).y = -160 /\ Place(p).x \in {-60, -20, 20, 60} => p \in 4..7
  <2> SUFFICES ASSUME NEW p \in Nat, Place(p).y = -160, Place(p).x \in {-60, -20, 20, 60} PROVE p \in 4..7
    OBVIOUS
  <2>1. p \div 12 = 0 /\ p % 12 \in 4..7
    BY <1>1, <1>2
  <2> QED BY <1>2, <2>1
<1> QED BY <1>3, <1>4, <1>5, <1>6

\* The key that is dealt with, and how a key's sprite gets the place that is free.
LEMMA ListenedKey ==
  ASSUME KeyInv, NEW k \in Listened
  PROVE  /\ k \in [key : Texts, type : KeyTypes \union {"any"}]
         /\ \/ k \in OwnKeys /\ k \in keys /\ k.type \in KeyTypes /\ k.key # "any"
            \/ OwnKeys = {} /\ keys # {} /\ k = [key |-> "a", type |-> "any"]
<1>1. keys \subseteq [key : Texts, type : KeyTypes]
  BY DEF KeyInv
<1>2. "a" \in Texts
  BY DEF Texts
<1>3. CASE OwnKeys = {} /\ keys # {}
  BY <1>2, <1>3 DEF Listened
<1>4. CASE ~(OwnKeys = {} /\ keys # {})
  <2>1. k \in OwnKeys
    BY <1>4 DEF Listened
  <2> QED BY <1>1, <2>1 DEF OwnKeys
<1> QED BY <1>3, <1>4

LEMMA FreePlace ==
  ASSUME KeyInv
  PROVE  /\ Free(board.pos) \in Nat /\ Free(board.pos) >= board.pos /\ (SpaceListened => Free(board.pos) \notin 4..7)
         /\ SpaceListened => Free(board.pos) + 1 \notin 5..7
<1>1. board.pos \in Nat /\ (SpaceListened => board.pos \notin 5..7)
  BY DEF KeyInv, Boards, Placed
<1> QED BY <1>1 DEF Free

\* The two workarounds of a key, one after the other, each only if it is asked for.
OneWorkaround(sprites, key, place, asked, runs) == IF asked THEN WithScripts(sprites, key, place, runs) ELSE sprites

LEMMA WorkaroundScripts ==
  ASSUME NEW sprites \in SUBSET KeySprites, NEW key \in Texts, NEW place \in [x : Int, y : Int], NEW asked \in BOOLEAN,
         NEW runs \in Runs, NEW new, new = OneWorkaround(sprites, key, place, asked, runs)
  PROVE  /\ Gained(sprites, key, place, IF asked THEN runs ELSE {}, new)
         /\ asked /\ (\A t \in sprites : t.key # key) => new # sprites
         /\ ~asked => new = sprites
<1>1. CASE asked
  BY <1>1, MoreScripts DEF OneWorkaround
<1>2. CASE ~asked
  BY <1>2, NoMoreScripts DEF OneWorkaround
<1> QED BY <1>1, <1>2

LEMMA TwoWorkarounds ==
  ASSUME NEW sprites \in SUBSET KeySprites, NEW key \in Texts, NEW place \in [x : Int, y : Int],
         NEW tap \in BOOLEAN, NEW press \in BOOLEAN, NEW taps \in Runs, NEW presses \in Runs, NEW tapped, NEW both,
         tapped = OneWorkaround(sprites, key, place, tap, taps), both = OneWorkaround(tapped, key, place, press, presses)
  PROVE  /\ Gained(sprites, key, place, {}, both)
         /\ tap => \A run \in taps : Serves(both, key, run)
         /\ press => \A run \in presses : Serves(both, key, run)
         /\ press /\ ~tap /\ (\A t \in sprites : t.key # key) => both # tapped /\ ~\E t \in tapped : t.key = key
<1>1. /\ Gained(sprites, key, place, IF tap THEN taps ELSE {}, tapped)
      /\ ~tap => tapped = sprites
  BY WorkaroundScripts
<1>2. tapped \in SUBSET KeySprites
  BY <1>1 DEF Gained
<1>3. /\ Gained(tapped, key, place, IF press THEN presses ELSE {}, both)
      /\ press /\ (\A t \in tapped : t.key # key) => both # tapped
  BY <1>2, WorkaroundScripts
<1>4. Gained(sprites, key, place, (IF tap THEN taps ELSE {}) \union (IF press THEN presses ELSE {}), both)
  BY <1>1, <1>3, ScriptsTwice
<1>5. Gained(sprites, key, place, {}, both)
  BY <1>4 DEF Gained
<1>6. \A run \in (IF tap THEN taps ELSE {}) \union (IF press THEN presses ELSE {}) : Serves(both, key, run)
  BY <1>4 DEF Gained
<1> QED BY <1>1, <1>3, <1>5, <1>6

\* What is on the board when key k was dealt with.
Dealt(k) ==
  /\ board' \in Boards
  /\ Gained(board.sprites, k.key, Place(Free(board.pos)), {}, board'.sprites)
  /\ board'.seen = board.seen \union {k}
  /\ board'.pos \in {Free(board.pos), Free(board.pos) + 1}
  /\ \A n \in board'.tapAny : n \in board.tapAny \/ (n = k.key /\ Serves(board'.sprites, n, "tapAny"))
  /\ \A n \in board'.pressAny : n \in board.pressAny \/ (n = k.key /\ Serves(board'.sprites, n, "pressAny"))
  /\ HasAny("listenedKeys") => k.key \in board'.tapAny
  /\ HasAny("keyPressedBrick") => k.key \in board'.pressAny
  /\ k.type = "listenedKeys" => Serves(board'.sprites, k.key, "tap")
  /\ k.type = "keyPressedBrick" => Serves(board'.sprites, k.key, "press")
  /\ OwnKeys # {} /\ ~Mixed /\ (\A t \in board.sprites : t.key # k.key) => board'.pos = Free(board.pos) + 1

LEMMA KeyIsDealtWith == ASSUME KeyInv, NEW k, AddKeySprite(k), phase' # "failed" PROVE Dealt(k) /\ phase' = phase
<1>t. PICK tap \in BOOLEAN : tap = (k.type = "listenedKeys" \/ HasAny("listenedKeys"))
  OBVIOUS
<1>p. PICK press \in BOOLEAN : press = (k.type = "keyPressedBrick" \/ HasAny("keyPressedBrick"))
  OBVIOUS
<1>0. PICK pos : pos = Free(board.pos)
  OBVIOUS
<1>1. PICK taps : taps = (IF k.type = "listenedKeys" THEN {"tap"} ELSE {}) \union (IF k.key \in board.tapAny THEN {} ELSE {"tapAny"})
  OBVIOUS
<1>2. PICK presses : presses = (IF k.type = "keyPressedBrick" THEN {"press"} ELSE {})
                                 \union (IF k.key \in board.pressAny THEN {} ELSE {"pressAny"})
  OBVIOUS
<1>3. PICK tapped : tapped = IF tap THEN WithScripts(board.sprites, k.key, Place(pos), taps) ELSE board.sprites
  OBVIOUS
<1>4. PICK both : both = IF press THEN WithScripts(tapped, k.key, Place(pos), presses) ELSE tapped
  OBVIOUS
<1>5. PICK added : added = IF press THEN both # tapped /\ ~\E s \in tapped : s.key = k.key ELSE tap /\ ~HasSprite(k.key)
  OBVIOUS
<1>6. /\ phase = "keys" /\ k \in Listened /\ k.key # "space" /\ UNCHANGED keys /\ phase' = phase
      /\ board' = [pos |-> IF added THEN pos + 1 ELSE pos, sprites |-> both, seen |-> board.seen \union {k},
                   tapAny   |-> IF tap THEN board.tapAny \union {k.key} ELSE board.tapAny,
                   pressAny |-> IF press THEN board.pressAny \union {k.key} ELSE board.pressAny]
  BY <1>t, <1>p, <1>0, <1>1, <1>2, <1>3, <1>4, <1>5 DEF AddKeySprite
<1>7. /\ board \in Boards /\ board.sprites \in SUBSET KeySprites /\ board.pos \in Nat
      /\ board.tapAny \in SUBSET Texts /\ board.pressAny \in SUBSET Texts
      /\ board.seen \in SUBSET [key : Texts, type : KeyTypes \union {"any"}]
  BY DEF KeyInv, Boards
<1>8. /\ k \in [key : Texts, type : KeyTypes \union {"any"}] /\ k.key \in Texts
      /\ \/ k \in OwnKeys /\ k \in keys /\ k.type \in KeyTypes
         \/ OwnKeys = {}
  BY <1>6, ListenedKey
<1>9. pos \in Nat /\ Place(pos) \in [x : Int, y : Int]
  BY <1>0, FreePlace, Places
<1>10. taps \in Runs /\ presses \in Runs
  BY <1>1, <1>2 DEF Runs
<1>11. /\ Gained(board.sprites, k.key, Place(pos), {}, both)
       /\ tap => \A run \in taps : Serves(both, k.key, run)
       /\ press => \A run \in presses : Serves(both, k.key, run)
       /\ press /\ ~tap /\ (\A t \in board.sprites : t.key # k.key) => both # tapped /\ ~\E t \in tapped : t.key = k.key
  <2>1. PICK place \in [x : Int, y : Int], key \in Texts, sprites \in SUBSET KeySprites :
          place = Place(pos) /\ key = k.key /\ sprites = board.sprites
    BY <1>7, <1>8, <1>9
  <2>2. tapped = OneWorkaround(sprites, key, place, tap, taps)
    BY <1>3, <2>1 DEF OneWorkaround
  <2>3. both = OneWorkaround(tapped, key, place, press, presses)
    BY <1>4, <2>1 DEF OneWorkaround
  <2>4. /\ Gained(sprites, key, place, {}, both)
        /\ tap => \A run \in taps : Serves(both, key, run)
        /\ press => \A run \in presses : Serves(both, key, run)
        /\ press /\ ~tap /\ (\A t \in sprites : t.key # key) => both # tapped /\ ~\E t \in tapped : t.key = key
    <3>1. /\ tap \in BOOLEAN /\ press \in BOOLEAN /\ taps \in Runs /\ presses \in Runs
          /\ place \in [x : Int, y : Int] /\ key \in Texts /\ sprites \in SUBSET KeySprites
      BY <1>t, <1>p, <1>10, <2>1
    <3> QED BY <2>2, <2>3, <3>1, TwoWorkarounds
  <2> QED BY <2>1, <2>4
<1>12. /\ board'.sprites = both /\ board'.seen = board.seen \union {k} /\ board'.pos = IF added THEN pos + 1 ELSE pos
       /\ board'.tapAny = IF tap THEN board.tapAny \union {k.key} ELSE board.tapAny
       /\ board'.pressAny = IF press THEN board.pressAny \union {k.key} ELSE board.pressAny
  BY <1>6
<1>13. board' \in Boards
  <2>1. both \in SUBSET KeySprites
    BY <1>11 DEF Gained
  <2> QED BY <1>6, <1>7, <1>8, <1>9, <2>1 DEF Boards
<1>14. /\ \A n \in board'.tapAny : n \in board.tapAny \/ (n = k.key /\ Serves(both, n, "tapAny"))
       /\ HasAny("listenedKeys") => k.key \in board'.tapAny
       /\ k.type = "listenedKeys" => Serves(both, k.key, "tap")
  BY <1>t, <1>1, <1>11, <1>12
<1>15. /\ \A n \in board'.pressAny : n \in board.pressAny \/ (n = k.key /\ Serves(both, n, "pressAny"))
       /\ HasAny("keyPressedBrick") => k.key \in board'.pressAny
       /\ k.type = "keyPressedBrick" => Serves(both, k.key, "press")
  <2>1. CASE press
    BY <1>2, <1>11, <1>12, <2>1
  <2>2. CASE ~press
    BY <1>p, <1>12, <2>2
  <2> QED BY <2>1, <2>2
\* Unless keys are waited for in mixed ways, only one of the two is asked for, and says that it made the sprite.
<1>16. ASSUME OwnKeys # {}, ~Mixed, \A t \in board.sprites : t.key # k.key PROVE added
  <2>1. k \in OwnKeys /\ k.type \in KeyTypes /\ ~HasSprite(k.key)
    BY <1>8, <1>16 DEF HasSprite
  <2>2. CASE k.type = "listenedKeys"
    <3>1. tap /\ ~press
      BY <1>t, <1>p, <1>16, <2>1, <2>2 DEF Mixed
    <3> QED BY <1>5, <2>1, <3>1
  <2>3. CASE k.type = "keyPressedBrick"
    <3>1. press /\ ~tap
      BY <1>t, <1>p, <1>16, <2>1, <2>3 DEF Mixed
    <3> QED BY <1>5, <1>11, <1>16, <3>1
  <2> QED BY <2>1, <2>2, <2>3 DEF KeyTypes
<1> QED BY <1>0, <1>6, <1>11, <1>12, <1>13, <1>14, <1>15, <1>16 DEF Dealt

\* The places of the sprites when key k was dealt with.
LEMMA KeyIsPlaced == ASSUME KeyInv, NEW k \in Listened, k.key # "space", phase = "keys", Dealt(k), UNCHANGED keys PROVE Placed'
<1>0. PICK pos : pos = Free(board.pos)
  OBVIOUS
<1>1. /\ board.sprites \in SUBSET KeySprites /\ board.pos \in Nat /\ Placed /\ \A s \in board.sprites : s.key # "space"
  BY DEF KeyInv, Boards
<1>2. k \in OwnKeys \/ (OwnKeys = {} /\ k.key = "a")
  BY ListenedKey
<1>3. pos \in Nat /\ pos >= board.pos /\ (SpaceListened => pos \notin 4..7 /\ pos + 1 \notin 5..7)
  BY <1>0, FreePlace
<1>4. PICK new : new = board'.sprites
  OBVIOUS
<1>5. PICK next : next = board'.pos
  OBVIOUS
<1>6. /\ next \in {pos, pos + 1}
      /\ OwnKeys # {} /\ ~Mixed /\ (\A t \in board.sprites : t.key # k.key) => next = pos + 1
      /\ \A s \in new : \/ \E t \in board.sprites : t.key = s.key /\ t.x = s.x /\ t.y = s.y
                        \/ /\ s.key = k.key /\ s.x = Place(pos).x /\ s.y = Place(pos).y
                           /\ \A t \in board.sprites : t.key # k.key
  BY <1>0, <1>4, <1>5 DEF Dealt, Gained
<1>7. SpaceListened => next \notin 5..7
  BY <1>3, <1>6
<1>8. \A s \in new : s.key # "space"
  BY <1>1, <1>6
<1>9. OwnKeys = {} => \A s \in new : s.key = "a"
  BY <1>1, <1>2, <1>6 DEF Placed
<1>10. ASSUME OwnKeys # {}, ~Mixed
       PROVE  /\ \A s \in new : \E p \in 0..(next - 1) : IsAt(s, p) /\ (SpaceListened => p \notin 4..7)
              /\ \A s, t \in new : s.x = t.x /\ s.y = t.y => s.key = t.key
  <2>1. /\ \A s \in board.sprites : \E p \in 0..(board.pos - 1) : IsAt(s, p) /\ (SpaceListened => p \notin 4..7)
        /\ \A s, t \in board.sprites : s.x = t.x /\ s.y = t.y => s.key = t.key
    BY <1>1, <1>10 DEF Placed
  <2>2. ASSUME NEW s \in new
        PROVE  \/ \E t \in board.sprites : \E p \in 0..(board.pos - 1) :
                     /\ t.key = s.key /\ t.x = s.x /\ t.y = s.y /\ IsAt(s, p) /\ (SpaceListened => p \notin 4..7)
               \/ s.key = k.key /\ IsAt(s, pos) /\ next = pos + 1
    <3>1. CASE \E t \in board.sprites : t.key = s.key /\ t.x = s.x /\ t.y = s.y
      <4>1. PICK t \in board.sprites : t.key = s.key /\ t.x = s.x /\ t.y = s.y
        BY <3>1
      <4>2. PICK p \in 0..(board.pos - 1) : IsAt(t, p) /\ (SpaceListened => p \notin 4..7)
        BY <2>1
      <4>3. IsAt(s, p)
        BY <4>1, <4>2 DEF IsAt
      <4> QED BY <4>1, <4>2, <4>3
    <3>2. CASE s.key = k.key /\ s.x = Place(pos).x /\ s.y = Place(pos).y /\ \A t \in board.sprites : t.key # k.key
      BY <1>6, <1>10, <3>2 DEF IsAt
    <3> QED BY <1>6, <3>1, <3>2
  <2>3. ASSUME NEW s \in new PROVE \E p \in 0..(next - 1) : IsAt(s, p) /\ (SpaceListened => p \notin 4..7)
    <3>1. CASE \E t \in board.sprites : \E p \in 0..(board.pos - 1) : IsAt(s, p) /\ (SpaceListened => p \notin 4..7)
      <4>1. PICK p \in 0..(board.pos - 1) : IsAt(s, p) /\ (SpaceListened => p \notin 4..7)
        BY <3>1
      <4>2. p \in 0..(next - 1)
        BY <1>1, <1>3, <1>6
      <4> QED BY <4>1, <4>2
    <3>2. CASE IsAt(s, pos) /\ next = pos + 1
      <4>1. pos \in 0..(next - 1)
        BY <1>3, <3>2
      <4> QED BY <1>3, <3>2, <4>1
    <3> QED BY <2>2, <3>1, <3>2
  <2>4. \A s : \A p \in 0..(board.pos - 1) : ~(IsAt(s, pos) /\ IsAt(s, p))
    <3>1. \A p \in 0..(board.pos - 1) : p \in Nat /\ p # pos
      BY <1>1, <1>3
    <3> QED BY <1>3, <3>1, Places DEF IsAt
  <2>5. ASSUME NEW s \in new, NEW t \in new, s.x = t.x, s.y = t.y PROVE s.key = t.key
    <3>1. \A p : IsAt(s, p) <=> IsAt(t, p)
      BY <2>5 DEF IsAt
    <3> QED BY <2>1, <2>2, <2>4, <2>5, <3>1
  <2> QED BY <2>3, <2>5
<1>11. \A s, p : IsAt(s, p)' <=> IsAt(s, p)
  BY DEF IsAt
<1> QED BY <1>4, <1>5, <1>7, <1>8, <1>9, <1>10, <1>11, SameKeys DEF Placed

LEMMA KeyInvAddKeySprite == ASSUME KeyInv, NEW k, AddKeySprite(k) PROVE KeyInv'
<1>1. phase = "keys" /\ k \in Listened /\ k.key # "space" /\ UNCHANGED keys /\ (phase' = "failed" => board' = board)
  BY DEF AddKeySprite
<1>2. CASE phase' = "failed"
  BY <1>1, <1>2, SameBoard DEF KeyInv
<1>3. CASE phase' # "failed"
  <2>1. Dealt(k) /\ phase' = phase
    BY <1>3, KeyIsDealtWith
  <2>2. Placed'
    BY <1>1, <2>1, KeyIsPlaced
  <2>3. \A n, run : Serves(board.sprites, n, run) => Serves(board'.sprites, n, run)
    BY <2>1 DEF Dealt, Gained
  <2>4. \A n \in board'.tapAny : Serves(board'.sprites, n, "tapAny")
    BY <2>1, <2>3 DEF Dealt, KeyInv
  <2>5. \A n \in board'.pressAny : Serves(board'.sprites, n, "pressAny")
    BY <2>1, <2>3 DEF Dealt, KeyInv
  <2>6. ASSUME NEW seen \in board'.seen PROVE SeenIsServed(seen)'
    <3>1. CASE seen \in board.seen
      <4>1. SeenIsServed(seen)
        BY <3>1 DEF KeyInv
      <4> QED BY <1>1, <2>3, <4>1, SameKeys DEF SeenIsServed
    <3>2. CASE seen = k
      <4>1. /\ HasAny("listenedKeys") => Serves(board'.sprites, k.key, "tapAny")
            /\ HasAny("keyPressedBrick") => Serves(board'.sprites, k.key, "pressAny")
            /\ k.type = "listenedKeys" => Serves(board'.sprites, k.key, "tap")
            /\ k.type = "keyPressedBrick" => Serves(board'.sprites, k.key, "press")
        BY <2>1, <2>4, <2>5 DEF Dealt
      <4> QED BY <1>1, <3>2, <4>1, SameKeys DEF SeenIsServed
    <3> QED BY <2>1, <3>1, <3>2 DEF Dealt
  <2>7. \A s \in board'.sprites : s.key # "space"
    BY <1>1, <2>1 DEF Dealt, Gained, KeyInv
  <2> QED BY <1>1, <2>1, <2>2, <2>4, <2>5, <2>6, <2>7 DEF KeyInv, Dealt
<1> QED BY <1>2, <1>3

\* The space key's sprite: the places of the others are all above or below the middle.
LEMMA SpaceIsPlaced ==
  ASSUME KeyInv, phase = "keys", SpaceListened, UNCHANGED keys, board'.pos = board.pos, NEW runs,
         Gained(board.sprites, "space", [x |-> 0, y |-> -160], runs, board'.sprites)
  PROVE  Placed'
<1>1. PICK new : new = board'.sprites
  OBVIOUS
<1>2. /\ board.sprites \in SUBSET KeySprites /\ board.pos \in Nat /\ Placed /\ \A s \in board.sprites : s.key # "space"
  BY DEF KeyInv, Boards
<1>3. \A s \in new : \/ \E t \in board.sprites : t.key = s.key /\ t.x = s.x /\ t.y = s.y
                     \/ s.key = "space" /\ s.x = 0 /\ s.y = -160
  BY <1>1 DEF Gained
<1>4. OwnKeys # {}
  BY DEF SpaceListened, OwnKeys
<1>5. ASSUME ~Mixed
      PROVE  /\ \A s \in new : s.key # "space" =>
                   \E p \in 0..(board.pos - 1) : IsAt(s, p) /\ (SpaceListened => p \notin 4..7)
             /\ \A s, t \in new : s.x = t.x /\ s.y = t.y => s.key = t.key
  <2>1. /\ \A s \in board.sprites : \E p \in 0..(board.pos - 1) : IsAt(s, p) /\ (SpaceListened => p \notin 4..7)
        /\ \A s, t \in board.sprites : s.x = t.x /\ s.y = t.y => s.key = t.key
    BY <1>2, <1>4, <1>5 DEF Placed
  <2>2. ASSUME NEW s \in new, s.key # "space"
        PROVE  \E p \in 0..(board.pos - 1) : IsAt(s, p) /\ (SpaceListened => p \notin 4..7)
    <3>1. PICK t \in board.sprites : t.key = s.key /\ t.x = s.x /\ t.y = s.y
      BY <1>3, <2>2
    <3>2. PICK p \in 0..(board.pos - 1) : IsAt(t, p) /\ (SpaceListened => p \notin 4..7)
      BY <2>1
    <3>3. IsAt(s, p)
      BY <3>1, <3>2 DEF IsAt
    <3> QED BY <3>2, <3>3
  <2>3. ASSUME NEW s \in new, s.key # "space" PROVE s.x # 0
    <3>1. PICK p \in 0..(board.pos - 1) : IsAt(s, p)
      BY <2>2, <2>3
    <3>2. p \in Nat
      BY <1>2
    <3> QED BY <3>1, <3>2, Places DEF IsAt
  <2>4. ASSUME NEW s \in new, NEW t \in new, s.x = t.x, s.y = t.y PROVE s.key = t.key
    <3>1. CASE s.key = "space" \/ t.key = "space"
      BY <1>2, <1>3, <2>3, <2>4, <3>1
    <3>2. CASE s.key # "space" /\ t.key # "space"
      BY <1>3, <2>1, <2>4, <3>2
    <3> QED BY <3>1, <3>2
  <2> QED BY <2>2, <2>4
<1>6. \A s, p : IsAt(s, p)' <=> IsAt(s, p)
  BY DEF IsAt
<1>7. \A s \in new : s.key = "space" => s.x = 0 /\ s.y = -160
  BY <1>2, <1>3
<1>8. board.pos \notin 5..7
  BY <1>2 DEF Placed
<1> QED BY <1>1, <1>4, <1>5, <1>6, <1>7, <1>8, SameKeys DEF Placed

\* "any" key is served by every sprite, and there is one as soon as a key is waited for.
LEMMA AnyIsServed ==
  ASSUME KeyInv, NEW k \in keys, k.key = "any", ~SpaceListened, \A l \in Listened : l \in board.seen \/ l.key = "space"
  PROVE  \E s \in board.sprites : (IF k.type = "listenedKeys" THEN "tapAny" ELSE "pressAny") \in s.runs
<1>1. PICK l \in Listened : l.key # "space"
  <2>1. CASE OwnKeys = {}
    <3>1. [key |-> "a", type |-> "any"] \in Listened
      BY <2>1 DEF Listened
    <3> QED BY <3>1
  <2>2. CASE OwnKeys # {}
    <3>1. PICK l : l \in OwnKeys
      BY <2>2
    <3>2. l \in Listened /\ l.key # "space"
      BY <2>2, <3>1 DEF Listened, SpaceListened, OwnKeys
    <3> QED BY <3>2
  <2> QED BY <2>1, <2>2
<1>2. SeenIsServed(l)
  BY <1>1 DEF KeyInv
<1>3. k \in [key : Texts, type : KeyTypes]
  BY DEF KeyInv
<1>4. HasAny(k.type)
  BY <1>3 DEF HasAny
<1> QED BY <1>2, <1>3, <1>4 DEF SeenIsServed, Serves, KeyTypes

LEMMA KeyInvAddSpaceSprite == ASSUME KeyInv, AddSpaceSprite PROVE KeyInv'
<1>1. phase = "keys" /\ phase' = "cursor" /\ UNCHANGED keys /\ \A l \in Listened : l \in board.seen \/ l.key = "space"
  BY DEF AddSpaceSprite
<1>2. /\ board \in Boards /\ board.sprites \in SUBSET KeySprites /\ Placed
      /\ keys \subseteq [key : Texts, type : KeyTypes]
  BY DEF KeyInv, Boards
\* A key of its own other than space is served already.
<1>3. ASSUME NEW k \in keys, k.key \notin {"any", "space"}
      PROVE  Serves(board.sprites, k.key, IF k.type = "listenedKeys" THEN "tap" ELSE "press")
  <2>1. k \in Listened
    BY <1>3 DEF Listened, OwnKeys
  <2>2. SeenIsServed(k)
    BY <1>1, <1>3, <2>1 DEF KeyInv
  <2>3. k.type \in KeyTypes
    BY <1>2, <1>3
  <2> QED BY <2>2, <2>3 DEF SeenIsServed, KeyTypes
<1>4. CASE ~SpaceListened
  <2>1. board' = board
    BY <1>4 DEF AddSpaceSprite
  <2>2. ASSUME NEW k \in keys
        PROVE  \E s \in board.sprites :
                 IF k.key = "any" THEN (IF k.type = "listenedKeys" THEN "tapAny" ELSE "pressAny") \in s.runs
                 ELSE s.key = k.key /\ (IF k.type = "listenedKeys" THEN "tap" ELSE "press") \in s.runs
    <3>1. CASE k.key = "any"
      <4>1. \E s \in board.sprites : (IF k.type = "listenedKeys" THEN "tapAny" ELSE "pressAny") \in s.runs
        BY <1>1, <1>4, <3>1, AnyIsServed
      <4> QED BY <3>1, <4>1
    <3>2. CASE k.key # "any"
      <4>1. k.key # "space"
        BY <1>4, <2>2 DEF SpaceListened
      <4>2. Serves(board.sprites, k.key, IF k.type = "listenedKeys" THEN "tap" ELSE "press")
        BY <1>3, <2>2, <3>2, <4>1
      <4> QED BY <3>2, <4>2 DEF Serves
    <3> QED BY <3>1, <3>2
  <2> QED BY <1>1, <2>1, <2>2, SameBoard DEF KeyInv
<1>5. CASE SpaceListened
  <2>1. PICK runs :
          runs = (IF HasAny("listenedKeys") \/ [key |-> "space", type |-> "listenedKeys"] \in keys THEN {"tap"} ELSE {})
                   \union (IF HasAny("keyPressedBrick") \/ [key |-> "space", type |-> "keyPressedBrick"] \in keys
                           THEN {"press"} ELSE {})
                   \union (IF HasAny("listenedKeys") THEN {"tapAny"} ELSE {})
                   \union (IF HasAny("keyPressedBrick") THEN {"pressAny"} ELSE {})
    OBVIOUS
  <2>2. board' = [board EXCEPT !.sprites = WithScripts(@, "space", [x |-> 0, y |-> -160], runs)]
    BY <1>5, <2>1 DEF AddSpaceSprite
  <2>3. /\ board'.sprites = WithScripts(board.sprites, "space", [x |-> 0, y |-> -160], runs) /\ board'.pos = board.pos
        /\ board'.seen = board.seen /\ board'.tapAny = board.tapAny /\ board'.pressAny = board.pressAny
    BY <1>2, <2>2 DEF Boards
  <2>4. Gained(board.sprites, "space", [x |-> 0, y |-> -160], runs, board'.sprites)
    <3>0. [x |-> 0, y |-> -160] \in [x : Int, y : Int] /\ "space" \in Texts
      BY DEF Texts
    <3>1. PICK place \in [x : Int, y : Int], key \in Texts : place = [x |-> 0, y |-> -160] /\ key = "space"
      BY <3>0
    <3>2. runs \in Runs
      BY <2>1 DEF Runs
    <3>3. Gained(board.sprites, key, place, runs, WithScripts(board.sprites, key, place, runs))
      BY <1>2, <3>1, <3>2, MoreScripts
    <3> QED BY <2>3, <3>1, <3>3
  <2>5. board' \in Boards
    BY <1>2, <2>2, <2>4 DEF Boards, Gained
  <2>6. \A n, run : Serves(board.sprites, n, run) => Serves(board'.sprites, n, run)
    BY <2>4 DEF Gained
  <2>7. \A run \in runs : Serves(board'.sprites, "space", run)
    BY <2>4 DEF Gained
  <2>8. Placed'
    BY <1>1, <1>5, <2>3, <2>4, SpaceIsPlaced
  <2>9. ASSUME NEW seen \in board'.seen PROVE SeenIsServed(seen)'
    <3>1. SeenIsServed(seen)
      BY <2>3 DEF KeyInv
    <3> QED BY <1>1, <2>6, <3>1, SameKeys DEF SeenIsServed
  <2>10. ASSUME NEW k \in keys
         PROVE  \E s \in board'.sprites :
                  IF k.key = "any" THEN (IF k.type = "listenedKeys" THEN "tapAny" ELSE "pressAny") \in s.runs
                  ELSE s.key = k.key /\ (IF k.type = "listenedKeys" THEN "tap" ELSE "press") \in s.runs
    <3>0. k.type \in KeyTypes /\ k = [key |-> k.key, type |-> k.type]
      BY <1>2, <2>10
    <3>1. CASE k.key = "any"
      <4>1. HasAny(k.type)
        BY <3>0, <3>1 DEF HasAny
      <4>2. (IF k.type = "listenedKeys" THEN "tapAny" ELSE "pressAny") \in runs
        BY <2>1, <3>0, <4>1 DEF KeyTypes
      <4>3. Serves(board'.sprites, "space", IF k.type = "listenedKeys" THEN "tapAny" ELSE "pressAny")
        BY <2>7, <4>2
      <4> QED BY <3>1, <4>3 DEF Serves
    <3>2. CASE k.key = "space"
      <4>1. (IF k.type = "listenedKeys" THEN "tap" ELSE "press") \in runs
        <5>1. CASE k.type = "listenedKeys"
          BY <2>1, <3>0, <3>2, <5>1
        <5>2. CASE k.type = "keyPressedBrick"
          BY <2>1, <3>0, <3>2, <5>2
        <5> QED BY <3>0, <5>1, <5>2 DEF KeyTypes
      <4>2. Serves(board'.sprites, "space", IF k.type = "listenedKeys" THEN "tap" ELSE "press")
        BY <2>7, <4>1
      <4> QED BY <3>2, <4>2 DEF Serves
    <3>3. CASE k.key \notin {"any", "space"}
      <4>1. Serves(board'.sprites, k.key, IF k.type = "listenedKeys" THEN "tap" ELSE "press")
        BY <1>3, <2>6, <2>10, <3>3
      <4> QED BY <3>3, <4>1 DEF Serves
    <3> QED BY <3>1, <3>2, <3>3
  <2>11. /\ \A n \in board'.tapAny : Serves(board'.sprites, n, "tapAny")
         /\ \A n \in board'.pressAny : Serves(board'.sprites, n, "pressAny")
    BY <2>3, <2>6 DEF KeyInv
  <2> QED BY <1>1, <1>2, <2>5, <2>8, <2>9, <2>10, <2>11 DEF KeyInv
<1> QED BY <1>4, <1>5

\* What no block changes when it is converted.
LEMMA ConvertBlockKeeps ==
  ASSUME ConvertBlock
  PROVE  phase = "sprites" /\ UNCHANGED <<project, phase, scripts, wanted, keys, converter, at, scene, board>>
<1>1. PICK b : \/ ConvertTarget(b) \/ ConvertNoTarget(b)
               \/ ConvertVariable(b) \/ ConvertShown(b) \/ ConvertPen(b) \/ ConvertAnswer(b) \/ ConvertList(b)
               \/ ConvertCall(b) \/ ConvertOther(b)
  BY DEF ConvertBlock
<1>2. CASE ConvertTarget(b) \/ ConvertNoTarget(b)
  BY <1>2 DEF ConvertTarget, ConvertNoTarget, IsNext
<1>3. CASE ConvertVariable(b) \/ ConvertShown(b) \/ ConvertPen(b) \/ ConvertAnswer(b) \/ ConvertList(b)
  BY <1>3 DEF ConvertVariable, ConvertShown, ConvertPen, ConvertAnswer, ConvertList, IsNext
<1>4. CASE ConvertCall(b) \/ ConvertOther(b)
  BY <1>4 DEF ConvertCall, ConvertOther, IsNext
<1> QED BY <1>1, <1>2, <1>3, <1>4

\* A block but a call adds a brick for itself, or a note.
LEMMA AddsOwnBrick ==
  ASSUME NEW b, \/ ConvertTarget(b) \/ ConvertNoTarget(b)
                \/ ConvertShown(b) \/ ConvertPen(b) \/ ConvertAnswer(b) \/ ConvertList(b) \/ ConvertOther(b)
  PROVE  \E r : Add(r) /\ (r = Note \/ r.op = b.op)
<1>1. \A kind, name, owner, in : Brick(b.op, kind, name, owner, in).op = b.op
  BY DEF Brick
<1>2. \E kind, name, owner, in, r : (r = Note \/ r = Brick(b.op, kind, name, owner, in)) /\ Add(r)
  <2>1. CASE ConvertTarget(b)
    BY <2>1 DEF ConvertTarget
  <2>2. CASE ConvertNoTarget(b)
    BY <2>2 DEF ConvertNoTarget
  <2>3. CASE ConvertShown(b)
    BY <2>3 DEF ConvertShown
  <2>4. CASE ConvertPen(b)
    BY <2>4 DEF ConvertPen
  <2>5. CASE ConvertAnswer(b) \/ ConvertList(b) \/ ConvertOther(b)
    BY <2>5 DEF ConvertAnswer, ConvertList, ConvertOther
  <2> QED BY <2>1, <2>2, <2>3, <2>4, <2>5
<1> QED BY <1>1, <1>2

\* The pen's variables are the sprite's own.
LEMMA PenDeclares ==
  ASSUME NEW b, ConvertPen(b)
  PROVE  \E made : /\ variables' = [variables EXCEPT ![converter] = @ \union Owned(here.id, made)]
                   /\ \A v \in made : v.kind = "user"
<1> DEFINE good == b.op = "penColor:" => b.kind = "good"
           made == IF good THEN {[kind |-> "user", name |-> v] : v \in PenVariables(b.op)} ELSE {}
<1>1. variables' = [variables EXCEPT ![converter] = @ \union Owned(here.id, made)]
  BY DEF ConvertPen
<1>2. \A v \in made : v.kind = "user"
  OBVIOUS
<1> HIDE DEF made
<1> QED BY <1>1, <1>2

LEMMA KeyInvNext == Inv /\ KeyInv /\ [Next]_vars => KeyInv'
<1> SUFFICES ASSUME Inv, KeyInv, [Next]_vars PROVE KeyInv'
  OBVIOUS
<1>1. keys \subseteq [key : Texts, type : KeyTypes]
  BY DEF KeyInv
<1>2. CASE PreprocessObject
  <2>1. /\ phase = "objects" /\ board' = board /\ phase' \in {"objects", "helpers"}
        /\ keys' = keys \union {[key |-> n, type |-> "keyPressedBrick"] : n \in NamesIn("keyPressed:", objects[at].scripts)}
    BY <1>2 DEF PreprocessObject, WorkaroundInfo
  <2>2. objects[at] \in SourceObjects
    BY ProjectFacts DEF Inv, TypeOK
  <2>3. \A b \in BlocksIn(objects[at].scripts) : b.name \in Texts
    BY <2>2, SourceBlocksIn DEF SourceBlocks, Texts
  <2>4. keys' \subseteq [key : Texts, type : KeyTypes]
    BY <1>1, <2>1, <2>3 DEF NamesIn, KeyTypes
  <2> QED BY <2>1, <2>4, BeforeKeys
<1>3. CASE AddHelpers
  <2>1. /\ phase = "helpers" /\ board' = board /\ phase' \in {"sprites", "failed"}
        /\ \/ keys' = keys
           \/ keys' = keys \union UNION {{[key |-> s.arg, type |-> "listenedKeys"] :
                         s \in {t \in ToSet(scripts[i]) : t.hat = "whenKeyPressed"}} : i \in DOMAIN scripts}
    BY <1>3 DEF AddHelpers
  <2>2. \A i \in DOMAIN scripts : \A s \in ToSet(scripts[i]) : s.arg \in Texts
    <3>1. scripts \in Seq(Seq(Scripts))
      BY DEF Inv, TypeOK
    <3>2. \A s \in Scripts : s.arg \in Texts
      BY DEF Scripts
    <3>3. \A i \in DOMAIN scripts : \A s \in ToSet(scripts[i]) : s \in Scripts
      BY <3>1 DEF ToSet
    <3> QED BY <3>2, <3>3
  <2>3. keys' \subseteq [key : Texts, type : KeyTypes]
    BY <1>1, <2>1, <2>2 DEF KeyTypes
  <2> QED BY <2>1, <2>3, BeforeKeys
<1>4. CASE StartSprite \/ StartScript \/ ConvertBlock \/ FinishSprite
  <2>1. /\ phase = "sprites" /\ board' = board /\ keys' = keys /\ phase' \in {"sprites", "keys"}
    BY <1>4, ConvertBlockKeeps DEF StartSprite, StartScript, FinishSprite
  <2> QED BY <1>1, <2>1, BeforeKeys
<1>5. CASE \E k \in keys \union {[key |-> "a", type |-> "any"]} : AddKeySprite(k)
  BY <1>5, KeyInvAddKeySprite
<1>6. CASE AddSpaceSprite
  BY <1>6, KeyInvAddSpaceSprite
<1>7. CASE AddCursorSprite
  <2>1. phase = "cursor" /\ phase' \in {"done", "failed"} /\ UNCHANGED <<keys, board>>
    BY <1>7 DEF AddCursorSprite
  <2> QED BY <2>1, SameBoard DEF KeyInv
<1>8. CASE Ended \/ UNCHANGED vars
  <2>1. UNCHANGED <<phase, keys, board>>
    BY <1>8 DEF Ended, vars
  <2> QED BY <2>1, SameBoard DEF KeyInv
<1> QED BY <1>2, <1>3, <1>4, <1>5, <1>6, <1>7, <1>8 DEF Next

LEMMA ServedKeys == KeyInv => KeysAreServed
<1> SUFFICES ASSUME KeyInv PROVE KeysAreServed
  OBVIOUS
<1>1. KeysAreAnswered
  BY DEF KeyInv, KeysAreAnswered
<1>2. Placed /\ board.pos \in Nat
  BY DEF KeyInv, Boards
<1>3. ASSUME NEW s \in board.sprites, NEW t \in board.sprites, Overlap(s, t), ~Mixed PROVE FALSE
  <2>1. s.key # t.key /\ s.y = t.y /\ (s.x = t.x \/ (s.key = "space" /\ t.x \in {-60, -20, 20, 60}))
    BY <1>3 DEF Overlap
  <2>2. OwnKeys # {}
    BY <1>2, <2>1 DEF Placed
  <2>3. \A u, v \in board.sprites : u.x = v.x /\ u.y = v.y => u.key = v.key
    BY <1>2, <1>3, <2>2 DEF Placed
  <2>4. CASE s.x = t.x
    BY <2>1, <2>3, <2>4
  <2>5. CASE s.key = "space" /\ t.x \in {-60, -20, 20, 60}
    <3>1. s.y = -160 /\ SpaceListened /\ t.key # "space"
      BY <1>2, <2>1, <2>5 DEF Placed
    <3>2. PICK p \in 0..(board.pos - 1) : IsAt(t, p) /\ p \notin 4..7
      BY <1>2, <1>3, <2>2, <3>1 DEF Placed
    <3>3. p \in Nat /\ Place(p).y = -160 /\ Place(p).x \in {-60, -20, 20, 60}
      <4>1. t.x = Place(p).x /\ t.y = Place(p).y
        BY <3>2 DEF IsAt
      <4>2. p \in Nat
        BY <1>2
      <4>3. Place(p).y = -160
        BY <2>1, <3>1, <4>1
      <4> QED BY <2>5, <4>1, <4>2, <4>3
    <3> QED BY <3>2, <3>3, Places
  <2> QED BY <2>1, <2>4, <2>5
<1>4. KeysHaveTheirPlaces
  BY <1>3 DEF KeysHaveTheirPlaces, Mixed
<1> QED BY <1>1, <1>4 DEF KeysAreServed

\* Every key that is waited for has a sprite that answers it (_add_key_sprites_to), and two keys' sprites do not overlap
\* unless "any" key is waited for in one way and a key of its own in the other.
THEOREM KeysGetSprites == Spec => []KeysAreServed
<1>1. KeyInv => KeysAreServed
  BY ServedKeys
<1> QED BY <1>1, KeyInvInit, KeyInvNext, Invariance, PTL DEF Spec

-------------------------------------------------------------------------------
(* What a conversion fails for *)

\* What was said of the project depends on it only.
LEMMA SameProject ==
  ASSUME UNCHANGED project
  PROVE  /\ objects' = objects /\ Names' = Names /\ (WaitsForNoKey' <=> WaitsForNoKey)
         /\ \A op, n : (Uses(op, n)' <=> Uses(op, n)) /\ (UsesUnknown(op, n)' <=> UsesUnknown(op, n))
<1>1. objects' = objects
  BY DEF objects
<1> QED BY <1>1 DEF Names, WaitsForNoKey, Uses, UsesUnknown

\* A step that fails nothing and changes neither what was asked for nor the keys.
LEMMA FailsNot ==
  ASSUME FailInv, UNCHANGED <<project, wanted, keys>>, DOMAIN scripts' = DOMAIN scripts, phase' # "failed",
         phase \notin {"objects", "helpers", "failed"}, Mouse \in upcoming' => Mouse \in upcoming \/ \E op \in Targets : Uses(op, Mouse)
  PROVE  FailInv'
<1>1. ConversionFailsOnlyFor'
  BY DEF ConversionFailsOnlyFor
<1> QED BY <1>1, SameProject DEF FailInv

LEMMA FailInvInit == Init => FailInv
<1> SUFFICES ASSUME Init PROVE FailInv
  OBVIOUS
<1>1. wanted.positions = {} /\ wanted.attributes = {} /\ phase = "objects" /\ scripts = <<>> /\ upcoming = {}
  BY DEF Init, NoWorkarounds
<1>2. ConversionFailsOnlyFor
  BY <1>1 DEF ConversionFailsOnlyFor
<1> QED BY <1>1, <1>2 DEF FailInv

\* What the workarounds of an object ask for is named by its blocks.
LEMMA AskedByBlocks ==
  ASSUME Inv, NEW i \in DOMAIN objects
  PROVE  LET info == WorkaroundInfo(objects[i], Names)
         IN /\ \A n \in info.positions : Uses("distanceTo:", n) /\ \E m \in Names \union {Mouse} : Uses("distanceTo:", m)
            /\ \A n \in info.attributes : Uses("getAttribute:of:", n)
            /\ info.keys = {} => \A t \in ToSet(objects[i].scripts) : NamesIn("keyPressed:", <<t>>) = {}
<1> DEFINE info == WorkaroundInfo(objects[i], Names)
<1>1. PICK its : its = objects[i].scripts
  OBVIOUS
<1>2. \A k \in DOMAIN its : \A b \in ToSet(its[k].blocks) : b \in BlocksIn(its)
  BY DEF BlocksIn
<1>3. \A op : \A b \in BlocksIn(its) : b.op = op => Uses(op, b.name)
  BY <1>1 DEF Uses
<1>4. \A t, b : b \in BlocksIn(<<t>>) <=> b \in ToSet(t.blocks)
  BY DEF BlocksIn
<1>5. ASSUME NEW n \in info.positions PROVE Uses("distanceTo:", n) /\ \E m \in Names \union {Mouse} : Uses("distanceTo:", m)
  <2>1. PICK k \in DOMAIN its : NeedsDistance(its[k], Names) /\ n \in NamesIn("distanceTo:", <<its[k]>>)
    BY <1>1 DEF WorkaroundInfo
  <2>2. PICK b \in ToSet(its[k].blocks) : b.op = "distanceTo:" /\ b.name = n
    BY <1>4, <2>1 DEF NamesIn
  <2>3. PICK c \in ToSet(its[k].blocks) : c.op = "distanceTo:" /\ c.name \in Names \union {Mouse}
    BY <2>1 DEF NeedsDistance
  <2> QED BY <1>2, <1>3, <2>2, <2>3
<1>6. ASSUME NEW n \in info.attributes PROVE Uses("getAttribute:of:", n)
  <2>1. n \in NamesIn("getAttribute:of:", its)
    BY <1>1 DEF WorkaroundInfo
  <2> QED BY <1>3, <2>1 DEF NamesIn
<1>7. ASSUME info.keys = {}, NEW t \in ToSet(its) PROVE NamesIn("keyPressed:", <<t>>) = {}
  <2>1. NamesIn("keyPressed:", its) = {}
    <3>1. info.keys = {[key |-> k, type |-> "keyPressedBrick"] : k \in NamesIn("keyPressed:", its)}
      BY <1>1 DEF WorkaroundInfo
    <3> HIDE DEF info
    <3> QED BY <1>7, <3>1
  <2>2. PICK k \in DOMAIN its : t = its[k]
    BY <1>7 DEF ToSet
  <2> QED BY <1>2, <1>4, <2>1, <2>2 DEF NamesIn
<1> QED BY <1>1, <1>5, <1>6, <1>7

LEMMA FailInvPreprocessObject == ASSUME Inv, FailInv, PreprocessObject PROVE FailInv'
<1> DEFINE info == WorkaroundInfo(objects[at], Names)
<1>1. /\ phase = "objects" /\ phase' \in {"objects", "helpers"} /\ UNCHANGED <<project, upcoming>>
      /\ scripts' = Append(scripts, preprocessed(objects[at], Names))
      /\ wanted' = Merged(wanted, info) /\ keys' = keys \union info.keys
  BY DEF PreprocessObject
<1>2. /\ at \in DOMAIN objects /\ scripts \in Seq(Seq(Scripts)) /\ Len(scripts) = at - 1 /\ DOMAIN objects = 1..Len(objects)
  BY <1>1, ProjectFacts DEF Inv, InOrder, TypeOK
<1>3. DOMAIN scripts' = DOMAIN scripts \union {at}
  BY <1>1, <1>2
<1>4. /\ \A n \in info.positions : Uses("distanceTo:", n) /\ \E m \in Names \union {Mouse} : Uses("distanceTo:", m)
      /\ \A n \in info.attributes : Uses("getAttribute:of:", n)
      /\ info.keys = {} => \A t \in ToSet(objects[at].scripts) : NamesIn("keyPressed:", <<t>>) = {}
  BY <1>2, AskedByBlocks
<1>5. wanted'.positions = wanted.positions \union info.positions /\ wanted'.attributes = wanted.attributes \union info.attributes
  BY <1>1 DEF Merged
<1> HIDE DEF info
<1>6. ConversionFailsOnlyFor'
  BY <1>1 DEF ConversionFailsOnlyFor
<1>7. keys' = {} => \A i \in DOMAIN scripts' : \A t \in ToSet(objects[i].scripts) : NamesIn("keyPressed:", <<t>>) = {}
  BY <1>1, <1>3, <1>4 DEF FailInv
<1>8. /\ \A n \in wanted'.positions : Uses("distanceTo:", n) /\ \E m \in Names \union {Mouse} : Uses("distanceTo:", m)
      /\ \A n \in wanted'.attributes : Uses("getAttribute:of:", n)
  BY <1>4, <1>5 DEF FailInv
<1> QED BY <1>1, <1>6, <1>7, <1>8, SameProject DEF FailInv

LEMMA FailInvAddHelpers == ASSUME Inv, FailInv, AddHelpers PROVE FailInv'
<1>1. phase = "helpers" /\ UNCHANGED <<project, wanted, upcoming>> /\ DOMAIN scripts' = DOMAIN scripts /\ phase' \in {"sprites", "failed"}
  BY DEF AddHelpers
<1>2. CASE phase' = "failed"
  <2>1. UNCHANGED <<scripts, keys>> /\ UnknownSprites(wanted, project.monitors, Names) # {}
    BY <1>2 DEF AddHelpers
  <2>2. PICK n : n \in UnknownSprites(wanted, project.monitors, Names)
    BY <2>1
  <2>3. /\ n \notin Names
        /\ n \in wanted.positions \ {Mouse} \/ n \in wanted.attributes \/ \E m \in project.monitors : m.target = n /\ m.cmd # "getVar:"
    BY <2>2 DEF UnknownSprites
  <2>4. CASE n \in wanted.positions \ {Mouse}
    <3>1. Uses("distanceTo:", n) /\ \E m \in Names \union {Mouse} : Uses("distanceTo:", m)
      BY <2>4 DEF FailInv
    <3>2. UsesUnknown("distanceTo:", Names \union {Mouse})
      BY <2>3, <2>4, <3>1 DEF Uses, UsesUnknown
    <3> QED BY <1>1, <1>2, <2>1, <3>1, <3>2, SameProject DEF FailInv, ConversionFailsOnlyFor
  <2>5. CASE n \in wanted.attributes
    <3>1. Uses("getAttribute:of:", n)
      BY <2>5 DEF FailInv
    <3>2. UsesUnknown("getAttribute:of:", Names)
      BY <2>3, <3>1 DEF Uses, UsesUnknown
    <3> QED BY <1>1, <1>2, <2>1, <3>2, SameProject DEF FailInv, ConversionFailsOnlyFor
  <2>6. CASE \E m \in project.monitors : m.target = n /\ m.cmd # "getVar:"
    BY <1>1, <1>2, <2>1, <2>3, <2>6, SameProject DEF FailInv, ConversionFailsOnlyFor
  <2> QED BY <2>3, <2>4, <2>5, <2>6
<1>3. CASE phase' = "sprites"
  <2>1. keys' = keys \union UNION {{[key |-> s.arg, type |-> "listenedKeys"] :
                  s \in {t \in ToSet(scripts[i]) : t.hat = "whenKeyPressed"}} : i \in DOMAIN scripts}
    BY <1>3 DEF AddHelpers
  <2>2. ASSUME keys' = {}, NEW i \in DOMAIN objects, NEW t \in ToSet(objects[i].scripts) PROVE t.hat # "whenKeyPressed"
    <3>1. i \in DOMAIN scripts /\ scripts[i] \in Seq(Scripts) /\ objects[i].scripts \in Seq(SourceScripts)
      BY <1>1, ProjectFacts DEF Inv, InOrder, TypeOK, SourceObjects
    <3>2. PICK k \in DOMAIN objects[i].scripts : t = objects[i].scripts[k]
      BY <2>2 DEF ToSet
    <3>3. k \in DOMAIN scripts[i] /\ scripts[i][k].hat = t.hat
      BY <3>1, <3>2 DEF Inv, Prepared, SameScript
    <3>4. scripts[i][k] \in ToSet(scripts[i])
      BY <3>3 DEF ToSet
    <3>5. t.hat = "whenKeyPressed" => [key |-> scripts[i][k].arg, type |-> "listenedKeys"] \in keys'
      BY <2>1, <3>1, <3>3, <3>4
    <3> QED BY <2>2, <3>5
  <2>3. keys' = {} => keys = {}
    BY <2>1
  <2>4. ConversionFailsOnlyFor'
    BY <1>3 DEF ConversionFailsOnlyFor
  <2> QED BY <1>1, <1>3, <2>2, <2>3, <2>4, SameProject DEF FailInv
<1> QED BY <1>1, <1>2, <1>3

\* A block that names a sprite is one of the project file.
LEMMA TargetIsUsed == ASSUME Inv, NEW b, IsNext(Targets, b) PROVE Uses(b.op, b.name)
<1>1. IsNext(Looked, b)
  BY DEF IsNext, Looked
<1> QED BY <1>1, LookedIsUsed DEF Uses

LEMMA FailInvNext == Inv /\ KeyInv /\ FailInv /\ [Next]_vars => FailInv'
<1> SUFFICES ASSUME Inv, KeyInv, FailInv, [Next]_vars PROVE FailInv'
  OBVIOUS
<1>1. CASE PreprocessObject
  BY <1>1, FailInvPreprocessObject
<1>2. CASE AddHelpers
  BY <1>2, FailInvAddHelpers
<1>3. CASE StartSprite \/ StartScript \/ FinishSprite \/ AddSpaceSprite
  <2>1. /\ phase \in {"sprites", "keys"} /\ phase' \in {"sprites", "keys", "cursor"}
        /\ UNCHANGED <<project, scripts, wanted, keys, upcoming>>
    BY <1>3 DEF StartSprite, StartScript, FinishSprite, AddSpaceSprite
  <2> QED BY <2>1, FailsNot
<1>4. ASSUME NEW b, ConvertTarget(b) PROVE FailInv'
  <2>1. /\ phase = "sprites" /\ phase' = phase /\ UNCHANGED <<project, scripts, wanted, keys>> /\ IsNext(Targets, b)
        /\ upcoming' \subseteq upcoming \union {b.name}
    BY <1>4 DEF ConvertTarget, IsNext
  <2>2. Uses(b.op, b.name) /\ b.op \in Targets
    BY <2>1, TargetIsUsed DEF IsNext
  <2>3. Mouse \in upcoming' => Mouse \in upcoming \/ \E op \in Targets : Uses(op, Mouse)
    BY <2>1, <2>2
  <2> QED BY <2>1, <2>3, FailsNot
<1>5. ASSUME NEW b, \/ ConvertNoTarget(b)
                    \/ ConvertVariable(b) \/ ConvertShown(b) \/ ConvertPen(b) \/ ConvertAnswer(b) \/ ConvertList(b)
                    \/ ConvertCall(b) \/ ConvertOther(b)
      PROVE FailInv'
  <2>1. phase = "sprites" /\ phase' = phase /\ UNCHANGED <<project, scripts, wanted, keys, upcoming>>
    BY <1>5 DEF ConvertNoTarget, ConvertVariable, ConvertShown, ConvertPen, ConvertAnswer, ConvertList, ConvertCall,
                ConvertOther, IsNext
  <2> QED BY <2>1, FailsNot
<1>6. ASSUME NEW k, AddKeySprite(k) PROVE FailInv'
  <2>1. phase = "keys" /\ UNCHANGED <<project, scripts, wanted, keys, upcoming>> /\ k \in Listened
    BY <1>6 DEF AddKeySprite
  <2>2. CASE phase' # "failed"
    BY <2>1, <2>2, FailsNot
  <2>3. CASE phase' = "failed"
    <3>1. k.key \notin KeysWithImage
      BY <1>6, <2>1, <2>3 DEF AddKeySprite
    <3>2. k \in keys /\ k.key # "any"
      BY <2>1, <3>1, ListenedKey, PicturesAssumption
    <3>3. ConversionFailsOnlyFor'
      BY <2>1, <3>1, <3>2 DEF ConversionFailsOnlyFor
    <3> QED BY <2>1, <2>3, <3>3, SameProject DEF FailInv
  <2> QED BY <2>2, <2>3
<1>7. CASE AddCursorSprite
  <2>1. phase = "cursor" /\ UNCHANGED <<project, scripts, wanted, keys, upcoming>>
    BY <1>7 DEF AddCursorSprite
  <2>2. CASE phase' # "failed"
    BY <2>1, <2>2, FailsNot
  <2>3. CASE phase' = "failed"
    <3>1. CursorNeeded /\ Listened = {}
      BY <1>7, <2>1, <2>3 DEF AddCursorSprite
    <3>2. keys = {}
      BY <3>1 DEF Listened
    <3>3. \E op \in Targets \union {"distanceTo:"} : Uses(op, Mouse)
      BY <3>1 DEF CursorNeeded, FailInv
    <3>4. DOMAIN scripts = DOMAIN objects
      BY <2>1, ProjectFacts DEF Inv, InOrder, TypeOK
    <3>5. WaitsForNoKey
      BY <2>1, <3>2, <3>4 DEF FailInv, WaitsForNoKey
    <3>6. ConversionFailsOnlyFor'
      BY <2>1, <3>3, <3>5, SameProject DEF ConversionFailsOnlyFor
    <3> QED BY <2>1, <2>3, <3>6, SameProject DEF FailInv
  <2> QED BY <2>2, <2>3
<1>8. CASE Ended \/ UNCHANGED vars
  <2>1. UNCHANGED <<project, phase, scripts, wanted, keys, upcoming>>
    BY <1>8 DEF Ended, vars
  <2>2. ConversionFailsOnlyFor'
    BY <2>1, SameProject DEF FailInv, ConversionFailsOnlyFor
  <2> QED BY <2>1, <2>2, SameProject DEF FailInv
<1> QED BY <1>1, <1>2, <1>3, <1>4, <1>5, <1>6, <1>7, <1>8 DEF Next, ConvertBlock

\* The conversion of a whole project is given up only for a sprite that was deleted, a key without a picture, or the mouse
\* pointer in a project that waits for no key.
THEOREM FailsOnlyFor == Spec => []ConversionFailsOnlyFor
<1>1. FailInv => ConversionFailsOnlyFor
  BY DEF FailInv
<1> QED BY <1>1, KeyInvInit, KeyInvNext, FailInvInit, FailInvNext, Invariance, PTL DEF Spec

-------------------------------------------------------------------------------
(* What a sprite starts with *)

\* What was said of the start values depends on the project and the scene only.
LEMMA SameScene ==
  ASSUME UNCHANGED project
  PROVE  /\ objects' = objects /\ (AnswerWatched' <=> AnswerWatched)
         /\ \A i : (Unaffected(i)' <=> Unaffected(i)) /\ (Replacing(i)' <=> Replacing(i))
         /\ \A i, s : KeepsStart(i, s)' <=> KeepsStart(i, s)
         /\ UNCHANGED scene => (StartedScene' <=> StartedScene)
<1>1. objects' = objects /\ (AnswerWatched' <=> AnswerWatched)
  BY DEF objects, AnswerWatched
<1>2. \A i : Replacing(i)' <=> Replacing(i)
  BY <1>1 DEF Replacing
<1>3. \A i : Unaffected(i)' <=> Unaffected(i)
  BY <1>1, <1>2 DEF Unaffected
<1>4. \A i, s : KeepsStart(i, s)' <=> KeepsStart(i, s)
  BY <1>1, <1>3 DEF KeepsStart
<1> QED BY <1>1, <1>2, <1>3, <1>4 DEF StartedScene

LEMMA StartInvInit == Init => StartInv
<1> SUFFICES ASSUME Init PROVE StartInv
  OBVIOUS
<1>1. variables["saved"] = {} /\ phase = "objects" /\ scene = <<>>
  BY DEF Init, Programs
<1> QED BY <1>1 DEF StartInv, StartedScene

LEMMA StartInvStartSprite == ASSUME Inv, StartInv, StartSprite PROVE StartInv'
<1> DEFINE id    == SpriteFor(objects[at].name)
           owner == IF at = 1 THEN Everyone ELSE id
<1>1. /\ phase = "sprites" /\ here = NoSprite /\ here' = NewSprite(id, converter)
      /\ variables' = [variables EXCEPT ![converter] = @ \union Owned(owner, VariablesOf(at))]
      /\ UNCHANGED <<project, phase, scripts, at, scene>>
  BY DEF StartSprite
<1>2. id # Everyone
  BY <1>1, HereFacts DEF SpriteFor
<1> HIDE DEF id
<1>3. here' # NoSprite /\ here'.in = converter /\ here'.scripts = <<>>
  BY <1>1, <1>2 DEF NewSprite, NoSprite
<1>4. /\ Unaffected(at) => converter = "saved"
      /\ DOMAIN variables = Programs /\ project \in Projects
  BY <1>1 DEF Unaffected, Inv, InOrder, TypeOK, Programs
<1>5. Converted' = 0 /\ ~AnswerUsed'
  BY <1>3 DEF Converted, AnswerUsed
<1>6. at = 1 /\ Unaffected(1) => (AnswerDeclared' <=> AnswerWatched)
  <2> SUFFICES ASSUME at = 1, Unaffected(1) PROVE AnswerDeclared' <=> AnswerWatched
    OBVIOUS
  <2>1. variables'["saved"] = Owned(Everyone, VariablesOf(1))
    BY <1>1, <1>4 DEF StartInv, Programs
  <2>2. [owner |-> Everyone, kind |-> "answer", name |-> ""] \in Owned(Everyone, VariablesOf(1))
          <=> [kind |-> "answer", name |-> ""] \in VariablesOf(1)
    <3>1. \A v \in VariablesOf(1) : \E kind, name : v = [kind |-> kind, name |-> name]
      BY DEF VariablesOf, HelperVariables
    <3>2. \A v \in VariablesOf(1) : v = [kind |-> v.kind, name |-> v.name]
      BY <3>1
    <3> QED BY <3>2 DEF Owned
  <2>3. objects[1].name = Stage
    BY <1>4, ProjectFacts
  <2>4. [kind |-> "answer", name |-> ""] \in VariablesOf(1) <=> AnswerWatched
    BY <2>3 DEF VariablesOf, HelperVariables, AnswerWatched
  <2> QED BY <2>1, <2>2, <2>4 DEF AnswerDeclared
<1>7. StartedHere'
  BY <1>1, <1>3, <1>4, <1>5, <1>6, SameScene DEF StartedHere
<1> QED BY <1>1, <1>3, <1>7, SameScene DEF StartInv

\* A sprite that gets another script or another brick.
LEMMA SpriteGrows ==
  ASSUME StartInv, phase = "sprites", here # NoSprite, UNCHANGED <<project, phase, scripts, at, scene>>,
         here' # NoSprite, here'.in = here.in,
         \A k \in 1..(Len(here'.scripts) - 1) : Len(here'.scripts[k]) = Len(scripts[at][k].blocks),
         at = 1 /\ Unaffected(1) => (AnswerDeclared' <=> AnswerWatched \/ AnswerUsed')
  PROVE  StartInv'
<1>1. StartedHere'
  BY SameScene DEF StartedHere, StartInv, Converted
<1> QED BY <1>1, SameScene DEF StartInv

LEMMA StartInvStartScript == ASSUME Inv, StartInv, StartScript PROVE StartInv'
<1>1. /\ phase = "sprites" /\ here # NoSprite /\ ScriptEnded
      /\ UNCHANGED <<project, phase, scripts, at, scene, variables>>
  BY DEF StartScript
<1>2. here \in Sprites /\ here.scripts \in Seq(Seq(AnyBricks)) /\ Converted \in Nat
  BY DEF Inv, TypeOK, Sprites, Converted
<1>3. here'.scripts = Append(here.scripts, <<>>) /\ here'.in = here.in
  BY <1>2 DEF StartScript, Sprites
<1>4. <<>> \in Seq(AnyBricks)
  OBVIOUS
<1>5. /\ Len(here'.scripts) = Converted + 1 /\ DOMAIN here'.scripts = 1..(Converted + 1) /\ DOMAIN here.scripts = 1..Converted
      /\ here'.scripts[Converted + 1] = <<>> /\ \A k \in 1..Converted : here'.scripts[k] = here.scripts[k]
  BY <1>2, <1>3, <1>4 DEF Converted
<1>6. here' # NoSprite
  BY <1>2, <1>5 DEF NoSprite, NewSprite
<1>7. ASSUME NEW k \in 1..(Len(here'.scripts) - 1) PROVE Len(here'.scripts[k]) = Len(scripts[at][k].blocks)
  <2>1. k \in 1..Converted /\ here'.scripts[k] = here.scripts[k]
    BY <1>2, <1>5
  <2>2. CASE k = Converted
    BY <1>1, <2>1, <2>2 DEF ScriptEnded, Bricks, Source
  <2>3. CASE k # Converted
    BY <1>1, <1>2, <2>1, <2>3 DEF StartInv, StartedHere
  <2> QED BY <2>2, <2>3
<1>8. AnswerUsed' <=> AnswerUsed
  <2>1. \A k \in 1..(Converted + 1) : k = Converted + 1 \/ k \in 1..Converted
    BY <1>2
  <2>2. 1..Converted \subseteq 1..(Converted + 1) /\ DOMAIN here'.scripts[Converted + 1] = {}
    BY <1>2, <1>5
  <2>3. DOMAIN here'.scripts = 1..(Converted + 1) /\ DOMAIN here.scripts = 1..Converted /\ scripts' = scripts
    BY <1>1, <1>5
  <2>4. \A k \in 1..Converted : DOMAIN here'.scripts[k] = DOMAIN here.scripts[k]
    BY <1>5
  <2>5. \A b : IsAnswer(b)' <=> IsAnswer(b)
    BY DEF IsAnswer
  <2> HIDE DEF Converted
  <2> QED BY <2>1, <2>2, <2>3, <2>4, <2>5 DEF AnswerUsed
<1>9. AnswerDeclared' <=> AnswerDeclared
  BY <1>1 DEF AnswerDeclared
<1> QED BY <1>1, <1>3, <1>6, <1>7, <1>8, <1>9, SpriteGrows DEF StartInv, StartedHere

\* The sprite gets a brick for the next block.
GetsBrick == here'.in = here.in /\ \E r : here'.scripts = [here.scripts EXCEPT ![Converted] = Append(@, r)]

LEMMA AddedBrick == ASSUME here \in Sprites, NEW r, Add(r) PROVE GetsBrick
<1>1. here' = [here EXCEPT !.scripts[Converted] = Append(@, r)]
  BY DEF Add
<1>2. here'.scripts = [here.scripts EXCEPT ![Converted] = Append(@, r)] /\ here'.in = here.in
  BY <1>1 DEF Sprites
<1> QED BY <1>2 DEF GetsBrick

LEMMA StartInvBrick ==
  ASSUME Inv, StartInv, NEW ops, NEW b, IsNext(ops, b), GetsBrick, UNCHANGED <<project, phase, scripts, at, scene>>,
         at = 1 /\ Unaffected(1) => (AnswerDeclared' <=> AnswerDeclared \/ IsAnswer(b))
  PROVE  StartInv'
<1>1. /\ phase = "sprites" /\ here # NoSprite /\ here \in Sprites /\ Converted \in DOMAIN here.scripts
      /\ Bricks \in Seq(AnyBricks) /\ b = Source[Len(Bricks) + 1] /\ here'.in = here.in
  BY NextBlock DEF IsNext, GetsBrick
<1>2. PICK r : here'.scripts = [here.scripts EXCEPT ![Converted] = Append(@, r)]
  BY DEF GetsBrick
<1>3. here.scripts \in Seq(Seq(AnyBricks)) /\ Converted = Len(here.scripts) /\ Converted \in Nat
  BY <1>1 DEF Sprites, Converted
<1>4. /\ Bricks = here.scripts[Converted] /\ Len(Bricks) \in Nat /\ DOMAIN Bricks = 1..Len(Bricks)
      /\ DOMAIN Append(Bricks, r) = 1..(Len(Bricks) + 1)
  <2>1. Bricks \in Seq(AnyBricks \union {r})
    BY <1>1, SeqMonotonic
  <2> QED BY <1>1, <2>1 DEF Bricks
<1>5. /\ DOMAIN here'.scripts = DOMAIN here.scripts /\ here'.scripts[Converted] = Append(Bricks, r)
      /\ \A k \in DOMAIN here.scripts : k # Converted => here'.scripts[k] = here.scripts[k]
  BY <1>1, <1>2, <1>4
<1>6. Len(here'.scripts) = Converted
  BY <1>3, <1>5
<1>7. here' # NoSprite
  BY <1>1, <1>5 DEF NoSprite, NewSprite
<1>8. \A k \in 1..(Len(here'.scripts) - 1) : Len(here'.scripts[k]) = Len(scripts[at][k].blocks)
  BY <1>1, <1>3, <1>5, <1>6 DEF StartInv, StartedHere
<1>9. ASSUME at = 1 PROVE AnswerUsed' <=> AnswerUsed \/ IsAnswer(b)
  <2>1. AnswerUsed' <=> \E k \in DOMAIN here.scripts : \E n \in DOMAIN here'.scripts[k] : IsAnswer(scripts[1][k].blocks[n])
    BY <1>5 DEF AnswerUsed
  <2>2. \A k \in DOMAIN here.scripts : k # Converted => DOMAIN here'.scripts[k] = DOMAIN here.scripts[k]
    BY <1>5
  <2>3. DOMAIN here'.scripts[Converted] = DOMAIN here.scripts[Converted] \union {Len(Bricks) + 1}
    BY <1>4, <1>5
  <2>4. b = scripts[1][Converted].blocks[Len(Bricks) + 1]
    BY <1>1, <1>9 DEF Source
  <2> QED BY <1>1, <2>1, <2>2, <2>3, <2>4 DEF AnswerUsed
<1>10. at = 1 /\ Unaffected(1) => (AnswerDeclared' <=> AnswerWatched \/ AnswerUsed')
  BY <1>1, <1>9 DEF StartInv, StartedHere
<1> QED BY <1>1, <1>7, <1>8, <1>10, SpriteGrows

LEMMA StartInvConvertBlock == ASSUME Inv, StartInv, ConvertBlock PROVE StartInv'
<1>1. here \in Sprites /\ DOMAIN variables = Programs /\ converter \in Programs
  BY DEF Inv, TypeOK
<1>2. ASSUME NEW b, \/ ConvertTarget(b) \/ ConvertNoTarget(b) \/ ConvertShown(b) \/ ConvertList(b)
                    \/ ConvertCall(b) \/ ConvertOther(b)
      PROVE StartInv'
  <2>1. UNCHANGED <<project, phase, scripts, at, scene, variables>>
    BY <1>2 DEF ConvertTarget, ConvertNoTarget, ConvertShown, ConvertList, ConvertOther, ConvertCall
  <2>2. \E ops : IsNext(ops, b) /\ ops \intersect {"doAsk", "answer"} = {}
    <3>1. CASE ConvertOther(b)
      BY <3>1 DEF ConvertOther, Referring
    <3>2. CASE ConvertTarget(b) \/ ConvertNoTarget(b)
      <4>1. IsNext(Targets, b)
        BY <3>2 DEF ConvertTarget, ConvertNoTarget
      <4>2. Targets \intersect {"doAsk", "answer"} = {}
        BY DEF Targets
      <4> QED BY <4>1, <4>2
    <3>3. CASE ConvertShown(b) \/ ConvertCall(b)
      BY <3>3 DEF ConvertShown, ConvertCall
    <3>4. CASE ConvertList(b)
      BY <3>4 DEF ConvertList, ListOps
    <3> QED BY <1>2, <3>1, <3>2, <3>3, <3>4
  <2>3. GetsBrick
    <3>1. CASE ~ConvertCall(b)
      <4>1. \E r : Add(r)
        BY <1>2, <3>1, AddsOwnBrick
      <4> QED BY <1>1, <4>1, AddedBrick
    <3>2. CASE ConvertCall(b)
      <4>1. \E r, D : here' = [here EXCEPT !.scripts[Converted] = Append(here.scripts[Converted], r), !.definitions = D]
        BY <3>2 DEF ConvertCall, Bricks
      <4>2. PICK r, D : here' = [here EXCEPT !.scripts[Converted] = Append(here.scripts[Converted], r), !.definitions = D]
        BY <4>1
      <4>3. here'.scripts = [here.scripts EXCEPT ![Converted] = Append(@, r)] /\ here'.in = here.in
        BY <1>1, <4>2 DEF Sprites
      <4> QED BY <4>3 DEF GetsBrick
    <3> QED BY <1>2, <3>1, <3>2
  <2>4. ~IsAnswer(b) /\ (AnswerDeclared' <=> AnswerDeclared)
    BY <2>1, <2>2 DEF IsAnswer, IsNext, AnswerDeclared
  <2> QED BY <2>1, <2>2, <2>3, <2>4, StartInvBrick
<1>3. ASSUME NEW b, ConvertVariable(b) PROVE StartInv'
  <2>1. PICK owner, r : /\ Add(r) /\ UNCHANGED <<project, phase, scripts, at, scene>>
                        /\ variables' = [variables EXCEPT ![converter] = @ \union Owned(owner, {[kind |-> b.kind, name |-> b.name]})]
    BY <1>3 DEF ConvertVariable
  <2>2. IsNext({"setVar:to:", "changeVar:by:"}, b)
    BY <1>3 DEF ConvertVariable
  <2>3. b.kind # "answer" /\ ~IsAnswer(b)
    BY <2>2, NextBlock DEF GoodBlock, IsAnswer
  <2>4. variables'["saved"] \in {variables["saved"], variables["saved"] \union {[owner |-> owner, kind |-> b.kind, name |-> b.name]}}
    BY <1>1, <2>1 DEF Owned, Programs
  <2>5. [owner |-> owner, kind |-> b.kind, name |-> b.name] # [owner |-> Everyone, kind |-> "answer", name |-> ""]
    BY <2>3
  <2>6. AnswerDeclared' <=> AnswerDeclared
    BY <2>4, <2>5 DEF AnswerDeclared
  <2>7. GetsBrick
    BY <1>1, <2>1, AddedBrick
  <2> QED BY <2>1, <2>2, <2>3, <2>6, <2>7, StartInvBrick
<1>4. ASSUME NEW b, ConvertAnswer(b) PROVE StartInv'
  <2>1. /\ IsNext({"doAsk", "answer"}, b) /\ Add(Brick(b.op, "answer", "", Everyone, converter))
        /\ variables' = [variables EXCEPT ![converter] = @ \union Owned(Everyone, {[kind |-> "answer", name |-> ""]})]
        /\ UNCHANGED <<project, phase, scripts, at, scene>>
    BY <1>4 DEF ConvertAnswer
  <2>2. IsAnswer(b) /\ (Unaffected(at) => converter = "saved")
    BY <2>1, NextBlock DEF IsAnswer
  <2>3. at = 1 /\ Unaffected(1) => AnswerDeclared'
    BY <1>1, <2>1, <2>2 DEF AnswerDeclared, Owned
  <2>4. GetsBrick
    BY <1>1, <2>1, AddedBrick
  <2> QED BY <2>1, <2>2, <2>3, <2>4, StartInvBrick
<1>5. ASSUME NEW b, ConvertPen(b) PROVE StartInv'
  <2>1. PICK made : /\ variables' = [variables EXCEPT ![converter] = @ \union Owned(here.id, made)]
                    /\ \A v \in made : v.kind = "user"
    BY <1>5, PenDeclares
  <2>2. IsNext(PenOps, b) /\ UNCHANGED <<project, phase, scripts, at, scene>>
    BY <1>5 DEF ConvertPen
  <2>3. ~IsAnswer(b)
    BY <2>2 DEF IsNext, PenOps, IsAnswer
  <2>4. variables'["saved"] \in {variables["saved"], variables["saved"] \union Owned(here.id, made)}
    BY <1>1, <2>1 DEF Programs
  <2>5. [owner |-> Everyone, kind |-> "answer", name |-> ""] \notin Owned(here.id, made)
    BY <2>1 DEF Owned
  <2>6. AnswerDeclared' <=> AnswerDeclared
    BY <2>4, <2>5 DEF AnswerDeclared
  <2>7. GetsBrick
    BY <1>1, <1>5, AddsOwnBrick, AddedBrick
  <2> QED BY <2>2, <2>3, <2>6, <2>7, StartInvBrick
<1> QED BY <1>2, <1>3, <1>4, <1>5 DEF ConvertBlock

\* All scripts of the stage were converted.
LEMMA StageUsesAnswer ==
  ASSUME Inv, StartInv, phase = "sprites", here # NoSprite, at = 1, ScriptEnded, Converted = Len(scripts[1])
  PROVE  AnswerUsed <=> \E b \in BlocksIn(objects[1].scripts) : IsAnswer(b)
<1>1. /\ scripts[1] \in Seq(Scripts) /\ Prepared(1) /\ CustomBlocks(1, here) /\ here.scripts \in Seq(Seq(AnyBricks))
      /\ 1 \in DOMAIN objects
  BY HereFacts DEF Inv, SpriteInv, TypeOK, Sprites
<1>2. PICK its : its = objects[1].scripts
  OBVIOUS
<1>3. its \in Seq(SourceScripts) /\ \A k \in DOMAIN its : its[k].blocks \in Seq(SourceBlocks)
  <2>1. objects[1] \in SourceObjects
    BY <1>1, ProjectFacts DEF Inv, TypeOK
  <2> QED BY <1>2, <2>1, SourceBlocksIn DEF SourceObjects
<1>4. /\ DOMAIN here.scripts = 1..Len(scripts[1]) /\ DOMAIN scripts[1] = 1..Len(scripts[1]) /\ Converted \in Nat
      /\ DOMAIN its = 1..Len(its) /\ Len(its) <= Len(scripts[1]) /\ Len(its) \in Nat
  BY <1>1, <1>2, <1>3 DEF Converted, Prepared
<1>5. ASSUME NEW k \in DOMAIN scripts[1] PROVE Len(here.scripts[k]) = Len(scripts[1][k].blocks) /\ scripts[1][k].blocks \in Seq(Blocks)
  <2>1. scripts[1][k].blocks \in Seq(Blocks)
    <3>1. scripts[1][k] \in Scripts
      BY <1>1
    <3> QED BY <3>1 DEF Scripts
  <2>2. Len(here.scripts[k]) = Len(scripts[1][k].blocks)
    <3>1. CASE k = Converted
      BY <1>4, <3>1 DEF ScriptEnded, Bricks, Source
    <3>2. CASE k # Converted
      <4>1. k \in 1..(Converted - 1)
        BY <1>4, <3>2
      <4>2. \A n \in 1..(Converted - 1) : Len(here.scripts[n]) = Len(scripts[at][n].blocks)
        BY DEF StartInv, StartedHere
      <4> QED BY <4>1, <4>2
    <3> QED BY <3>1, <3>2
  <2> QED BY <2>1, <2>2
<1>6. AnswerUsed <=> \E k \in DOMAIN scripts[1] : \E n \in DOMAIN scripts[1][k].blocks : IsAnswer(scripts[1][k].blocks[n])
  <2>1. \A k \in DOMAIN scripts[1] : DOMAIN here.scripts[k] = DOMAIN scripts[1][k].blocks
    <3>1. \A k \in DOMAIN scripts[1] : here.scripts[k] \in Seq(AnyBricks)
      BY <1>1, <1>4
    <3> QED BY <1>5, <3>1
  <2> QED BY <1>4, <2>1 DEF AnswerUsed
<1>7. ASSUME NEW k \in DOMAIN scripts[1], NEW n \in DOMAIN scripts[1][k].blocks, IsAnswer(scripts[1][k].blocks[n])
      PROVE  \E b \in BlocksIn(its) : IsAnswer(b)
  <2>1. scripts[1][k].blocks[n].op \in Looked /\ scripts[1][k].blocks[n] \in ToSet(scripts[1][k].blocks)
    BY <1>7 DEF IsAnswer, Looked, ToSet
  <2>2. k \in DOMAIN its
    BY <1>1, <1>2, <2>1 DEF Prepared
  <2>3. SameScript(scripts[1][k], its[k])
    BY <1>1, <1>2, <2>2 DEF Prepared
  <2>4. n \in DOMAIN its[k].blocks /\ its[k].blocks[n] = scripts[1][k].blocks[n]
    BY <1>3, <1>5, <2>1, <2>2, <2>3 DEF SameScript
  <2>5. its[k].blocks[n] \in BlocksIn(its)
    BY <2>2, <2>4 DEF BlocksIn, ToSet
  <2> QED BY <1>7, <2>4, <2>5
<1>8. ASSUME NEW b \in BlocksIn(its), IsAnswer(b)
      PROVE  \E k \in DOMAIN scripts[1] : \E n \in DOMAIN scripts[1][k].blocks : IsAnswer(scripts[1][k].blocks[n])
  <2>1. PICK k \in DOMAIN its : \E n \in DOMAIN its[k].blocks : b = its[k].blocks[n]
    BY <1>8 DEF BlocksIn, ToSet
  <2>2. PICK n \in DOMAIN its[k].blocks : b = its[k].blocks[n]
    BY <2>1
  <2>3. SameScript(scripts[1][k], its[k]) /\ k \in DOMAIN scripts[1]
    BY <1>1, <1>2, <1>4, <2>1 DEF Prepared
  <2>4. n \in DOMAIN scripts[1][k].blocks /\ scripts[1][k].blocks[n] = b
    BY <1>3, <1>5, <1>8, <2>2, <2>3 DEF SameScript, IsAnswer, Looked
  <2> QED BY <1>8, <2>3, <2>4
<1> QED BY <1>2, <1>6, <1>7, <1>8

LEMMA StartInvFinishSprite == ASSUME Inv, StartInv, FinishSprite PROVE StartInv'
<1> DEFINE sprite == [here EXCEPT !.starts = DefaultBehaviour]
<1>1. /\ phase = "sprites" /\ here # NoSprite /\ ScriptEnded /\ Converted = Len(scripts[at])
      /\ scene' = Append(scene, sprite) /\ here' = NoSprite
      /\ IF at < Len(objects) THEN at' = at + 1 /\ phase' = phase ELSE at' = 1 /\ phase' = "keys"
      /\ UNCHANGED <<project, scripts, converter, variables>>
  BY DEF FinishSprite
<1>2. here \in Sprites /\ scene \in Seq(Sprites) /\ DOMAIN variables = Programs
  BY DEF Inv, TypeOK
<1>3. sprite \in Sprites /\ sprite.starts = DefaultBehaviour
  <2>1. DefaultBehaviour \in SUBSET {"settings", "variables", "answer", "shown"}
    BY DEF DefaultBehaviour
  <2> HIDE DEF DefaultBehaviour
  <2> QED BY <1>2, <2>1 DEF Sprites
<1> HIDE DEF sprite
<1>4. /\ DOMAIN scene' = 1..at /\ scene'[at] = sprite /\ at \in 1..Len(objects) /\ DOMAIN scene = 1..(at - 1)
      /\ \A i \in DOMAIN scene : scene'[i] = scene[i]
  BY <1>1, <1>2, <1>3, HereFacts
<1>5. Unaffected(at) => converter = "saved" /\ here.in = "saved"
  BY <1>1 DEF Unaffected, Inv, InOrder, TypeOK, Programs, StartInv, StartedHere
<1>6. KeepsStart(at, sprite)
  <2> SUFFICES ASSUME ~objects[at].oddItem
               PROVE  /\ Unaffected(at) => {"settings", "variables", "shown"} \subseteq DefaultBehaviour
                      /\ at # 1 /\ objects[at].lists = {} => {"settings", "variables"} \subseteq DefaultBehaviour
    BY <1>3 DEF KeepsStart
  <2> QED BY <1>5 DEF DefaultBehaviour, SettingsAdded, ListsAreFound
<1>7. ASSUME at = 1, Unaffected(1), ~objects[1].oddItem
      PROVE  "answer" \in sprite.starts <=> AnswerWatched \/ \E b \in BlocksIn(objects[1].scripts) : IsAnswer(b)
  <2>1. "answer" \in DefaultBehaviour <=> AnswerDeclared
    BY <1>5, <1>7 DEF DefaultBehaviour, SettingsAdded, ListsAreFound, AnswerExists, AnswerDeclared
  <2>2. AnswerDeclared <=> AnswerWatched \/ AnswerUsed
    BY <1>1, <1>7 DEF StartInv, StartedHere
  <2>3. AnswerUsed <=> \E b \in BlocksIn(objects[1].scripts) : IsAnswer(b)
    BY <1>1, <1>7, StageUsesAnswer
  <2> QED BY <1>3, <2>1, <2>2, <2>3
<1>8. StartedScene'
  <2>1. \A i \in DOMAIN scene' : i = at \/ (i \in DOMAIN scene /\ scene'[i] = scene[i])
    BY <1>4
  <2>2. \A i \in DOMAIN scene' : i \in DOMAIN objects => KeepsStart(i, scene'[i])
    BY <1>4, <1>6, <2>1 DEF StartInv, StartedScene
  <2>3. 1 \in DOMAIN scene' /\ Unaffected(1) /\ ~objects[1].oddItem =>
          ("answer" \in scene'[1].starts <=> AnswerWatched \/ \E b \in BlocksIn(objects[1].scripts) : IsAnswer(b))
    BY <1>4, <1>7, <2>1 DEF StartInv, StartedScene
  <2>4. \A b : IsAnswer(b)' <=> IsAnswer(b)
    BY DEF IsAnswer
  <2> QED BY <1>1, <2>2, <2>3, <2>4, SameScene DEF StartedScene
<1>9. ~(phase' = "sprites" /\ at' = 1) /\ phase' \notin {"objects", "helpers"}
  BY <1>1, <1>4
<1> QED BY <1>1, <1>8, <1>9 DEF StartInv

LEMMA StartInvNext == Inv /\ StartInv /\ [Next]_vars => StartInv'
<1> SUFFICES ASSUME Inv, StartInv, [Next]_vars PROVE StartInv'
  OBVIOUS
<1>1. CASE PreprocessObject
  BY <1>1, SameScene DEF PreprocessObject, StartInv
<1>2. CASE AddHelpers
  BY <1>2, SameScene DEF AddHelpers, StartInv, Inv, InOrder
<1>3. CASE StartSprite
  BY <1>3, StartInvStartSprite
<1>4. CASE StartScript
  BY <1>4, StartInvStartScript
<1>5. CASE ConvertBlock
  BY <1>5, StartInvConvertBlock
<1>6. CASE FinishSprite
  BY <1>6, StartInvFinishSprite
<1>7. CASE AddSpaceSprite \/ \E k \in keys \union {[key |-> "a", type |-> "any"]} : AddKeySprite(k)
  <2>1. phase' \notin {"objects", "helpers", "sprites"} /\ UNCHANGED <<project, scene>>
    BY <1>7 DEF AddSpaceSprite, AddKeySprite
  <2> QED BY <2>1, SameScene DEF StartInv
<1>8. CASE AddCursorSprite
  <2>1. phase = "cursor" /\ phase' \in {"done", "failed"} /\ project' = project
    BY <1>8 DEF AddCursorSprite
  <2>2. scene \in Seq(Sprites) /\ Len(scene) = Len(objects) /\ Len(objects) \in Nat \ {0} /\ DOMAIN objects = 1..Len(objects)
    BY <2>1, ProjectFacts DEF Inv, TypeOK, InOrder
  <2>3. \E s : scene' = Append(scene, s) \/ scene' = scene
    BY <1>8 DEF AddCursorSprite
  <2>4. DOMAIN objects \subseteq DOMAIN scene' /\ DOMAIN scene = DOMAIN objects /\ \A i \in DOMAIN objects : scene'[i] = scene[i]
    <3>1. PICK s : scene' = Append(scene, s) \/ scene' = scene
      BY <2>3
    <3>2. scene \in Seq(Sprites \union {s})
      BY <2>2, SeqMonotonic
    <3> QED BY <2>2, <3>1, <3>2
  <2>5. StartedScene'
    <3>1. \A b : IsAnswer(b)' <=> IsAnswer(b)
      BY DEF IsAnswer
    <3> QED BY <2>1, <2>2, <2>4, <3>1, SameScene DEF StartInv, StartedScene
  <2> QED BY <2>1, <2>5 DEF StartInv
<1>9. CASE Ended \/ UNCHANGED vars
  <2>1. UNCHANGED vars
    BY <1>9 DEF Ended
  <2>2. UNCHANGED <<project, phase, scripts, at, here, scene, variables>>
    BY <2>1 DEF vars
  <2>3. StartedHere' <=> StartedHere
    BY <2>2, SameScene DEF StartedHere, Converted, AnswerDeclared, AnswerUsed
  <2> QED BY <2>2, <2>3, SameScene DEF StartInv
<1> QED BY <1>1, <1>2, <1>3, <1>4, <1>5, <1>6, <1>7, <1>8, <1>9 DEF Next

LEMMA StartsAtTheEnd == Inv /\ StartInv => StartValuesAreKept
<1> SUFFICES ASSUME Inv, StartInv, phase = "done" PROVE KeptStartValues /\ AnswerStartsEmpty
  BY DEF StartValuesAreKept, KeptStartValues, AnswerStartsEmpty
<1>1. DOMAIN objects \subseteq DOMAIN scene /\ 1 \in DOMAIN objects
  <2>1. scene \in Seq(Sprites) /\ Len(scene) >= Len(objects) /\ Len(objects) \in Nat \ {0} /\ DOMAIN objects = 1..Len(objects)
    BY ProjectFacts DEF Inv, TypeOK, InOrder
  <2> QED BY <2>1
<1>2. KeptStartValues
  BY <1>1 DEF StartInv, StartedScene, KeepsStart, KeptStartValues
<1>3. AnswerStartsEmpty
  BY <1>1 DEF StartInv, StartedScene, AnswerStartsEmpty, AnswerWatched, IsAnswer
<1> QED BY <1>2, <1>3

\* Every object keeps the place, look and size it starts with, its lists' items and its variables' values, but for what
\* _add_default_behaviour_to loses; and the answer of all sprites starts empty if the stage uses or watches it.
THEOREM KeepsStartValues == Spec => []StartValuesAreKept
<1>1. Inv /\ StartInv => StartValuesAreKept
  BY StartsAtTheEnd
<1> QED BY <1>1, StartInvInit, StartInvNext, Invariance, PTL DEF Spec

-------------------------------------------------------------------------------
(* The generated variables *)

\* The blocks of the preparation that read a generated variable, which is asked for, and those that set one.
BecomesFed(r, b, object, script) ==
  /\ r.op = "readVariable" /\ r.kind \in Fed =>
       \/ r.kind = "timer" /\ r.name = "" /\ b.op = "timer"
       \/ r.kind = "position" /\ r.name = b.name /\ b.op = "distanceTo:" /\ NeedsDistance(script, Names)
       \/ r.kind = "attribute" /\ r.name = b.name /\ b.op = "getAttribute:of:" /\ b.name # object.name
  /\ r.op \in {"setVar:to:", "changeVar:by:"} => r.kind \notin Fed

LEMMA FedBlock ==
  ASSUME NEW object, NEW script, NEW b \in SourceBlocks
  PROVE  BecomesFed(Replaced(b, object, script, Names), b, object, script)
<1> DEFINE r == Replaced(b, object, script, Names)
<1>1. b.kind \notin Fed
  BY DEF SourceBlocks, Fed
<1>2. \/ r = b
      \/ r = Block("readVariable", "timer", "") /\ b.op = "timer"
      \/ r = Block("doBroadcastAndWait", "timer", "")
      \/ r = Block("readVariable", "key", b.name)
      \/ r = Block("readVariable", "position", b.name) /\ b.op = "distanceTo:" /\ NeedsDistance(script, Names)
      \/ r = Block("say", "", "")
      \/ r = Block("readVariable", "attribute", b.name) /\ b.op = "getAttribute:of:" /\ b.name # object.name
  BY DEF Replaced
<1> SUFFICES BecomesFed(r, b, object, script)
  OBVIOUS
<1> HIDE DEF r
<1>3. CASE r = b
  BY <1>1, <1>3 DEF BecomesFed
<1>4. CASE r = Block("readVariable", "timer", "") /\ b.op = "timer"
  BY <1>4 DEF BecomesFed, Block
<1>5. CASE r = Block("doBroadcastAndWait", "timer", "") \/ r = Block("readVariable", "key", b.name) \/ r = Block("say", "", "")
  <2>1. CASE r = Block("doBroadcastAndWait", "timer", "")
    BY <2>1 DEF BecomesFed, Block
  <2>2. CASE r = Block("readVariable", "key", b.name)
    BY <2>2 DEF BecomesFed, Block, Fed
  <2>3. CASE r = Block("say", "", "")
    BY <2>3 DEF BecomesFed, Block
  <2> QED BY <1>5, <2>1, <2>2, <2>3
<1>6. CASE r = Block("readVariable", "position", b.name) /\ b.op = "distanceTo:" /\ NeedsDistance(script, Names)
  BY <1>6 DEF BecomesFed, Block
<1>7. CASE r = Block("readVariable", "attribute", b.name) /\ b.op = "getAttribute:of:" /\ b.name # object.name
  BY <1>7 DEF BecomesFed, Block
<1> QED BY <1>2, <1>3, <1>4, <1>5, <1>6, <1>7

LEMMA PreparedBlock ==
  ASSUME NEW object \in SourceObjects, NEW k \in DOMAIN object.scripts
  PROVE  LET blocks == preprocessed(object, Names)[k].blocks
             info   == WorkaroundInfo(object, Names)
         IN \A n \in DOMAIN blocks :
              /\ blocks[n].op = "readVariable" =>
                   /\ blocks[n].kind = "timer" => info.timer /\ blocks[n].name = ""
                   /\ blocks[n].kind = "position" => blocks[n].name \in info.positions
                   /\ blocks[n].kind = "attribute" => blocks[n].name \in info.attributes
              /\ blocks[n].op \in {"setVar:to:", "changeVar:by:"} => blocks[n].kind \notin Fed
<1> DEFINE blocks == preprocessed(object, Names)[k].blocks
<1>1. PICK its : its = object.scripts
  OBVIOUS
<1>2. /\ k \in DOMAIN its /\ its[k] \in SourceScripts /\ its[k].blocks \in Seq(SourceBlocks)
  BY <1>1, SourceBlocksIn
<1>3. DOMAIN blocks = DOMAIN its[k].blocks /\ \A n \in DOMAIN blocks : blocks[n] = Replaced(its[k].blocks[n], object, its[k], Names)
  <2>1. its[k] = [its[k] EXCEPT !.blocks = its[k].blocks]
    BY <1>2 DEF SourceScripts
  <2>2. blocks = [n \in DOMAIN its[k].blocks |-> Replaced(its[k].blocks[n], object, its[k], Names)]
    BY <1>1, <1>2 DEF preprocessed, SourceScripts
  <2> QED BY <2>2
<1> HIDE DEF blocks
<1> SUFFICES ASSUME NEW n \in DOMAIN blocks
             PROVE  /\ blocks[n].op = "readVariable" =>
                         /\ blocks[n].kind = "timer" => WorkaroundInfo(object, Names).timer /\ blocks[n].name = ""
                         /\ blocks[n].kind = "position" => blocks[n].name \in WorkaroundInfo(object, Names).positions
                         /\ blocks[n].kind = "attribute" => blocks[n].name \in WorkaroundInfo(object, Names).attributes
                    /\ blocks[n].op \in {"setVar:to:", "changeVar:by:"} => blocks[n].kind \notin Fed
  BY DEF blocks
<1>4. PICK b : b = its[k].blocks[n]
  OBVIOUS
<1>5. b \in SourceBlocks /\ b \in ToSet(its[k].blocks) /\ b \in BlocksIn(its) /\ b \in BlocksIn(<<its[k]>>)
  BY <1>2, <1>3, <1>4 DEF ToSet, BlocksIn
<1>6. blocks[n] = Replaced(b, object, its[k], Names)
  BY <1>3, <1>4
<1>7. b.op = "timer" => WorkaroundInfo(object, Names).timer
  BY <1>1, <1>5 DEF WorkaroundInfo
<1>8. b.op = "distanceTo:" /\ NeedsDistance(its[k], Names) => b.name \in WorkaroundInfo(object, Names).positions
  BY <1>1, <1>2, <1>5 DEF WorkaroundInfo, NamesIn
<1>9. b.op = "getAttribute:of:" /\ b.name # object.name => b.name \in WorkaroundInfo(object, Names).attributes
  BY <1>1, <1>5 DEF WorkaroundInfo, NamesIn
<1>10. BecomesFed(blocks[n], b, object, its[k])
  BY <1>5, <1>6, FedBlock
<1> QED BY <1>7, <1>8, <1>9, <1>10 DEF Fed, BecomesFed

\* A helper script sets what it is about, and the stage declares that.
LEMMA HelperBlock ==
  ASSUME objects[1].name = Stage, NEW object, object.name \in Texts, NEW info, NEW monitors,
         NEW k \in DOMAIN HelperScripts(object, info, monitors)
  PROVE  \A b \in ToSet(HelperScripts(object, info, monitors)[k].blocks) :
           /\ b.op \in {"setVar:to:", "changeVar:by:"}
           /\ b.kind \in Fed => [kind |-> b.kind, name |-> b.name] \in HelperVariables(objects[1], info, monitors)
<1> DEFINE n     == object.name
           hv    == HelperVariables(objects[1], info, monitors)
           Good  == {s \in {TimerScript, TimerResetScript, PositionScript(n), AttributeScript(n), SensorScript(n)} :
                       \A b \in ToSet(s.blocks) : /\ b.op \in {"setVar:to:", "changeVar:by:"}
                                                  /\ b.kind \in Fed => [kind |-> b.kind, name |-> b.name] \in hv}
<1>1. \A b : ToSet(<<b>>) = {b}
  BY DEF ToSet
<1>2. /\ ToSet(TimerScript.blocks) = {Block("changeVar:by:", "timer", "")}
      /\ ToSet(TimerResetScript.blocks) = {Block("setVar:to:", "timer", "")}
      /\ ToSet(PositionScript(n).blocks) = {Block("setVar:to:", "position", n)}
      /\ ToSet(AttributeScript(n).blocks) = {Block("setVar:to:", "attribute", n)}
      /\ ToSet(SensorScript(n).blocks) = {Block("setVar:to:", "sensor", n)}
  BY <1>1 DEF TimerScript, TimerResetScript, PositionScript, AttributeScript, SensorScript, GreenFlag, Script
<1>3. \A op, kind, name : Block(op, kind, name).op = op /\ Block(op, kind, name).kind = kind /\ Block(op, kind, name).name = name
  BY DEF Block
<1>4. /\ info.timer \/ info.reset \/ (\E m \in monitors : m.cmd = "timer") => [kind |-> "timer", name |-> ""] \in hv
      /\ n \in info.positions \ {Mouse} => [kind |-> "position", name |-> n] \in hv
      /\ n \in info.attributes => [kind |-> "attribute", name |-> n] \in hv
  BY DEF HelperVariables
<1> HIDE DEF hv
<1>5. /\ info.timer \/ info.reset \/ (\E m \in monitors : m.cmd = "timer") => TimerScript \in Good
      /\ info.reset => TimerResetScript \in Good
      /\ n \in info.positions \ {Mouse} => PositionScript(n) \in Good
      /\ n \in info.attributes => AttributeScript(n) \in Good
      /\ SensorScript(n) \in Good
  <2>1. \A s, op, kind, name :
          /\ s \in {TimerScript, TimerResetScript, PositionScript(n), AttributeScript(n), SensorScript(n)}
          /\ ToSet(s.blocks) = {Block(op, kind, name)} /\ op \in {"setVar:to:", "changeVar:by:"}
          /\ kind \in Fed => [kind |-> kind, name |-> name] \in hv
          => s \in Good
    BY <1>3
  <2> HIDE DEF Good
  <2> QED BY <1>2, <1>4, <2>1 DEF Fed
<1>6. \A s \in Good : \A b \in ToSet(s.blocks) : /\ b.op \in {"setVar:to:", "changeVar:by:"}
                                                 /\ b.kind \in Fed => [kind |-> b.kind, name |-> b.name] \in hv
  OBVIOUS
<1> HIDE DEF Good, n
<1>7. \A c, s : (c => s \in Good) => If(c, s) \in Seq(Good)
  BY DEF If
<1>8. \A s, t \in Seq(Good) : s \o t \in Seq(Good)
  OBVIOUS
<1>9. <<>> \in Seq(Good)
  OBVIOUS
<1>10. TimerScripts(info, monitors) \in Seq(Good)
  <2>1. /\ If(info.timer \/ info.reset, TimerScript) \in Seq(Good) /\ If(info.reset, TimerResetScript) \in Seq(Good)
        /\ If(~info.timer /\ \E m \in monitors : m.cmd = "timer", TimerScript) \in Seq(Good)
    BY <1>5, <1>7, Zenon
  <2> QED BY <1>8, <2>1 DEF TimerScripts
<1>11. HelperScripts(object, info, monitors) \in Seq(Good)
  <2>1. /\ If(n \in info.positions \ {Mouse}, PositionScript(n)) \in Seq(Good)
        /\ If(Watches(monitors, n, "xpos"), SensorScript(n)) \in Seq(Good)
        /\ If(n \in info.attributes, AttributeScript(n)) \in Seq(Good)
    BY <1>5, <1>7, Zenon
  <2>2. (IF n = Stage THEN TimerScripts(info, monitors) ELSE <<>>) \in Seq(Good)
    BY <1>9, <1>10
  <2>3. HelperScripts(object, info, monitors) =
          (IF n = Stage THEN TimerScripts(info, monitors) ELSE <<>>)
            \o If(n \in info.positions \ {Mouse}, PositionScript(n))
            \o If(Watches(monitors, n, "xpos"), SensorScript(n))
            \o If(n \in info.attributes, AttributeScript(n))
    BY DEF HelperScripts, n
  <2> QED BY <1>8, <2>1, <2>2, <2>3
<1>12. HelperScripts(object, info, monitors)[k] \in Good
  BY <1>11
<1> QED BY <1>6, <1>12 DEF hv

\* Whatever is asked of an object, one of its helper scripts does.
Holds(list, script) == \E k \in DOMAIN list : list[k] = script

LEMMA HeldTogether ==
  ASSUME NEW S, NEW s \in Seq(S), NEW t \in Seq(S), NEW x, Holds(s, x) \/ Holds(t, x)
  PROVE  Holds(s \o t, x)
<1>1. CASE Holds(s, x)
  <2>1. PICK k \in DOMAIN s : s[k] = x
    BY <1>1 DEF Holds
  <2>2. k \in DOMAIN (s \o t) /\ (s \o t)[k] = x
    BY <2>1
  <2> QED BY <2>2 DEF Holds
<1>2. CASE Holds(t, x)
  <2>1. PICK k \in DOMAIN t : t[k] = x
    BY <1>2 DEF Holds
  <2>2. Len(s) + k \in DOMAIN (s \o t) /\ (s \o t)[Len(s) + k] = x
    BY <2>1
  <2> QED BY <2>2 DEF Holds
<1> QED BY <1>1, <1>2

\* The helper scripts are these four lists, one after the other.
HelperParts(object, info, monitors) ==
  [timer     |-> IF object.name = Stage THEN TimerScripts(info, monitors) ELSE <<>>,
   position  |-> If(object.name \in info.positions \ {Mouse}, PositionScript(object.name)),
   sensor    |-> If(Watches(monitors, object.name, "xpos"), SensorScript(object.name)),
   attribute |-> If(object.name \in info.attributes, AttributeScript(object.name))]

LEMMA HelperPartsType ==
  ASSUME NEW object, NEW info, NEW monitors
  PROVE  LET parts == HelperParts(object, info, monitors)
             S     == {TimerScript, TimerResetScript, PositionScript(object.name), AttributeScript(object.name),
                       SensorScript(object.name)}
         IN /\ HelperScripts(object, info, monitors) = ((parts.timer \o parts.position) \o parts.sensor) \o parts.attribute
            /\ parts.timer \in Seq({TimerScript, TimerResetScript}) /\ parts.timer \in Seq(S)
            /\ parts.position \in Seq({PositionScript(object.name)}) /\ parts.position \in Seq(S)
            /\ parts.sensor \in Seq({SensorScript(object.name)}) /\ parts.sensor \in Seq(S)
            /\ parts.attribute \in Seq({AttributeScript(object.name)}) /\ parts.attribute \in Seq(S)
<1>1. \A c, s, S : s \in S => If(c, s) \in Seq(S)
  BY DEF If
<1>2. TimerScripts(info, monitors) \in Seq({TimerScript, TimerResetScript})
  <2>1. \A c : If(c, TimerScript) \in Seq({TimerScript, TimerResetScript}) /\ If(c, TimerResetScript) \in Seq({TimerScript, TimerResetScript})
    BY <1>1
  <2>2. \A s, t \in Seq({TimerScript, TimerResetScript}) : s \o t \in Seq({TimerScript, TimerResetScript})
    OBVIOUS
  <2> QED BY <2>1, <2>2 DEF TimerScripts
<1> DEFINE parts == HelperParts(object, info, monitors)
           S     == {TimerScript, TimerResetScript, PositionScript(object.name), AttributeScript(object.name),
                     SensorScript(object.name)}
<1>3. /\ parts.timer = IF object.name = Stage THEN TimerScripts(info, monitors) ELSE <<>>
      /\ parts.position = If(object.name \in info.positions \ {Mouse}, PositionScript(object.name))
      /\ parts.sensor = If(Watches(monitors, object.name, "xpos"), SensorScript(object.name))
      /\ parts.attribute = If(object.name \in info.attributes, AttributeScript(object.name))
  BY DEF HelperParts
<1>4. HelperScripts(object, info, monitors) = ((parts.timer \o parts.position) \o parts.sensor) \o parts.attribute
  BY <1>3 DEF HelperScripts
<1>5. parts.timer \in Seq({TimerScript, TimerResetScript})
  BY <1>2, <1>3
<1>6. /\ parts.position \in Seq({PositionScript(object.name)}) /\ parts.sensor \in Seq({SensorScript(object.name)})
      /\ parts.attribute \in Seq({AttributeScript(object.name)})
  BY <1>1, <1>3
<1>7. /\ {TimerScript, TimerResetScript} \subseteq S /\ {PositionScript(object.name)} \subseteq S
      /\ {SensorScript(object.name)} \subseteq S /\ {AttributeScript(object.name)} \subseteq S
  OBVIOUS
<1> HIDE DEF parts, S
<1>8. parts.timer \in Seq(S) /\ parts.position \in Seq(S) /\ parts.sensor \in Seq(S) /\ parts.attribute \in Seq(S)
  BY <1>5, <1>6, <1>7, SeqMonotonic
<1> QED BY <1>4, <1>5, <1>6, <1>8 DEF parts, S

LEMMA HelpersFeed ==
  ASSUME NEW object, NEW info, NEW monitors
  PROVE  LET h == HelperScripts(object, info, monitors)
         IN /\ object.name = Stage /\ info.timer => Holds(h, TimerScript)
            /\ object.name \in info.positions \ {Mouse} => Holds(h, PositionScript(object.name))
            /\ object.name \in info.attributes => Holds(h, AttributeScript(object.name))
<1> DEFINE parts == HelperParts(object, info, monitors)
<1>1. PICK S : /\ HelperScripts(object, info, monitors) = ((parts.timer \o parts.position) \o parts.sensor) \o parts.attribute
               /\ parts.timer \in Seq(S) /\ parts.position \in Seq(S) /\ parts.sensor \in Seq(S) /\ parts.attribute \in Seq(S)
  BY HelperPartsType
<1>2. \A s : Holds(If(TRUE, s), s)
  BY DEF Holds, If
<1>3. /\ object.name \in info.positions \ {Mouse} => Holds(parts.position, PositionScript(object.name))
      /\ object.name \in info.attributes => Holds(parts.attribute, AttributeScript(object.name))
  BY <1>2 DEF HelperParts, If
<1>4. object.name = Stage /\ info.timer => Holds(parts.timer, TimerScript)
  <2> SUFFICES ASSUME object.name = Stage, info.timer PROVE Holds(TimerScripts(info, monitors), TimerScript)
    BY DEF HelperParts
  <2> DEFINE T == {TimerScript, TimerResetScript}
  <2>1. \A c, s, R : s \in R => If(c, s) \in Seq(R)
    BY DEF If
  <2>2. \A c : If(c, TimerScript) \in Seq(T) /\ If(c, TimerResetScript) \in Seq(T)
    BY <2>1
  <2>3. Holds(If(info.timer \/ info.reset, TimerScript), TimerScript)
    BY DEF Holds, If
  <2> HIDE DEF T
  <2>4. \A s, t \in Seq(T) : s \o t \in Seq(T)
    OBVIOUS
  <2>5. PICK one \in Seq(T), two \in Seq(T), three \in Seq(T) :
          /\ one = If(info.timer \/ info.reset, TimerScript) /\ two = If(info.reset, TimerResetScript)
          /\ three = If(~info.timer /\ \E m \in monitors : m.cmd = "timer", TimerScript)
    BY <2>2
  <2>6. Holds(one \o two, TimerScript)
    BY <2>3, <2>5, HeldTogether
  <2>7. Holds((one \o two) \o three, TimerScript)
    BY <2>4, <2>6, HeldTogether
  <2> QED BY <2>5, <2>7 DEF TimerScripts
<1> HIDE DEF parts
<1>5. \A s, t \in Seq(S) : s \o t \in Seq(S)
  OBVIOUS
<1>6. \A s, t \in Seq(S) : \A x : Holds(s, x) \/ Holds(t, x) => Holds(s \o t, x)
  BY HeldTogether
<1>7. parts.timer \o parts.position \in Seq(S) /\ (parts.timer \o parts.position) \o parts.sensor \in Seq(S)
  BY <1>1, <1>5
<1>8. \A x : Holds(parts.timer, x) \/ Holds(parts.position, x) \/ Holds(parts.attribute, x) =>
        Holds(((parts.timer \o parts.position) \o parts.sensor) \o parts.attribute, x)
  BY <1>1, <1>6, <1>7
<1> QED BY <1>1, <1>3, <1>4, <1>8

LEMMA SameAsked ==
  ASSUME UNCHANGED <<project, wanted>>
  PROVE  /\ objects' = objects /\ Names' = Names /\ Generated' = Generated
         /\ \A i : (Asked(i)' <=> Asked(i)) /\ Helpful(i)' = Helpful(i) /\ (Unaffected(i)' <=> Unaffected(i))
         /\ \A s : IsPointer(s)' <=> IsPointer(s)
<1>1. objects' = objects /\ project' = project /\ wanted' = wanted
  BY DEF objects
<1>2. Names' = Names
  BY <1>1 DEF Names
<1> QED BY <1>1, <1>2 DEF Asked, Helpful, Generated, Unaffected, Replacing, IsPointer, BricksOf

LEMMA FedScriptsPreprocessObject == ASSUME Inv, FedScripts, PreprocessObject PROVE FedScripts'
<1> DEFINE info == WorkaroundInfo(objects[at], Names)
<1>1. /\ phase = "objects" /\ phase' \in {"objects", "helpers"} /\ project' = project
      /\ scripts' = Append(scripts, preprocessed(objects[at], Names))
      /\ wanted' = Merged(wanted, info)
  BY DEF PreprocessObject
<1>2. /\ at \in DOMAIN objects /\ scripts \in Seq(Seq(Scripts)) /\ Len(scripts) = at - 1 /\ DOMAIN objects = 1..Len(objects)
  BY <1>1, ProjectFacts DEF Inv, InOrder, TypeOK
<1> DEFINE new == preprocessed(objects[at], Names)
<1>3. /\ DOMAIN scripts' = DOMAIN scripts \union {at} /\ scripts'[at] = new
      /\ \A i \in DOMAIN scripts : scripts'[i] = scripts[i]
  <2> HIDE DEF new
  <2>1. scripts \in Seq(Seq(Scripts) \union {new}) /\ scripts' = Append(scripts, new)
    BY <1>1, <1>2, SeqMonotonic DEF new
  <2> QED BY <1>2, <2>1
<1>4. objects' = objects /\ Names' = Names
  BY <1>1 DEF objects, Names
<1>5. /\ wanted'.timer = (wanted.timer \/ info.timer)
      /\ wanted'.positions = wanted.positions \union info.positions
      /\ wanted'.attributes = wanted.attributes \union info.attributes
  BY <1>1 DEF Merged
<1>6. \A i \in DOMAIN scripts' : Asked(i)'
  <2>1. \A i \in DOMAIN scripts : Asked(i)'
    BY <1>4, <1>5 DEF FedScripts, Asked
  <2>2. \A i : i = at => Asked(i)'
    <3> TAKE i
    <3> HAVE i = at
    <3>1. WorkaroundInfo(objects'[i], Names') = info
      BY <1>4
    <3> HIDE DEF info
    <3> QED BY <1>5, <3>1 DEF Asked
  <2> QED BY <1>3, <2>1, <2>2
<1> QED BY <1>1, <1>3, <1>4, <1>6 DEF FedScripts, BeforeSprites

LEMMA FedScriptsAddHelpers == ASSUME Inv, FedScripts, AddHelpers PROVE FedScripts'
<1>1. phase = "helpers" /\ UNCHANGED <<project, wanted>> /\ phase' \in {"failed", "sprites"} /\ BeforeSprites
  BY DEF AddHelpers, BeforeSprites
<1>2. DOMAIN scripts = DOMAIN objects /\ Len(objects) \in Nat
  BY <1>1, ProjectFacts DEF Inv, InOrder, TypeOK
<1>3. CASE phase' = "failed"
  <2>1. scripts' = scripts
    BY <1>3 DEF AddHelpers
  <2> QED BY <1>1, <1>3, <2>1, SameAsked DEF FedScripts, BeforeSprites
<1>4. CASE phase' # "failed"
  <2>1. /\ UnknownSprites(wanted, project.monitors, Names) = {}
        /\ scripts' = [i \in DOMAIN scripts |-> scripts[i] \o Helpful(i)]
    BY <1>4 DEF AddHelpers, Helpful
  <2>2. wanted.attributes \subseteq Names
    BY <2>1 DEF UnknownSprites
  <2>3. DOMAIN scripts' = DOMAIN scripts /\ \A i \in DOMAIN scripts : scripts'[i] = scripts[i] \o Helpful(i)
    BY <2>1
  <2>4. \A i \in DOMAIN objects : scripts'[i] = preprocessed(objects[i], Names) \o Helpful(i)
    BY <1>1, <1>2, <2>3 DEF FedScripts
  <2> QED BY <1>1, <1>2, <1>4, <2>2, <2>3, <2>4, SameAsked DEF FedScripts, BeforeSprites
<1> QED BY <1>3, <1>4

LEMMA FedScriptsNext == Inv /\ FedScripts /\ [Next]_vars => FedScripts'
<1> SUFFICES ASSUME Inv, FedScripts, [Next]_vars PROVE FedScripts'
  OBVIOUS
<1>1. CASE PreprocessObject \/ AddHelpers
  BY <1>1, FedScriptsPreprocessObject, FedScriptsAddHelpers
<1>2. CASE ~(PreprocessObject \/ AddHelpers)
  <2>1. UNCHANGED <<project, wanted, scripts>> /\ (BeforeSprites' <=> BeforeSprites) /\ (phase = "failed" => phase' = "failed")
    <3>1. CASE StartSprite \/ StartScript \/ FinishSprite \/ AddSpaceSprite \/ AddCursorSprite
      BY <3>1 DEF StartSprite, StartScript, FinishSprite, AddSpaceSprite, AddCursorSprite, BeforeSprites
    <3>2. CASE ConvertBlock
      BY <3>2, ConvertBlockKeeps DEF BeforeSprites
    <3>3. CASE \E k \in keys \union {[key |-> "a", type |-> "any"]} : AddKeySprite(k)
      BY <3>3 DEF AddKeySprite, BeforeSprites
    <3>4. CASE Ended \/ UNCHANGED vars
      BY <3>4 DEF Ended, vars, BeforeSprites
    <3> QED BY <1>2, <3>1, <3>2, <3>3, <3>4 DEF Next
  <2> QED BY <2>1, SameAsked DEF FedScripts
<1> QED BY <1>1, <1>2

\* What is in one of two lists, one after the other.
Joined(s, t) ==
  /\ \A k \in DOMAIN (s \o t) : \/ k \in DOMAIN s /\ (s \o t)[k] = s[k]
                                \/ k - Len(s) \in DOMAIN t /\ (s \o t)[k] = t[k - Len(s)]
  /\ \A k \in DOMAIN t : k + Len(s) \in DOMAIN (s \o t) /\ (s \o t)[k + Len(s)] = t[k]

LEMMA JoinedAt == ASSUME NEW S, NEW s \in Seq(S), NEW T, NEW t \in Seq(T) PROVE Joined(s, t)
<1> DEFINE R == S \union T
<1>1. s \in Seq(R) /\ t \in Seq(R)
  BY SeqMonotonic
<1>2. DOMAIN s = 1..Len(s) /\ DOMAIN t = 1..Len(t) /\ Len(s) \in Nat /\ Len(t) \in Nat
  BY <1>1
<1> HIDE DEF R
<1>3. /\ Len(s \o t) = Len(s) + Len(t) /\ DOMAIN (s \o t) = 1..(Len(s) + Len(t))
      /\ \A k \in 1..(Len(s) + Len(t)) : (s \o t)[k] = IF k <= Len(s) THEN s[k] ELSE t[k - Len(s)]
  BY <1>1
<1> QED BY <1>2, <1>3 DEF Joined

\* A script that is converted is one of the object, where a generated variable is read only if it was asked for, or a
\* helper, which only sets variables.
LEMMA ScriptsOfObject ==
  ASSUME Inv, FedScripts, ~BeforeSprites, phase # "failed", NEW i \in DOMAIN objects
  PROVE  /\ DOMAIN scripts = DOMAIN objects /\ scripts[i] \in Seq(Scripts) /\ Asked(i) /\ wanted.attributes \subseteq Names
         /\ objects[i] \in SourceObjects /\ objects[i].name \in Texts \ {Mouse} /\ objects[1].name = Stage
         /\ DOMAIN preprocessed(objects[i], Names) = DOMAIN objects[i].scripts
         /\ \A k \in DOMAIN scripts[i] :
              \/ k \in DOMAIN objects[i].scripts /\ scripts[i][k] = preprocessed(objects[i], Names)[k]
              \/ /\ k - Len(objects[i].scripts) \in DOMAIN Helpful(i)
                 /\ scripts[i][k] = Helpful(i)[k - Len(objects[i].scripts)]
         /\ \A k \in DOMAIN Helpful(i) : k + Len(objects[i].scripts) \in DOMAIN scripts[i]
                                         /\ scripts[i][k + Len(objects[i].scripts)] = Helpful(i)[k]
<1>1. /\ DOMAIN scripts = DOMAIN objects /\ scripts[i] \in Seq(Scripts)
      /\ objects[i] \in SourceObjects /\ objects[i].name \in Texts \ {Mouse} /\ objects[1].name = Stage
  <2>1. /\ phase \notin {"objects", "failed"} /\ scripts \in Seq(Seq(Scripts)) /\ project \in Projects
        /\ Len(scripts) = Len(objects)
    BY DEF BeforeSprites, Inv, InOrder, TypeOK
  <2> QED BY <2>1, ProjectFacts
<1>2. scripts[i] = preprocessed(objects[i], Names) \o Helpful(i) /\ Asked(i) /\ wanted.attributes \subseteq Names
  BY <1>1 DEF FedScripts
<1> DEFINE pre == preprocessed(objects[i], Names)
<1>3. objects[i].scripts \in Seq(SourceScripts)
  BY <1>1 DEF SourceObjects
<1>4. DOMAIN pre = DOMAIN objects[i].scripts /\ \A k \in DOMAIN pre : pre[k] \in Scripts
  <2>1. \A k \in DOMAIN objects[i].scripts : pre[k] \in Scripts
    BY <1>1, PreparedScript
  <2> QED BY <2>1 DEF preprocessed
<1>5. pre \in Seq(Scripts) /\ Len(pre) = Len(objects[i].scripts)
  <2>1. \E f : f = objects[i].scripts
    OBVIOUS
  <2>2. PICK f : f = objects[i].scripts
    BY <2>1
  <2>3. f \in Seq(SourceScripts) /\ DOMAIN f = 1..Len(f) /\ Len(f) \in Nat
    BY <1>3, <2>2
  <2>4. pre = [k \in 1..Len(f) |-> pre[k]]
    BY <2>2, <2>3 DEF preprocessed
  <2>5. DOMAIN pre = 1..Len(f) /\ \A k \in 1..Len(f) : pre[k] \in Scripts
    BY <1>4, <2>2, <2>3
  <2> HIDE DEF pre
  <2>6. pre \in [1..Len(f) -> Scripts]
    BY <2>4, <2>5
  <2>7. pre \in Seq(Scripts)
    BY <2>3, <2>6, SeqDef
  <2> QED BY <2>2, <2>3, <2>5, <2>7
<1>6. Helpful(i) \in Seq(Helpers)
  BY <1>1, HelperScriptsType DEF Helpful
<1> HIDE DEF pre
<1>7. scripts[i] = pre \o Helpful(i)
  BY <1>2 DEF pre
<1>8. /\ \A k \in DOMAIN scripts[i] : \/ k \in DOMAIN pre /\ scripts[i][k] = pre[k]
                                      \/ k - Len(pre) \in DOMAIN Helpful(i) /\ scripts[i][k] = Helpful(i)[k - Len(pre)]
      /\ \A k \in DOMAIN Helpful(i) : k + Len(pre) \in DOMAIN scripts[i] /\ scripts[i][k + Len(pre)] = Helpful(i)[k]
  <2>1. Joined(pre, Helpful(i))
    BY <1>5, <1>6, JoinedAt
  <2> QED BY <1>7, <2>1 DEF Joined
<1> QED BY <1>1, <1>2, <1>4, <1>5, <1>8 DEF pre

LEMMA BlocksOfObject ==
  ASSUME Inv, FedScripts, ~BeforeSprites, phase # "failed", NEW i \in DOMAIN objects,
         NEW k \in DOMAIN scripts[i], NEW n \in DOMAIN scripts[i][k].blocks
  PROVE  LET b == scripts[i][k].blocks[n]
         IN /\ b.op = "readVariable" =>
                 /\ b.kind = "timer" => wanted.timer /\ b.name = ""
                 /\ b.kind = "position" => b.name \in wanted.positions
                 /\ b.kind = "attribute" => b.name \in wanted.attributes
            /\ b.op \in {"setVar:to:", "changeVar:by:"} /\ b.kind \in Fed => [kind |-> b.kind, name |-> b.name] \in Generated
<1> DEFINE b == scripts[i][k].blocks[n]
<1>1. CASE k \in DOMAIN objects[i].scripts /\ scripts[i][k] = preprocessed(objects[i], Names)[k]
  <2>1. objects[i] \in SourceObjects /\ Asked(i)
    BY ScriptsOfObject
  <2> DEFINE info == WorkaroundInfo(objects[i], Names)
  <2>2. /\ b.op = "readVariable" =>
             /\ b.kind = "timer" => info.timer /\ b.name = ""
             /\ b.kind = "position" => b.name \in info.positions
             /\ b.kind = "attribute" => b.name \in info.attributes
        /\ b.op \in {"setVar:to:", "changeVar:by:"} => b.kind \notin Fed
    BY <1>1, <2>1, PreparedBlock
  <2> QED BY <2>1, <2>2 DEF Asked
<1>2. CASE k - Len(objects[i].scripts) \in DOMAIN Helpful(i) /\ scripts[i][k] = Helpful(i)[k - Len(objects[i].scripts)]
  <2>1. /\ objects[1].name = Stage /\ objects[i].name \in Texts
        /\ k - Len(objects[i].scripts) \in DOMAIN HelperScripts(objects[i], wanted, project.monitors)
        /\ scripts[i][k] = HelperScripts(objects[i], wanted, project.monitors)[k - Len(objects[i].scripts)]
    BY <1>2, ScriptsOfObject DEF Helpful
  <2>2. b \in ToSet(scripts[i][k].blocks)
    BY DEF ToSet
  <2>3. /\ b.op \in {"setVar:to:", "changeVar:by:"}
        /\ b.kind \in Fed => [kind |-> b.kind, name |-> b.name] \in HelperVariables(objects[1], wanted, project.monitors)
    BY <2>1, <2>2, HelperBlock
  <2> QED BY <2>3 DEF Generated
<1> QED BY <1>1, <1>2, ScriptsOfObject

\* The variables of all sprites are never fewer, and what is added to them is no sprite's generated variable.
LEMMA FedVariablesKept ==
  ASSUME FedVariables, UNCHANGED <<project, wanted>>, variables["saved"] \subseteq variables'["saved"],
         Unaffected(1) => \A v \in variables'["saved"] \ variables["saved"] : v.kind \in Fed => v.owner = Everyone,
         Begun(1)' => Begun(1)
  PROVE  FedVariables'
<1>1. \A v : v \in variables'["saved"] => v \in variables["saved"] \/ v \in variables'["saved"] \ variables["saved"]
  OBVIOUS
<1>2. Unaffected(1) => \A v \in variables'["saved"] : v.kind \in Fed => v.owner = Everyone
  BY <1>1 DEF FedVariables
<1>3. Unaffected(1) /\ Begun(1)' => \A v \in Generated : v.kind \in Fed =>
        [owner |-> Everyone, kind |-> v.kind, name |-> v.name] \in variables'["saved"]
  BY DEF FedVariables
<1> QED BY <1>2, <1>3, SameAsked DEF FedVariables

\* The variables that are declared for an owner.
LEMMA OwnedBy ==
  ASSUME NEW owner, NEW vs
  PROVE  /\ \A v \in Owned(owner, vs) : v.owner = owner /\ \E w \in vs : v.kind = w.kind /\ v.name = w.name
         /\ \A w \in vs : [owner |-> owner, kind |-> w.kind, name |-> w.name] \in Owned(owner, vs)
BY DEF Owned

LEMMA FedVariablesStartSprite == ASSUME Inv, StartInv, FedVariables, StartSprite PROVE FedVariables'
<1> DEFINE owner == IF at = 1 THEN Everyone ELSE SpriteFor(objects[at].name)
<1>1. /\ phase = "sprites" /\ here = NoSprite /\ DOMAIN variables = Programs /\ converter \in Programs
      /\ variables' = [variables EXCEPT ![converter] = @ \union Owned(owner, VariablesOf(at))]
      /\ UNCHANGED <<project, wanted, at, scene>>
  BY DEF StartSprite, Inv, TypeOK
<1> HIDE DEF owner
<1>2. variables'["saved"] = IF converter = "saved" THEN variables["saved"] \union Owned(owner, VariablesOf(at)) ELSE variables["saved"]
  BY <1>1 DEF Programs
<1>3. at \in 1..Len(objects) /\ DOMAIN objects = 1..Len(objects) /\ DOMAIN scene = 1..(at - 1) /\ Len(objects) \in Nat
  BY <1>1, HereFacts
<1>4. objects' = objects
  BY <1>1 DEF objects
<1>5. \A v \in VariablesOf(at) : v.kind = "user" \/ v \in HelperVariables(objects[at], wanted, project.monitors)
  BY DEF VariablesOf
<1>6. CASE at = 1
  <2>1. owner = Everyone /\ variables["saved"] = {}
    BY <1>1, <1>6 DEF owner, StartInv
  <2>2. Unaffected(1) => converter = "saved"
    BY <1>1, <1>6 DEF Unaffected, Inv, InOrder, TypeOK, Programs
  <2>3. Unaffected(1) => variables'["saved"] = Owned(Everyone, VariablesOf(1))
    BY <1>2, <1>6, <2>1, <2>2
  <2>4. \A v \in Generated : v \in VariablesOf(1)
    BY DEF Generated, VariablesOf
  <2>5. Unaffected(1) => \A v \in variables'["saved"] : v.owner = Everyone
    BY <2>3, OwnedBy
  <2>6. Unaffected(1) => \A v \in Generated : [owner |-> Everyone, kind |-> v.kind, name |-> v.name] \in variables'["saved"]
    BY <2>3, <2>4, OwnedBy
  <2> QED BY <1>1, <2>5, <2>6, SameAsked DEF FedVariables
<1>7. CASE at # 1
  <2>1. 1 \in DOMAIN scene /\ Begun(1)
    BY <1>3, <1>7 DEF Begun
  <2>2. \A v \in VariablesOf(at) : v.kind \notin Fed
    <3>1. objects[at].name # Stage
      BY <1>1, <1>3, <1>7, ProjectFacts DEF Inv, TypeOK
    <3>2. \A v \in HelperVariables(objects[at], wanted, project.monitors) : v.kind = "sensor"
      BY <3>1 DEF HelperVariables
    <3> QED BY <1>5, <3>2 DEF Fed
  <2>3. \A v \in variables'["saved"] \ variables["saved"] : v.kind \notin Fed
    BY <1>2, <2>2, OwnedBy
  <2>4. variables["saved"] \subseteq variables'["saved"]
    BY <1>2
  <2> QED BY <1>1, <2>1, <2>3, <2>4, FedVariablesKept
<1> QED BY <1>6, <1>7

\* A generated variable that a brick sets was declared for all sprites when the stage was begun.
LEMMA OwnerOfFed ==
  ASSUME Inv, FedScripts, FedVariables, NEW ops, NEW b, IsNext(ops, b), b.op \in {"setVar:to:", "changeVar:by:"},
         b.kind \in Fed, Unaffected(1), converter = "saved"
  PROVE  /\ Lookup(b.kind, b.name) # {}
         /\ \A v \in Lookup(b.kind, b.name) : v.owner = Everyone
<1>1. /\ phase = "sprites" /\ here # NoSprite /\ b = Source[Len(Bricks) + 1] /\ Len(Bricks) < Len(Source)
      /\ Converted \in DOMAIN here.scripts /\ here \in Sprites /\ Bricks \in Seq(AnyBricks)
  BY NextBlock DEF IsNext
<1>2. /\ at \in DOMAIN objects /\ scripts[at] \in Seq(Scripts) /\ Len(here.scripts) <= Len(scripts[at]) /\ ~BeforeSprites
      /\ at \in 1..Len(objects) /\ DOMAIN objects = 1..Len(objects) /\ Len(objects) \in Nat /\ DOMAIN scene = 1..(at - 1)
  BY <1>1, HereFacts DEF SpriteInv, CustomBlocks, BeforeSprites
<1>3. Converted \in DOMAIN scripts[at] /\ Len(Bricks) + 1 \in DOMAIN scripts[at][Converted].blocks
  <2>1. here.scripts \in Seq(Seq(AnyBricks))
    BY <1>1 DEF Sprites
  <2>2. Converted \in DOMAIN scripts[at]
    BY <1>1, <1>2, <2>1 DEF Converted
  <2>3. scripts[at][Converted] \in Scripts
    BY <1>2, <2>2
  <2>4. scripts[at][Converted].blocks \in Seq(Blocks)
    BY <2>3 DEF Scripts
  <2>5. Len(Bricks) \in Nat
    BY <1>1
  <2> QED BY <1>1, <2>2, <2>4, <2>5 DEF Source
<1>4. [kind |-> b.kind, name |-> b.name] \in Generated
  <2>1. b = scripts[at][Converted].blocks[Len(Bricks) + 1] /\ phase # "failed"
    BY <1>1 DEF Source
  <2> QED BY <1>2, <1>3, <2>1, BlocksOfObject
<1>5. Begun(1)
  BY <1>1, <1>2 DEF Begun
<1>6. [owner |-> Everyone, kind |-> b.kind, name |-> b.name] \in variables["saved"]
  BY <1>4, <1>5 DEF FedVariables
<1> QED BY <1>6 DEF Lookup, FedVariables

LEMMA FedVariablesConvertBlock == ASSUME Inv, FedScripts, FedVariables, ConvertBlock PROVE FedVariables'
<1>1. /\ DOMAIN variables = Programs /\ converter \in Programs /\ phase = "sprites" /\ UNCHANGED <<project, wanted, at, scene>>
  BY ConvertBlockKeeps DEF Inv, TypeOK
<1>2. Begun(1)' => Begun(1)
  <2>1. here # NoSprite
    BY <1>1 DEF ConvertBlock, ScriptEnded, Converted, NoSprite, NewSprite
  <2> QED BY <1>1, <2>1 DEF Begun, objects
<1>3. ASSUME NEW b, \/ ConvertTarget(b) \/ ConvertNoTarget(b) \/ ConvertShown(b) \/ ConvertList(b)
                    \/ ConvertCall(b) \/ ConvertOther(b)
      PROVE FedVariables'
  <2>1. variables' = variables
    BY <1>3 DEF ConvertTarget, ConvertNoTarget, ConvertShown, ConvertList, ConvertCall, ConvertOther
  <2> QED BY <1>1, <1>2, <2>1, FedVariablesKept
<1>4. ASSUME NEW b, ConvertAnswer(b) PROVE FedVariables'
  <2>1. variables' = [variables EXCEPT ![converter] = @ \union Owned(Everyone, {[kind |-> "answer", name |-> ""]})]
    BY <1>4 DEF ConvertAnswer
  <2>2. variables'["saved"] \in {variables["saved"], variables["saved"] \union Owned(Everyone, {[kind |-> "answer", name |-> ""]})}
    BY <1>1, <2>1 DEF Programs
  <2>3. \A v \in Owned(Everyone, {[kind |-> "answer", name |-> ""]}) : v.owner = Everyone
    <3>1. \A vs : \A v \in Owned(Everyone, vs) : v.owner = Everyone
      BY OwnedBy
    <3> QED BY <3>1
  <2> QED BY <1>1, <1>2, <2>2, <2>3, FedVariablesKept
<1>5. ASSUME NEW b, ConvertVariable(b) PROVE FedVariables'
  <2> DEFINE found == Lookup(b.kind, b.name)
             owner == IF found # {} THEN OwnerIn(found) ELSE here.id
  <2>1. /\ IsNext({"setVar:to:", "changeVar:by:"}, b)
        /\ variables' = [variables EXCEPT ![converter] = @ \union Owned(owner, {[kind |-> b.kind, name |-> b.name]})]
    BY <1>5 DEF ConvertVariable
  <2>2. b.op \in {"setVar:to:", "changeVar:by:"}
    BY <2>1 DEF IsNext
  <2>3. b.kind \in Fed /\ Unaffected(1) /\ converter = "saved" => owner = Everyone
    <3> SUFFICES ASSUME b.kind \in Fed, Unaffected(1), converter = "saved" PROVE owner = Everyone
      OBVIOUS
    <3>1. found # {} /\ \A v \in found : v.owner = Everyone
      BY <2>1, <2>2, OwnerOfFed
    <3> QED BY <3>1 DEF OwnerIn
  <2> HIDE DEF owner, found
  <2>4. /\ variables'["saved"] \in {variables["saved"], variables["saved"] \union Owned(owner, {[kind |-> b.kind, name |-> b.name]})}
        /\ converter # "saved" => variables'["saved"] = variables["saved"]
    BY <1>1, <2>1 DEF Programs
  <2>5. \A v \in Owned(owner, {[kind |-> b.kind, name |-> b.name]}) : v.owner = owner /\ v.kind = b.kind
    BY OwnedBy
  <2> QED BY <1>1, <1>2, <2>3, <2>4, <2>5, FedVariablesKept
<1>6. ASSUME NEW b, ConvertPen(b) PROVE FedVariables'
  <2>1. PICK made : /\ variables' = [variables EXCEPT ![converter] = @ \union Owned(here.id, made)]
                    /\ \A v \in made : v.kind = "user"
    BY <1>6, PenDeclares
  <2>2. variables'["saved"] \in {variables["saved"], variables["saved"] \union Owned(here.id, made)}
    BY <1>1, <2>1 DEF Programs
  <2>3. \A v \in Owned(here.id, made) : v.kind \notin Fed
    BY <2>1 DEF Owned, Fed
  <2> QED BY <1>1, <1>2, <2>2, <2>3, FedVariablesKept
<1> QED BY <1>3, <1>4, <1>5, <1>6 DEF ConvertBlock

LEMMA FedVariablesNext == Inv /\ StartInv /\ FedScripts /\ FedVariables /\ [Next]_vars => FedVariables'
<1> SUFFICES ASSUME Inv, StartInv, FedScripts, FedVariables, [Next]_vars PROVE FedVariables'
  OBVIOUS
<1>1. CASE PreprocessObject \/ AddHelpers
  <2>1. /\ phase \in {"objects", "helpers"} /\ UNCHANGED <<project, here, scene, variables>>
    BY <1>1 DEF PreprocessObject, AddHelpers
  <2>2. variables'["saved"] = {} /\ scene' = <<>> /\ here' = NoSprite
    BY <2>1 DEF Inv, InOrder, StartInv
  <2>3. ~Begun(1)'
    BY <2>2 DEF Begun
  <2> QED BY <2>2, <2>3 DEF FedVariables
<1>2. CASE StartSprite
  BY <1>2, FedVariablesStartSprite
<1>3. CASE ConvertBlock
  BY <1>3, FedVariablesConvertBlock
<1>4. CASE StartScript \/ FinishSprite
  <2>1. /\ phase = "sprites" /\ here # NoSprite /\ UNCHANGED <<project, wanted, variables>>
    BY <1>4 DEF StartScript, FinishSprite
  <2>2. at \in 1..Len(objects) /\ DOMAIN objects = 1..Len(objects) /\ Len(objects) \in Nat /\ DOMAIN scene = 1..(at - 1)
    BY <2>1, HereFacts
  <2>3. Begun(1)
    BY <2>1, <2>2 DEF Begun
  <2> QED BY <2>1, <2>3, FedVariablesKept
<1>5. CASE AddSpaceSprite \/ \E k \in keys \union {[key |-> "a", type |-> "any"]} : AddKeySprite(k)
  <2>1. UNCHANGED <<project, wanted, at, here, scene, variables>>
    BY <1>5 DEF AddSpaceSprite, AddKeySprite
  <2> QED BY <2>1, FedVariablesKept DEF Begun, objects
<1>6. CASE AddCursorSprite
  <2>1. phase = "cursor" /\ UNCHANGED <<project, wanted>> /\ DOMAIN variables = Programs
    BY <1>6 DEF AddCursorSprite, Inv, TypeOK
  <2>2. Begun(1)
    <3>1. scene \in Seq(Sprites) /\ Len(scene) = Len(objects) /\ Len(objects) \in Nat \ {0} /\ DOMAIN objects = 1..Len(objects)
      BY <2>1, ProjectFacts DEF Inv, TypeOK, InOrder
    <3> QED BY <3>1 DEF Begun
  <2>3. variables'["saved"] \in {variables["saved"], variables["saved"] \union Owned(Everyone, {[kind |-> "position", name |-> Mouse]})}
    BY <1>6, <2>1 DEF AddCursorSprite, Programs
  <2>4. \A v \in Owned(Everyone, {[kind |-> "position", name |-> Mouse]}) : v.owner = Everyone
    <3>1. \A vs : \A v \in Owned(Everyone, vs) : v.owner = Everyone
      BY OwnedBy
    <3> QED BY <3>1
  <2> QED BY <2>1, <2>2, <2>3, <2>4, FedVariablesKept
<1>7. CASE Ended \/ UNCHANGED vars
  <2>1. UNCHANGED <<project, wanted, at, here, scene, variables>>
    BY <1>7 DEF Ended, vars
  <2> QED BY <2>1, FedVariablesKept DEF Begun, objects
<1> QED BY <1>1, <1>2, <1>3, <1>4, <1>5, <1>6, <1>7 DEF Next

LEMMA SameMirrors ==
  ASSUME UNCHANGED <<project, scripts>>
  PROVE  \A i, s : MirrorsSprite(i, s)' <=> MirrorsSprite(i, s)
<1>1. objects' = objects /\ scripts' = scripts
  BY DEF objects
<1>2. \A i : Unaffected(i)' <=> Unaffected(i)
  BY <1>1 DEF Unaffected, Replacing
<1>3. \A i, r, b : Mirrors(i, r, b)' <=> Mirrors(i, r, b)
  BY <1>2 DEF Mirrors
<1> QED BY <1>1, <1>3 DEF MirrorsSprite

\* The sprite of the object whose turn it is gets on.
LEMMA FedSpritesHere ==
  ASSUME Inv, FedSprites, phase = "sprites", UNCHANGED <<project, wanted, scripts, at, scene>>, MirrorsSprite(at, here')
  PROVE  FedSprites'
<1>1. at \in 1..Len(objects) /\ DOMAIN objects = 1..Len(objects) /\ Len(objects) \in Nat /\ DOMAIN scene = 1..(at - 1)
  BY HereFacts
<1>2. objects' = objects
  BY DEF objects
<1>3. \A i \in DOMAIN objects : Begun(i)' => MirrorsSprite(i, SpriteOf(i)')
  <2> TAKE i \in DOMAIN objects
  <2>1. CASE i \in DOMAIN scene
    <3>1. Begun(i) /\ SpriteOf(i)' = SpriteOf(i)
      BY <2>1 DEF Begun, SpriteOf
    <3> QED BY <3>1 DEF FedSprites
  <2>2. CASE i \notin DOMAIN scene
    <3>1. Begun(i)' => i = at /\ SpriteOf(i)' = here'
      BY <2>2 DEF Begun, SpriteOf
    <3> QED BY <3>1
  <2> QED BY <2>1, <2>2
<1>4. \A i \in DOMAIN objects : Begun(i)' => MirrorsSprite(i, SpriteOf(i))'
  BY <1>3, SameMirrors
<1> QED BY <1>2, <1>4, SameAsked DEF FedSprites

LEMMA FedSpritesBrick ==
  ASSUME Inv, FedSprites, NEW ops, NEW b, IsNext(ops, b), NEW r, here'.scripts = [here.scripts EXCEPT ![Converted] = Append(@, r)],
         Mirrors(at, r, b), UNCHANGED <<project, wanted, scripts, at, scene>>
  PROVE  FedSprites'
<1>1. /\ phase = "sprites" /\ here # NoSprite /\ here \in Sprites /\ Converted \in DOMAIN here.scripts
      /\ Bricks \in Seq(AnyBricks) /\ b = Source[Len(Bricks) + 1]
  BY NextBlock DEF IsNext
<1>2. /\ Bricks = here.scripts[Converted] /\ Len(Bricks) \in Nat /\ DOMAIN Bricks = 1..Len(Bricks)
      /\ DOMAIN Append(Bricks, r) = 1..(Len(Bricks) + 1)
      /\ \A n \in 1..Len(Bricks) : Append(Bricks, r)[n] = Bricks[n]
      /\ Append(Bricks, r)[Len(Bricks) + 1] = r
  <2>1. Bricks \in Seq(AnyBricks \union {r})
    BY <1>1, SeqMonotonic
  <2> QED BY <1>1, <2>1 DEF Bricks
<1>3. here.scripts \in Seq(Seq(AnyBricks))
  BY <1>1 DEF Sprites
<1>4. /\ DOMAIN here'.scripts = DOMAIN here.scripts /\ here'.scripts[Converted] = Append(Bricks, r)
      /\ \A k \in DOMAIN here.scripts : k # Converted => here'.scripts[k] = here.scripts[k]
  BY <1>1, <1>2, <1>3
<1>5. MirrorsSprite(at, here)
  BY <1>1, HereFacts DEF FedSprites, Begun
<1>6. MirrorsSprite(at, here')
  <2>1. \A n \in DOMAIN here'.scripts[Converted] : Mirrors(at, here'.scripts[Converted][n], scripts[at][Converted].blocks[n])
    <3> TAKE n \in DOMAIN here'.scripts[Converted]
    <3>1. CASE n = Len(Bricks) + 1
      BY <1>1, <1>2, <1>4, <3>1 DEF Source
    <3>2. CASE n # Len(Bricks) + 1
      BY <1>1, <1>2, <1>4, <1>5, <3>2 DEF MirrorsSprite
    <3> QED BY <3>1, <3>2
  <2> QED BY <1>4, <1>5, <2>1 DEF MirrorsSprite
<1> QED BY <1>1, <1>6, FedSpritesHere

LEMMA FedSpritesConvertBlock == ASSUME Inv, FedScripts, FedVariables, FedSprites, ConvertBlock PROVE FedSprites'
<1>1. /\ here \in Sprites /\ UNCHANGED <<project, wanted, scripts, at, scene>>
  BY ConvertBlockKeeps DEF Inv, TypeOK
<1>2. \A r : Add(r) => here'.scripts = [here.scripts EXCEPT ![Converted] = Append(@, r)]
  <2> TAKE r
  <2>1. Add(r) => here' = [here EXCEPT !.scripts[Converted] = Append(@, r)]
    BY DEF Add
  <2> QED BY <1>1, <2>1 DEF Sprites
<1> DEFINE Moot == {"readVariable", "setVar:to:", "changeVar:by:"}
<1>3. \A r, b : r.op \notin Moot /\ b.op \notin Moot => Mirrors(at, r, b)
  BY DEF Mirrors
<1>4. \A op, kind, name, owner, in : /\ Brick(op, kind, name, owner, in).op = op /\ Brick(op, kind, name, owner, in).kind = kind
                                     /\ Brick(op, kind, name, owner, in).name = name /\ Brick(op, kind, name, owner, in).in = in
                                     /\ Brick(op, kind, name, owner, in).owner = owner
  BY DEF Brick
<1>5. Note.op \notin Moot
  BY DEF Note, Brick
<1>6. ASSUME NEW b, \/ ConvertTarget(b) \/ ConvertNoTarget(b)
                    \/ ConvertShown(b) \/ ConvertPen(b) \/ ConvertAnswer(b) \/ ConvertList(b)
      PROVE FedSprites'
  <2>1. PICK ops : IsNext(ops, b) /\ ops \in {Targets, {"showVariable:", "hideVariable:"}, PenOps, {"doAsk", "answer"}, ListOps}
    BY <1>6 DEF ConvertTarget, ConvertNoTarget, ConvertShown, ConvertPen, ConvertAnswer, ConvertList
  <2>2. b.op \notin Moot
    BY <2>1 DEF IsNext, Targets, PenOps, ListOps
  <2>3. \E r : Add(r) /\ (r = Note \/ r.op = b.op)
    BY <1>6, AddsOwnBrick
  <2>4. \E r : Add(r) /\ r.op \notin Moot
    BY <1>5, <2>2, <2>3
  <2> HIDE DEF Moot
  <2> QED BY <1>1, <1>2, <1>3, <2>1, <2>2, <2>4, FedSpritesBrick
<1>7. ASSUME NEW b, ConvertCall(b) PROVE FedSprites'
  <2>1. IsNext({"call"}, b)
    BY <1>7 DEF ConvertCall
  <2>2. b.op \notin Moot
    BY <2>1 DEF IsNext
  <2>3. \E r, D : /\ here' = [here EXCEPT !.scripts[Converted] = Append(here.scripts[Converted], r), !.definitions = D]
                  /\ r = Note \/ r.op = "call"
    <3> DEFINE good == b.kind = "good" /\ DefinitionsOf(b.name) # {}
               mine == Brick("call", "block", b.name, DefinitionBrick(b.name, "call"), converter)
               r    == IF good THEN mine ELSE Note
               D    == IF good THEN here.definitions \union {DefinitionBrick(b.name, "call")} ELSE here.definitions
    <3>1. here' = [here EXCEPT !.scripts[Converted] = Append(here.scripts[Converted], r), !.definitions = D]
      BY <1>7 DEF ConvertCall, Bricks
    <3>2. mine.op = "call"
      BY DEF Brick
    <3>3. r = Note \/ r.op = "call"
      BY <3>2
    <3> HIDE DEF r, D
    <3> QED BY <3>1, <3>3
  <2>4. PICK r, D : /\ here' = [here EXCEPT !.scripts[Converted] = Append(here.scripts[Converted], r), !.definitions = D]
                    /\ r = Note \/ r.op = "call"
    BY <2>3
  <2>5. here'.scripts = [here.scripts EXCEPT ![Converted] = Append(@, r)] /\ r.op \notin Moot
    BY <1>1, <1>5, <2>4 DEF Sprites
  <2> HIDE DEF Moot
  <2> QED BY <1>1, <1>3, <2>1, <2>2, <2>5, FedSpritesBrick
<1>8. ASSUME NEW b, ConvertOther(b) PROVE FedSprites'
  <2> DEFINE r == Brick(b.op, b.kind, b.name, Everyone, converter)
  <2>1. /\ IsNext({b.op}, b) /\ Add(r)
        /\ b.op \notin {"setVar:to:", "changeVar:by:"} /\ r.op = b.op /\ r.kind = b.kind /\ r.name = b.name
    BY <1>4, <1>8 DEF ConvertOther, Referring, VariableOps
  <2> HIDE DEF r
  <2>2. Mirrors(at, r, b)
    BY <2>1 DEF Mirrors
  <2> QED BY <1>1, <1>2, <2>1, <2>2, FedSpritesBrick
<1>9. ASSUME NEW b, ConvertVariable(b) PROVE FedSprites'
  <2> DEFINE found == Lookup(b.kind, b.name)
             owner == IF found # {} THEN OwnerIn(found) ELSE here.id
             r     == Brick(b.op, b.kind, b.name, owner, converter)
  <2>1. IsNext({"setVar:to:", "changeVar:by:"}, b) /\ Add(r)
    BY <1>9 DEF ConvertVariable
  <2>2. b.op \in {"setVar:to:", "changeVar:by:"}
    BY <2>1 DEF IsNext
  <2>3. Unaffected(at) /\ b.kind \in Fed => converter = "saved" /\ owner = Everyone
    <3> SUFFICES ASSUME Unaffected(at), b.kind \in Fed PROVE converter = "saved" /\ owner = Everyone
      OBVIOUS
    <3>1. converter = "saved" /\ phase = "sprites"
      BY <2>1, NextBlock
    <3>2. Unaffected(1)
      BY <3>1, HereFacts DEF Unaffected
    <3>3. found # {} /\ \A v \in found : v.owner = Everyone
      BY <2>1, <2>2, <3>1, <3>2, OwnerOfFed
    <3> QED BY <3>1, <3>3 DEF OwnerIn
  <2> HIDE DEF owner, found
  <2>4. Mirrors(at, r, b)
    BY <1>4, <2>2, <2>3 DEF Mirrors
  <2> HIDE DEF r
  <2> QED BY <1>1, <1>2, <2>1, <2>4, FedSpritesBrick
<1> QED BY <1>6, <1>7, <1>8, <1>9 DEF ConvertBlock

LEMMA FedSpritesStart == ASSUME Inv, FedSprites, StartSprite \/ StartScript PROVE FedSprites'
<1>1. phase = "sprites" /\ UNCHANGED <<project, wanted, scripts, at, scene>> /\ here \in Sprites
  BY DEF StartSprite, StartScript, Inv, TypeOK
<1>2. CASE StartSprite
  <2>1. here'.scripts = <<>>
    BY <1>2 DEF StartSprite, NewSprite
  <2>2. MirrorsSprite(at, here')
    BY <2>1 DEF MirrorsSprite
  <2> QED BY <1>1, <2>2, FedSpritesHere
<1>3. CASE StartScript
  <2>1. here # NoSprite /\ here'.scripts = Append(here.scripts, <<>>)
    BY <1>1, <1>3 DEF StartScript, Sprites
  <2>2. here.scripts \in Seq(Seq(AnyBricks)) /\ <<>> \in Seq(AnyBricks) /\ DOMAIN <<>> = {}
    BY <1>1 DEF Sprites
  <2>3. \A k \in DOMAIN here'.scripts :
          (k \in DOMAIN here.scripts /\ here'.scripts[k] = here.scripts[k]) \/ here'.scripts[k] = <<>>
    BY <2>1, <2>2
  <2>4. MirrorsSprite(at, here)
    BY <1>1, <2>1, HereFacts DEF FedSprites, Begun
  <2>5. MirrorsSprite(at, here')
    BY <2>2, <2>3, <2>4 DEF MirrorsSprite
  <2> QED BY <1>1, <2>5, FedSpritesHere
<1> QED BY <1>2, <1>3

LEMMA FedSpritesFinish == ASSUME Inv, StartInv, FedSprites, FinishSprite PROVE FedSprites'
<1> DEFINE sprite == [here EXCEPT !.starts = DefaultBehaviour]
<1>1. /\ phase = "sprites" /\ here # NoSprite /\ ScriptEnded /\ Converted = Len(scripts[at])
      /\ scene' = Append(scene, sprite) /\ here' = NoSprite
      /\ UNCHANGED <<project, wanted, scripts>>
  BY DEF FinishSprite
<1>2. here \in Sprites /\ scene \in Seq(Sprites) /\ here.scripts \in Seq(Seq(AnyBricks))
  BY DEF Inv, TypeOK, Sprites
<1>3. sprite \in Sprites /\ sprite.scripts = here.scripts
  <2>1. DefaultBehaviour \in SUBSET {"settings", "variables", "answer", "shown"}
    BY DEF DefaultBehaviour
  <2> HIDE DEF DefaultBehaviour
  <2> QED BY <1>2, <2>1 DEF Sprites
<1> HIDE DEF sprite
<1>4. /\ at \in 1..Len(objects) /\ DOMAIN objects = 1..Len(objects) /\ Len(objects) \in Nat /\ DOMAIN scene = 1..(at - 1)
      /\ scripts[at] \in Seq(Scripts)
  BY <1>1, HereFacts
<1>5. /\ DOMAIN scene' = 1..at /\ scene'[at] = sprite /\ \A i \in DOMAIN scene : scene'[i] = scene[i]
  BY <1>1, <1>2, <1>3, <1>4
<1>6. \A k \in DOMAIN scripts[at] : Len(here.scripts[k]) = Len(scripts[at][k].blocks)
  <2> TAKE k \in DOMAIN scripts[at]
  <2>1. k \in 1..Converted /\ Converted \in Nat
    BY <1>1, <1>2, <1>4 DEF Converted
  <2>2. CASE k = Converted
    BY <1>1, <2>1, <2>2 DEF ScriptEnded, Bricks, Source
  <2>3. CASE k # Converted
    BY <1>1, <2>1, <2>3 DEF StartInv, StartedHere
  <2> QED BY <2>2, <2>3
<1>7. MirrorsSprite(at, sprite)
  <2>1. MirrorsSprite(at, here)
    BY <1>1, HereFacts DEF FedSprites, Begun
  <2> QED BY <1>3, <2>1 DEF MirrorsSprite
<1>8. objects' = objects /\ scripts' = scripts
  BY <1>1 DEF objects
<1>9. \A i \in DOMAIN objects : Begun(i)' => MirrorsSprite(i, SpriteOf(i)')
  <2> TAKE i \in DOMAIN objects
  <2>1. CASE i = at
    <3>1. SpriteOf(i)' = sprite
      BY <1>4, <1>5, <2>1 DEF SpriteOf
    <3> QED BY <1>7, <2>1, <3>1
  <2>2. CASE i # at
    <3>1. Begun(i)' => i \in DOMAIN scene
      BY <1>1, <1>4, <1>5, <2>2 DEF Begun
    <3>2. i \in DOMAIN scene => i \in DOMAIN scene' /\ Begun(i) /\ SpriteOf(i)' = SpriteOf(i)
      BY <1>4, <1>5 DEF Begun, SpriteOf
    <3> QED BY <3>1, <3>2 DEF FedSprites
  <2> QED BY <2>1, <2>2
<1>10. \A i \in DOMAIN scene' : i \in DOMAIN objects => \A k \in DOMAIN scripts[i] : Len(scene'[i].scripts[k]) = Len(scripts[i][k].blocks)
  <2>1. \A i \in DOMAIN scene' : i = at \/ i \in DOMAIN scene
    BY <1>4, <1>5
  <2> QED BY <1>3, <1>5, <1>6, <2>1 DEF FedSprites
<1>11. \A i \in DOMAIN scene' : i \in DOMAIN objects
  BY <1>4, <1>5
<1>12. \A i \in DOMAIN objects : Begun(i)' => MirrorsSprite(i, SpriteOf(i))'
  BY <1>1, <1>9, SameMirrors
<1> QED BY <1>8, <1>10, <1>11, <1>12 DEF FedSprites

LEMMA FedSpritesCursor == ASSUME Inv, FedSprites, AddCursorSprite PROVE FedSprites'
<1>1. phase = "cursor" /\ UNCHANGED <<project, wanted, scripts, here, at>> /\ here = NoSprite
  BY DEF AddCursorSprite, Inv, InOrder
<1>2. /\ scene \in Seq(Sprites) /\ Len(scene) = Len(objects) /\ Len(objects) \in Nat /\ DOMAIN objects = 1..Len(objects)
      /\ DOMAIN scene = DOMAIN objects
  BY <1>1, ProjectFacts DEF Inv, TypeOK, InOrder
<1> DEFINE asked   == Mouse \in wanted.positions
           set     == Brick("setVar:to:", "position", Mouse, Everyone, "saved")
           pointer == [NoSprite EXCEPT !.id = SpriteFor(Mouse), !.scripts = If(asked, <<set>>)]
<1>3. scene' = scene \/ scene' = Append(scene, pointer)
  BY DEF AddCursorSprite
<1>4. IsPointer(pointer)
  <2>1. pointer.id.name = Mouse /\ pointer.scripts = If(asked, <<set>>)
    BY DEF NoSprite, NewSprite, SpriteFor, SpriteId
  <2>2. set.op = "setVar:to:"
    BY DEF Brick
  <2> HIDE DEF set, pointer
  <2>3. asked => BricksOf(pointer) = {set}
    <3>1. asked => pointer.scripts = <<<<set>>>>
      BY <2>1 DEF If
    <3>2. ToSet(<<set>>) = {set}
      BY DEF ToSet
    <3> QED BY <3>1, <3>2 DEF BricksOf
  <2>4. ~asked => BricksOf(pointer) = {}
    <3>1. ~asked => pointer.scripts = <<>>
      BY <2>1 DEF If
    <3> QED BY <3>1 DEF BricksOf
  <2> QED BY <2>1, <2>2, <2>3, <2>4 DEF IsPointer, set
<1> HIDE DEF pointer
<1>5. /\ DOMAIN objects \subseteq DOMAIN scene' /\ \A i \in DOMAIN objects : scene'[i] = scene[i]
      /\ \A i \in DOMAIN scene' \ DOMAIN objects : scene'[i] = pointer
  <2>1. scene \in Seq(Sprites \union {pointer})
    BY <1>2, SeqMonotonic
  <2> QED BY <1>2, <1>3, <2>1
<1>6. objects' = objects /\ scripts' = scripts
  BY <1>1 DEF objects
<1>7. \A i \in DOMAIN objects : Begun(i) /\ SpriteOf(i)' = SpriteOf(i)
  BY <1>2, <1>5 DEF Begun, SpriteOf
<1>8. \A i \in DOMAIN objects : MirrorsSprite(i, SpriteOf(i))'
  BY <1>1, <1>7, SameMirrors DEF FedSprites
<1>9. \A i \in DOMAIN scene' : i \in DOMAIN objects => \A k \in DOMAIN scripts[i] : Len(scene'[i].scripts[k]) = Len(scripts[i][k].blocks)
  BY <1>2, <1>5 DEF FedSprites
<1>10. \A i \in DOMAIN scene' : i \notin DOMAIN objects => IsPointer(scene'[i])
  BY <1>4, <1>5
<1> QED BY <1>1, <1>6, <1>8, <1>9, <1>10, SameAsked DEF FedSprites

LEMMA FedSpritesNext == Inv /\ StartInv /\ FedInv /\ [Next]_vars => FedSprites'
<1> SUFFICES ASSUME Inv, StartInv, FedInv, [Next]_vars PROVE FedSprites'
  OBVIOUS
<1>1. CASE PreprocessObject \/ AddHelpers
  <2>1. /\ phase \in {"objects", "helpers"} /\ UNCHANGED <<here, scene>>
    BY <1>1 DEF PreprocessObject, AddHelpers
  <2>2. scene' = <<>> /\ here' = NoSprite
    BY <2>1 DEF Inv, InOrder
  <2> QED BY <2>2 DEF FedSprites, Begun
<1>2. CASE StartSprite \/ StartScript
  BY <1>2, FedSpritesStart DEF FedInv
<1>3. CASE ConvertBlock
  BY <1>3, FedSpritesConvertBlock DEF FedInv
<1>4. CASE FinishSprite
  BY <1>4, FedSpritesFinish DEF FedInv
<1>5. CASE AddCursorSprite
  BY <1>5, FedSpritesCursor DEF FedInv
<1>6. CASE AddSpaceSprite \/ (\E k \in keys \union {[key |-> "a", type |-> "any"]} : AddKeySprite(k)) \/ Ended \/ UNCHANGED vars
  <2>1. UNCHANGED <<project, wanted, scripts, at, here, scene>>
    BY <1>6 DEF AddSpaceSprite, AddKeySprite, Ended, vars
  <2>2. objects' = objects /\ \A i : (Begun(i)' <=> Begun(i)) /\ SpriteOf(i)' = SpriteOf(i)
    BY <2>1 DEF objects, Begun, SpriteOf
  <2>3. \A i \in DOMAIN objects : Begun(i)' => MirrorsSprite(i, SpriteOf(i))'
    BY <2>1, <2>2, SameMirrors DEF FedInv, FedSprites
  <2> QED BY <2>1, <2>2, <2>3, SameAsked DEF FedInv, FedSprites
<1> QED BY <1>1, <1>2, <1>3, <1>4, <1>5, <1>6 DEF Next

LEMMA FedInvInit == Init => FedInv
<1> SUFFICES ASSUME Init PROVE FedInv
  OBVIOUS
<1>1. /\ scripts = <<>> /\ phase = "objects" /\ scene = <<>> /\ here = NoSprite /\ variables["saved"] = {}
  BY DEF Init, Programs
<1>2. FedScripts
  BY <1>1 DEF FedScripts, BeforeSprites
<1>3. FedVariables
  BY <1>1 DEF FedVariables, Begun
<1>4. FedSprites
  BY <1>1 DEF FedSprites, Begun
<1> QED BY <1>2, <1>3, <1>4 DEF FedInv

LEMMA FedInvNext == Inv /\ StartInv /\ FedInv /\ [Next]_vars => FedInv'
BY FedScriptsNext, FedVariablesNext, FedSpritesNext DEF FedInv

\* At the end every sprite has a brick for every block of its scripts.
LEMMA EveryBlockHasABrick ==
  ASSUME Inv, FedInv, phase = "done", NEW i \in DOMAIN objects
  PROVE  /\ i \in DOMAIN scene /\ scene[i].id.name = objects[i].name /\ DOMAIN scene[i].scripts = DOMAIN scripts[i]
         /\ \A k \in DOMAIN scripts[i] :
              /\ DOMAIN scene[i].scripts[k] = DOMAIN scripts[i][k].blocks
              /\ \A n \in DOMAIN scripts[i][k].blocks : Mirrors(i, scene[i].scripts[k][n], scripts[i][k].blocks[n])
         /\ \A b : b \in BricksOf(scene[i]) <=>
                     \E k \in DOMAIN scripts[i] : \E n \in DOMAIN scripts[i][k].blocks : b = scene[i].scripts[k][n]
<1>1. /\ i \in DOMAIN scene /\ scene[i] \in Sprites /\ SpriteInv(i, scene[i]) /\ scripts[i] \in Seq(Scripts)
      /\ Begun(i) /\ SpriteOf(i) = scene[i]
  BY AtTheEnd DEF Begun, SpriteOf
<1>2. /\ scene[i].id.name = objects[i].name /\ MirrorsSprite(i, scene[i])
      /\ Len(scene[i].scripts) = Len(scripts[i])
      /\ \A k \in DOMAIN scripts[i] : Len(scene[i].scripts[k]) = Len(scripts[i][k].blocks)
  BY <1>1 DEF SpriteInv, FedInv, FedSprites, Inv
<1>3. scene[i].scripts \in Seq(Seq(AnyBricks))
  BY <1>1 DEF Sprites
<1>4. DOMAIN scene[i].scripts = DOMAIN scripts[i]
  BY <1>1, <1>2, <1>3
<1>5. \A k \in DOMAIN scripts[i] : DOMAIN scene[i].scripts[k] = DOMAIN scripts[i][k].blocks
  <2> TAKE k \in DOMAIN scripts[i]
  <2>1. scripts[i][k] \in Scripts
    BY <1>1
  <2>2. scripts[i][k].blocks \in Seq(Blocks) /\ scene[i].scripts[k] \in Seq(AnyBricks)
    BY <1>3, <1>4, <2>1 DEF Scripts
  <2> QED BY <1>2, <2>2
<1>6. \A k \in DOMAIN scripts[i] : \A n \in DOMAIN scripts[i][k].blocks : Mirrors(i, scene[i].scripts[k][n], scripts[i][k].blocks[n])
  BY <1>2, <1>4, <1>5 DEF MirrorsSprite
<1>7. \A b : b \in BricksOf(scene[i]) <=>
               \E k \in DOMAIN scripts[i] : \E n \in DOMAIN scripts[i][k].blocks : b = scene[i].scripts[k][n]
  <2>1. \A b : b \in BricksOf(scene[i]) <=>
                 \E k \in DOMAIN scene[i].scripts : \E n \in DOMAIN scene[i].scripts[k] : b = scene[i].scripts[k][n]
    BY DEF BricksOf, ToSet
  <2> QED BY <1>4, <1>5, <2>1
<1> QED BY <1>1, <1>2, <1>4, <1>5, <1>6, <1>7

\* A helper script that sets a generated variable does so in the sprite of its object.
LEMMA HelperSets ==
  ASSUME Inv, FedInv, phase = "done", NEW j \in DOMAIN objects, Unaffected(j),
         NEW op \in {"setVar:to:", "changeVar:by:"}, NEW kind \in Fed, NEW name,
         Holds(Helpful(j), GreenFlag(<<Block(op, kind, name)>>))
  PROVE  SetsFor(j, kind, name)
<1> DEFINE block == Block(op, kind, name)
<1>1. block.op = op /\ block.kind = kind /\ block.name = name
  BY DEF Block
<1>2. PICK h \in DOMAIN Helpful(j) : Helpful(j)[h] = GreenFlag(<<block>>)
  BY DEF Holds
<1>3. GreenFlag(<<block>>).blocks = <<block>>
  BY DEF GreenFlag, Script
<1> HIDE DEF block
<1>4. PICK k \in DOMAIN scripts[j] : scripts[j][k].blocks = <<block>>
  <2>1. ~BeforeSprites /\ phase # "failed" /\ FedScripts
    BY DEF BeforeSprites, FedInv
  <2>2. h + Len(objects[j].scripts) \in DOMAIN scripts[j] /\ scripts[j][h + Len(objects[j].scripts)] = Helpful(j)[h]
    BY <2>1, ScriptsOfObject
  <2> QED BY <1>2, <1>3, <2>2
<1>5. 1 \in DOMAIN <<block>> /\ <<block>>[1] = block
  OBVIOUS
<1> DEFINE b == scene[j].scripts[k][1]
<1>6. b \in BricksOf(scene[j]) /\ Mirrors(j, b, block)
  <2>1. 1 \in DOMAIN scripts[j][k].blocks /\ scripts[j][k].blocks[1] = block
    BY <1>4, <1>5
  <2>2. Mirrors(j, b, scripts[j][k].blocks[1])
    BY <1>4, <2>1, EveryBlockHasABrick
  <2>3. b \in BricksOf(scene[j])
    BY <1>4, <2>1, EveryBlockHasABrick
  <2> QED BY <2>1, <2>2, <2>3
<1>7. b.op = op /\ b.kind = kind /\ b.name = name /\ b.in = "saved" /\ b.owner = Everyone
  BY <1>1, <1>6 DEF Mirrors
<1> QED BY <1>6, <1>7 DEF SetsFor

LEMMA ReadVariablesAreSet == Inv /\ FedInv /\ phase = "done" => VariablesRead
<1> SUFFICES ASSUME Inv, FedInv, phase = "done", NEW i \in DOMAIN scene, NEW b \in BricksOf(scene[i]), b.op = "readVariable",
                    NEW j \in DOMAIN scene, b.kind \in Fed,
                    scene[j].id.name = (IF b.kind = "timer" THEN Stage ELSE b.name), j \in DOMAIN objects => Unaffected(j)
             PROVE  SetsFor(j, b.kind, b.name)
  BY DEF VariablesRead, Fed
<1>1. FedScripts /\ FedSprites /\ ~BeforeSprites /\ phase # "failed"
  BY DEF FedInv, BeforeSprites
<1>2. i \in DOMAIN objects
  BY <1>1 DEF FedSprites, IsPointer
<1>3. PICK k \in DOMAIN scripts[i] :
        \E n \in DOMAIN scripts[i][k].blocks : b = scene[i].scripts[k][n] /\ Mirrors(i, b, scripts[i][k].blocks[n])
  <2>1. PICK k \in DOMAIN scripts[i] : \E n \in DOMAIN scripts[i][k].blocks : b = scene[i].scripts[k][n]
    <3>1. \A c : c \in BricksOf(scene[i]) <=>
            \E k \in DOMAIN scripts[i] : \E n \in DOMAIN scripts[i][k].blocks : c = scene[i].scripts[k][n]
      BY <1>2, EveryBlockHasABrick, Zenon
    <3> QED BY <3>1
  <2>2. \A n \in DOMAIN scripts[i][k].blocks : Mirrors(i, scene[i].scripts[k][n], scripts[i][k].blocks[n])
    BY <1>2, <2>1, EveryBlockHasABrick
  <2> QED BY <2>1, <2>2
<1>4. PICK n \in DOMAIN scripts[i][k].blocks : b = scene[i].scripts[k][n] /\ Mirrors(i, b, scripts[i][k].blocks[n])
  BY <1>3
<1>5. LET block == scripts[i][k].blocks[n] IN block.op = "readVariable" /\ block.kind = b.kind /\ block.name = b.name
  BY <1>4 DEF Mirrors
<1>6. /\ b.kind = "timer" => wanted.timer /\ b.name = ""
      /\ b.kind = "position" => b.name \in wanted.positions
      /\ b.kind = "attribute" => b.name \in wanted.attributes
  <2> DEFINE block == scripts[i][k].blocks[n]
  <2>1. block.op = "readVariable" =>
          /\ block.kind = "timer" => wanted.timer /\ block.name = ""
          /\ block.kind = "position" => block.name \in wanted.positions
          /\ block.kind = "attribute" => block.name \in wanted.attributes
    BY <1>1, <1>2, <1>3, <1>4, BlocksOfObject
  <2> QED BY <1>5, <2>1
<1>7. CASE j \in DOMAIN objects
  <2>1. scene[j].id.name = objects[j].name /\ objects[j].name # Mouse
    BY <1>1, <1>7, EveryBlockHasABrick, ScriptsOfObject
  <2>2. /\ objects[j].name = Stage /\ wanted.timer => Holds(Helpful(j), TimerScript)
        /\ objects[j].name \in wanted.positions \ {Mouse} => Holds(Helpful(j), PositionScript(objects[j].name))
        /\ objects[j].name \in wanted.attributes => Holds(Helpful(j), AttributeScript(objects[j].name))
    BY HelpersFeed DEF Helpful
  <2>3. CASE b.kind = "timer"
    <3>1. Holds(Helpful(j), GreenFlag(<<Block("changeVar:by:", "timer", "")>>))
      BY <1>6, <2>1, <2>2, <2>3 DEF TimerScript
    <3> QED BY <1>6, <1>7, <2>3, <3>1, HelperSets
  <2>4. CASE b.kind = "position"
    <3>1. Holds(Helpful(j), GreenFlag(<<Block("setVar:to:", "position", b.name)>>))
      BY <1>6, <2>1, <2>2, <2>4 DEF PositionScript
    <3> QED BY <1>6, <1>7, <2>4, <3>1, HelperSets
  <2>5. CASE b.kind = "attribute"
    <3>1. Holds(Helpful(j), GreenFlag(<<Block("setVar:to:", "attribute", b.name)>>))
      BY <1>6, <2>1, <2>2, <2>5 DEF AttributeScript
    <3> QED BY <1>6, <1>7, <2>5, <3>1, HelperSets
  <2> QED BY <2>3, <2>4, <2>5 DEF Fed
<1>8. CASE j \notin DOMAIN objects
  <2>1. IsPointer(scene[j]) /\ scene[j].id.name = Mouse
    BY <1>1, <1>8 DEF FedSprites, IsPointer
  <2>2. Mouse \notin wanted.attributes
    <3>1. wanted.attributes \subseteq Names /\ \A o \in DOMAIN objects : objects[o].name # Mouse
      BY <1>1, <1>2, ScriptsOfObject
    <3> QED BY <3>1 DEF Names
  <2>3. b.kind = "position" /\ b.name = Mouse
    BY <1>6, <2>1, <2>2 DEF Fed, Stage, Mouse
  <2>4. Brick("setVar:to:", "position", Mouse, Everyone, "saved") \in BricksOf(scene[j])
    BY <1>6, <2>1, <2>3 DEF IsPointer
  <2> QED BY <2>3, <2>4 DEF SetsFor, Brick
<1> QED BY <1>7, <1>8

\* Of the helper scripts of an object only the first and the third part of the stage's timer scripts count.
Counts(s) == \E n \in DOMAIN s.blocks : s.blocks[n].op = "changeVar:by:" /\ s.blocks[n].kind = "timer"

LEMMA CountsInFirst ==
  ASSUME NEW s, NEW t, Joined(s, t), NEW k \in DOMAIN (s \o t), Counts((s \o t)[k]), \A n \in DOMAIN t : ~Counts(t[n])
  PROVE  k \in DOMAIN s /\ (s \o t)[k] = s[k]
BY DEF Joined

TimerWatched == \E m \in project.monitors : m.cmd = "timer"
FirstCount  == If(wanted.timer \/ wanted.reset, TimerScript)
Reset       == If(wanted.reset, TimerResetScript)
SecondCount == If(~wanted.timer /\ TimerWatched, TimerScript)

LEMMA CountingHelpers ==
  ASSUME NEW i \in DOMAIN objects, NEW k \in DOMAIN Helpful(i), Counts(Helpful(i)[k])
  PROVE  \/ (wanted.timer \/ wanted.reset) /\ k = 1
         \/ ~wanted.timer /\ TimerWatched /\ k = Len(FirstCount \o Reset) + 1
<1> DEFINE name  == objects[i].name
           parts == HelperParts(objects[i], wanted, project.monitors)
<1>1. /\ ~Counts(TimerResetScript) /\ ~Counts(PositionScript(name)) /\ ~Counts(AttributeScript(name)) /\ ~Counts(SensorScript(name))
  <2>1. \A hat, arg, b : b.op # "changeVar:by:" => ~Counts(Script(hat, arg, <<b>>))
    <3>1. \A hat, arg, b : Script(hat, arg, <<b>>).blocks = <<b>>
      BY DEF Script
    <3>2. \A b : \A n \in DOMAIN <<b>> : <<b>>[n] = b
      OBVIOUS
    <3> SUFFICES ASSUME NEW hat, NEW arg, NEW b, b.op # "changeVar:by:", NEW n \in DOMAIN Script(hat, arg, <<b>>).blocks
                 PROVE  Script(hat, arg, <<b>>).blocks[n].op # "changeVar:by:"
      BY DEF Counts
    <3>3. Script(hat, arg, <<b>>).blocks[n] = b
      BY <3>1, <3>2
    <3> QED BY <3>3
  <2>2. \A kind, n : Block("setVar:to:", kind, n).op # "changeVar:by:"
    BY DEF Block
  <2> QED BY <2>1, <2>2 DEF TimerResetScript, PositionScript, AttributeScript, SensorScript, GreenFlag
<1> DEFINE S == {TimerScript, TimerResetScript, PositionScript(name), AttributeScript(name), SensorScript(name)}
<1>2. /\ Helpful(i) = ((parts.timer \o parts.position) \o parts.sensor) \o parts.attribute
      /\ parts.timer \in Seq({TimerScript, TimerResetScript}) /\ parts.timer \in Seq(S)
      /\ parts.position \in Seq({PositionScript(name)}) /\ parts.position \in Seq(S)
      /\ parts.sensor \in Seq({SensorScript(name)}) /\ parts.sensor \in Seq(S)
      /\ parts.attribute \in Seq({AttributeScript(name)})
  BY HelperPartsType DEF Helpful
<1>3. parts.timer = IF name = Stage THEN TimerScripts(wanted, project.monitors) ELSE <<>>
  BY DEF HelperParts
<1> HIDE DEF parts, name, S
<1>4. k \in DOMAIN parts.timer /\ Helpful(i)[k] = parts.timer[k]
  <2>1. \A s, t \in Seq(S) : s \o t \in Seq(S)
    OBVIOUS
  <2>2. PICK one \in Seq(S), two \in Seq(S) : one = parts.timer \o parts.position /\ two = one \o parts.sensor
    BY <1>2, <2>1
  <2>3. Joined(parts.timer, parts.position) /\ Joined(one, parts.sensor) /\ Joined(two, parts.attribute)
    BY <1>2, JoinedAt
  <2>4. \A n : /\ n \in DOMAIN parts.position => ~Counts(parts.position[n])
               /\ n \in DOMAIN parts.sensor => ~Counts(parts.sensor[n])
               /\ n \in DOMAIN parts.attribute => ~Counts(parts.attribute[n])
    <3>1. \A n : /\ n \in DOMAIN parts.position => parts.position[n] = PositionScript(name)
                 /\ n \in DOMAIN parts.sensor => parts.sensor[n] = SensorScript(name)
                 /\ n \in DOMAIN parts.attribute => parts.attribute[n] = AttributeScript(name)
      BY <1>2
    <3> QED BY <1>1, <3>1
  <2>5. Helpful(i) = two \o parts.attribute
    BY <1>2, <2>2
  <2>6. k \in DOMAIN two /\ Helpful(i)[k] = two[k]
    BY <2>3, <2>4, <2>5, CountsInFirst
  <2>7. k \in DOMAIN one /\ two[k] = one[k]
    <3>1. k \in DOMAIN (one \o parts.sensor) /\ Counts((one \o parts.sensor)[k]) /\ (one \o parts.sensor)[k] = two[k]
      BY <2>2, <2>6
    <3> QED BY <2>3, <2>4, <3>1, CountsInFirst
  <2>8. k \in DOMAIN parts.timer /\ one[k] = parts.timer[k]
    <3>1. /\ k \in DOMAIN (parts.timer \o parts.position) /\ Counts((parts.timer \o parts.position)[k])
          /\ (parts.timer \o parts.position)[k] = one[k]
      BY <2>2, <2>6, <2>7
    <3>2. Joined(parts.timer, parts.position) /\ \A n \in DOMAIN parts.position : ~Counts(parts.position[n])
      BY <2>3, <2>4
    <3> QED BY <3>1, <3>2 DEF Joined
  <2> QED BY <2>6, <2>7, <2>8
<1>5. name = Stage
  BY <1>3, <1>4
<1> DEFINE T == {TimerScript, TimerResetScript}
<1>6. /\ parts.timer = (FirstCount \o Reset) \o SecondCount
      /\ FirstCount \in Seq(T) /\ Reset \in Seq(T) /\ SecondCount \in Seq(T) /\ FirstCount \o Reset \in Seq(T)
  <2>1. \A c, s, R : s \in R => If(c, s) \in Seq(R)
    BY DEF If
  <2>2. FirstCount \in Seq(T) /\ Reset \in Seq(T) /\ SecondCount \in Seq(T)
    BY <2>1 DEF FirstCount, Reset, SecondCount
  <2>3. parts.timer = (FirstCount \o Reset) \o SecondCount
    BY <1>3, <1>5 DEF TimerScripts, FirstCount, Reset, SecondCount, TimerWatched
  <2> HIDE DEF T
  <2> QED BY <2>2, <2>3
<1>7. Joined(FirstCount, Reset) /\ Joined(FirstCount \o Reset, SecondCount)
  BY <1>6, JoinedAt
<1>8. /\ DOMAIN FirstCount = (IF wanted.timer \/ wanted.reset THEN {1} ELSE {})
      /\ DOMAIN SecondCount = (IF ~wanted.timer /\ TimerWatched THEN {1} ELSE {})
      /\ \A n \in DOMAIN Reset : Reset[n] = TimerResetScript
  <2>1. \A c \in BOOLEAN : \A s : DOMAIN If(c, s) = (IF c THEN {1} ELSE {}) /\ \A n \in DOMAIN If(c, s) : If(c, s)[n] = s
    BY DEF If
  <2>2. \A c, s : \A n \in DOMAIN If(c, s) : If(c, s)[n] = s
    BY DEF If
  <2>3. /\ DOMAIN FirstCount = (IF wanted.timer \/ wanted.reset THEN {1} ELSE {})
        /\ DOMAIN SecondCount = (IF ~wanted.timer /\ TimerWatched THEN {1} ELSE {})
    BY DEF FirstCount, SecondCount, If
  <2> QED BY <2>2, <2>3 DEF Reset
<1>9. CASE k \in DOMAIN (FirstCount \o Reset) /\ parts.timer[k] = (FirstCount \o Reset)[k]
  <2>1. k \in DOMAIN FirstCount
    BY <1>1, <1>4, <1>7, <1>8, <1>9 DEF Joined
  <2> QED BY <1>8, <2>1
<1>10. CASE k - Len(FirstCount \o Reset) \in DOMAIN SecondCount
  <2>1. Len(FirstCount \o Reset) \in Nat /\ k \in Nat
    BY <1>2, <1>4, <1>6
  <2> QED BY <1>8, <1>10, <2>1
<1> QED BY <1>4, <1>6, <1>7, <1>9, <1>10 DEF Joined

LEMMA TimerIsCountedOnce == Inv /\ FedInv /\ phase = "done" => TimerRunsOnce
<1> SUFFICES ASSUME Inv, FedInv, phase = "done" PROVE TimerRunsOnce
  OBVIOUS
<1> DEFINE counting == {k \in DOMAIN scene[1].scripts :
                          \E b \in ToSet(scene[1].scripts[k]) : b.op = "changeVar:by:" /\ b.kind = "timer"}
           own      == Len(objects[1].scripts)
           first    == own + 1
           second   == own + Len(FirstCount \o Reset) + 1
<1>1. FedScripts /\ ~BeforeSprites /\ phase # "failed" /\ 1 \in DOMAIN objects
  <2>1. 1 \in DOMAIN objects
    BY ProjectFacts DEF Inv, TypeOK
  <2> QED BY <2>1 DEF FedInv, BeforeSprites
<1>2. ASSUME NEW k \in counting
      PROVE  \/ (wanted.timer \/ wanted.reset) /\ k = first
             \/ ~wanted.timer /\ TimerWatched /\ k = second
  <2>1. PICK n \in DOMAIN scene[1].scripts[k] : scene[1].scripts[k][n].op = "changeVar:by:" /\ scene[1].scripts[k][n].kind = "timer"
    BY <1>2 DEF ToSet
  <2>2. k \in DOMAIN scripts[1] /\ n \in DOMAIN scripts[1][k].blocks /\ Mirrors(1, scene[1].scripts[k][n], scripts[1][k].blocks[n])
    BY <1>1, <2>1, EveryBlockHasABrick
  <2> DEFINE b == scripts[1][k].blocks[n]
  <2>3. b.op = "changeVar:by:" /\ b.kind = "timer"
    BY <2>1, <2>2 DEF Mirrors
  <2>4. ~(k \in DOMAIN objects[1].scripts /\ scripts[1][k] = preprocessed(objects[1], Names)[k])
    <3> SUFFICES ASSUME k \in DOMAIN objects[1].scripts, scripts[1][k] = preprocessed(objects[1], Names)[k] PROVE FALSE
      OBVIOUS
    <3>1. objects[1] \in SourceObjects
      BY <1>1, ScriptsOfObject
    <3>2. \A m \in DOMAIN scripts[1][k].blocks :
            scripts[1][k].blocks[m].op \in {"setVar:to:", "changeVar:by:"} => scripts[1][k].blocks[m].kind \notin Fed
      BY <3>1, PreparedBlock
    <3> QED BY <2>2, <2>3, <3>2 DEF Fed
  <2>5. k - own \in DOMAIN Helpful(1) /\ scripts[1][k] = Helpful(1)[k - own]
    BY <1>1, <2>2, <2>4, ScriptsOfObject
  <2>6. Counts(Helpful(1)[k - own])
    BY <2>2, <2>3, <2>5 DEF Counts
  <2>7. \/ (wanted.timer \/ wanted.reset) /\ k - own = 1
        \/ ~wanted.timer /\ TimerWatched /\ k - own = Len(FirstCount \o Reset) + 1
    BY <1>1, <2>5, <2>6, CountingHelpers
  <2>8. k \in Int /\ own \in Int /\ Len(FirstCount \o Reset) \in Int
    <3>1. scripts[1] \in Seq(Scripts) /\ objects[1] \in SourceObjects
      BY <1>1, ScriptsOfObject
    <3>2. objects[1].scripts \in Seq(SourceScripts)
      BY <3>1 DEF SourceObjects
    <3>3. \A c, s, R : s \in R => If(c, s) \in Seq(R)
      BY DEF If
    <3>4. FirstCount \in Seq({TimerScript, TimerResetScript}) /\ Reset \in Seq({TimerScript, TimerResetScript})
      BY <3>3 DEF FirstCount, Reset
    <3> QED BY <2>2, <3>1, <3>2, <3>4
  <2>9. (k - own = 1 => k = first) /\ (k - own = Len(FirstCount \o Reset) + 1 => k = second)
    <3>1. \A x, y, z \in Int : (x - y = 1 => x = y + 1) /\ (x - y = z + 1 => x = y + z + 1)
      OBVIOUS
    <3>2. PICK x \in Int, y \in Int, z \in Int : x = k /\ y = own /\ z = Len(FirstCount \o Reset)
      BY <2>8
    <3>3. (x - y = 1 => x = y + 1) /\ (x - y = z + 1 => x = y + z + 1)
      BY <3>1
    <3> QED BY <3>2, <3>3
  <2> HIDE DEF first, second, own
  <2> QED BY <2>7, <2>9
<1> HIDE DEF counting, first, second
<1>3. /\ IsFiniteSet({first, second}) /\ Cardinality({first, second}) <= 2 /\ Cardinality({first, second}) \in Nat
      /\ \A x : IsFiniteSet({x}) /\ Cardinality({x}) = 1
  <2>1. \A x : IsFiniteSet({x}) /\ Cardinality({x}) = 1
    BY FS_Singleton
  <2>2. {first, second} = {first} \union {second}
    OBVIOUS
  <2>3. /\ IsFiniteSet({first} \union {second})
        /\ Cardinality({first} \union {second}) = IF second \in {first} THEN Cardinality({first}) ELSE Cardinality({first}) + 1
    BY <2>1, FS_AddElement
  <2>4. Cardinality({first}) = 1
    BY <2>1
  <2>5. Cardinality({first, second}) \in {1, 2} /\ IsFiniteSet({first, second})
    BY <2>2, <2>3, <2>4
  <2>6. \A n \in {1, 2} : n <= 2 /\ n \in Nat
    OBVIOUS
  <2> QED BY <2>1, <2>5, <2>6
<1>4. counting \subseteq {first, second}
  BY <1>2
<1>5. IsFiniteSet(counting) /\ Cardinality(counting) <= 2 /\ Cardinality(counting) \in Nat
  <2>1. IsFiniteSet(counting) /\ Cardinality(counting) <= Cardinality({first, second})
    BY <1>3, <1>4, FS_Subset
  <2>2. Cardinality(counting) \in Nat
    BY <2>1, FS_CardinalityType
  <2> QED BY <1>3, <2>1, <2>2
<1>6. Cardinality(counting) > 1 => wanted.reset /\ ~wanted.timer
  <2> SUFFICES ASSUME ~(wanted.reset /\ ~wanted.timer) PROVE ~(Cardinality(counting) > 1)
    OBVIOUS
  <2>1. PICK x : counting \subseteq {x}
    <3>1. CASE wanted.timer
      BY <1>2, <3>1
    <3>2. CASE ~wanted.timer /\ ~wanted.reset
      BY <1>2, <3>2
    <3> QED BY <3>1, <3>2
  <2>2. Cardinality(counting) <= Cardinality({x})
    BY <1>3, <2>1, FS_Subset
  <2> QED BY <1>3, <1>5, <2>2
<1>7. Cardinality(counting) > 1 => Cardinality(counting) = 2 /\ wanted.reset /\ ~wanted.timer
  BY <1>5, <1>6
<1> QED BY <1>7 DEF counting, TimerRunsOnce

\* A generated variable that is read is set for all sprites by a script of the sprite it is about, and the timer is
\* counted once, but for a project that resets the timer, never reads it, and shows it.
THEOREM GeneratedAreFed == Spec => []GeneratedVariablesAreFed
<1>1. Inv /\ FedInv => GeneratedVariablesAreFed
  BY ReadVariablesAreSet, TimerIsCountedOnce DEF GeneratedVariablesAreFed
<1> QED BY <1>1, FedInvInit, FedInvNext, StartInvInit, StartInvNext, Invariance, PTL DEF Spec
=============================================================================
