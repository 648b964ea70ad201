-------------------------- MODULE MCSpriteConversion --------------------------
(***************************************************************************)
(* SpriteConversion for TLC: a stage and two sprites that name each other, *)
(* sprites that are gone and the mouse pointer, with everything that needs *)
(* a helper; a stage that waits for several keys; and a sprite that calls  *)
(* a custom block and defines it.                                          *)
(***************************************************************************)
EXTENDS SpriteConversion, TLC

Formula(blocks) == Script("whenSensorFormula", "loudness", blocks)
Key(k)          == Script("whenKeyPressed", k, <<>>)
Does(op, name)  == GreenFlag(<<Block(op, "sprite", name)>>)
SetV            == Block("setVar:to:", "user", "v")
AppendL         == Block("append:toList:", "list", "l")
Red(op)         == Block(op, "user", "red")
Pen             == Block("penColor:", "good", "")

StageScripts ==
  { <<>>, <<Does("gotoSpriteOrMouse:", "B")>>, <<GreenFlag(<<Block("doAsk", "", ""), Block("answer", "", "")>>)>>,
    <<GreenFlag(<<Block("timerReset", "", "")>>), Does("createCloneOf", "A")>>,
    <<GreenFlag(<<Red("setVar:to:"), Pen, Red("changeVar:by:"), Block("penSize:", "", "")>>), Does("createCloneOf", Stage)>>,
    <<Formula(<<SetV>>), GreenFlag(<<AppendL, SetV>>)>> }

SpriteScripts(other) ==
  { <<GreenFlag(<<Block("setVar:to:", "user", "g"), Red("showVariable:"), Pen, Red("changeVar:by:"), Block("hideVariable:", "user", "w"),
                 Block("getLine:ofList:", "list", "l")>>), Does("createCloneOf", "_myself_")>>,
    <<GreenFlag(<<Block("createCloneOf", "sprite", other), AppendL>>), GreenFlag(<<Block("pointTowards:", "sprite", other), SetV>>)>>,
    <<GreenFlag(<<AppendL>>), Formula(<<Block("gotoSpriteOrMouse:", "sprite", other)>>), GreenFlag(<<AppendL, SetV>>)>>,
    <<GreenFlag(<<Block("distanceTo:", "sprite", other), Block("timer", "", "")>>)>>,
    <<Does("getAttribute:of:", other), Does("getAttribute:of:", "Stage")>>,
    <<GreenFlag(<<Block("doAsk", "", "")>>), Script("whenSensorNumber", "timer", <<>>)>>,
    <<Does("gotoSpriteOrMouse:", Mouse), Does("distanceTo:", "Gone")>> }

OddScripts ==
  { <<Does("getAttribute:of:", "Gone")>>, <<GreenFlag(<<Block("distanceTo:", "sprite", "B"), Block("distanceTo:", "sprite", "Gone")>>)>>,
    <<Does("distanceTo:", Mouse), Key("up")>>, <<Does("pointTowards:", "Gone")>>, <<Does("distanceTo:", Mouse)>>,
    <<Does("pointTowards:", "A")>>,
    <<GreenFlag(<<Block("createCloneOf", "sprite", ""), Block("pointTowards:", "", ""), Block("penColor:", "odd", ""),
                  Block("gotoSpriteOrMouse:", "sprite", "_random_"), Block("createCloneOf", "sprite", Background)>>)>> }

Monitors ==
  { {}, {[cmd |-> "timer", target |-> Stage, name |-> ""], [cmd |-> "xpos", target |-> "B", name |-> ""]},
    {[cmd |-> "getVar:", target |-> "A", name |-> "v"], [cmd |-> "answer", target |-> Stage, name |-> ""]},
    {[cmd |-> "xpos", target |-> "Gone", name |-> ""]} }

Three(stage, a, b, odd) ==
  <<Object(Stage, stage, {"g", "red"}, {"l"}, FALSE), Object("A", a, {"v"}, {}, FALSE), Object("B", b, {"v", "g"}, {"l"}, odd)>>

SpriteProjects ==
  {[objects |-> Three(s, a, b, odd), monitors |-> m] :
     s \in StageScripts, a \in SpriteScripts("B") \union OddScripts, b \in SpriteScripts("A"), odd \in BOOLEAN, m \in Monitors}

\* The keys that hats wait for, and those that a block asks for.
KeyLists ==
  {<<<<"any">>, <<>>>>, <<<<"any", "space">>, <<"a">>>>, <<<<"a", "b", "up">>, <<"any">>>>,
   <<<<"a", "b", "c", "d", "e", "space">>, <<"a">>>>, <<<<"a">>, <<"a", "b", "space">>>>, <<<<"a", "enter">>, <<>>>>,
   <<<<>>, <<"any">>>>, <<<<"a", "b", "c">>, <<"d", "e", "f", "up">>>>}

Asks(ks) == GreenFlag([i \in DOMAIN ks |-> Block("keyPressed:", "", ks[i])])

KeyProjects ==
  {[objects  |-> <<Object(Stage, [i \in DOMAIN k[1] |-> Key(k[1][i])] \o If(k[2] # <<>>, Asks(k[2]))
                                   \o If(mouse, Does("gotoSpriteOrMouse:", Mouse)), {}, {}, FALSE)>>,
    monitors |-> {}] : k \in KeyLists, mouse \in BOOLEAN}

\* A sprite with a custom block: its call before or after its definitions, one, two or none of them, odd or not.
Call(kind) == GreenFlag(<<Block("call", kind, "jump")>>)
Jump(labels, odd) == Definition("jump", labels, odd, <<Block("call", "good", "jump"), Block("setVar:to:", "user", "v")>>)

BlockScripts ==
  {before \o definitions \o after :
     before \in {<<>>, <<Call("good")>>, <<Call("odd"), Call("good")>>}, after \in {<<>>, <<Call("good")>>},
     definitions \in {<<Jump(l, o)>> : l \in {"h"}, o \in BOOLEAN}
                      \union {<<Jump("h", o), Jump(l, p)>> : l \in {"h", "height"}, o \in BOOLEAN, p \in BOOLEAN} \union {<<>>}}

BlockProjects ==
  {[objects |-> Three(s, b, <<Does("createCloneOf", "A")>>, FALSE), monitors |-> {}] :
     s \in {<<>>, <<Formula(<<SetV>>)>>}, b \in BlockScripts}

AllProjects == SpriteProjects \union KeyProjects \union BlockProjects
Images      == {"space", "up", "a", "b", "c", "d", "e", "f"}
================================================================================
