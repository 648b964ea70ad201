---------------------------- MODULE ScriptRewriting ----------------------------
(***************************************************************************)
(* What happens to the code of a script before it is converted: the two    *)
(* modifiers of scriptcodemodifier.py, applied when a Script is made, and  *)
(* the workarounds of Object.preprocess_object for blocks Catrobat does    *)
(* not have (timer, keys, distances, attributes of other sprites).         *)
(***************************************************************************)
EXTENDS Integers, SequencesExt, ScratchCode

CONSTANTS SpriteNames,    \* the names of the project's sprites
          ThisSprite      \* the sprite whose scripts are looked at

\* Every list in n, n included.
RECURSIVE ListsIn(_)
ListsIn(n) == IF IsLst(n) THEN {n} \union UNION {ListsIn(n.a[i]) : i \in DOMAIN n.a} ELSE {}

\* The blocks of the given name in n.
BlocksOf(name, n) == {b \in ListsIn(n) : IsBlockOf(b, name)}

-------------------------------------------------------------------------------
\* ZeroifyEmptyValuesModifier: an empty operand of a calculation is 0.
Blank(n) == IsStr(n) /\ n.t \in {"", " "}

RECURSIVE zeroify(_)
zeroify(n) ==
  IF ~IsLst(n) \/ Empty(n) THEN n
  ELSE IF IsLst(First(n)) THEN Lst([i \in DOMAIN n.a |-> zeroify(n.a[i])])
  ELSE LET isMath == IsStr(First(n)) /\ is_math_function_or_operator(First(n).t)
           value(v) == IF isMath /\ Blank(v) THEN Num("0") ELSE v
       IN Lst([i \in DOMAIN n.a |-> IF i = 1 THEN First(n) ELSE zeroify(value(n.a[i]))])

-------------------------------------------------------------------------------
\* InjectMissingBracketsModifier: an operator below one of higher priority is put into brackets.
Lines       == {"+", "-"}
Points      == {"*", "/"}
Comparisons == {"<", ">", "="}
Logic       == {"|", "&", "not"}

\* Mutant: only a comparison or a logic operator is taken to bind differently.
HasHigherPriority_Logic(previous, current) ==
  /\ previous # current
  /\ previous \in Comparisons \union Logic

\* _has_previous_operator_higher_priority
HasHigherPriority(previous, current) ==
  /\ previous # current
  /\ ~(previous \in Lines /\ current \in Points)

\* The walk hands one list of operators, math, from block to block: a block appends to the list it was given and so do the
\* blocks in its arguments, one after the other; "()" starts a list of its own.  The result is the code and that list.
RECURSIVE inject(_, _), injectArgs(_, _)

injectArgs(args, math) ==
  IF args = <<>> THEN [code |-> <<>>, math |-> math]
  ELSE LET first == inject(Head(args), math)
           rest  == injectArgs(Tail(args), first.math)
       IN [code |-> <<first.code>> \o rest.code, math |-> rest.math]

inject(n, math) ==
  IF ~IsLst(n) \/ Empty(n) THEN [code |-> n, math |-> math]
  ELSE IF IsLst(First(n)) THEN [code |-> Lst([i \in DOMAIN n.a |-> inject(n.a[i], <<>>).code]), math |-> math]
  ELSE LET operator == First(n).t
           isMath   == IsStr(First(n)) /\ is_math_operator(operator)
           brackets == isMath /\ operator # "()" /\ math # <<>> /\ HasHigherPriority(Last(math), operator)
           inner    == CASE isMath /\ operator = "()" -> <<>>
                         [] isMath /\ operator # "()" -> Append(math, operator)
                         [] OTHER                     -> math
           args     == injectArgs(Args(n), inner)
           result   == Lst(<<First(n)>> \o args.code)
       IN [code |-> IF brackets THEN Block("()", <<result>>) ELSE result,
           math |-> IF isMath /\ operator = "()" THEN math ELSE args.math]

injectBrackets(blocks) == inject(blocks, <<>>).code

\* Both modifiers, in the order Script.__init__ applies them.
Modified(blocks) == injectBrackets(zeroify(blocks))

-------------------------------------------------------------------------------
\* The workarounds.  Generated variables and messages carry a prefix of their own, here a shorter one.
ReadVariable(name) == Block("readVariable", <<Str(name)>>)
Square(axis, target) ==
  LET difference == Block("()", <<Block("-", <<Block(axis, <<>>), ReadVariable("pos_" \o axis \o "_" \o target)>>)>>)
  IN Block("*", <<difference, difference>>)
Distance(target) ==
  Block("computeFunction:of:", <<Str("sqrt"), Block("+", <<Square("xpos", target), Square("ypos", target)>>)>>)

SensorOf ==
  ("x position" :> "xpos") @@ ("y position" :> "ypos") @@ ("direction" :> "heading") @@ ("costume #" :> "costumeIndex") @@
  ("backdrop #" :> "backgroundIndex") @@ ("backdrop name" :> "sceneName") @@ ("size" :> "scale") @@
  ("costume name" :> "costumeName") @@ ("volume" :> "volume")

Attribute(block) ==
  LET attribute == Args(block)[1].t
      target    == IF Args(block)[2].t = "_stage_" THEN "Stage" ELSE Args(block)[2].t
      isSensor  == attribute \in DOMAIN SensorOf
  IN CASE ~IsStr(Args(block)[2])                                 -> Num("0")
       [] ~isSensor /\ target \in {"Stage", ThisSprite}          -> ReadVariable(attribute)
       [] ~isSensor /\ target \notin {"Stage", ThisSprite}       -> ReadVariable("attr_" \o target \o "_" \o attribute)
       [] isSensor /\ target = ThisSprite                        -> Block(SensorOf[attribute], <<>>)
       [] isSensor /\ target # ThisSprite                        -> ReadVariable("attr_" \o target \o "_" \o SensorOf[attribute])

\* A workaround replaces the blocks of its name, from the outside in, and leaves the arguments of a replaced block alone.
Replacement ==
  [timer      |-> "timer",         reset     |-> "timerReset", key |-> "keyPressed:",
   distance   |-> "distanceTo:",   attribute |-> "getAttribute:of:"]

Replaced(rule, block) ==
  CASE rule = "timer"     -> ReadVariable("timer_var")
    [] rule = "reset"     -> Block("doBroadcastAndWait", <<Str("timer_reset")>>)
    [] rule = "key"       -> ReadVariable("key_" \o Args(block)[1].t)
    [] rule = "distance"  -> Distance(Args(block)[1].t)
    [] rule = "attribute" -> Attribute(block)

RECURSIVE ReplaceIn(_, _)
ReplaceIn(rule, n) ==
  IF ~IsLst(n) THEN n
  ELSE Lst([i \in DOMAIN n.a |-> IF IsBlockOf(n.a[i], Replacement[rule]) THEN Replaced(rule, n.a[i])
                                 ELSE ReplaceIn(rule, n.a[i])])

\* has_distance_to_object_block: the distances of a script are replaced only if one of them is to a sprite there is.
NeedsDistance(blocks) ==
  \E b \in BlocksOf("distanceTo:", blocks) : IsStr(Args(b)[1]) /\ Args(b)[1].t \in SpriteNames \union {"_mouse_"}

\* The name of a key or a sprite is appended to a text: a reporter in its place is a TypeError.
JoinsReporter(name, blocks) == \E b \in BlocksOf(name, blocks) : ~IsStr(Args(b)[1])
PreprocessFails(blocks) ==
  \/ JoinsReporter("keyPressed:", blocks)
  \/ NeedsDistance(blocks) /\ JoinsReporter("distanceTo:", blocks)

preprocess(blocks) ==
  LET timed     == ReplaceIn("reset", ReplaceIn("timer", blocks))
      keyed     == ReplaceIn("key", timed)
      distanced == IF NeedsDistance(keyed) THEN ReplaceIn("distance", keyed) ELSE keyed
  IN ReplaceIn("attribute", distanced)

\* What the workarounds ask of the project: the scripts that keep the generated variables up to date.
Workarounds(blocks, arguments) ==
  [timer      |-> BlocksOf("timer", blocks) # {} \/ \E i \in DOMAIN arguments : arguments[i] = Str("timer"),
   timerReset |-> BlocksOf("timerReset", blocks) # {},
   keys       |-> {Args(b)[1].t : b \in BlocksOf("keyPressed:", blocks)},
   positions  |-> IF NeedsDistance(blocks) THEN {Args(b)[1].t : b \in BlocksOf("distanceTo:", blocks)} ELSE {}]
================================================================================
