--------------------------- MODULE ScriptTraversal ---------------------------
(***************************************************************************)
(* _BlocksConversionTraverser of converter.py: a depth-first walk over the *)
(* tree of a script that converts each element with the arguments it finds *)
(* on its stack.  The recursion of traverse is todo, what is left to be    *)
(* entered and visited.  _catrobat_script_from collects the result into    *)
(* the Catrobat script.  ScriptConversion says which tree it is and what   *)
(* is done before.                                                         *)
(***************************************************************************)
EXTENDS BrickConversion

VARIABLES stage,       \* what is done next
          hat,         \* the block that starts the script
          todo,        \* the rest of the traversal: elements to enter and blocks to visit
          stack,       \* _stack
          childStack,  \* _child_stack
          trigger,     \* the class of the Catrobat script
          bricks       \* its bricks

-------------------------------------------------------------------------------
\* The name of a script element; a value is its own name.
LIST == Str("<LIST>")
NameOf(n) == IF IsBlockList(n) THEN LIST ELSE IF IsBlock(n) THEN First(n) ELSE n
Children(n) == IF IsBlockList(n) THEN n.a ELSE IF IsBlock(n) THEN Args(n) ELSE <<>>

\* What the traversal starts with: the tree of a script, a list of blocks made of code that ScriptElement.from_raw_block took
\* to pieces.  Blocks have names, and no text is the one that stands for a list.
CodeKinds == {"str", "num", "null", "bool", "lst"}
IsCode(nodes) ==
  \A n \in nodes :
    /\ n.k \in CodeKinds /\ n.a \in Seq(nodes)
    /\ n # LIST
    /\ IsBlock(n) => First(n) # Str("")
IsScriptTree(n) == IsBlockList(n) /\ \E nodes : n \in nodes /\ IsCode(nodes)
TraversalInit ==
  /\ stage = "traverse"
  /\ \E tree : IsScriptTree(tree) /\ todo = <<[do |-> "enter", of |-> tree]>>
  /\ stack = <<>> /\ childStack = <<>> /\ trigger = "none" /\ bricks = <<>>

\* traverse: the name onto the stack, then the children, then the element itself.
Enter ==
  /\ stage = "traverse" /\ todo # <<>>
  /\ Head(todo).do = "enter"
  /\ LET n == Head(todo).of
         enter(c) == [do |-> "enter", of |-> c]
     IN /\ stack' = Append(stack, NameOf(n))
        /\ todo' = [i \in DOMAIN Children(n) |-> enter(Children(n)[i])] \o <<[do |-> "visit", of |-> n]>> \o Tail(todo)
  /\ UNCHANGED <<stage, hat, childStack, trigger, bricks>>

\* _converted_script_element.  A math function is a block whose first argument is its name; it has to be a text.
LacksName(n, args) == IsBlockOf(n, "computeFunction:of:") /\ (args = <<>> \/ ~IsStr(args[1]))
Converted(n, args) ==
  CASE IsBlockList(n)                                   -> ConvertedList(args)
    [] IsBlockOf(n, "computeFunction:of:")              -> ConvertedBlock(args[1].t, Tail(args))
    [] IsBlock(n) /\ ~IsBlockOf(n, "computeFunction:of:") -> ConvertedBlock(First(n).t, args)
    [] OTHER                                            -> <<n>>

\* _visit: the arguments are what lies above the last entry that equals the element's name.
Start(n) == SelectLastInSeq(stack, LAMBDA e : e = NameOf(n))
Arguments(n) == SubSeq(stack, Start(n) + 1, Len(stack))
AllBricks(values) == \A i \in DOMAIN values : IsBrick(values[i])

\* Mutant: the notes before a formula stay on the stack.
Replace_Unsplit(n, values) ==
  /\ stack' = SubSeq(stack, 1, Start(n) - 1) \o values
  /\ UNCHANGED childStack

\* What is put in the place of n and its arguments.  Bricks take the waiting notes with them; the notes before a formula wait.
Replace(n, values) ==
  LET below   == SubSeq(stack, 1, Start(n) - 1)
      flushes == childStack # <<>> /\ AllBricks(values)
      flushed == IF flushes THEN FlattenSeq(Reverse(childStack)) ELSE <<>>
      kept    == IF flushes THEN <<>> ELSE childStack
      splits  == Len(values) > 1 /\ IsFormula(Last(values))
  IN /\ stack' = below \o flushed \o (IF splits THEN <<Last(values)>> ELSE values)
     /\ childStack' = IF splits THEN Append(kept, Front(values)) ELSE kept

Visit ==
  /\ stage = "traverse" /\ todo # <<>>
  /\ Head(todo).do = "visit"
  /\ LET n == Head(todo).of
     IN IF LacksName(n, Arguments(n))
        THEN stage' = "aborted" /\ UNCHANGED <<todo, stack, childStack>>
        ELSE /\ Replace(n, Converted(n, Arguments(n)))
             /\ todo' = Tail(todo)
             /\ stage' = IF Len(todo) = 1 THEN "collect" ELSE stage
  /\ UNCHANGED <<hat, trigger, bricks>>

\* create_script: the class of the script, or an exception, for which a script that starts with the program and tells in a
\* note what is missing takes its place.  The value a sensor is compared with is a number or a text here.
Scripted ==
  ("whenGreenFlag" :> "StartScript") @@ ("whenIReceive" :> "BroadcastScript") @@ ("whenKeyPressed" :> "BroadcastScript") @@
  ("whenClicked" :> "WhenScript") @@ ("whenCloned" :> "WhenClonedScript")
create_script(h) ==
  LET name == First(h).t
  IN CASE name = "whenSensorGreaterThan" /\ Args(h)[1].t \in {"timer", "loudness"} /\ IsNum(Args(h)[2]) -> "WhenConditionScript"
       [] name = "whenSceneStarts" /\ Args(h)[1].t \in LookNames -> "WhenBackgroundChangesScript"
       [] name \in DOMAIN Scripted -> Scripted[name]
       [] OTHER                    -> "unsupported"

\* Mutant: the None of a block that is ignored is added to the script.
IsIgnored_NotNone(n) == n \in {False, Str(""), Num("0"), BrickList(<<>>)}

\* _catrobat_script_from: what is empty is left out, what is not a brick cannot be added.
IsIgnored(n) == n \in {Null, False, Str(""), Num("0"), BrickList(<<>>)}

Collect ==
  /\ stage = "collect"
  /\ LET added == FlattenSeq([i \in DOMAIN stack[1].a |-> IF IsIgnored(stack[1].a[i]) THEN <<>> ELSE <<stack[1].a[i]>>])
         class == create_script(hat)
     IN IF Len(stack) = 1 /\ AllBricks(added)
        THEN /\ stage' = "converted"
             /\ trigger' = IF class = "unsupported" THEN "StartScript" ELSE class
             /\ bricks' = IF class = "unsupported" THEN <<Note>> \o added ELSE added
        ELSE stage' = "aborted" /\ UNCHANGED <<trigger, bricks>>
  /\ UNCHANGED <<hat, todo, stack, childStack>>

Traverse == Enter \/ Visit \/ Collect
TraversalSpec == TraversalInit /\ [][Traverse]_<<stage, hat, todo, stack, childStack, trigger, bricks>>

-------------------------------------------------------------------------------
\* Whatever a block inside a loop or a branch became, the start and end bricks of a converted script are nested as the
\* Catrobat interpreter expects: every end belongs to the last start without an end.
Nesting(open, b) ==
  LET closes(end) == open # <<>> /\ Last(open) = end
  IN CASE b.t \in LoopNames           -> Append(open, "LoopEnd")
       [] b.t = "doIf"                -> Append(open, "IfEnd")
       [] b.t = "doIfElse"            -> Append(open, "Else")
       [] b.t = "Else"                -> IF closes("Else") THEN Append(Front(open), "IfEnd") ELSE Append(open, "never closed")
       [] b.t \in {"LoopEnd", "IfEnd"} -> IF closes(b.t) THEN Front(open) ELSE Append(open, "never closed")
       [] OTHER                       -> open
LoopsAreClosed ==
  stage = "converted" =>
    LET open[i \in 0..Len(bricks)] == IF i = 0 THEN <<>> ELSE Nesting(open[i - 1], bricks[i])
    IN open[Len(bricks)] = <<>>
================================================================================
