--------------------------- MODULE ScriptConversion ---------------------------
(***************************************************************************)
(* One script of a sprite, from the project file to Catrobat bricks: it is *)
(* read (Scratch 2 code as it is, Scratch 3 blocks through Scratch3Walk),  *)
(* accepted as a script or ignored, rewritten and preprocessed             *)
(* (ScriptRewriting), traversed by _BlocksConversionTraverser with its     *)
(* stack and its child stack, and collected into the Catrobat script.  An  *)
(* exception outside the conversion of a single block ends the conversion  *)
(* of the whole project.                                                   *)
(***************************************************************************)
EXTENDS Scratch3Walk, ScriptRewriting, ScriptTraversal

CONSTANTS Scripts,     \* the scripts a sprite may have: non-empty sequences of blocks, in Scratch 2 form
          Formats      \* the project files: <<version, how empty slots are stored>>

ASSUME ScriptAssumption == \A s \in Scripts : s # <<>> /\ \A i \in DOMAIN s : IsBlock(s[i])

Editor == INSTANCE Scratch3Editor

VARIABLES script,      \* the script as its author wrote it
          format,      \* the version of the project file
          code,        \* the code of the script, as far as it is processed
          needs        \* the workarounds the script asks for

vars == <<script, format, stage, hat, code, needs, todo, stack, childStack, trigger, bricks>>

IsScratch3 == format[1] = 3
Stages == {"read", "accept", "modify", "preprocess", "traverse", "collect", "converted", "ignored", "aborted"}
Finished == stage \in {"converted", "ignored", "aborted"}

NoNeeds == [timer |-> FALSE, timerReset |-> FALSE, keys |-> {}, positions |-> {}]

Init ==
  /\ script \in Scripts
  /\ format \in Formats
  /\ stage = "read"
  /\ hat = Null
  /\ code = Lst(<<>>)
  /\ needs = NoNeeds
  /\ todo = <<>> /\ stack = <<>> /\ childStack = <<>> /\ trigger = "none" /\ bricks = <<>>

-------------------------------------------------------------------------------
Untraversed == UNCHANGED <<todo, stack, childStack, trigger, bricks>>

\* Scratch3Parser.parse_sprite, or the list of the project.json as it is.  A variable left alone on the workspace is
\* stored as a list where the parser expects a block.
LooseVariable == IsBlockOf(script[1], "readVariable")
Read ==
  /\ stage = "read"
  /\ LET store == Editor!Store(script, format[2])
         fails == LooseVariable \/ BadNumber(store)
     IN IF IsScratch3 /\ fails
        THEN stage' = "aborted" /\ UNCHANGED code
        ELSE /\ stage' = "accept"
             /\ code' = IF IsScratch3 THEN visitScriptBlock(store, Editor!Root) ELSE Lst(script)
  /\ UNCHANGED <<script, format, hat, needs>> /\ Untraversed

\* Object.__init__ keeps the scripts that is_valid_script_input accepts; it looks at the first item of the first block.
Accept ==
  /\ stage = "accept"
  /\ stage' = CASE First(code) = Null                -> "aborted"
                [] First(First(code)).t \in SCRIPTS  -> "modify"
                [] OTHER                             -> "ignored"
  /\ UNCHANGED <<script, format, hat, code, needs>> /\ Untraversed

\* Script.__init__: the modifiers, then the tree of script elements, which needs the name of every block.
IsTree(n) == \A l \in ListsIn(n) : IsBlockList(l) \/ IsBlock(l)
Modify ==
  /\ stage = "modify"
  /\ LET modified == Modified(Lst(Tail(code.a)))
     IN IF IsTree(modified)
        THEN stage' = "preprocess" /\ hat' = First(code) /\ code' = modified
        ELSE stage' = "aborted" /\ UNCHANGED <<hat, code>>
  /\ UNCHANGED <<script, format, needs>> /\ Untraversed

\* Object.preprocess_object, then the traversal starts at the tree's root.
Preprocess ==
  /\ stage = "preprocess"
  /\ IF PreprocessFails(code)
     THEN stage' = "aborted" /\ UNCHANGED <<code, needs, todo>>
     ELSE /\ stage' = "traverse"
          /\ code' = preprocess(code)
          /\ needs' = Workarounds(code, Args(hat))
          /\ todo' = <<[do |-> "enter", of |-> code']>>
  /\ UNCHANGED <<script, format, hat, stack, childStack, trigger, bricks>>

Next == \/ Read \/ Accept \/ Modify \/ Preprocess
        \/ Traverse /\ UNCHANGED <<script, format, code, needs>>
Done == Finished /\ UNCHANGED vars

Spec == Init /\ [][Next \/ Done]_vars

-------------------------------------------------------------------------------
\* The script converted by recursion over its blocks, with no stack, no walk over stored blocks and no brackets: what the
\* traversal has to compute.  Notes are left out, and so are brackets, which change how a formula is written only.
RECURSIVE Direct(_), Stripped(_)

Direct(n) ==
  LET args   == FlattenSeq([i \in DOMAIN Children(n) |-> Direct(Children(n)[i])])
      values == Converted(n, args)
  IN IF Len(values) > 1 /\ (IsFormula(Last(values)) \/ IsUnmapped(Last(values))) THEN <<Last(values)>> ELSE values

Stripped(n) ==
  IF IsFormula(n) /\ n.t = "()" THEN Stripped(n.a[1])
  ELSE [n EXCEPT !.a = [i \in DOMAIN n.a |-> Stripped(n.a[i])]]

Plain(bs) == LET kept == SelectSeq(bs, LAMBDA b : b # Note /\ ~IsIgnored(b)) IN [i \in DOMAIN kept |-> Stripped(kept[i])]

\* What the author's blocks are for the converter: a block Scratch 3 stores under an opcode without a handler is a text to
\* say, a block whose handler gives nothing is not there.
RECURSIVE Understood(_)
Understood(n) ==
  CASE ~IsLst(n) -> n
    [] IsScratch3 /\ IsBlockOf(n, "startSceneAndWait") -> Block("say:", <<Str("ERROR: BLOCK NOT FOUND")>>)
    [] IsScratch3 /\ IsBlockOf(n, "soundEffect")       -> Null
    [] OTHER -> Lst([i \in DOMAIN n.a |-> Understood(n.a[i])])

\* The code the traversal has to start with, but for the brackets.
Meant == preprocess(zeroify(Understood(Lst(Tail(script)))))

\* A block with a text argument that equals the block's own name: _visit takes the text for the name.
NamesItself(b) == IsBlock(b) /\ \E i \in DOMAIN Args(b) : Args(b)[i] = First(b)
\* A block without a counterpart in an argument of such a block.
IsUnmappedBlock(b) == IsBlock(b) /\ ~IsBlockOf(b, "computeFunction:of:") /\ Conversion(First(b).t, Args(b)) = <<Unmapped(First(b).t)>>
HoldsUnmapped(b) == IsUnmappedBlock(b) /\ \E i \in DOMAIN Args(b) : IsUnmappedBlock(Args(b)[i])
Confused == \E b \in ListsIn(Lst(script)) : NamesItself(b) \/ HoldsUnmapped(b)

\* The traversal with its one stack gives every block the arguments that are its own, in their order: apart from the notes,
\* the bricks of a converted script are those of the recursion over the author's blocks, in both project formats.
ResultMatchesRecursion ==
  stage = "converted" /\ ~Confused => Plain(bricks) = Plain(Direct(Meant)[1].a)

\* A block without a counterpart does not disappear without a trace: a script that holds one gets a note, even if the note
\* waits on the child stack or a holder that fails takes its place.
UnsupportedLeavesNote ==
  stage = "converted" /\ (\E b \in ListsIn(Meant) : IsUnmappedBlock(b)) => Note \in ToSet(bricks)

\* Reading a Scratch 3 project gives the Scratch 2 code of the same script: chains, substacks, reporters in slots, shadows
\* and menus, whether empty slots are stored or not.  Operands missing in a condition are the exception (see MissingOperand).
LogicNames == {"not", "&", "|"}
MissingOperand ==
  /\ IsScratch3 /\ format[2] = "missing"
  /\ \E name \in LogicNames : \E b \in BlocksOf(name, Lst(script)) : \E i \in DOMAIN Args(b) : Args(b)[i] = False
WalkRebuildsScript ==
  stage = "accept" /\ ~MissingOperand => code = Understood(Lst(script))

\* The whole conversion is given up for a few reasons only, each of them something the author's script holds: a variable
\* left on the workspace, a number field with a text that is no number, a missing operand of a condition, a block whose
\* handler gives nothing at the start of a stack, a reporter in the menu of a key or of a sprite, and a brick with its own
\* name for a text.
StartsWithNothing == \E l \in ListsIn(Understood(Lst(script))) : ~Empty(l) /\ First(l) = Null
FirstIsNothing == Len(script) > 1 /\ IsScratch3 /\ IsBlockOf(script[2], "soundEffect")
HoldsBadNumber == \E b \in ListsIn(Lst(script)) : IsBlock(b) /\ \E i \in DOMAIN Args(b) : Args(b)[i] = Str("-")
HoldsReporterInMenu == \E name \in {"keyPressed:", "distanceTo:"} : JoinsReporter(name, Lst(script))
AbortsOnlyFor ==
  stage = "aborted" =>
    \/ IsScratch3 /\ (LooseVariable \/ HoldsBadNumber)
    \/ MissingOperand
    \/ StartsWithNothing \/ FirstIsNothing
    \/ HoldsReporterInMenu
    \/ \E b \in ListsIn(Lst(script)) : NamesItself(b)

-------------------------------------------------------------------------------
\* A sum that is a factor is put into brackets (test_scriptcodemodifier.py:77), unless a factor before it holds an operator
\* too: the arguments of a block share its list of operators (scriptcodemodifier.py:74-78), and the last one decides.
HoldsOperator(n) == \E b \in ListsIn(n) : IsBlock(b) /\ is_math_operator(First(b).t)
FactorsGetBrackets ==
  stage = "preprocess" =>
    \A op \in Points : \A b \in BlocksOf(op, code) : \A i \in DOMAIN Args(b) :
      (\E sum \in Lines : IsBlockOf(Args(b)[i], sum)) => \E j \in 1..(i - 1) : HoldsOperator(Args(b)[j])

\* What a formula of numbers, or the block it was made of, amounts to.
RECURSIVE Amount(_)
Amount(n) ==
  LET op == IF IsLst(n) THEN First(n).t ELSE n.t
      x  == IF IsLst(n) THEN Args(n) ELSE n.a
  IN CASE IsNum(n)  -> CHOOSE k \in 0..9 : ToString(k) = n.t
       [] op = "()" -> Amount(x[1])
       [] op = "+"  -> Amount(x[1]) + Amount(x[2])
       [] op = "-"  -> Amount(x[1]) - Amount(x[2])
       [] op = "%"  -> Amount(x[1]) % Amount(x[2])

\* A look that is given by a number is the one Scratch shows, counted from one and from the start again after the last.  The
\* block that waits is the exception: it shows the look after that one (converter.py:1799; the comments there say otherwise).
ByNumber == ("lookLike:" :> "lookLikeByIndex") @@ ("startScene" :> "startSceneByIndex") @@
            ("startSceneAndWait" :> "startSceneAndWaitByIndex")
LooksAreCounted ==
  stage = "converted" =>
    \A name \in DOMAIN ByNumber : Len(script) = 2 /\ IsBlockOf(script[2], name) =>
      \A b \in ToSet(bricks) : b.t = ByNumber[name] /\ (\E op \in Lines : IsBlockOf(Args(script[2])[1], op)) =>
        LET asked == Amount(Args(script[2])[1]) - (IF name = "startSceneAndWait" THEN 0 ELSE 1)
            count == IF name = "lookLike:" THEN OwnLookCount ELSE LookCount
        IN Amount(b.a[1]) = (asked % count) + 1
================================================================================
