------------------------------ MODULE ScratchCode ------------------------------
(***************************************************************************)
(* Scratch 2 code as the converter handles it: nested JSON lists.  A node  *)
(* is a string, a number, the constants null and false, or a list; a list  *)
(* that starts with a string is a block with its arguments, an empty list  *)
(* or one that starts with a list is a list of blocks.  Kinds brick,       *)
(* formula, unmapped and list stand for the converter's results            *)
(* (BrickConversion).  All of them are records of one shape, so that TLC   *)
(* can compare any two of them.                                            *)
(***************************************************************************)
EXTENDS Integers, Sequences

Node(kind, text, items) == [k |-> kind, t |-> text, a |-> items]

Str(t)  == Node("str", t, <<>>)
Num(t)  == Node("num", t, <<>>)
Null    == Node("null", "", <<>>)
False   == Node("bool", "false", <<>>)
Lst(s)  == Node("lst", "", s)
Block(name, args) == Lst(<<Str(name)>> \o args)

IsStr(n) == n.k = "str"
IsNum(n) == n.k = "num"
IsLst(n) == n.k = "lst"

Empty(n) == n.a = <<>>
First(n) == n.a[1]
Args(n)  == Tail(n.a)

\* A list of blocks, as ScriptElement.from_raw_block tells it from a block.
IsBlockList(n) == IsLst(n) /\ (Empty(n) \/ IsLst(First(n)))
IsBlock(n)     == IsLst(n) /\ ~Empty(n) /\ IsStr(First(n))
IsBlockOf(n, name) == IsBlock(n) /\ First(n).t = name

\* The scripts of scratch.py's SCRIPTS.
SCRIPTS == {"whenGreenFlag", "whenIReceive", "whenKeyPressed", "whenSensorGreaterThan", "whenSceneStarts",
            "whenClicked", "whenCloned", "procDef"}

\* The blocks that stand for a calculation, as converter.py tables them.
MathUnary    == {"()", "not"}
MathBinary   == {"+", "-", "*", "/", "<", "=", ">", "&", "|"}
MathFunctions == {"abs", "sqrt", "sin", "cos", "tan", "asin", "acos", "atan", "e^", "ln", "log", "rounded",
                  "randomFrom:to:", "%", "10 ^", "floor", "ceiling"}
is_math_operator(name) == name \in MathUnary \union MathBinary
is_math_function_or_operator(name) == is_math_operator(name) \/ name \in MathFunctions
================================================================================
