-------------------------- MODULE MCScriptConversion --------------------------
(***************************************************************************)
(* The scripts of the runs of ScriptConversion: every kind of block, every *)
(* shape of nesting two or three deep, and the odd blocks an author can    *)
(* leave in a script.                                                      *)
(***************************************************************************)
EXTENDS ScriptConversion

MCNumberTexts == {"0", "1", "2", "3", "4"}
MCFormats == {<<2, "">>, <<3, "missing">>, <<3, "stored">>}

B(name, args) == Block(name, args)
one == Num("1")
two == Num("2")
hi == Str("hi")
xpos == B("xpos", <<>>)
user == B("getUserName", <<>>)                                  \* a reporter without a counterpart
sum(x, y)  == B("+", <<x, y>>)
less(x, y) == B("<", <<x, y>>)
negated(c) == B("not", <<c>>)
say(v) == B("say:", <<v>>)
move(v) == B("changeXposBy:", <<v>>)

Reporters ==
  {xpos, B("timer", <<>>), user, sum(one, two), sum(sum(one, two), user), B("*", <<sum(one, two), sum(one, xpos)>>),
   B("*", <<xpos, B("*", <<sum(one, two), two>>)>>), B("-", <<one, B("-", <<one, two>>)>>),
   B("computeFunction:of:", <<Str("sin"), xpos>>), B("computeFunction:of:", <<Str("10 ^"), sum(one, user)>>),
   B("contains:", <<hi, hi>>), B("contains:", <<user, hi>>), B("contains:", <<Str("contains:"), hi>>),
   B("distanceTo:", <<Str("Cat")>>), B("distanceTo:", <<Str("Ghost")>>), B("distanceTo:", <<xpos>>),
   B("getAttribute:of:", <<Str("x position"), Str("Cat")>>), B("getAttribute:of:", <<Str("score"), Str("_stage_")>>),
   B("getAttribute:of:", <<Str("size"), xpos>>)}
Conditions ==
  {False, less(xpos, Str("")), less(user, hi), less(Str("<"), hi), negated(less(hi, hi)), negated(False),
   B("&", <<less(xpos, hi), negated(False)>>), B("&", <<negated(negated(less(hi, sum(one, two)))), less(xpos, hi)>>),
   B("keyPressed:", <<Str("space")>>), B("keyPressed:", <<user>>)}

Simple ==
  {say(hi), say(Str("say:")), say(user), move(one), move(Str("-")), move(xpos),
   B("wait:elapsed:from:", <<sum(one, user)>>), B("broadcast:", <<hi>>), B("broadcast:", <<user>>),
   B("setVar:to:", <<Str("v"), xpos>>), B("penSize:", <<one>>), B("penSize:", <<user>>),
   B("changePenSizeBy:", <<sum(user, one)>>), B("changePenSizeBy:", <<user>>),
   B("deleteLine:ofList:", <<Str("all"), Str("items")>>), B("deleteLine:ofList:", <<Str("last"), Str("gone")>>),
   B("lookLike:", <<Str("look1")>>), B("lookLike:", <<xpos>>), B("startScene", <<xpos>>), B("startScene", <<Str("next backdrop")>>),
   B("startSceneAndWait", <<xpos>>), B("startSceneAndWait", <<Str("nowhere")>>),
   B("timerReset", <<>>), B("soundEffect", <<one>>), B("showVariable:", <<Str("v")>>), B("hideVariable:", <<Str("gone")>>),
   B("setGraphicEffect:to:", <<Str("brightness"), xpos>>), B("createCloneOf", <<user>>),
   say(B("computeFunction:of:", <<Str("sin"), Str("computeFunction:of:")>>))}
LooksByNumber == {B(name, <<n>>) : name \in {"lookLike:", "startScene", "startSceneAndWait"},
                                   n \in {B("-", <<two, one>>), sum(one, one), sum(two, one), sum(two, two)}}
Statements == LooksByNumber \union Simple \union {move(r) : r \in Reporters}

\* Bodies: none, one or two blocks, a loop in a loop.
Short == {<<say(hi)>>, <<say(user)>>, <<say(Str("say:"))>>, <<B("penSize:", <<user>>), say(hi)>>,
          <<B("soundEffect", <<one>>)>>, <<say(hi), B("soundEffect", <<one>>)>>, <<B("changePenSizeBy:", <<sum(user, one)>>), say(hi)>>}
Body(b) == IF b = <<>> THEN Null ELSE Lst(b)
Bodies == {<<>>} \union Short
Loop(name, value, body) == B(name, <<value, Body(body)>>)
Forever(body) == B("doForever", <<Body(body)>>)

Inner == {Forever(<<say(user)>>), Loop("doIf", less(user, hi), <<say(hi)>>), Loop("doUntil", False, <<say(hi)>>),
          Loop("doRepeat", two, <<>>), Loop("doUntil", less(xpos, hi), <<say(user)>>)}
Compounds ==
  {Forever(b) : b \in Bodies}
  \union {Loop("doRepeat", v, b) : v \in {two, user, B("contains:", <<user, hi>>)}, b \in Bodies}
  \union {Loop("doIf", c, b) : c \in Conditions, b \in Bodies}
  \union {Loop("doUntil", c, b) : c \in Conditions, b \in Bodies}
  \union {B("doIfElse", <<c, Body(b), Body(d)>>) : c \in {False, less(user, hi), less(xpos, hi)},
                                                    b \in {<<>>, <<say(user)>>}, d \in {<<>>, <<say(hi), say(user)>>}}
  \union {Forever(<<c, s>>) : c \in Inner, s \in {say(hi), B("changePenSizeBy:", <<user>>)}}
  \union {Loop("doIf", less(user, hi), <<s, c>>) : c \in Inner, s \in {say(user), B("changePenSizeBy:", <<sum(user, one)>>)}}
  \union {Loop("doUntil", less(xpos, hi), <<Forever(<<c>>)>>) : c \in Inner}

flag == B("whenGreenFlag", <<>>)
Hats == {B("whenSceneStarts", <<Str("look1")>>), B("whenSceneStarts", <<Str("nowhere")>>),
         B("whenSensorGreaterThan", <<Str("timer"), one>>), B("whenSensorGreaterThan", <<Str("video motion"), one>>)}
MCScripts ==
  {<<flag>>} \union {<<flag, s>> : s \in Statements \union Compounds}
  \union {<<flag, s, c>> : s \in {say(user), B("changePenSizeBy:", <<sum(user, one)>>), B("soundEffect", <<one>>)}, c \in Inner}
  \union {<<h, say(B("timer", <<>>))>> : h \in Hats}
  \union {<<say(hi)>>, <<B("readVariable", <<Str("v")>>)>>, <<B("soundEffect", <<one>>), say(hi)>>, <<xpos>>}

\* The trees that Modify and Preprocess hand to the traversal satisfy what ScriptTraversal asks of a tree (IsScriptTree):
\* ClosedInEveryScript of ScriptTraversal_proofs is about all of them.
RECURSIVE NodesIn(_)
NodesIn(n) == {n} \union UNION {NodesIn(n.a[i]) : i \in DOMAIN n.a}
Stored(s) == {Editor!Store(s, f[2]) : f \in {g \in Formats : g[1] = 3}}
Codes(s) ==
  {Lst(s)} \union (IF IsBlockOf(s[1], "readVariable") THEN {}
                   ELSE {visitScriptBlock(store, Editor!Root) : store \in {st \in Stored(s) : ~BadNumber(st)}})
Accepted == {c \in UNION {Codes(s) : s \in Scripts} : First(c) # Null /\ First(First(c)).t \in SCRIPTS}
Rewritten == {m \in {Modified(Lst(Tail(c.a))) : c \in Accepted} : IsTree(m) /\ ~PreprocessFails(m)}
ASSUME TreesAreScriptTrees ==
  \A m \in Rewritten : LET tree == preprocess(m) IN IsBlockList(tree) /\ IsCode(NodesIn(tree))
================================================================================
