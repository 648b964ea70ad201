----------------------------- MODULE MCConverterRun -----------------------------
(***************************************************************************)
(* ConverterRun for TLC: three files in four uses, one file used twice, as *)
(* a project on the web, an archive or a folder.                           *)
(***************************************************************************)
EXTENDS ConverterRun, TLC

Use(file, kind)  == [file |-> file, kind |-> kind, text |-> FALSE, scaled |-> FALSE]
Scaled(use)      == [use EXCEPT !.scaled = TRUE]
WithText(use)    == [use EXCEPT !.text = TRUE]

UseLists == {<<Use("f", "svg"), Use("g", "wav"), WithText(Use("f", "svg")), Use("h", "svg")>>,
             <<Scaled(Use("f", "png")), Use("g", "svg"), Use("h", "jpg"), WithText(Use("f", "png"))>>,
             <<Use("f", "png"), WithText(Use("h", "jpg")), Use("g", "mp3"), Use("h", "jpg")>>}

AllProjects ==
  {[source |-> s, code |-> c, uses |-> u, hasId |-> i, media |-> ("f" :> m @@ "g" :> "whole" @@ "h" :> "whole")] :
     s \in {"url", "archive", "directory"}, c \in {"s2", "s3"}, u \in UseLists, i \in BOOLEAN, m \in {"whole", "wrong", "absent"}}
================================================================================
