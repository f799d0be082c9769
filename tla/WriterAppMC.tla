----------------------------- MODULE WriterAppMC -----------------------------
(* A small ProseWriter for TLC: one letter, two formats, lines of two or   *)
(* three characters, and a file with a table above a numbered paragraph.   *)
EXTENDS WriterApp, WriterRTF, WriterTools

MCCharFormats == {"plain", "bold"}
MCParaFormats == {"left", "right", "number"}
Glyph(c, f)   == [c |-> c, f |-> f]
Stored(t, format) == [text |-> t, format |-> format, images |-> {}]
Row(t) == Stored([k \in DOMAIN t |-> Glyph(t[k], "plain")], "left")
MCSeeds ==
    [p \in Paths |->
       IF p # "notes" THEN {}
       ELSE {[styles |-> <<>>, header |-> "none",
             paras |-> <<Row(<<Cell>>),
                         Stored(<<Glyph("x", "bold")>>, "number")>>]}]
MCNeedle      == <<"x">>
MCReplacement == <<"x", "x">>
MCScriptText  == <<"x", Line>>
=============================================================================
