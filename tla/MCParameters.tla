---------------------------- MODULE MCParameters ----------------------------
(***************************************************************************)
(* An instance of Parameters for TLC.                                      *)
(***************************************************************************)
EXTENDS Parameters

CONSTANTS a, b, x, y

FieldOf(name, layout) == [param_name |-> name, layout |-> layout]
Plain == [kind |-> "None"]
Comment(text) == [kind |-> "Comment", value |-> text]
Chapter == [kind |-> "ChapterClass", value |-> x, chapter |-> y]

\* Two servers list both fields, in different orders and under different
\* groups; a third one knows only one of them.
MCSchemas ==
    {<<FieldOf(a, Comment(x)), FieldOf(b, Plain)>>,
     <<FieldOf(b, Comment(y)), FieldOf(a, Comment(y))>>,
     <<FieldOf(b, Chapter)>>}

=============================================================================
