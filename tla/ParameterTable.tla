--------------------------- MODULE ParameterTable ---------------------------
(***************************************************************************)
(* What the table parameters promises its readers and its curator: each    *)
(* schema that is written is written as a whole, on top of what the table  *)
(* held at that moment, and leaves the columns of the curator alone.       *)
(* Parameters is shown to implement it.                                    *)
(***************************************************************************)
CONSTANTS
    Names,          \* parameters.param_name
    Rows,           \* what a row may hold
    Seeds,          \* the rows it begins with, described in advance
    Announced,      \* the schemas the servers announce: sets of fields
    Curations,      \* what the curator may write into his columns
    GroupOf(_),     \* the group a field belongs to by its layout, or None
    None

VARIABLE parameters \* a row or None per name

Init == parameters \in [Names -> Seeds \cup {None}]

\* The curator's columns and a group that is known stay, the rest is new.
Renewed(row, field) ==
    [layout |-> field.layout,
     group_path |-> IF row # None /\ row.group_path # None
                    THEN row.group_path ELSE GroupOf(field.layout),
     curated |-> IF row = None THEN None ELSE row.curated]

Apply ==
    \E schema \in Announced :
        parameters' = [n \in Names |->
            IF \E f \in schema : f.param_name = n
            THEN Renewed(parameters[n],
                         CHOOSE f \in schema : f.param_name = n)
            ELSE parameters[n]]

Curate ==
    \E n \in Names, c \in Curations :
        /\ parameters[n] # None
        /\ parameters' = [parameters EXCEPT ![n].curated = c]

Next == Apply \/ Curate

Spec == Init /\ [][Next]_parameters

=============================================================================
