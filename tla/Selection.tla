----------------------------- MODULE Selection -----------------------------
(***************************************************************************)
(* The component picker's selection (launcher/src/selection.rs): an        *)
(* ordered list of component keys, its LIONOS_COMPONENTS form, and the     *)
(* config.toml text it is saved as.  A text is a sequence of tokens; a     *)
(* file is a sequence of lines.                                            *)
(***************************************************************************)
EXTENDS Integers, Lists

CONSTANT COMPONENTS    \* the roster: records [key, required, recommended]

Roster == DOMAIN COMPONENTS

Punctuation == {"enabled = [", ", ", "]"}

\* The table is not empty, and no key is taken for a separator.
ASSUME RosterAssumption ==
    /\ COMPONENTS \in Seq([key : STRING, required : BOOLEAN, recommended : BOOLEAN])
    /\ COMPONENTS # << >>
    /\ \A i \in Roster : COMPONENTS[i].key \notin Punctuation \cup {","}

is_required(key) ==
    \E i \in Roster : COMPONENTS[i].key = key /\ COMPONENTS[i].required

is_enabled(enabled, key) == key \in Range(enabled)

toggle(enabled, key) ==
    IF is_required(key) THEN enabled
    ELSE IF is_enabled(enabled, key)
         THEN Keep(enabled, Range(enabled) \ {key})
         ELSE Append(enabled, key)

\* The keys joined by a separator token.
Join(keys, sep) ==
    FoldList(LAMBDA text, k : IF text = << >> THEN <<k>> ELSE text \o <<sep, k>>,
             << >>, keys)

csv(enabled) == Join(enabled, ",")

to_toml(enabled) ==
    << <<"[components]">>, <<"enabled = [">> \o Join(enabled, ", ") \o <<"]">> >>

\* A key the file leaves out is dropped unless it is required; the required
\* ones that are missing are appended in roster order.
from_toml(text) ==
    LET line   == IF Len(text) > 1 /\ text[1] = <<"[components]">> THEN text[2] ELSE << >>
        listed == Keep(line, Range(line) \ Punctuation)
        forced == Keep(COMPONENTS, {c \in Range(COMPONENTS) :
                                     c.required /\ c.key \notin Range(listed)})
    IN  listed \o [i \in DOMAIN forced |-> forced[i].key]

\* Selection::default: the sort by roster position leaves roster order.
DefaultSelection ==
    LET ticked == Keep(COMPONENTS, {c \in Range(COMPONENTS) : c.required \/ c.recommended})
    IN  [i \in DOMAIN ticked |-> ticked[i].key]
=============================================================================
