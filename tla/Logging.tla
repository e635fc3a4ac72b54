------------------------------- MODULE Logging --------------------------------
(***************************************************************************)
(* Logging/src/logging.cpp: the filter of log_print, a level and a list of *)
(* tags separated by '+' that strtok takes apart.                          *)
(*                                                                         *)
(* A string is a sequence over Letters and "+", and Lower gives the lower  *)
(* case of a letter.  The text of a message and its formatting are left    *)
(* out; a NULL tag is not modelled (no caller passes one, and log_print    *)
(* would construct a std::string from it).                                 *)
(***************************************************************************)
EXTENDS Naturals, SequencesExt

CONSTANTS
    Letters,
    Lower,
    MaxTags,  \* bound: the length of the list of tags
    MaxTag    \* bound: the length of the tag of a message

ASSUME LoggingAssumption ==
    /\ "+" \notin Letters
    /\ Lower \in [Letters -> Letters]
    /\ {MaxTags, MaxTag} \subseteq Nat

LOG_ERR == 3
LOG_PRINT == 8
LOG_NONE == 9

Levels == {LOG_ERR, LOG_ERR + 1, LOG_PRINT, LOG_NONE}
Tags == BoundedSeq(Letters, MaxTag)

VARIABLES
    log_level,
    log_tag,
    callbacks,  \* how many are registered
    logged      \* where the last message went: [syslog, printed, called]

loggingVars == <<log_level, log_tag, callbacks, logged>>

LoggingInit ==
    /\ log_level = LOG_ERR
    /\ log_tag = <<>>
    /\ callbacks = 0
    /\ logged = [syslog |-> FALSE, printed |-> FALSE, called |-> 0]

\* Fault: the tag is looked for in the first token only.
strtokFirst(list) ==
    LET letters == SelectInSeq(list, LAMBDA c : c # "+")
        end == SelectInSubSeq(list, letters, Len(list), LAMBDA c : c = "+")
    IN  IF letters = 0 THEN {}
        ELSE {SubSeq(list, letters, IF end = 0 THEN Len(list) ELSE end - 1)}

\* A token that begins at i ends before the next separator.
TokenEnd(list, i) ==
    LET next == SelectInSubSeq(list, i, Len(list), LAMBDA c : c = "+")
    IN  IF next = 0 THEN Len(list) ELSE next - 1

\* The tokens strtok returns: it skips separators, and then takes what is
\* before the next one.
strtok(list) ==
    LET from[i \in 1 .. Len(list) + 1] ==
            CASE i > Len(list) -> {}
              [] i <= Len(list) /\ list[i] = "+" -> from[i + 1]
              [] OTHER -> {SubSeq(list, i, TokenEnd(list, i))}
                          \cup from[TokenEnd(list, i) + 1]
    IN  from[1]

messageIsFilteredOut(level, tag) ==
    \/ log_level < level
    \/ tag # <<>> /\ log_tag # <<>> /\ tag \notin strtok(log_tag)

log_print(level, tag) ==
    LET out == messageIsFilteredOut(level, tag)
    IN  /\ level # LOG_NONE
        /\ logged' = [syslog |-> ~out, printed |-> out /\ level = LOG_PRINT,
                      called |-> IF out THEN 0 ELSE callbacks]
        /\ UNCHANGED <<log_level, log_tag, callbacks>>

log_set_level(level) ==
    /\ log_level' = level
    /\ UNCHANGED <<log_tag, callbacks, logged>>

log_set_tag(list) ==
    /\ log_tag' = list
    /\ UNCHANGED <<log_level, callbacks, logged>>

\* Bound: one callback.
log_register_callback ==
    /\ callbacks = 0
    /\ callbacks' = 1
    /\ UNCHANGED <<log_level, log_tag, logged>>

LoggingNext ==
    \/ \E level \in Levels, tag \in Tags : log_print(level, tag)
    \/ \E level \in Levels : log_set_level(level)
    \/ \E list \in BoundedSeq(Letters \cup {"+"}, MaxTags) : log_set_tag(list)
    \/ log_register_callback

-----------------------------------------------------------------------------
\* tag is an item of list: between separators or the ends of the list.
Listed(tag, list) ==
    \E i \in 1 .. Len(list) :
        LET j == i + Len(tag) - 1
        IN  /\ j <= Len(list) /\ SubSeq(list, i, j) = tag
            /\ i = 1 \/ list[i - 1] = "+"
            /\ j = Len(list) \/ list[j + 1] = "+"

(***************************************************************************)
(* A tagged message of a level that is let through is held back, from      *)
(* syslog and from the callbacks, exactly when there is a list of tags and *)
(* its tag is not an item of it, letter for letter: an item may stand      *)
(* anywhere, with empty items around it, and a tag that only begins or     *)
(* ends an item, is a part of one, or differs in case is none.  (What is   *)
(* held back is printed all the same if its level is LOG_PRINT.)           *)
(* (messageIsFilteredOut, logging.cpp:33 and 48 - 68, log_print, 84 - 107) *)
(***************************************************************************)
FilteredByTheList ==
    \A level \in {l \in Levels : l <= log_level}, tag \in Tags \ {<<>>} :
        messageIsFilteredOut(level, tag) <=>
            log_tag # <<>> /\ ~Listed(tag, log_tag)

SameButForCase(tag, other) ==
    /\ Len(tag) = Len(other)
    /\ \A i \in DOMAIN tag : Lower[tag[i]] = Lower[other[i]]

(***************************************************************************)
(* "The string comparison is case insensitive." (logging.cpp:31): of two   *)
(* messages whose tags differ in case only, both are held back or neither. *)
(* The code compares with strcmp (line 63).                                *)
(***************************************************************************)
IgnoresCase ==
    \A level \in Levels, tag, other \in Tags :
        SameButForCase(tag, other) =>
            (messageIsFilteredOut(level, tag) <=> messageIsFilteredOut(level, other))
=============================================================================
