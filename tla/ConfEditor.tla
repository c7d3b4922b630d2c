----------------------------- MODULE ConfEditor -----------------------------
(* The editor of the configuration file (server/confeditor/conf_edtior.h):  *)
(* maps for the two sections, filled by parse, changed by the setters and    *)
(* written by save, which truncates the file before it looks its values up. *)
EXTENDS Naturals, Sequences, SequencesExt

CONSTANTS
    Settings,   \* the settings considered: some of those of Order
    Values      \* what they are set to; the first is the default

VARIABLES
    local,      \* m_local_section
    global,     \* m_global_section
    file,       \* the file: its two sections
    whole,      \* ghost: the file was never cut short nor edited by hand
    refused     \* ghost: save has thrown

confVars == <<local, global, file, whole, refused>>

None == "none"      \* no such key
Empty == "empty"    \* the key with nothing behind it
Default == Head(Values)
Maps == [Settings -> ToSet(Values) \cup {None, Empty}]

Line(section, key) == [section |-> section, key |-> key]

\* The lines save writes, in order, and those of them that are considered.
Order == <<Line("local", "tx_isolation"), Line("local", "page_encrypt"), Line("local", "statistics_calls_limit"),
           Line("local", "sys_logs_rotation"), Line("local", "sys_logs_level"),
           Line("global", "sys_logs_rotation"), Line("global", "sys_logs_level")>>
Lines == {i \in 1..7 : Order[i].key \in Settings}

InGlobal == {"sys_logs_rotation", "sys_logs_level"}
Defaulted == {"page_encrypt", "statistics_calls_limit"}

ASSUME ConfAssumption ==
    /\ Settings \subseteq {Order[i].key : i \in 1..7}
    /\ Values \in Seq(STRING) /\ Values # <<>>
    /\ {None, Empty} \cap ToSet(Values) = {}

\* What a line gets: None is an at() that throws. The global map is asked for a local line
\* too, but not for the settings with a default.
ValueOf(line) ==
    IF line.section = "global" THEN global[line.key]
    ELSE IF local[line.key] # None THEN local[line.key]
    ELSE IF line.key \in Defaulted THEN Default
    ELSE global[line.key]

Written_to_short(n, cut) ==
    [s \in {"local", "global"} |-> [k \in Settings |->
        IF \E i \in Lines : i < n /\ Order[i] = Line(s, k)
        THEN (IF cut /\ Order[n] = Line(s, k) THEN Empty ELSE ValueOf(Line(s, k)))
        ELSE None]]

\* The file after the lines up to n, the last one without its value if cut.
Written_to(n, cut) ==
    [s \in {"local", "global"} |-> [k \in Settings |->
        IF \E i \in Lines : i <= n /\ Order[i] = Line(s, k)
        THEN (IF cut /\ Order[n] = Line(s, k) THEN Empty ELSE ValueOf(Line(s, k)))
        ELSE None]]

\* The file that comes with the program, parsed.
InitConf ==
    /\ file = [s \in {"local", "global"} |-> [k \in Settings |->
                  IF s = "local" \/ k \in InGlobal THEN Default ELSE None]]
    /\ local = file["local"] /\ global = file["global"]
    /\ whole = TRUE /\ refused = FALSE

\* The global map is emptied first, the local one is not.
parse ==
    /\ local' = [k \in Settings |-> IF file["local"][k] # None THEN file["local"][k] ELSE local[k]]
    /\ global' = file["global"]
    /\ UNCHANGED <<file, whole, refused>>

\* The editor of a new process.
Restart ==
    /\ local' = file["local"] /\ global' = file["global"]
    /\ UNCHANGED <<file, whole, refused>>

set(section, k, v) ==
    /\ \/ section = "local" /\ local' = [local EXCEPT ![k] = v] /\ UNCHANGED global
       \/ section = "global" /\ global' = [global EXCEPT ![k] = v] /\ UNCHANGED local
    /\ UNCHANGED <<file, whole, refused>>

\* The lines up to the first value that is missing, after whose key save throws.
save ==
    LET bad == {i \in Lines : ValueOf(Order[i]) = None}
    IN /\ IF bad = {}
          THEN /\ file' = Written_to(7, FALSE)
               /\ UNCHANGED refused
          ELSE /\ \E i \in bad : (\A j \in bad : i <= j) /\ file' = Written_to(i, TRUE)
               /\ refused' = TRUE
       /\ UNCHANGED <<local, global, whole>>

\* The process ends during a save: what was flushed is in the file.
SaveInterrupted ==
    \E n \in 0..7 :
        /\ \A i \in Lines : i <= n => ValueOf(Order[i]) # None
        /\ file' = Written_to(n, FALSE)
        /\ local' = file'["local"] /\ global' = file'["global"]
        /\ whole' = FALSE
        /\ UNCHANGED refused

\* Somebody takes a line out of the file.
EditFile(section, k) ==
    /\ file[section][k] # None
    /\ file' = [file EXCEPT ![section][k] = None]
    /\ whole' = FALSE
    /\ UNCHANGED <<local, global, refused>>

NextConf ==
    \/ parse \/ Restart \/ save \/ SaveInterrupted
    \/ \E s \in {"local", "global"}, k \in Settings : EditFile(s, k) \/ \E v \in ToSet(Values) : set(s, k, v)

ConfSpec == InitConf /\ [][NextConf]_confVars

-----------------------------------------------------------------------------

\* The variables have their types.
ConfTypeOK ==
    /\ local \in Maps /\ global \in Maps
    /\ file \in [{"local", "global"} -> Maps]

HasAllLines == \A i \in Lines : file[Order[i].section][Order[i].key] \notin {None, Empty}

\* Whatever is set, parsed again and saved, in whatever processes: as long as no save was
\* interrupted and no line taken out by hand, the file has every line, no save throws, and
\* every setting is in the local map, so that save never comes to ask the global map for a
\* local line: a global value set for one of them never takes effect on the node.
SavedFileIsWhole ==
    whole => HasAllLines /\ ~refused /\ \A k \in Settings : local[k] # None
=============================================================================
