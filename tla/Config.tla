-------------------------------- MODULE Config --------------------------------
(***************************************************************************)
(* The configuration: Config::reload reads a file line by line, and        *)
(* mode_for and weight_for look a process's cgroup up in the groups it has *)
(* built.  The file is whatever an administrator wrote: any sequence of    *)
(* lines, in any order, repeated, misspelt or with comments behind them.   *)
(*                                                                         *)
(* Abstractions.  A line is a record that says what its text is: a section *)
(* header, an assignment, an assignment to a field of a group, or nothing. *)
(* A value is a number, a word or a path, and note says that a comment     *)
(* follows on the line.  A path is a sequence of pieces of text.           *)
(***************************************************************************)
EXTENDS Integers, Sequences, SequencesExt, FiniteSetsExt

CONSTANTS
  Lines,           \* the lines a file is made of
  MaxLines,
  Paths,           \* cgroups of processes
  Word32,          \* modulus of uint32_t
  Word64,          \* modulus of size_t
  MaxGroups        \* groups for which there is memory

ASSUME ConfigAssumption ==
  /\ MaxLines \in Nat
  /\ Word32 \in Nat /\ Word32 > 1000
  /\ Word64 \in Nat /\ Word64 >= Word32
  /\ MaxGroups \in 1 .. Word64 - 1
  /\ \A l \in Lines : l.kind = "group" =>
       /\ l.idx.is = "number" => l.idx.n \in 0 .. Word64 - 1
       /\ l.val.is = "path" => l.val.p \in Seq(STRING)

VARIABLES
  section,
  cfg,             \* the settings, by key
  groups,
  status,          \* "reading", or how the process ended
  file             \* the lines read so far

cvars == <<section, cfg, groups, status, file>>

\* Of each kind of setting one or two stand for all: 32-bit and 64-bit numbers, switches,
\* the mode, the log level.
KeySection == [interval_ms |-> "engine", min_reclaimable_mb |-> "engine",
               dry_run |-> "engine", default_mode |-> "engine", level |-> "log"]
Keys == DOMAIN KeySection
Defaults == [interval_ms |-> 1000, min_reclaimable_mb |-> 64,
             dry_run |-> FALSE, default_mode |-> "pageout", level |-> "info"]

\* Weights are in tenths; mode 1 is cold.
GroupPolicy == [prefix |-> << >>, weight |-> 10, mode |-> 0]

ConfigInit ==
  /\ section = ""
  /\ cfg = Defaults
  /\ groups = << >>
  /\ status = "reading"
  /\ file = << >>
-----------------------------------------------------------------------------
(* Values.                                                                 *)

\* A word is recognised only if nothing follows it.
Word(v, S) == ~ v.note /\ v.is = "word" /\ v.w \in S

\* stoull and stod stop at what follows the number.
IsNumber(v) == v.is = "number"

Levels == {"debug", "info", "warn", "error"}

\* The value has a meaning for the key; the mode takes any.
Readable(k, v) ==
  CASE k \in {"interval_ms", "min_reclaimable_mb"} -> IsNumber(v)
    [] k = "dry_run" -> Word(v, {"true", "false"})
    [] k = "default_mode" -> TRUE
    [] k = "level" -> Word(v, Levels)

\* The conversion to uint32_t.
uint32(n) == n % Word32

Meaning(k, v) ==
  CASE k = "interval_ms" -> uint32(v.n)
    [] k = "min_reclaimable_mb" -> v.n
    [] k = "dry_run" -> Word(v, {"true"})
    [] k = "default_mode" -> IF Word(v, {"cold", "coldonly"}) THEN "cold" ELSE "pageout"
    [] k = "level" -> v.w

\* MUTANT of parse: an unreadable value brings the default back.
parse_Default(k, v, old) == IF Readable(k, v) THEN Meaning(k, v) ELSE Defaults[k]

\* parse_u64, parse_bool, ...: an unreadable value leaves the setting as it is.
parse(k, v, old) == IF Readable(k, v) THEN Meaning(k, v) ELSE old

\* What trim(v) leaves of a path: the comment is part of it.
Text(v) == IF v.is # "path" THEN <<"?">> ELSE IF v.note THEN Append(v.p, "#") ELSE v.p

\* One field of a group.
Assign(g, field, v) ==
  CASE field = "prefix" -> [g EXCEPT !.prefix = Text(v)]
    [] field = "weight" -> [g EXCEPT !.weight = IF IsNumber(v) THEN v.n ELSE 10]
    [] field = "mode" -> [g EXCEPT !.mode = IF Word(v, {"cold"}) THEN 1 ELSE 0]
    [] OTHER -> g
-----------------------------------------------------------------------------
(* Config::reload                                                          *)

Reads(l) ==
  /\ status = "reading"
  /\ Len(file) < MaxLines
  /\ file' = Append(file, l)

\* A header ends with its bracket.
Header(l) == l.kind = "section" /\ ~ l.note

SectionLine(l) ==
  /\ Header(l)
  /\ Reads(l)
  /\ section' = l.name
  /\ UNCHANGED <<cfg, groups, status>>

SettingLine(l) ==
  /\ l.kind = "set"
  /\ Reads(l)
  /\ cfg' = IF section = KeySection[l.key]
            THEN [cfg EXCEPT ![l.key] = parse(l.key, l.val, @)] ELSE cfg
  /\ UNCHANGED <<section, groups, status>>

\* MUTANT of Resized: the vector is resized to every index met, smaller ones too.
Resized_Always(n) == [i \in 1 .. n |-> IF i <= Len(groups) THEN groups[i] ELSE GroupPolicy]

\* groups.resize(n), if there are fewer.
Resized(n) ==
  [i \in 1 .. Max({n, Len(groups)}) |-> IF i <= Len(groups) THEN groups[i] ELSE GroupPolicy]

\* An index that is not a number is taken for 0.
Index(l) == IF IsNumber(l.idx) THEN l.idx.n ELSE 0

\* Indices count from 0.
GroupLine(l) ==
  /\ l.kind = "group" /\ section = "groups"
  /\ Index(l) < MaxGroups
  /\ Reads(l)
  /\ groups' = [Resized(Index(l) + 1) EXCEPT ![Index(l) + 1] = Assign(@, l.field, l.val)]
  /\ UNCHANGED <<section, cfg, status>>

\* resize throws and nobody catches, except that the largest index plus 1 is 0: the
\* groups are cleared and a word in front of the vector is written to.
GroupTooFar(l) ==
  /\ l.kind = "group" /\ section = "groups"
  /\ Index(l) >= MaxGroups
  /\ Reads(l)
  /\ IF Index(l) = Word64 - 1 THEN groups' = << >> /\ status' = "corrupt"
     ELSE UNCHANGED groups /\ status' = "terminated"
  /\ UNCHANGED <<section, cfg>>

\* Comments, empty lines, lines without "=", groups outside their section.
OtherLine(l) ==
  /\ \/ l.kind = "section" /\ ~ Header(l)
     \/ l.kind = "group" /\ section # "groups"
     \/ l.kind = "other"
  /\ Reads(l)
  /\ UNCHANGED <<section, cfg, groups, status>>

ConfigNext ==
  \E l \in Lines :
    \/ SectionLine(l) \/ SettingLine(l) \/ GroupLine(l) \/ GroupTooFar(l) \/ OtherLine(l)

ConfigSpec == ConfigInit /\ [][ConfigNext]_cvars
-----------------------------------------------------------------------------
(* The groups' policies.                                                   *)

\* MUTANT of Better: the last group that matches wins.
Better_Last(g, best, path) == IsPrefix(g.prefix, path)

\* g replaces the best group so far; 0 stands for none.
Better(g, best, path) ==
  /\ IsPrefix(g.prefix, path)
  /\ best = 0 \/ Len(g.prefix) > Len(groups[best].prefix)

\* The loop of mode_for, and of weight_for: the index of the group chosen.
BestGroup(path) ==
  LET best[i \in 0 .. Len(groups)] ==
        IF i = 0 THEN 0 ELSE IF Better(groups[i], best[i - 1], path) THEN i ELSE best[i - 1]
  IN  best[Len(groups)]

mode_for(path) ==
  IF BestGroup(path) # 0 THEN groups[BestGroup(path)].mode
  ELSE IF cfg.default_mode = "cold" THEN 1 ELSE 0

weight_for(path) == IF BestGroup(path) # 0 THEN groups[BestGroup(path)].weight ELSE 10
-----------------------------------------------------------------------------
(* Properties.  They are about the file, not about the parser's state.     *)

\* The section line i of the file is in: that of the last "[...]" before it.
SectionAt(i) ==
  LET S == {j \in 1 .. i - 1 : file[j].kind = "section" /\ ~ file[j].note}
  IN  IF S = {} THEN "" ELSE file[Max(S)].name

\* A setting is what the last line that assigns it in its own section, and can be read,
\* says; no other line of the file, readable or not, disturbs it.
SettingsLastWins ==
  \A k \in Keys :
    LET S == {i \in DOMAIN file : /\ file[i].kind = "set" /\ file[i].key = k
                                  /\ SectionAt(i) = KeySection[k]
                                  /\ Readable(k, file[i].val)}
    IN  cfg[k] = IF S = {} THEN Defaults[k] ELSE Meaning(k, file[Max(S)].val)

\* The lines about group n, with a given field.
About(n, field) ==
  {i \in DOMAIN file : /\ file[i].kind = "group" /\ Index(file[i]) = n /\ file[i].field = field
                       /\ SectionAt(i) = "groups"}

\* A group is the last words on each of its fields, in whatever order the indices come;
\* nothing else a file says removes or changes it.
GroupsLastWins ==
  status = "reading" =>
    \A n \in 0 .. MaxGroups - 1, field \in {"prefix", "weight", "mode"} :
      LET S == About(n, field)
      IN  S # {} => /\ n < Len(groups)
                    /\ groups[n + 1][field] =
                         Assign(GroupPolicy, field, file[Max(S)].val)[field]

\* A process is treated as the group with the longest prefix of its cgroup says, in mode
\* and in weight, however the groups are ordered, and as the default says if there is none.
LongestPrefixWins ==
  \A path \in Paths :
    LET M == {i \in DOMAIN groups : IsPrefix(groups[i].prefix, path)}
    IN  IF M = {}
        THEN mode_for(path) = (IF cfg.default_mode = "cold" THEN 1 ELSE 0) /\ weight_for(path) = 10
        ELSE \E i \in M : /\ \A j \in M : Len(groups[j].prefix) <= Len(groups[i].prefix)
                          /\ mode_for(path) = groups[i].mode
                          /\ weight_for(path) = groups[i].weight
===============================================================================
