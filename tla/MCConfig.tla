------------------------------- MODULE MCConfig -------------------------------
(***************************************************************************)
(* Small instances of Config.                                              *)
(***************************************************************************)
EXTENDS Config

Number(n) == [is |-> "number", n |-> n, note |-> FALSE]
Name(w, note) == [is |-> "word", w |-> w, note |-> note]
Path(p, note) == [is |-> "path", p |-> p, note |-> note]

Section(name, note) == [kind |-> "section", name |-> name, note |-> note]
Setting(key, val) == [kind |-> "set", key |-> key, val |-> val]
Group(idx, field, val) == [kind |-> "group", idx |-> idx, field |-> field, val |-> val]

\* Headers, one of them with a comment; settings that can be read, that cannot, that do not
\* fit, with a comment, out of their section; groups in any order, with and without a
\* prefix, with an index that is no number, too large, and the largest.
MCLines ==
  { Section("engine", FALSE), Section("groups", FALSE), Section("groups", TRUE),
    Setting("interval_ms", Number(2500)), Setting("interval_ms", Name("fast", FALSE)),
    Setting("dry_run", Name("true", TRUE)), Setting("default_mode", Name("cold", FALSE)),
    Setting("default_mode", Name("cold", TRUE)), Setting("level", Name("warn", FALSE)),
    Group(Number(0), "prefix", Path(<<"/u">>, FALSE)),
    Group(Name("x", FALSE), "mode", Name("cold", FALSE)),
    Group(Number(1), "prefix", Path(<<"/u", "/0">>, FALSE)),
    Group(Number(1), "prefix", Path(<<"/u">>, TRUE)),
    Group(Number(1), "weight", Number(3)),
    Group(Number(9), "mode", Name("cold", FALSE)),
    Group(Number(3999), "mode", Name("cold", FALSE)) }

MCPaths == {<<"/s">>, <<"/u">>, <<"/u", "/0">>}
===============================================================================
