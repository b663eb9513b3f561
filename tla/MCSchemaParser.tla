--------------------------- MODULE MCSchemaParser ---------------------------
\* Small files for SchemaParser: two sound ones, and those that some edits make of
\* them.
EXTENDS SchemaParser, TLC

L(indent, key, value) == [indent |-> indent, key |-> key, value |-> value]

MCKey ==
  {"schema", "method", "relations", "@metadata", "service", "@route", "@exec",
   "@args_input", "@args_output", "decl_args", "decl_format", "description", "tags",
   "@a", "@b"}
MCValue ==
  {"", "S", "R", "@a.x.f.v1", "@b.x.g.v1", "url", "sync", "json", "0", "1", "p", "p,p",
   ".p", "c", "odd"}
MCServiceRef == {"@a.x.f.v1", "@b.x.g.v1"}
MCRelationOf == ("@a.x.f.v1" :> "@a") @@ ("@b.x.g.v1" :> "@b")
MCMode == {"sync"}
MCFormat == {"json"}
MCRoute == {"url"}
MCCountOf == ("" :> -1) @@ ("0" :> 0) @@ ("1" :> 1)
MCParamsOf == ("p" :> <<"p">>) @@ ("p,p" :> <<"p", "p">>) @@ (".p" :> <<"">>)
MCTagsOf ==
  [v \in MCValue |-> IF v = "p,p" THEN <<"p", "p">> ELSE IF v = "" THEN <<>> ELSE <<v>>]

\* One method, its schema first.
Plain ==
  << L(0, "schema", "S"), L(2, "service", "@a.x.f.v1"), L(2, "@route", "url"),
     L(0, "method", "@a.x.f.v1"), L(2, "@exec", "sync"),
     L(2, "@args_output", "1"), L(4, "decl_args", "p"), L(4, "decl_format", "json"),
     L(0, "relations", "R"), L(2, "@a", "c") >>

\* Two methods, the relations before them, inputs after outputs.
Mixed ==
  << L(0, "schema", "S"), L(2, "@metadata", ""), L(4, "description", "c"),
     L(2, "service", "@a.x.f.v1"), L(2, "service", "@b.x.g.v1"), L(2, "@route", "url"),
     L(0, "relations", "R"), L(2, "@b", "c"), L(2, "@a", "c"),
     L(0, "method", "@b.x.g.v1"), L(2, "@args_output", ""),
     L(4, "decl_format", "json"), L(4, "decl_args", "p"), L(2, "@exec", "sync"),
     L(0, "method", "@a.x.f.v1"), L(2, "@args_output", "1"), L(4, "decl_args", "p"),
     L(4, "decl_format", "json"), L(2, "@args_input", "0"), L(2, "@exec", "sync") >>

\* Lines to put in: every kind of line, and values that some check refuses.
MCLines ==
  { L(0, "schema", "S"), L(0, "method", "@b.x.g.v1"), L(0, "method", "odd"),
    L(0, "relations", "R"),
    L(2, "@metadata", ""), L(2, "@metadata", "odd"), L(2, "service", "@b.x.g.v1"),
    L(2, "service", "odd"), L(2, "@route", "odd"), L(2, "@exec", "odd"),
    L(2, "@exec", "sync"), L(2, "@args_input", "1"), L(2, "@args_input", "odd"),
    L(2, "@args_output", "0"), L(2, "@a", "c"), L(2, "@b", ""),
    L(4, "decl_args", "p"), L(4, "decl_args", "p,p"), L(4, "decl_args", ".p"),
    L(4, "decl_args", "odd"), L(4, "decl_format", "json"), L(4, "description", "c"),
    L(4, "tags", "p"), L(4, "tags", "p,p"), L(0, NoKey, "odd"), L(2, NoKey, "odd") }

Cut(f) == { SubSeq(f, 1, i - 1) \o SubSeq(f, i + 1, Len(f)) : i \in DOMAIN f }
Put(f) == { SubSeq(f, 1, i) \o <<l>> \o SubSeq(f, i + 1, Len(f)) :
              i \in 0 .. Len(f), l \in MCLines }
Swap(f) == { [f EXCEPT ![i] = f[i + 1], ![i + 1] = f[i]] : i \in 1 .. (Len(f) - 1) }

\* One edit of each file, and a line put into the plain one with a line cut or moved.
Edited(f) == {f} \cup Cut(f) \cup Swap(f)
MCFile == UNION { Put(f) : f \in Edited(Plain) } \cup Put(Mixed) \cup Edited(Mixed)
=============================================================================
