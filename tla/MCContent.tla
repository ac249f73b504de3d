------------------------------- MODULE MCContent -------------------------------
(* ClaudeContent for TLC.                                                  *)
EXTENDS ClaudeContent, TLC

CONSTANTS a, b, c, prompt, server, t1, t2

\* Two groups; a and b have one name.
ThreeSkills == {a, b, c}
TwoDocs     == {prompt, server}
GroupsOf    == a :> 1 @@ b :> 2 @@ c :> 2
NamesOf     == a :> "x" @@ b :> "x" @@ c :> "y" @@ prompt :> "p" @@ server :> "s"
Segments    == [name \in {"x", "y", "p", "s"} |-> name]
TwoTexts    == {t1, t2}
BadJson     == {t2}

Whole(t) == <<t, t>>
Only(t)  == <<t, Missing>>
Docs1    == prompt :> Only(t1) @@ server :> Only(t1)
Libraries ==
  { a :> Whole(t1) @@ b :> Nothing @@ c :> Only(t1) @@ Docs1,
    a :> Only(t1) @@ b :> Whole(t1) @@ c :> Nothing @@ Docs1 }

Spoken == {<<1>>, <<2, 1>>, <<1, 1>>, <<1, Outside>>}

Ref(kind, thing, print) == [kind |-> kind, name |-> NamesOf[thing], at |-> thing, print |-> print]
Unprinted(kind, thing) == [kind |-> kind, name |-> NamesOf[thing], at |-> thing]
Candidates ==
  { {Ref("instruction", prompt, Only(t1)), Ref("mcp", server, Only(t1))},
    {Unprinted("instruction", prompt), Unprinted("skill", a)},
    {Ref("skill", a, Whole(t1)), Ref("mcp", server, Only(t1))},
    {Ref("skill", a, Whole(t1)), Unprinted("hook", prompt)},
    {[Ref("skill", a, Whole(t1)) EXCEPT !.at = Outside]},
    {Ref("skill", a, Wrong)} }

Says(permission, strict, plugin, scope) ==
  [main |-> [flag \in MainFlags |->
               CASE flag = "--permission-mode"   -> permission
                 [] flag = "--strict-mcp-config" -> strict
                 [] flag = "--plugin-dir"        -> plugin
                 [] OTHER                        -> "exact"],
   scope |-> scope]
SomeVersions == { Says("exact", "exact", "exact", "exact"),
                  Says("other", "absent", "exact", "exact"),
                  Says("exact", "exact", "absent", "other") }
=============================================================================
