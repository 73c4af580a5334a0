----------------------------- MODULE MCTypePhases -----------------------------
(* Instances of TypePhases: every lookup of a short name in nested scopes        *)
(* against two files; chains, crossings and circles of public imports; imports   *)
(* used in every way; undefined types next to a failed import.                   *)
EXTENDS TypePhases, SequencesExt, TLC

CONSTANTS a, b, x, y, z, w, ey, ez

Messages(S) == [p \in S |-> "message"]

Nothing == [package |-> <<>>, declares |-> Messages({}), deps |-> <<>>, public |-> <<>>,
            refs |-> <<>>, located |-> TRUE, optionDeps |-> <<>>,
            extends |-> {}, sets |-> {}]

Data(pkg, decl, deps, public, refs) ==
    [Nothing EXCEPT !.package = pkg, !.declares = decl, !.deps = deps,
                    !.public = public, !.refs = refs]

Ref(role, scope, name) == [role |-> role, scope |-> scope, absolute |-> FALSE, name |-> name]
Full(role, name) == [role |-> role, scope |-> <<>>, absolute |-> TRUE, name |-> name]

Pool(files, ordered, relFiles) ==
    [files |-> files, ordered |-> ordered, relFiles |-> relFiles, file |-> x, failed |-> {}]

\* Lookups.  Message b of x holds the reference; x imports y.
Inside == {{<<b>>} \cup S : S \in SUBSET {<<a>>, <<b, a>>, <<b, b>>}}
Imported == {Messages({<<a>>}), Messages({<<a>>, <<a, b>>}), <<b>> :> "enum"}
Written == {<<a>>, <<b>>, <<a, b>>, <<b, a>>}

LookupJobs ==
    {Pool([f \in File |->
             IF f = x THEN Data(px, Messages(in), <<y>>, <<>>, <<Ref(role, <<b>>, name)>>)
             ELSE IF f = y THEN Data(py, out, <<>>, <<>>, <<>>)
             ELSE Nothing],
          <<y, x>>, <<x>>) :
        px \in {<<>>, <<a>>}, in \in Inside, py \in {<<>>, <<a>>, <<a, b>>}, out \in Imported,
        role \in {"field", "method"}, name \in Written}
        \cup
    {Pool([f \in File |->
             IF f = x THEN Data(<<>>, Messages(in), <<y>>, <<>>, <<Ref("value", <<b, b>>, name)>>)
             ELSE IF f = y THEN Data(py, out, <<>>, <<>>, <<>>)
             ELSE Nothing],
          <<y, x>>, <<x>>) :
        in \in {S \in Inside : <<b, b>> \in S}, py \in {<<>>, <<a>>}, out \in Imported,
        name \in Written}

\* Imports.  Each file declares one type; x and w use two of them by full name.
Own == (x :> <<a>>) @@ (y :> <<b>>) @@ (z :> <<a, a>>) @@ (w :> <<b, b>>)

Shapes == {\* a chain of public imports, and a crossing
           (x :> <<y>>) @@ (y :> <<z>>) @@ (z :> <<w>>) @@ (w :> <<>>),
           (x :> <<y, z>>) @@ (y :> <<w>>) @@ (z :> <<w, y>>) @@ (w :> <<>>),
           \* circles, as only descriptor sets have them
           (x :> <<y>>) @@ (y :> <<z>>) @@ (z :> <<y, w>>) @@ (w :> <<x>>),
           (x :> <<y, z>>) @@ (y :> <<x>>) @@ (z :> <<z>>) @@ (w :> <<z>>)}

ImportJobs ==
    {Pool([f \in File |->
             [Data(<<>>, Own[f] :> (IF f = w THEN "enum" ELSE "message"), s[f],
                   IF f \in pub THEN [i \in 1 .. Len(s[f]) + 1 |-> i] ELSE <<>>,
                   IF f \in {x, w} THEN <<Full(role, Own[w]), Full(role, Own[z])>> ELSE <<>>)
              EXCEPT !.located = (f \notin unlocated)]],
          o, <<x>>) :
        s \in Shapes, pub \in SUBSET {y, z, w}, role \in Role, unlocated \in {{}, {x}},
        o \in {<<w, z, y, x>>, <<z, y, x>>}}

\* Uses.  x imports y and z in every way, y may import z publicly, and x refers to
\* any types and sets any options of theirs.  It does not see w, which may declare an
\* extension like y's, before it or after it.
RefsTo(S) == SetToSeq({Ref("field", <<>>, name) : name \in S})

UnusedJobs ==
    {Pool([f \in File |->
             IF f = z THEN [Nothing EXCEPT !.declares = <<a, b>> :> "message", !.extends = {ez}]
             ELSE IF f = y
             THEN [Data(<<>>, (<<a>> :> "message") @@ (<<b>> :> "enum"), <<z>>, py, <<>>)
                   EXCEPT !.extends = {ey}]
             ELSE IF f = x
             THEN [Data(<<>>, Messages({}), d[1], px, RefsTo(used))
                   EXCEPT !.optionDeps = d[2], !.sets = set]
             ELSE [Nothing EXCEPT !.extends = {ey}]],
          o, r) :
        py \in {<<>>, <<1>>}, px \in {<<>>, <<1>>},
        d \in {<<<<y, z>>, <<>>>>, <<<<y>>, <<z>>>>, <<<<z, y>>, <<>>>>, <<<<>>, <<y, z>>>>},
        used \in SUBSET {<<a>>, <<b>>, <<a, b>>},
        set \in SUBSET {ey, ez},
        o \in {<<z, y, x>>, <<w, z, y, x>>, <<z, y, x, w>>},
        r \in {<<x>>, <<w, y, x>>}}

\* Failures.  x imports y, and w, which has failed; z is behind a public import of y,
\* imported by x as well, or not in sight.
\* The reference is in the message b or, for a map's value, in its entry b.b.
Place(role, name) == Ref(role, IF role = "value" THEN <<b, b>> ELSE <<b>>, name)
Around(role) == IF role = "value" THEN {<<b>>, <<b, b>>} ELSE {<<b>>}

Declarations == {Messages({}), Messages({<<a>>, <<a, b>>}), <<b>> :> "enum"}

UnresolvedJobs ==
    {[Pool([f \in File |->
              IF f = x
              THEN Data(px, Messages(Around(role)), dx, <<>>, <<Place(role, name)>>)
              ELSE IF f = y THEN Data(<<>>, dy, <<z>>, py, <<>>)
              ELSE IF f = z THEN Data(pz, dz, <<>>, <<>>, <<>>)
              ELSE Data(<<a>>, Messages({<<b>>}), <<>>, <<>>, <<>>)],
           <<z, y>>, <<x>>) EXCEPT !.failed = {w}] :
        px \in {<<>>, <<a>>}, pz \in {<<>>, <<a>>}, dx \in {<<y, w>>, <<w, z>>, <<w>>},
        dy \in Declarations, dz \in Declarations, py \in {<<>>, <<1>>},
        role \in {"field", "value", "extendee", "method"}, name \in {<<a>>, <<b>>, <<a, b>>, <<a, a>>}}

\* In scope a.b the name a.b means a.a.b, of y, until z is in sight, whose a.b.a hides it.
HiddenJobs ==
    {[Pool([f \in File |->
              IF f = x THEN Data(<<a, b>>, Messages({<<b>>}), dx, <<>>, <<Ref("field", <<b>>, name)>>)
              ELSE IF f = y THEN Data(<<a>>, Messages({<<a>>, <<a, b>>}), <<z>>, <<1>>, <<>>)
              ELSE IF f = z THEN Data(<<a, b>>, Messages({<<a>>}), <<>>, <<>>, <<>>)
              ELSE Nothing],
           <<z, y>>, <<x>>) EXCEPT !.failed = {w}] :
        dx \in {<<y, w>>, <<z, w, y>>}, name \in {<<a, b>>, <<a>>, <<a, a>>}}

MCJobs == LookupJobs \cup ImportJobs \cup UnusedJobs \cup UnresolvedJobs \cup HiddenJobs
===============================================================================
