---------------------------- MODULE MCCompileCalls ----------------------------
(* Instances of CompileCalls: two concurrent calls, an overlay that hides files *)
(* of the proto paths and adds others, proto paths in and next to each other,   *)
(* mappings that hide and are hidden, paths and names of every form, and        *)
(* descriptor sets with files that are given, imported, overlaid or neither.    *)
EXTENDS CompileCalls, TLC

CONSTANTS c1, c2, d1, d2

MCCwd == <<"w">>

K(overlay, protoPaths, mappings, files, described) ==
    [overlay |-> overlay, protoPaths |-> protoPaths, mappings |-> mappings, files |-> files,
     bundled |-> {<<"b">>, <<"y">>}, described |-> described]
M(virtual, path) == [virtual |-> virtual, disk |-> path]

MCOverlays == {{}, {<<"x">>, <<"p", "y">>}}
MCProtoPaths == {<<>>, <<<<"w">>>>, <<<<"w", "p">>, <<"q">>>>, <<<<"w">>, <<"w", "p">>>>}
MCMappings == {<<>>, <<M(<<"p">>, <<"q">>)>>, <<M(<<"v">>, <<"w">>), M(<<"v">>, <<"q">>)>>}
MCFiles ==
    {{<<"w", "x">>, <<"w", "p", "x">>, <<"w", "p", "y">>},
     {<<"w", "p", "x">>, <<"q", "x">>, <<"q", "y">>},
     {<<"w", "x">>, <<"w", "y", "x">>, <<"q", "y">>, <<"w", "p", "y", "x">>}}
MCDescribed == {{<<"x">>}, {<<"p", "y">>, <<"s">>}, {<<"y">>, <<"b">>, <<"p", "x">>}}
MCCompilers ==
    {K(o, r, m, f, {}) : o \in MCOverlays, r \in MCProtoPaths, m \in MCMappings, f \in MCFiles}
    \cup {K(o, <<<<"w">>, <<"w", "p">>>>, m, {<<"w", "x">>, <<"w", "p", "y">>}, d) :
            o \in MCOverlays, m \in MCMappings, d \in MCDescribed}

Q(paths, imports) == [paths |-> paths, imports |-> imports]
MCRequests ==
    {Q({<<"x">>}, {<<"p", "y">>}),
     Q({<<"p", "x">>, <<"", "w", "x">>}, {<<"y">>}),
     Q({<<"", "w", "p", "y">>}, {<<"v", "x">>, <<"v", "", "x">>}),
     Q({<<"", "q", "x">>}, {<<"b">>}),
     Q({<<"..", "w", "p", "x">>}, {<<"v", "">>}),
     Q({<<"..", "q", "y">>}, {<<"", "x">>}),
     Q({<<".", "p", "y">>}, {})}

MCSymmetry == Permutations({c1, c2}) \cup Permutations({d1, d2})
===============================================================================
