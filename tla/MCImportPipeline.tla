--------------------------- MODULE MCImportPipeline ---------------------------
(* Instances of ImportPipeline: import graphs over four files, two of them   *)
(* large, with room for two small files in the inline budget and one slot    *)
(* for two workers; sharing, cycles, unusable files and a descriptor set.    *)
EXTENDS ImportPipeline, TLC

CONSTANTS a, b, c, d

\* a and d are small, b and c are large.
MCSize == (a :> 1) @@ (b :> 3) @@ (c :> 3) @@ (d :> 2)

Leaves == [f \in File |-> <<>>]

\* A diamond whose bottom is queued from both sides, a circle behind it, and a file
\* that only the walk of another would ask for.
Graphs == {[Leaves EXCEPT ![a] = <<b, c>>, ![b] = <<d>>, ![c] = <<d, b>>],
           [Leaves EXCEPT ![a] = <<b, d>>, ![b] = <<c>>, ![c] = <<b, d>>],
           [Leaves EXCEPT ![a] = <<b, c>>, ![b] = <<a>>, ![c] = <<b>>],
           [Leaves EXCEPT ![b] = <<c, a>>, ![c] = <<a>>, ![d] = <<c>>]}

AllParse == [f \in File |-> "parses"]
Contents == {AllParse, [AllParse EXCEPT ![d] = "absent"], [AllParse EXCEPT ![c] = "malformed"],
             [AllParse EXCEPT ![b] = "malformed"]}

MCJobs == {[content |-> cont, imports |-> g, relFiles |-> r, descriptorSet |-> ds] :
             cont \in Contents, g \in Graphs, r \in {<<a>>, <<b, a>>, <<d, c>>}, ds \in {<<>>, <<c>>}}
===============================================================================
