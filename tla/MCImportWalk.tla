----------------------------- MODULE MCImportWalk -----------------------------
(* Instances of ImportWalk: every import graph over three files.            *)
EXTENDS ImportWalk, SequencesExt

CONSTANTS a, b, c, MaxImports

\* One requested file, or two of which the second may already have been walked.
Requests == {<<a>>, <<a, b>>}

\* No descriptor set, one with a file that is also in the source tree, and two
\* sets that both contain c.
DescriptorSets == {<<>>, <<b>>, <<c, b, c>>}

\* ParseFile refuses an import listed twice, so import lists are injective; only
\* the imports of a file that parses are ever looked at.
ImportLists == {s \in BoundedSeq(File, MaxImports) : IsInjective(s)}

Sources == {s \in [content : Content, imports : ImportLists] :
              s.content # "parses" => s.imports = <<>>}

MCJobs == {[content       |-> [f \in File |-> src[f].content],
            imports       |-> [f \in File |-> src[f].imports],
            relFiles      |-> r,
            descriptorSet |-> d] :
             src \in [File -> Sources], r \in Requests, d \in DescriptorSets}
===============================================================================
