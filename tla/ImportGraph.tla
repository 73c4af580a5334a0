----------------------------- MODULE ImportGraph -----------------------------
(***************************************************************************)
(* The import graph of one compilation, as importer.SourceTree.Open,       *)
(* parser.ParseFile and the --descriptor_set_in files present it to        *)
(* parseRecursive, and the questions asked of it: which files a request    *)
(* needs, which of them lie on an import cycle, and whether the request    *)
(* can be satisfied at all.  Everything here is a least set closed under   *)
(* imports, written without recursion so that it can be reasoned about.    *)
(***************************************************************************)
EXTENDS Naturals, Sequences, Functions

CONSTANT File          \* virtual file names

\* What opening and parsing a file yields: SourceTree.Open fails ("absent"),
\* ParseFile returns an error and no result ("malformed"), or a result whose
\* descriptor lists the file's imports ("parses").
Content == {"absent", "malformed", "parses"}

\* What is fixed when compileInternal is entered: the source tree, the files
\* named by the request and the files the descriptor sets contain, in order.
Job == [content       : [File -> Content],
        imports       : [File -> Seq(File)],
        relFiles      : Seq(File),
        descriptorSet : Seq(File)]

Preloaded(j) == Range(j.descriptorSet)

\* The files parseRecursive goes on to from f.  A file of a descriptor set is
\* in "parsed" from the start, so its own imports are never followed.
Expand(j, f) == IF f \in Preloaded(j) \/ j.content[f] # "parses"
                THEN {}
                ELSE Range(j.imports[f])

Closed(j, S) == \A f \in S : Expand(j, f) \subseteq S

\* The files reached from f by one import or more.
Descendants(j, f) ==
    {g \in File : \A S \in SUBSET File :
                     Closed(j, S) /\ Expand(j, f) \subseteq S => g \in S}

\* The requested files and everything they import, directly or not.
Needed(j) ==
    {g \in File : \A S \in SUBSET File :
                     Closed(j, S) /\ Range(j.relFiles) \subseteq S => g \in S}

OnCycle(j, f) == f \in Descendants(j, f)

\* The request has an answer: every file it needs can be opened and parsed, or
\* comes from a descriptor set, and none of them imports itself.
Clean(j) == \A f \in Needed(j) \ Preloaded(j) :
               j.content[f] = "parses" /\ ~OnCycle(j, f)
==============================================================================
