------------------------------ MODULE SourceTree ------------------------------
(***************************************************************************)
(* importer.SourceTree: how the names of files and the paths on disk are    *)
(* mapped to each other.  A name or path is a sequence of components, as    *)
(* slashes separate them: it starts with "" if it starts with a slash.  A   *)
(* path on disk that has been made absolute has no "" in front.  A disk is  *)
(* the set of its files, of absolute path; directories are what files are   *)
(* in.  A mapping has the name and the absolute path of a directory.        *)
(***************************************************************************)
EXTENDS Integers, Sequences, FiniteSets, SequencesExt

\* No file, no name.
Nothing == <<>>

\* filepath.Clean.
Clean(path) ==
    LET Go(done, part) ==
            IF part \in {"", "."} THEN done
            ELSE IF part # ".." THEN Append(done, part)
            ELSE IF done = <<>> THEN <<>> ELSE Front(done)
    IN  FoldLeft(Go, <<>>, path)

IsAbs(path) == Head(path) = ""
Abs(cwd, path) == Clean(IF IsAbs(path) THEN path ELSE cwd \o path)

\* filepath.Rel of absolute paths.
Rel(base, target) ==
    LET common == Len(LongestCommonPrefix({base, target}))
        up == [i \in 1 .. Len(base) - common |-> ".."]
        path == up \o SubSeq(target, common + 1, Len(target))
    IN  IF path = <<>> THEN <<".">> ELSE path

\* os.Stat succeeds.
Stat(disk, path) == \E f \in disk : IsPrefix(path, f)

IsVirtualPathInvalid(name) ==
    \/ \E i \in DOMAIN name : name[i] \in {".", "..", "\\"}
    \/ \E i \in 2 .. Len(name) - 1 : name[i] = ""

\* The file that a mapping has for a name.
DiskFile(m, name) == Clean(m.disk \o SubSeq(name, Len(m.virtual) + 1, Len(name)))

\* Whether it is there, and would be given that name.
Finds(disk, m, name) ==
    /\ IsStrictPrefix(m.virtual, name)
    /\ Stat(disk, DiskFile(m, name))
    /\ m.virtual \o Rel(m.disk, DiskFile(m, name)) = name

\* Mutant: the last mapping counts.
findFileLast(disk, mappings, name) ==
    LET found == {i \in DOMAIN mappings : Finds(disk, mappings[i], name)}
    IN  IF found = {} THEN Nothing
        ELSE DiskFile(mappings[CHOOSE i \in found : \A j \in found : j <= i], name)

findFile(disk, mappings, name) ==
    LET found == {i \in DOMAIN mappings : Finds(disk, mappings[i], name)}
    IN  IF found = {} THEN Nothing
        ELSE DiskFile(mappings[CHOOSE i \in found : \A j \in found : i <= j], name)

\* The bundled files are told from those on disk by their first component.
Bundled(name) == <<"bundled:">> \o name

\* The file that is read.  What is found may be a directory, which cannot be.
Open(disk, mappings, bundled, name) ==
    IF IsVirtualPathInvalid(name) THEN Nothing
    ELSE IF findFile(disk, mappings, name) \in disk THEN findFile(disk, mappings, name)
    ELSE IF name \in bundled THEN Bundled(name)
    ELSE Nothing

\* The name of a file given by name or by path; Nothing is an error.
MakeRelative(disk, mappings, cwd, filename) ==
    LET inside == {i \in DOMAIN mappings :
                     Head(Rel(mappings[i].disk, Abs(cwd, filename))) # ".."}
        first == mappings[CHOOSE i \in inside : \A j \in inside : i <= j]
    IN  IF ~IsAbs(filename) /\ findFile(disk, mappings, filename) # Nothing THEN filename
        ELSE IF inside = {} THEN Nothing
        ELSE first.virtual \o Rel(first.disk, Abs(cwd, filename))
===============================================================================
