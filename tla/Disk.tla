-------------------------------- MODULE Disk --------------------------------
(***************************************************************************)
(* subunit2disk: every test gets a directory of its own under a root, with *)
(* a summary and a file for each detail. A path is the sequence of the     *)
(* names on it, an absolute one given by a program begins with "".         *)
(***************************************************************************)
EXTENDS Dict, Naturals

CONSTANTS
    Directory,      \* the root of the export
    Existing        \* what files may be there before

ASSUME DiskAssumption ==
    /\ Directory \in Seq(STRING) \ {<<>>}
    /\ \A disk \in Existing : IsFiniteSet(DOMAIN disk)

VARIABLES
    files,          \* path -> content: a summary, or the bytes of a detail
    exported,       \* history: the tests, and the path of each detail
    broken          \* whether export() has raised
diskVars == <<files, exported, broken>>

DiskInit == files \in Existing /\ exported = <<>> /\ broken = FALSE

-----------------------------------------------------------------------------
(* _allocate_path.                                                          *)

Join(root, sub) == IF sub[1] = "" THEN Tail(sub) ELSE root \o sub

Realpath(path) ==
    FoldLeft(LAMBDA real, n : IF n # ".." THEN Append(real, n)
                              ELSE IF real = <<>> THEN real ELSE Front(real), <<>>, path)

(* startswith, on the texts of the paths: "/out" is a prefix of "/out2".    *)
StartsWith(path, root) ==
    LET n == Len(root) IN
    /\ Len(path) >= n /\ SubSeq(path, 1, n - 1) = Front(root)
    /\ Len(path[n]) >= Len(root[n]) /\ SubSeq(path[n], 1, Len(root[n])) = root[n]

Squash(sub) == <<FoldLeft(LAMBDA text, n : text \o "_" \o n, Head(sub), Tail(sub))>>

Inside(root, sub) == StartsWith(Realpath(Join(root, sub)), root)
Candidate(root, sub) ==
    Realpath(Join(root, IF Inside(root, sub) THEN sub ELSE Squash(sub)))

(* A lone ".." is squashed to itself, for ever.                             *)
Endless(root, sub) == ~Inside(root, sub) /\ Squash(sub) = sub

(* A directory is there when something is in it.                            *)
Exists(disk, path) == \E f \in DOMAIN disk : IsPrefix(path, f)

Suffixed(name, n) == IF n = 0 THEN name ELSE name \o "-" \o ToString(n)
Probe(path, n) == Append(Front(path), Suffixed(Last(path), n))

(* Mutant of Free: only the first suffix is tried.                          *)
FreeOnce(disk, path) == IF Exists(disk, path) THEN Probe(path, 1) ELSE path

Free(disk, path) ==
    Probe(path, Min({n \in 0..Cardinality(DOMAIN disk) : ~Exists(disk, Probe(path, n))}))

Allocate(disk, root, sub) == Free(disk, Candidate(root, sub))

-----------------------------------------------------------------------------
(* DiskExporter.export: the summary, then the details one by one. What is   *)
(* written before one of them raises stays.                                 *)

(* Below a file there is no room for another.                               *)
Blocked(disk, path) == \E f \in DOMAIN disk : IsStrictPrefix(f, path)

(* _open_path and the write. `made` is where an export goes, and the files  *)
(* and the paths so far.                                                    *)
Write(made, file) ==
    IF made.broken \/ Endless(made.root, file.name) THEN [made EXCEPT !.broken = TRUE]
    ELSE LET path == Allocate(made.files, made.root, file.name) IN
         IF Blocked(made.files, path) THEN [made EXCEPT !.broken = TRUE]
         ELSE [made EXCEPT !.files = Updated(@, path, file.content),
                           !.paths = Updated(@, file.name, path)]

Summary(test) ==
    [id |-> test.id, tags |-> test.tags, status |-> test.status, details |-> ToSet(test.details.keys),
     start |-> test.start, stop |-> test.stop]

Contents(test) ==
    <<[name |-> <<"test.json">>, content |-> Summary(test)]>>
      \o [i \in DOMAIN test.details.keys |->
           LET name == test.details.keys[i]
           IN  [name |-> name, content |-> [bytes |-> test.details.value[name]]]]

Made(disk, test) ==
    FoldLeft(Write, [root |-> Allocate(disk, Directory, test.id), files |-> disk,
                     paths |-> <<>>, broken |-> FALSE], Contents(test))

(* `disk` is the variables while tests are exported. After one that raises   *)
(* no other is exported.                                                    *)
ExportOne(disk, test) ==
    IF disk.broken THEN disk
    ELSE IF Endless(Directory, test.id) THEN [disk EXCEPT !.broken = TRUE]
    ELSE LET made == Made(disk.files, test)
         IN  [files |-> made.files, broken |-> made.broken,
              exported |-> IF made.broken THEN disk.exported
                           ELSE Append(disk.exported, [test |-> test, paths |-> made.paths])]

(* The tests handed out at one packet, or at the end, are exported in turn. *)
Export(tests) ==
    LET all == FoldLeft(ExportOne,
                        [files |-> files, exported |-> exported, broken |-> broken], tests)
    IN  files' = all.files /\ exported' = all.exported /\ broken' = all.broken
=============================================================================
