---------------------------- MODULE Directories ----------------------------
(***************************************************************************)
(* The directories between the generator and the job (config.py): staging, *)
(* where a file is written, and incoming, which Spark lists. Nothing reads *)
(* archive, so a file that moves there is gone. A file is named by the run *)
(* that wrote it and its number in that run: names never repeat (the uuid4 *)
(* suffix of write_batch).                                                 *)
(***************************************************************************)
EXTENDS Integers, Sequences, FiniteSets

CONSTANTS
    Runs,       \* the invocations of data_generator.py
    MaxBatches, \* bound: how many files a run writes
    BatchSize   \* --batch-size

ASSUME DirectoriesAssumption ==
    /\ MaxBatches \in Nat
    /\ BatchSize \in Nat \ {0}

VARIABLES
    staging_dir,  \* what each file in data/staging holds
    incoming,     \* what each file in data/incoming holds
    published     \* history: the files that were ever in incoming

directories == <<staging_dir, incoming, published>>

Files == Runs \X (1 .. MaxBatches)
Run(f) == f[1]
Number(f) == f[2]

\* A row is named by its file and its place in it.
Rows == Files \X (1 .. BatchSize)
File(r) == r[1]

\* The directory dir with file f holding text, and without the files F.
With(dir, f, text) == [g \in DOMAIN dir \union {f} |-> IF g = f THEN text ELSE dir[g]]
Without(dir, F) == [g \in DOMAIN dir \ F |-> dir[g]]

DirectoriesInit ==
    /\ staging_dir = <<>>
    /\ incoming = <<>>
    /\ published = {}
=============================================================================
