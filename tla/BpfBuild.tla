------------------------------- MODULE BpfBuild -------------------------------
(***************************************************************************)
(* The build script of the guard (guard/build.rs): where the BPF object    *)
(* that is embedded in fips-guard comes from.  A file name is [v |-> its   *)
(* version, s |-> its spelling], with v = -1 for every name that is not    *)
(* clang-<number>; numbers may be spelled in several ways.                 *)
(***************************************************************************)
EXTENDS Integers, Sequences, SequencesExt, Sorting

Clang == [v |-> -1, s |-> "clang"]
UnreadableDir == <<>> \* is passed over, like an empty one
None == [v |-> -3, s |-> "none"]

(* Every versioned name on PATH, once, in the order of the directories. *)
Versioned(path) ==
    LET names == FlattenSeq(path)
        upTo[i \in 0 .. Len(names)] ==
            IF i = 0 THEN <<>>
            ELSE IF names[i].v >= 0 /\ ~Contains(upTo[i - 1], names[i])
                 THEN Append(upTo[i - 1], names[i]) ELSE upTo[i - 1]
    IN  upTo[Len(names)]

(* The key of the sort.  The slip forgets the Reverse. *)
Age_forward(n) == n.v
Age(n) == -n.v

clang_candidates(path) ==
    LET found == Versioned(path)
    IN  <<Clang>> \o sort_by_key(found, [i \in DOMAIN found |-> Age(found[i])])

(* The first candidate that runs; None where the script panics. *)
pick_clang(candidates, works) ==
    LET i == SelectInSeq(candidates, LAMBDA c : c \in works)
    IN  IF i = 0 THEN None ELSE candidates[i]

multiarch_include_dirs(arch) ==
    CASE arch = "arm" -> <<"arm-linux-gnueabihf", "arm-linux-gnueabi">>
      [] arch = "x86_64" -> <<"x86_64-linux-gnu">>
      [] arch = "aarch64" -> <<"aarch64-linux-gnu">>
      [] arch = "riscv64" -> <<"riscv64-linux-gnu">>
      [] arch = "powerpc64" -> <<"powerpc64le-linux-gnu">>
      [] OTHER -> <<>>

(* main: a prebuilt object is copied; otherwise a compiler is chosen, the  *)
(* operator's or the best that runs, and called with the include           *)
(* directories that exist.  "panic" ends the build.                        *)
build(env) ==
    LET candidates == IF env.clang # None THEN <<env.clang>>
                      ELSE clang_candidates(env.path)
        clang == pick_clang(candidates, env.works)
    IN  IF env.prebuilt # "unset"
        THEN [how |-> IF env.prebuilt = "readable" THEN "copied" ELSE "panic"]
        ELSE IF clang = None \/ ~env.compiles THEN [how |-> "panic"]
        ELSE [how |-> "compiled", by |-> clang,
              include |-> SelectSeq(multiarch_include_dirs(env.arch),
                                    LAMBDA d : d \in env.dirs)]
===============================================================================
