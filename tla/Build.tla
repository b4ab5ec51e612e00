-------------------------------- MODULE Build --------------------------------
(***************************************************************************)
(* libsodium-sys/build.rs under cargo: where the library that is linked    *)
(* comes from, after any sequence of builds with other environments, other *)
(* sources, failures and interruptions, in directories that may be shared. *)
(*                                                                         *)
(* Checkouts have their own OUT_DIR, but those whose path contains a space *)
(* all fall back to one directory in the temporary directory, which no     *)
(* lock of cargo protects and `cargo clean` does not remove.               *)
(*                                                                         *)
(* cargo, configure, make and the file system are external.  `make`        *)
(* compiles what is newer than its object, so a source file is `new` from  *)
(* when it is copied until it is compiled.                                 *)
(***************************************************************************)
EXTENDS Integers, FiniteSets

CONSTANTS
  Checkouts,
  Spaces,       \* the checkouts whose OUT_DIR contains a space
  TempDir,
  Code,         \* source files of libsodium that are compiled
  Versions,     \* versions of libsodium's sources
  Setups        \* who builds on which platform, with which environments and
                \* versions, which files are read-only, and the bound on the number
                \* of calls of cargo

ASSUME BuildAssumption ==
  /\ Spaces \subseteq Checkouts /\ TempDir \notin Checkouts
  /\ "configure" \notin Code /\ ".git" \notin Code
  /\ Versions \subseteq Nat \ {0}
  /\ \A s \in Setups : /\ s.who \subseteq Checkouts /\ s.versions \subseteq Versions
                        /\ \A e \in s.envs : e.nopie \in BOOLEAN

VARIABLES
  setup,      \* platform, feature and environments, fixed by the choice of the program
  pc, env, ver,     \* of each checkout: step of the build, environment and sources
  todo,       \* entries of the source tree still to be copied
  rec,        \* what cargo remembers of the last script that succeeded
  files, conf, obj, lib,      \* of each directory: sources, Makefile, objects, library
  alone,      \* history: nobody else wrote to the directory since the script began
  skipped,    \* history: an entry of the source tree could not be read
  linked,     \* what the last build linked
  runs

disk == <<files, conf, obj, lib>>
vars == <<setup, pc, env, ver, todo, rec, disk, alone, skipped, linked, runs>>

-----------------------------------------------------------------------------
Files   == Code \cup {"configure", ".git"}
Missing == 0
Partial == -1

NoFile   == [ver |-> Missing, new |-> FALSE]
NoObject == [ver |-> Missing, nopie |-> FALSE]
NoLib    == [ok |-> FALSE, obj |-> [f \in Code |-> NoObject]]

\* The fallback for paths with spaces; target and profile are the same here.
Dir(c) == IF c \in Spaces THEN TempDir ELSE c
Dirs   == Checkouts \cup {TempDir}

Windows == setup.host \in {"mingw", "msvc"}

\* Fault: SODIUM_SHARED is forgotten.
Watched_NoShared == {"libdir", "pkg", "nopie"}

\* Fault: SODIUM_DISABLE_PIE is forgotten.
Watched_NoPie == {"libdir", "shared", "pkg"}

\* The variables of which cargo is told, by name.
Watched == {"libdir", "shared", "pkg"} \cup (IF Windows THEN {} ELSE {"nopie"})

-----------------------------------------------------------------------------
(* main                                                                    *)

Unset == "unset"
NoEnv == [static |-> FALSE, libdir |-> Unset, pkg |-> FALSE, shared |-> FALSE, nopie |-> FALSE]

UsePkg(e) == setup.feature \/ e.pkg

Panics(e) == e.static \/ (e.libdir # Unset /\ UsePkg(e))

Way(e) == IF e.libdir # Unset THEN "env" ELSE IF UsePkg(e) THEN "pkg" ELSE "source"

\* The directory with the library: make_libsodium's result, or the libraries
\* for Windows of the crate, which depend on what the script was compiled for.
LibDir(c) == IF Windows THEN setup.host ELSE Dir(c)

\* build_libsodium names the library by the target.
LinkName == IF setup.target = "msvc" THEN "libsodium" ELSE "sodium"

\* What the script prints: find_libsodium_env, the pkg_config crate, or the end
\* of build_libsodium.
Directives(c, e) ==
  CASE Way(e) = "env" -> [way |-> "env", dir |-> e.libdir,
                          mode |-> IF e.shared THEN "dylib" ELSE "static",
                          name |-> IF setup.host = "msvc" THEN "libsodium" ELSE "sodium"]
    [] Way(e) = "pkg" -> [way |-> "pkg", dir |-> Unset, mode |-> Unset, name |-> "sodium"]
    [] OTHER          -> [way |-> "source", dir |-> LibDir(c), mode |-> "static", name |-> LinkName]

\* The script of c has succeeded; cargo (external) remembers this.
NoRec == [ok |-> FALSE]
Succeeded(c, e, v) == [ok |-> TRUE, env |-> e, ver |-> v, link |-> Directives(c, e)]

\* cargo (external) runs the script unless it remembers one that succeeded with
\* these values of the variables that it was told of.  Changes of files do not
\* count: the script names none.
UpToDate(c, e) == rec[c].ok /\ \A x \in Watched : rec[c].env[x] = e[x]

NotLinked == [ok |-> FALSE]

\* The user calls cargo, with some environment and some version of the sources.
Called(c) ==
  /\ pc[c] = "idle" /\ runs < setup.runs
  /\ runs'   = runs + 1
  /\ linked' = [linked EXCEPT ![c] = NotLinked]
  /\ UNCHANGED <<setup, disk>>

Begin(c, e, v, step) ==
  /\ Called(c)
  /\ env' = [env EXCEPT ![c] = e]
  /\ ver' = [ver EXCEPT ![c] = v]
  /\ pc'  = [pc EXCEPT ![c] = step]

Reuse(c, e, v) ==
  /\ Begin(c, e, v, "reuse")
  /\ UpToDate(c, e)
  /\ UNCHANGED <<todo, rec, alone, skipped>>

\* The script panics at once: for the variables, or in find_libsodium_pkg.
Refuse(c, e) ==
  /\ Called(c)
  /\ ~UpToDate(c, e)
  /\ Panics(e) \/ Way(e) = "pkg"
  /\ rec' = [rec EXCEPT ![c] = NoRec]
  /\ UNCHANGED <<pc, env, ver, todo, alone, skipped>>

\* find_libsodium_env, or find_libsodium_pkg if pkg-config knows the library.
Find(c, e, v) ==
  /\ Begin(c, e, v, "link")
  /\ ~UpToDate(c, e) /\ ~Panics(e) /\ Way(e) # "source"
  /\ Way(e) = "pkg" => setup.host # "msvc"
  /\ rec' = [rec EXCEPT ![c] = Succeeded(c, e, v)]
  /\ UNCHANGED <<todo, alone, skipped>>

-----------------------------------------------------------------------------
(* build_libsodium and make_libsodium                                      *)

\* The entries that the script copies: all but .git.
Walked == Files \ {".git"}

StartSource(c, e, v) ==
  /\ Begin(c, e, v, "copy")
  /\ ~UpToDate(c, e) /\ ~Panics(e) /\ Way(e) = "source"
  /\ todo'    = [todo EXCEPT ![c] = Walked]
  /\ rec'     = [rec EXCEPT ![c] = NoRec]
  /\ alone'   = [alone EXCEPT ![c] = TRUE]
  /\ skipped' = [skipped EXCEPT ![c] = FALSE]

\* c writes to its directory.
Touch(c) == alone' = [x \in Checkouts |-> alone[x] /\ (x = c \/ Dir(x) # Dir(c))]

\* The build ends, and its environment with it.
Stop(c) ==
  /\ pc'   = [pc EXCEPT ![c] = "idle"]
  /\ env'  = [env EXCEPT ![c] = NoEnv]
  /\ ver'  = [ver EXCEPT ![c] = Missing]
  /\ todo' = [todo EXCEPT ![c] = {}]

Rest == <<setup, rec, linked, runs>>
Call == <<env, ver>>

\* fs::copy of a file (external) keeps its permissions and cannot write over a
\* file that is read-only, as those of git are; others may be.
Denied(c, f) == f \in setup.readonly \cup {".git"} /\ files[Dir(c)][f].ver # Missing

\* Fault: what is there already is not copied again.
CopyTo_IfMissing(d, f, v) ==
  files' = IF files[d][f].ver # Missing THEN files
           ELSE [files EXCEPT ![d][f] = [ver |-> v, new |-> TRUE]]

\* The copy is newer than what was compiled before.
CopyTo(d, f, v) == files' = [files EXCEPT ![d][f] = [ver |-> v, new |-> TRUE]]

\* The walk comes to the entries in some order.
Entry(c) == CHOOSE f \in todo[c] : TRUE

\* A copy that fails is a panic: FailCopy.
Copy(c) ==
  /\ pc[c] = "copy" /\ todo[c] # {}
  /\ ~Denied(c, Entry(c))
  /\ CopyTo(Dir(c), Entry(c), ver[c])
  /\ todo' = [todo EXCEPT ![c] = @ \ {Entry(c)}]
  /\ Touch(c)
  /\ UNCHANGED <<Rest, Call, pc, conf, obj, lib, skipped>>

\* `filter_map(Result::ok)` passes over entries that cannot be read.
Skip(c) ==
  /\ pc[c] = "copy" /\ todo[c] # {}
  /\ todo'    = [todo EXCEPT ![c] = @ \ {Entry(c)}]
  /\ skipped' = [skipped EXCEPT ![c] = TRUE]
  /\ UNCHANGED <<Rest, Call, pc, disk, alone>>

\* On Windows nothing is built.
UsePrebuilt(c) ==
  /\ pc[c] = "copy" /\ todo[c] = {} /\ Windows
  /\ rec' = [rec EXCEPT ![c] = Succeeded(c, env[c], ver[c])]
  /\ pc'  = [pc EXCEPT ![c] = "link"]
  /\ UNCHANGED <<setup, env, ver, linked, runs, disk, todo, alone, skipped>>

\* configure is found, and the target is one that the script knows.
Configurable(c) == files[Dir(c)]["configure"].ver # Missing /\ setup.target # "unknown-ios"

Configure(c) ==
  /\ pc[c] = "copy" /\ todo[c] = {} /\ ~Windows
  /\ Configurable(c) /\ files[Dir(c)]["configure"].ver # Partial
  /\ conf' = [conf EXCEPT ![Dir(c)] = [ver |-> files[Dir(c)]["configure"].ver, nopie |-> env[c].nopie]]
  /\ pc'   = [pc EXCEPT ![c] = "make"]
  /\ Touch(c)
  /\ UNCHANGED <<Rest, Call, files, obj, lib, todo, skipped>>

\* What `make` (external) makes of the directory, if it compiles the files of S.
Whole(d, S)    == \A f \in S : files[d][f].ver \in Versions
Stale(d)       == {f \in Code : files[d][f].new \/ obj[d][f].ver = Missing}
Compiled(d, S) ==
  [f \in Code |-> IF f \in S THEN [ver |-> files[d][f].ver, nopie |-> conf[d].nopie] ELSE obj[d][f]]
Built(d, S)    ==
  [f \in Files |-> IF f \in S THEN [files[d][f] EXCEPT !.new = FALSE] ELSE files[d][f]]

MakeIn(d, S) ==
  /\ obj'   = [obj EXCEPT ![d] = Compiled(d, S)]
  /\ files' = [files EXCEPT ![d] = Built(d, S)]

\* `make check`, or `make all` for another machine.
Make(c) ==
  /\ pc[c] = "make"
  /\ Whole(Dir(c), Stale(Dir(c)))
  /\ MakeIn(Dir(c), Stale(Dir(c)))
  /\ pc' = [pc EXCEPT ![c] = "install"]
  /\ Touch(c)
  /\ UNCHANGED <<Rest, Call, conf, lib, todo, skipped>>

\* `make install` compiles what has become new in the meantime.
Install(c) ==
  LET d == Dir(c)
  IN  /\ pc[c] = "install"
      /\ Whole(d, Stale(d))
      /\ MakeIn(d, Stale(d))
      /\ lib' = [lib EXCEPT ![d] = [ok |-> TRUE, obj |-> Compiled(d, Stale(d))]]
      /\ rec' = [rec EXCEPT ![c] = Succeeded(c, env[c], ver[c])]
      /\ pc'  = [pc EXCEPT ![c] = "link"]
      /\ Touch(c)
      /\ UNCHANGED <<setup, env, ver, linked, runs, conf, todo, skipped>>

-----------------------------------------------------------------------------
(* Failures.  A command fails, or the user interrupts it; either way the   *)
(* script ends without cargo remembering anything, and what was written    *)
(* stays, the last file of it in part.                                     *)

FailCopy(c) ==
  /\ pc[c] = "copy"
  /\ \/ /\ todo[c] # {} /\ ~Denied(c, Entry(c))
        /\ CopyTo(Dir(c), Entry(c), Partial)
        /\ Touch(c)
     \/ UNCHANGED <<files, alone>>   \* the copy is denied; configure fails or is missing
  /\ Stop(c)
  /\ UNCHANGED <<Rest, conf, obj, lib, skipped>>

\* The objects of S are made, and the one of f in part.
FailMake(c) ==
  LET d == Dir(c)
  IN  /\ pc[c] = "make"
      /\ \E S \in SUBSET Stale(d) :
           /\ Whole(d, S)
           /\ files' = [files EXCEPT ![d] = Built(d, S)]
           /\ \/ obj' = [obj EXCEPT ![d] = Compiled(d, S)]
              \/ \E f \in S : obj' = [obj EXCEPT ![d] =
                                        [Compiled(d, S) EXCEPT ![f].ver = Partial]]
      /\ Stop(c) /\ Touch(c)
      /\ UNCHANGED <<Rest, conf, lib, skipped>>

FailInstall(c) ==
  /\ pc[c] = "install"
  /\ lib' = [lib EXCEPT ![Dir(c)] = NoLib]
  /\ Stop(c) /\ Touch(c)
  /\ UNCHANGED <<Rest, files, conf, obj, skipped>>

-----------------------------------------------------------------------------
(* cargo (external)                                                        *)

\* The library that make_libsodium installed.
FromDir(c) == rec[c].link.way = "source" /\ ~Windows

\* rustc links what the script of the checkout named: in this call of cargo, or,
\* if the record was reused, in an earlier one, of the sources `built`.
Link(c) ==
  /\ pc[c] \in {"link", "reuse"}
  /\ FromDir(c) => lib[Dir(c)].ok
  /\ linked' = [linked EXCEPT ![c] =
       [ok |-> TRUE, env |-> env[c], ver |-> ver[c], link |-> rec[c].link,
        reused |-> pc[c] = "reuse", built |-> rec[c].ver,
        own |-> FromDir(c) /\ alone[c] /\ ~skipped[c], obj |-> lib[Dir(c)].obj]]
  /\ Stop(c)
  /\ UNCHANGED <<setup, rec, disk, alone, skipped, runs>>

\* The library is not there or not whole: someone else is installing it.
LinkFails(c) ==
  /\ pc[c] \in {"link", "reuse"} /\ FromDir(c) /\ ~lib[Dir(c)].ok
  /\ Stop(c)
  /\ UNCHANGED <<Rest, disk, alone, skipped>>

\* `cargo clean`; the fallback directory stays as it is.
Clean(c) ==
  /\ pc[c] = "idle" /\ rec[c] # NoRec
  /\ rec' = [rec EXCEPT ![c] = NoRec]
  /\ files' = [files EXCEPT ![c] = [f \in Files |-> NoFile]]
  /\ conf'  = [conf EXCEPT ![c] = NoObject]
  /\ obj'   = [obj EXCEPT ![c] = [f \in Code |-> NoObject]]
  /\ lib'   = [lib EXCEPT ![c] = NoLib]
  /\ UNCHANGED <<setup, pc, env, ver, todo, alone, skipped, linked, runs>>

-----------------------------------------------------------------------------
Init ==
  /\ setup \in Setups
  /\ pc = [c \in Checkouts |-> "idle"]
  /\ env = [c \in Checkouts |-> NoEnv]
  /\ ver = [c \in Checkouts |-> Missing]
  /\ todo = [c \in Checkouts |-> {}]
  /\ rec = [c \in Checkouts |-> NoRec]
  /\ files = [d \in Dirs |-> [f \in Files |-> NoFile]]
  /\ conf = [d \in Dirs |-> NoObject]
  /\ obj = [d \in Dirs |-> [f \in Code |-> NoObject]]
  /\ lib = [d \in Dirs |-> NoLib]
  /\ alone = [c \in Checkouts |-> FALSE]
  /\ skipped = [c \in Checkouts |-> FALSE]
  /\ linked = [c \in Checkouts |-> NotLinked]
  /\ runs = 0

Cargo(c) ==
  \E e \in setup.envs :
    \/ Refuse(c, e)
    \/ \E v \in setup.versions : Reuse(c, e, v) \/ Find(c, e, v) \/ StartSource(c, e, v)

Next ==
  \/ \E c \in setup.who : Cargo(c)
  \/ \E c \in Checkouts : \/ Copy(c) \/ Skip(c) \/ UsePrebuilt(c) \/ Configure(c) \/ Make(c) \/ Install(c)
                          \/ FailCopy(c) \/ FailMake(c) \/ FailInstall(c)
                          \/ Link(c) \/ LinkFails(c) \/ Clean(c)

Spec == Init /\ [][Next]_vars

-----------------------------------------------------------------------------
(* Properties                                                              *)

\* What is linked comes from where this environment says, also if cargo did
\* not run the script again: as if it had been run now.  (SODIUM_STATIC alone
\* is not noticed.)
LinkFollowsEnv ==
  \A c \in Checkouts :
    linked[c].ok => /\ linked[c].link = Directives(c, linked[c].env)
                    /\ ~(linked[c].env.libdir # Unset /\ UsePkg(linked[c].env))

\* A build that has its directory to itself, from the start of the script until
\* it links, links a library that is all of one version of the sources and all
\* compiled with its own flags: whatever builds of other versions, for other
\* flags, that failed or were interrupted, left there before, and also if it is
\* the fallback directory.  If the script ran, these are the sources of this
\* call of cargo.  If cargo found its record up to date, they are those of the
\* script that made the record, which need not be the present ones: the script
\* names no files that cargo should watch.
OwnLibrary ==
  \A c \in Checkouts :
    linked[c].ok /\ linked[c].own =>
      LET v == IF linked[c].reused THEN linked[c].built ELSE linked[c].ver
      IN  linked[c].obj = [f \in Code |-> [ver |-> v, nopie |-> linked[c].env.nopie]]

Undisturbed(c) == alone[c] /\ ~skipped[c]

Object == [ver : Int, nopie : BOOLEAN]
Steps  == {"idle", "copy", "make", "install", "link", "reuse"}

\* Types of the variables but rec and linked.
TypeOK ==
  /\ setup \in Setups
  /\ pc \in [Checkouts -> Steps]
  /\ \A c \in Checkouts : env[c].nopie \in BOOLEAN
  /\ ver \in [Checkouts -> Versions \cup {Missing}]
  /\ todo \in [Checkouts -> SUBSET Walked]
  /\ files \in [Dirs -> [Files -> [ver : Int, new : BOOLEAN]]]
  /\ conf \in [Dirs -> Object] /\ obj \in [Dirs -> [Code -> Object]]
  /\ lib \in [Dirs -> [ok : BOOLEAN, obj : [Code -> Object]]]
  /\ alone \in [Checkouts -> BOOLEAN] /\ skipped \in [Checkouts -> BOOLEAN]

\* The step that a build is at, and what cargo remembers.
Running(c) ==
  /\ pc[c] \in {"copy", "make", "install"} =>
       ver[c] \in Versions /\ ~rec[c].ok /\ Way(env[c]) = "source" /\ ~Panics(env[c])
  /\ pc[c] \in {"make", "install"} => todo[c] = {}
  /\ pc[c] \in {"link", "reuse"} => UpToDate(c, env[c])
  /\ pc[c] = "link" => rec[c].ver = ver[c]
  /\ rec[c].ok => rec[c].link = Directives(c, rec[c].env) /\ ~Panics(rec[c].env)

\* What an undisturbed script has done to its directory.
Copied(c) ==
  pc[c] \in {"copy", "make"} =>
    \A f \in Walked \ todo[c] : files[Dir(c)][f] = [ver |-> ver[c], new |-> TRUE]
Configured(c) ==
  pc[c] \in {"make", "install"} => conf[Dir(c)].nopie = env[c].nopie
Made(c) ==
  pc[c] = "install" =>
    /\ Stale(Dir(c)) = {}
    /\ obj[Dir(c)] = [f \in Code |-> [ver |-> ver[c], nopie |-> env[c].nopie]]
Installed(c) ==
  rec[c].ok /\ FromDir(c) =>
    /\ lib[Dir(c)].ok
    /\ lib[Dir(c)].obj = [f \in Code |-> [ver |-> rec[c].ver, nopie |-> rec[c].env.nopie]]
Progress(c) == Undisturbed(c) => Copied(c) /\ Configured(c) /\ Made(c) /\ Installed(c)

\* What an undisturbed script has done, step by step, in spite of all that was
\* left behind, and what cargo remembers; no directory has files of git.
BuildInv ==
  /\ TypeOK
  /\ \A c \in Checkouts : Running(c) /\ Progress(c)
  /\ \A d \in Dirs : files[d][".git"] = NoFile
=============================================================================
