----------------------------- MODULE BuildProofs -----------------------------
(* Proofs about Build, for any checkouts, sources, setups and number of     *)
(* calls.                                                                   *)
EXTENDS Build, TLAPS

-----------------------------------------------------------------------------
(* Directories                                                             *)

LEMMA DirType == \A c \in Checkouts : Dir(c) \in Dirs
  BY DEF Dir, Dirs

LEMMA FileNames == Code \subseteq Walked /\ "configure" \in Walked /\ ".git" \notin Walked
                   /\ Walked \subseteq Files
  BY BuildAssumption DEF Walked, Files

\* rec and linked are functions; their values are of several shapes.
IsFcn == rec = [c \in Checkouts |-> rec[c]] /\ linked = [c \in Checkouts |-> linked[c]]
         /\ env = [c \in Checkouts |-> env[c]]

\* A checkout that takes no step keeps its part of the invariant, unless someone
\* else writes to its directory; then nothing is promised any more.
LEMMA Frame ==
  ASSUME NEW x \in Checkouts, Running(x), Progress(x), setup' = setup,
         pc'[x] = pc[x], env'[x] = env[x], ver'[x] = ver[x], todo'[x] = todo[x],
         rec'[x] = rec[x], skipped'[x] = skipped[x],
         alone'[x] => /\ alone[x]
                      /\ files'[Dir(x)] = files[Dir(x)] /\ conf'[Dir(x)] = conf[Dir(x)]
                      /\ obj'[Dir(x)] = obj[Dir(x)] /\ lib'[Dir(x)] = lib[Dir(x)]
  PROVE  Running(x)' /\ Progress(x)'
<1>1. Running(x)'
  BY DEF Running, UpToDate, Watched, Windows, Directives, Way, UsePkg, Panics, LibDir, LinkName
<1>2. CASE ~alone'[x]
  BY <1>1, <1>2 DEF Progress, Undisturbed
<1>3. CASE alone'[x]
  <2>1. files'[Dir(x)] = files[Dir(x)] /\ conf'[Dir(x)] = conf[Dir(x)]
        /\ obj'[Dir(x)] = obj[Dir(x)] /\ lib'[Dir(x)] = lib[Dir(x)]
    BY <1>3
  <2>2. Dir(x)' = Dir(x) /\ Walked' = Walked
    BY DEF Dir, Walked, Files
  <2>3. Stale(Dir(x))' = Stale(Dir(x))
    BY <2>1 DEF Stale, Dir
  <2>4. FromDir(x)' = FromDir(x)
    BY DEF FromDir, Windows
  <2>5. Undisturbed(x)' => Undisturbed(x)
    BY <1>3 DEF Undisturbed
  <2>6. CASE ~Undisturbed(x)'
    BY <1>1, <2>6 DEF Progress
  <2>7. CASE Undisturbed(x)
    <3>1. Copied(x) /\ Configured(x) /\ Made(x) /\ Installed(x)
      BY <2>7 DEF Progress
    <3>2. Copied(x)'
      BY <2>1, <2>2, <3>1 DEF Copied
    <3>3. Configured(x)'
      BY <2>1, <3>1 DEF Configured
    <3>4. Made(x)'
      BY <2>1, <2>3, <3>1 DEF Made
    <3>5. Installed(x)'
      BY <2>1, <2>4, <3>1 DEF Installed
    <3> QED
      BY <1>1, <3>2, <3>3, <3>4, <3>5 DEF Progress
  <2> QED
    BY <1>1, <2>5, <2>6, <2>7
<1> QED
  BY <1>2, <1>3

\* The checkouts other than the one that takes the step.
LEMMA OthersKeep ==
  ASSUME BuildInv, NEW c \in Checkouts, setup' = setup,
         \A x \in Checkouts \ {c} :
           /\ pc'[x] = pc[x] /\ env'[x] = env[x] /\ ver'[x] = ver[x] /\ todo'[x] = todo[x]
           /\ rec'[x] = rec[x] /\ skipped'[x] = skipped[x]
           /\ alone'[x] => alone[x] /\ Dir(x) # Dir(c),
         \A d \in Dirs \ {Dir(c)} :
           files'[d] = files[d] /\ conf'[d] = conf[d] /\ obj'[d] = obj[d] /\ lib'[d] = lib[d]
  PROVE  \A x \in Checkouts \ {c} : Running(x)' /\ Progress(x)'
<1> TAKE x \in Checkouts \ {c}
<1>1. Running(x) /\ Progress(x)
  BY DEF BuildInv
<1>2. alone'[x] => /\ alone[x]
                   /\ files'[Dir(x)] = files[Dir(x)] /\ conf'[Dir(x)] = conf[Dir(x)]
                   /\ obj'[Dir(x)] = obj[Dir(x)] /\ lib'[Dir(x)] = lib[Dir(x)]
  BY DirType
<1> QED
  BY <1>1, <1>2, Frame

\* The same if nobody's directory changes.
LEMMA OthersKeepDisk ==
  ASSUME BuildInv, NEW c \in Checkouts, setup' = setup, UNCHANGED disk,
         \A x \in Checkouts \ {c} :
           /\ pc'[x] = pc[x] /\ env'[x] = env[x] /\ ver'[x] = ver[x] /\ todo'[x] = todo[x]
           /\ rec'[x] = rec[x] /\ skipped'[x] = skipped[x] /\ alone'[x] = alone[x]
  PROVE  \A x \in Checkouts \ {c} : Running(x)' /\ Progress(x)'
<1> TAKE x \in Checkouts \ {c}
<1>1. Running(x) /\ Progress(x)
  BY DEF BuildInv
<1> QED
  BY <1>1, Frame DEF disk

\* A checkout whose script does not run.
LEMMA AtRest ==
  ASSUME NEW c \in Checkouts, pc'[c] \notin {"copy", "make", "install"},
         Undisturbed(c)' => Installed(c)'
  PROVE  Progress(c)'
  BY DEF Progress, Copied, Configured, Made

-----------------------------------------------------------------------------
(* Calls of cargo                                                          *)

LEMMA ReuseKeeps ==
  ASSUME BuildInv, IsFcn, NEW c \in Checkouts, NEW e \in setup.envs, NEW v \in setup.versions,
         Reuse(c, e, v)
  PROVE  BuildInv' /\ IsFcn'
<1>1. /\ pc' = [pc EXCEPT ![c] = "reuse"] /\ env' = [env EXCEPT ![c] = e]
      /\ ver' = [ver EXCEPT ![c] = v] /\ linked' = [linked EXCEPT ![c] = NotLinked]
      /\ UNCHANGED <<setup, disk, todo, rec, alone, skipped>> /\ UpToDate(c, e)
  BY DEF Reuse, Begin, Called
<1>2. TypeOK' /\ IsFcn'
  <2>1. v \in Versions /\ e.nopie \in BOOLEAN
    BY BuildAssumption DEF BuildInv, TypeOK
  <2> QED
    BY <1>1, <2>1 DEF BuildInv, TypeOK, IsFcn, disk, Steps
<1>3. \A x \in Checkouts \ {c} : Running(x)' /\ Progress(x)'
  <2>1. \A x \in Checkouts \ {c} : pc'[x] = pc[x] /\ env'[x] = env[x] /\ ver'[x] = ver[x]
    BY <1>1 DEF BuildInv, TypeOK, IsFcn
  <2> QED
    BY <1>1, <2>1, OthersKeepDisk
<1>4. Running(c)'
  <2>1. env'[c] = e /\ pc'[c] = "reuse"
    BY <1>1 DEF BuildInv, TypeOK, IsFcn
  <2>2. Running(c)
    BY DEF BuildInv
  <2> QED
    BY <1>1, <2>1, <2>2
       DEF Running, UpToDate, Watched, Windows, Directives, Way, UsePkg, Panics, LibDir, LinkName
<1>5. Progress(c)'
  <2>1. pc'[c] = "reuse"
    BY <1>1 DEF BuildInv, TypeOK
  <2>2. Undisturbed(c)' => Undisturbed(c)
    BY <1>1 DEF Undisturbed
  <2>3. Undisturbed(c) => Installed(c)
    BY DEF BuildInv, Progress
  <2>4. Installed(c) => Installed(c)'
    BY <1>1 DEF Installed, FromDir, Windows, disk
  <2> QED
    BY <2>1, <2>2, <2>3, <2>4, AtRest
<1> QED
  BY <1>1, <1>2, <1>3, <1>4, <1>5 DEF BuildInv, disk

LEMMA RefuseKeeps ==
  ASSUME BuildInv, IsFcn, NEW c \in Checkouts, NEW e \in setup.envs, Refuse(c, e)
  PROVE  BuildInv' /\ IsFcn'
<1>1. /\ rec' = [rec EXCEPT ![c] = NoRec] /\ linked' = [linked EXCEPT ![c] = NotLinked]
      /\ UNCHANGED <<setup, disk, pc, env, ver, todo, alone, skipped>> /\ pc[c] = "idle"
  BY DEF Refuse, Called
<1>2. TypeOK' /\ IsFcn'
  BY <1>1 DEF BuildInv, TypeOK, IsFcn, disk
<1>3. \A x \in Checkouts \ {c} : Running(x)' /\ Progress(x)'
  <2>1. \A x \in Checkouts \ {c} : rec'[x] = rec[x]
    BY <1>1 DEF IsFcn
  <2> QED
    BY <1>1, <2>1, OthersKeepDisk
<1>4. ~rec'[c].ok /\ pc'[c] = "idle"
  BY <1>1 DEF IsFcn, NoRec
<1>5. Running(c)'
  BY <1>4 DEF Running
<1>6. Progress(c)'
  BY <1>4, AtRest DEF Installed
<1> QED
  BY <1>1, <1>2, <1>3, <1>5, <1>6 DEF BuildInv, disk

LEMMA FindKeeps ==
  ASSUME BuildInv, IsFcn, NEW c \in Checkouts, NEW e \in setup.envs, NEW v \in setup.versions,
         Find(c, e, v)
  PROVE  BuildInv' /\ IsFcn'
<1>1. /\ pc' = [pc EXCEPT ![c] = "link"] /\ env' = [env EXCEPT ![c] = e]
      /\ ver' = [ver EXCEPT ![c] = v] /\ linked' = [linked EXCEPT ![c] = NotLinked]
      /\ rec' = [rec EXCEPT ![c] = Succeeded(c, e, v)]
      /\ UNCHANGED <<setup, disk, todo, alone, skipped>> /\ ~Panics(e) /\ Way(e) # "source"
  BY DEF Find, Begin, Called
<1>2. TypeOK' /\ IsFcn'
  <2>1. v \in Versions /\ e.nopie \in BOOLEAN
    BY BuildAssumption DEF BuildInv, TypeOK
  <2> QED
    BY <1>1, <2>1 DEF BuildInv, TypeOK, IsFcn, disk, Steps
<1>3. \A x \in Checkouts \ {c} : Running(x)' /\ Progress(x)'
  <2>1. \A x \in Checkouts \ {c} : /\ pc'[x] = pc[x] /\ env'[x] = env[x] /\ ver'[x] = ver[x]
                                   /\ rec'[x] = rec[x]
    BY <1>1 DEF BuildInv, TypeOK, IsFcn
  <2> QED
    BY <1>1, <2>1, OthersKeepDisk
<1>4. /\ env'[c] = e /\ ver'[c] = v /\ pc'[c] = "link"
      /\ rec'[c].ok /\ rec'[c].env = e /\ rec'[c].ver = v /\ rec'[c].link = Directives(c, e)
  BY <1>1 DEF BuildInv, TypeOK, IsFcn, Succeeded
<1>5. Running(c)'
  <2>1. Directives(c, e)' = Directives(c, e) /\ Panics(e)' = Panics(e)
    BY <1>1 DEF Directives, Way, UsePkg, Panics, LibDir, LinkName, Windows
  <2>2. UpToDate(c, env[c])'
    BY <1>4 DEF UpToDate
  <2>3. (rec[c].link = Directives(c, rec[c].env) /\ ~Panics(rec[c].env))'
    BY <1>1, <1>4 DEF Directives, Way, UsePkg, Panics, LibDir, LinkName, Windows
  <2> QED
    BY <1>4, <2>2, <2>3 DEF Running
<1>6. Progress(c)'
  <2>1. rec'[c].link.way # "source"
    BY <1>1, <1>4 DEF Directives, Way
  <2> QED
    BY <1>4, <2>1, AtRest DEF Installed, FromDir
<1> QED
  BY <1>1, <1>2, <1>3, <1>5, <1>6 DEF BuildInv, disk

LEMMA StartKeeps ==
  ASSUME BuildInv, IsFcn, NEW c \in Checkouts, NEW e \in setup.envs, NEW v \in setup.versions,
         StartSource(c, e, v)
  PROVE  BuildInv' /\ IsFcn'
<1>1. /\ pc' = [pc EXCEPT ![c] = "copy"] /\ env' = [env EXCEPT ![c] = e]
      /\ ver' = [ver EXCEPT ![c] = v] /\ linked' = [linked EXCEPT ![c] = NotLinked]
      /\ rec' = [rec EXCEPT ![c] = NoRec] /\ todo' = [todo EXCEPT ![c] = Walked]
      /\ alone' = [alone EXCEPT ![c] = TRUE] /\ skipped' = [skipped EXCEPT ![c] = FALSE]
      /\ UNCHANGED <<setup, disk>> /\ ~Panics(e) /\ Way(e) = "source"
  BY DEF StartSource, Begin, Called
<1>2. v \in Versions /\ e.nopie \in BOOLEAN
  BY BuildAssumption DEF BuildInv, TypeOK
<1>3. TypeOK' /\ IsFcn'
  BY <1>1, <1>2 DEF BuildInv, TypeOK, IsFcn, disk, Steps, Walked, Files
<1>4. \A x \in Checkouts \ {c} : Running(x)' /\ Progress(x)'
  <2>1. \A x \in Checkouts \ {c} :
          /\ pc'[x] = pc[x] /\ env'[x] = env[x] /\ ver'[x] = ver[x]
          /\ rec'[x] = rec[x] /\ todo'[x] = todo[x] /\ alone'[x] = alone[x] /\ skipped'[x] = skipped[x]
    BY <1>1 DEF BuildInv, TypeOK, IsFcn
  <2> QED
    BY <1>1, <2>1, OthersKeepDisk
<1>5. pc'[c] = "copy" /\ ver'[c] = v /\ ~rec'[c].ok /\ todo'[c] = Walked /\ env'[c] = e
  BY <1>1 DEF BuildInv, TypeOK, IsFcn, NoRec
<1>6. Running(c)'
  BY <1>1, <1>2, <1>5 DEF Running, Way, Panics, UsePkg
<1>7. Progress(c)'
  <2>1. Copied(c)'
    BY <1>5 DEF Copied, Walked, Files
  <2> QED
    BY <1>5, <2>1 DEF Progress, Configured, Made, Installed
<1> QED
  BY <1>1, <1>3, <1>4, <1>6, <1>7 DEF BuildInv, disk

-----------------------------------------------------------------------------
(* Steps of the script                                                     *)

LEMMA EntryType ==
  ASSUME BuildInv, NEW c \in Checkouts, todo[c] # {}
  PROVE  Entry(c) \in todo[c] /\ Entry(c) \in Walked
<1>1. Entry(c) \in todo[c]
  BY DEF Entry
<1> QED
  BY <1>1 DEF BuildInv, TypeOK

\* A copy of one entry, whole or in part, changes that file and nothing else.
LEMMA CopyChanges ==
  ASSUME BuildInv, NEW c \in Checkouts, NEW f \in Walked, NEW v \in Int, CopyTo(Dir(c), f, v)
  PROVE  /\ files' \in [Dirs -> [Files -> [ver : Int, new : BOOLEAN]]]
         /\ \A d \in Dirs \ {Dir(c)} : files'[d] = files[d]
         /\ files'[Dir(c)][f] = [ver |-> v, new |-> TRUE]
         /\ \A g \in Files \ {f} : files'[Dir(c)][g] = files[Dir(c)][g]
         /\ \A d \in Dirs : files'[d][".git"] = NoFile
<1>1. files' = [files EXCEPT ![Dir(c)][f] = [ver |-> v, new |-> TRUE]]
  BY DEF CopyTo
<1>2. /\ files \in [Dirs -> [Files -> [ver : Int, new : BOOLEAN]]] /\ Dir(c) \in Dirs
      /\ f \in Files /\ f # ".git" /\ ".git" \in Files
      /\ \A d \in Dirs : files[d][".git"] = NoFile
  BY DirType, FileNames DEF BuildInv, TypeOK, Files
<1>3. [ver |-> v, new |-> TRUE] \in [ver : Int, new : BOOLEAN]
  OBVIOUS
<1>4. files' \in [Dirs -> [Files -> [ver : Int, new : BOOLEAN]]]
  BY <1>1, <1>2, <1>3
<1>5. \A d \in Dirs \ {Dir(c)} : files'[d] = files[d]
  BY <1>1, <1>2
<1>6. /\ files'[Dir(c)][f] = [ver |-> v, new |-> TRUE]
      /\ \A g \in Files \ {f} : files'[Dir(c)][g] = files[Dir(c)][g]
  BY <1>1, <1>2
<1>7. \A d \in Dirs : files'[d][".git"] = NoFile
  BY <1>2, <1>5, <1>6
<1> QED
  BY <1>4, <1>5, <1>6, <1>7

LEMMA TouchAlone ==
  ASSUME BuildInv, NEW c \in Checkouts, Touch(c)
  PROVE  /\ alone' \in [Checkouts -> BOOLEAN] /\ alone'[c] = alone[c]
         /\ \A x \in Checkouts \ {c} : alone'[x] => alone[x] /\ Dir(x) # Dir(c)
  BY DEF Touch, BuildInv, TypeOK

LEMMA VersionsAreInt == Versions \subseteq Int /\ Missing \in Int /\ Partial \in Int
                        /\ Missing \notin Versions /\ Partial \notin Versions
  BY BuildAssumption DEF Missing, Partial

LEMMA CopyKeeps ==
  ASSUME BuildInv, IsFcn, NEW c \in Checkouts, Copy(c)
  PROVE  BuildInv' /\ IsFcn'
<1> DEFINE f == Entry(c)
<1>1. f \in todo[c] /\ f \in Walked /\ pc[c] = "copy"
  BY EntryType DEF Copy
<1>2. /\ CopyTo(Dir(c), f, ver[c]) /\ pc' = pc /\ todo' = [todo EXCEPT ![c] = @ \ {f}] /\ Touch(c)
      /\ UNCHANGED <<setup, rec, linked, env, ver, conf, obj, lib, skipped>>
  BY DEF Copy, Rest, Call
<1>3. ver[c] \in Versions /\ ver[c] \in Int /\ ~rec[c].ok
  BY <1>1, VersionsAreInt DEF BuildInv, Running
<1> HIDE DEF f
<1>4. /\ files' \in [Dirs -> [Files -> [ver : Int, new : BOOLEAN]]]
      /\ \A d \in Dirs \ {Dir(c)} : files'[d] = files[d]
      /\ files'[Dir(c)][f] = [ver |-> ver[c], new |-> TRUE]
      /\ \A g \in Files \ {f} : files'[Dir(c)][g] = files[Dir(c)][g]
      /\ \A d \in Dirs : files'[d][".git"] = NoFile
  BY <1>1, <1>2, <1>3, CopyChanges
<1>5. TypeOK' /\ IsFcn'
  <2>1. alone' \in [Checkouts -> BOOLEAN]
    BY <1>2, TouchAlone
  <2>2. todo' \in [Checkouts -> SUBSET Walked]
    BY <1>2 DEF BuildInv, TypeOK
  <2> QED
    BY <1>2, <1>4, <2>1, <2>2 DEF BuildInv, TypeOK, IsFcn, Walked, Files
<1>6. \A x \in Checkouts \ {c} : Running(x)' /\ Progress(x)'
  <2>1. \A x \in Checkouts \ {c} : todo'[x] = todo[x] /\ (alone'[x] => alone[x] /\ Dir(x) # Dir(c))
    BY <1>2, TouchAlone DEF BuildInv, TypeOK
  <2> QED
    BY <1>2, <1>4, <2>1, OthersKeep
<1>7. Running(c)'
  <2>1. Running(c)
    BY DEF BuildInv
  <2> QED
    BY <1>1, <1>2, <1>3, <2>1 DEF Running, Way, Panics, UsePkg
<1>8. Progress(c)'
  <2>1. Undisturbed(c)' => Undisturbed(c)
    BY <1>2, TouchAlone DEF Undisturbed
  <2>2. Undisturbed(c) => Copied(c)
    BY DEF BuildInv, Progress
  <2>3. todo'[c] = todo[c] \ {f}
    BY <1>2 DEF BuildInv, TypeOK
  <2>4. Copied(c) => Copied(c)'
    <3>1. SUFFICES ASSUME Copied(c), NEW g \in Walked \ todo'[c]
                   PROVE  files'[Dir(c)][g] = [ver |-> ver[c], new |-> TRUE]
      BY <1>1, <1>2 DEF Copied, Walked, Files
    <3>2. CASE g = f
      BY <1>4, <3>2
    <3>3. CASE g # f
      <4>1. g \in Walked \ todo[c] /\ g \in Files
        BY <2>3, <3>3, FileNames
      <4>2. files[Dir(c)][g] = [ver |-> ver[c], new |-> TRUE]
        BY <1>1, <3>1, <4>1 DEF Copied
      <4> QED
        BY <1>4, <3>3, <4>1, <4>2
    <3> QED
      BY <3>2, <3>3
  <2> QED
    BY <1>1, <1>2, <1>3, <2>1, <2>2, <2>4 DEF Progress, Configured, Made, Installed
<1> QED
  BY <1>4, <1>5, <1>6, <1>7, <1>8 DEF BuildInv

LEMMA SkipKeeps ==
  ASSUME BuildInv, IsFcn, NEW c \in Checkouts, Skip(c)
  PROVE  BuildInv' /\ IsFcn'
<1>1. /\ pc[c] = "copy" /\ todo' = [todo EXCEPT ![c] = @ \ {Entry(c)}]
      /\ skipped' = [skipped EXCEPT ![c] = TRUE]
      /\ UNCHANGED <<setup, rec, linked, env, ver, pc, disk, alone>>
  BY DEF Skip, Rest, Call
<1>2. TypeOK' /\ IsFcn'
  BY <1>1 DEF BuildInv, TypeOK, IsFcn, disk, Walked, Files
<1>3. \A x \in Checkouts \ {c} : Running(x)' /\ Progress(x)'
  <2>1. \A x \in Checkouts \ {c} : todo'[x] = todo[x] /\ skipped'[x] = skipped[x]
    BY <1>1 DEF BuildInv, TypeOK
  <2> QED
    BY <1>1, <2>1, OthersKeepDisk
<1>4. Running(c)'
  <2>1. Running(c)
    BY DEF BuildInv
  <2> QED
    BY <1>1, <2>1 DEF Running, Way, Panics, UsePkg
<1>5. Progress(c)'
  <2>1. skipped'[c]
    BY <1>1 DEF BuildInv, TypeOK
  <2> QED
    BY <2>1 DEF Progress, Undisturbed
<1> QED
  BY <1>1, <1>2, <1>3, <1>4, <1>5 DEF BuildInv, disk

LEMMA PrebuiltKeeps ==
  ASSUME BuildInv, IsFcn, NEW c \in Checkouts, UsePrebuilt(c)
  PROVE  BuildInv' /\ IsFcn'
<1>0. ~Panics(env[c])
  BY DEF UsePrebuilt, BuildInv, Running
<1>1. /\ pc[c] = "copy" /\ Windows /\ pc' = [pc EXCEPT ![c] = "link"]
      /\ rec' = [rec EXCEPT ![c] = Succeeded(c, env[c], ver[c])]
      /\ UNCHANGED <<setup, env, ver, linked, disk, todo, alone, skipped>>
  BY DEF UsePrebuilt
<1>2. TypeOK' /\ IsFcn'
  BY <1>1 DEF BuildInv, TypeOK, IsFcn, disk, Steps, Walked, Files
<1>3. \A x \in Checkouts \ {c} : Running(x)' /\ Progress(x)'
  <2>1. \A x \in Checkouts \ {c} : pc'[x] = pc[x] /\ rec'[x] = rec[x]
    BY <1>1 DEF BuildInv, TypeOK, IsFcn
  <2> QED
    BY <1>1, <2>1, OthersKeepDisk
<1>4. /\ pc'[c] = "link" /\ rec'[c].ok /\ rec'[c].env = env[c] /\ rec'[c].ver = ver'[c]
      /\ rec'[c].link = Directives(c, env[c])
  BY <1>1 DEF BuildInv, TypeOK, IsFcn, Succeeded
<1>5. Running(c)'
  <2>1. UpToDate(c, env[c])'
    BY <1>1, <1>4 DEF UpToDate
  <2>2. (rec[c].link = Directives(c, rec[c].env) /\ ~Panics(rec[c].env))'
    BY <1>0, <1>1, <1>4 DEF Directives, Way, UsePkg, Panics, LibDir, LinkName, Windows
  <2> QED
    BY <1>4, <2>1, <2>2 DEF Running
<1>6. Progress(c)'
  <2>1. ~FromDir(c)'
    BY <1>1 DEF FromDir, Windows
  <2> QED
    BY <1>4, <2>1, AtRest DEF Installed
<1> QED
  BY <1>1, <1>2, <1>3, <1>5, <1>6 DEF BuildInv, disk

LEMMA ConfigureKeeps ==
  ASSUME BuildInv, IsFcn, NEW c \in Checkouts, Configure(c)
  PROVE  BuildInv' /\ IsFcn'
<1> DEFINE k == [ver |-> files[Dir(c)]["configure"].ver, nopie |-> env[c].nopie]
<1>1. /\ pc[c] = "copy" /\ todo[c] = {} /\ pc' = [pc EXCEPT ![c] = "make"]
      /\ conf' = [conf EXCEPT ![Dir(c)] = k] /\ Touch(c)
      /\ UNCHANGED <<setup, rec, linked, env, ver, files, obj, lib, todo, skipped>>
  BY DEF Configure, Rest, Call
<1>2. k \in Object /\ k.nopie = env[c].nopie
  BY DirType, FileNames DEF BuildInv, TypeOK, Object
<1> HIDE DEF k
<1>3. /\ conf' \in [Dirs -> Object] /\ conf'[Dir(c)] = k
      /\ \A d \in Dirs \ {Dir(c)} : conf'[d] = conf[d]
  BY <1>1, <1>2, DirType DEF BuildInv, TypeOK
<1>4. TypeOK' /\ IsFcn'
  <2>1. alone' \in [Checkouts -> BOOLEAN]
    BY <1>1, TouchAlone
  <2> QED
    BY <1>1, <1>3, <2>1 DEF BuildInv, TypeOK, IsFcn, Walked, Files, Steps, Object
<1>5. \A x \in Checkouts \ {c} : Running(x)' /\ Progress(x)'
  <2>1. \A x \in Checkouts \ {c} : pc'[x] = pc[x] /\ (alone'[x] => alone[x] /\ Dir(x) # Dir(c))
    BY <1>1, TouchAlone DEF BuildInv, TypeOK
  <2> QED
    BY <1>1, <1>3, <2>1, OthersKeep
<1>6. pc'[c] = "make" /\ ver[c] \in Versions /\ ~rec[c].ok
  BY <1>1 DEF BuildInv, TypeOK, Running
<1>7. Running(c)'
  <2>1. Running(c)
    BY DEF BuildInv
  <2> QED
    BY <1>1, <1>6, <2>1 DEF Running, Way, Panics, UsePkg
<1>8. Progress(c)'
  <2>1. Undisturbed(c)' => Undisturbed(c)
    BY <1>1, TouchAlone DEF Undisturbed
  <2>2. Undisturbed(c) => Copied(c)
    BY DEF BuildInv, Progress
  <2>3. Copied(c) => Copied(c)'
    BY <1>1 DEF Copied, Walked, Files
  <2>4. Configured(c)'
    BY <1>1, <1>2, <1>3 DEF Configured
  <2> QED
    BY <1>1, <1>6, <2>1, <2>2, <2>3, <2>4 DEF Progress, Made, Installed
<1> QED
  BY <1>1, <1>4, <1>5, <1>7, <1>8 DEF BuildInv

\* What make changes: the objects of S, and the ages of their sources.
LEMMA MakeChanges ==
  ASSUME BuildInv, NEW d \in Dirs, NEW S \in SUBSET Code, NEW o \in [Code -> Object],
         obj' = [obj EXCEPT ![d] = o], files' = [files EXCEPT ![d] = Built(d, S)]
  PROVE  /\ files' \in [Dirs -> [Files -> [ver : Int, new : BOOLEAN]]]
         /\ obj' \in [Dirs -> [Code -> Object]]
         /\ obj'[d] = o
         /\ \A b \in Dirs \ {d} : files'[b] = files[b] /\ obj'[b] = obj[b]
         /\ \A f \in S : files'[d][f].ver = files[d][f].ver /\ ~files'[d][f].new
         /\ \A f \in Files \ S : files'[d][f] = files[d][f]
         /\ \A b \in Dirs : files'[b][".git"] = NoFile
<1>1. /\ files \in [Dirs -> [Files -> [ver : Int, new : BOOLEAN]]]
      /\ S \subseteq Files /\ ".git" \in Files \ S
      /\ \A b \in Dirs : files[b][".git"] = NoFile
      /\ obj \in [Dirs -> [Code -> Object]]
  BY BuildAssumption DEF BuildInv, TypeOK, Files
<1>2. /\ Built(d, S) \in [Files -> [ver : Int, new : BOOLEAN]]
      /\ \A f \in S : Built(d, S)[f].ver = files[d][f].ver /\ ~Built(d, S)[f].new
      /\ \A f \in Files \ S : Built(d, S)[f] = files[d][f]
  <2>1. \A f \in Files : files[d][f] \in [ver : Int, new : BOOLEAN]
    BY <1>1
  <2>2. ASSUME NEW r \in [ver : Int, new : BOOLEAN]
        PROVE  /\ [r EXCEPT !.new = FALSE] \in [ver : Int, new : BOOLEAN]
               /\ [r EXCEPT !.new = FALSE].ver = r.ver /\ ~[r EXCEPT !.new = FALSE].new
    OBVIOUS
  <2>3. \A f \in S : /\ Built(d, S)[f] \in [ver : Int, new : BOOLEAN]
                     /\ Built(d, S)[f].ver = files[d][f].ver /\ ~Built(d, S)[f].new
    <3> TAKE f \in S
    <3>1. Built(d, S)[f] = [files[d][f] EXCEPT !.new = FALSE]
      BY <1>1 DEF Built
    <3>2. files[d][f] \in [ver : Int, new : BOOLEAN]
      BY <1>1, <2>1
    <3> QED
      BY <2>2, <3>1, <3>2
  <2>4. \A f \in Files \ S : Built(d, S)[f] = files[d][f]
    BY DEF Built
  <2>5. \A f \in Files : Built(d, S)[f] \in [ver : Int, new : BOOLEAN]
    BY <2>1, <2>3, <2>4
  <2>6. Built(d, S) = [f \in Files |-> Built(d, S)[f]]
    BY DEF Built
  <2> HIDE DEF Built
  <2> QED
    BY <2>3, <2>4, <2>5, <2>6
<1>3. files'[d] = Built(d, S) /\ obj'[d] = o
      /\ \A b \in Dirs \ {d} : files'[b] = files[b] /\ obj'[b] = obj[b]
  BY <1>1
<1>4. files' \in [Dirs -> [Files -> [ver : Int, new : BOOLEAN]]] /\ obj' \in [Dirs -> [Code -> Object]]
  BY <1>1, <1>2
<1> QED
  BY <1>1, <1>2, <1>3, <1>4

LEMMA CompiledType ==
  ASSUME BuildInv, NEW d \in Dirs, NEW S \in SUBSET Code
  PROVE  Compiled(d, S) \in [Code -> Object]
<1>1. \A f \in S : [ver |-> files[d][f].ver, nopie |-> conf[d].nopie] \in Object
  BY DEF BuildInv, TypeOK, Object, Files
<1>2. \A f \in Code : obj[d][f] \in Object
  BY DEF BuildInv, TypeOK
<1> QED
  BY <1>1, <1>2 DEF Compiled

LEMMA MakeKeeps ==
  ASSUME BuildInv, IsFcn, NEW c \in Checkouts, Make(c)
  PROVE  BuildInv' /\ IsFcn'
<1> DEFINE d == Dir(c)
           S == Stale(d)
           o == Compiled(d, S)
<1>1. /\ pc[c] = "make" /\ pc' = [pc EXCEPT ![c] = "install"] /\ Touch(c)
      /\ obj' = [obj EXCEPT ![d] = o] /\ files' = [files EXCEPT ![d] = Built(d, S)]
      /\ UNCHANGED <<setup, rec, linked, env, ver, conf, lib, todo, skipped>>
  BY DEF Make, MakeIn, Rest, Call
<1>2. d \in Dirs /\ S \in SUBSET Code
  BY DirType DEF Stale
<1>3. o \in [Code -> Object]
  BY <1>2, CompiledType
<1> HIDE DEF o, S
<1>4. /\ files' \in [Dirs -> [Files -> [ver : Int, new : BOOLEAN]]]
      /\ obj' \in [Dirs -> [Code -> Object]]
      /\ obj'[d] = o
      /\ \A b \in Dirs \ {d} : files'[b] = files[b] /\ obj'[b] = obj[b]
      /\ \A f \in S : files'[d][f].ver = files[d][f].ver /\ ~files'[d][f].new
      /\ \A f \in Files \ S : files'[d][f] = files[d][f]
      /\ \A b \in Dirs : files'[b][".git"] = NoFile
  BY <1>1, <1>2, <1>3, MakeChanges
<1>5. TypeOK' /\ IsFcn'
  <2>1. alone' \in [Checkouts -> BOOLEAN]
    BY <1>1, TouchAlone
  <2> QED
    BY <1>1, <1>4, <2>1 DEF BuildInv, TypeOK, IsFcn, Walked, Files, Steps, Object
<1>6. \A x \in Checkouts \ {c} : Running(x)' /\ Progress(x)'
  <2>1. \A x \in Checkouts \ {c} : pc'[x] = pc[x] /\ (alone'[x] => alone[x] /\ Dir(x) # Dir(c))
    BY <1>1, TouchAlone DEF BuildInv, TypeOK
  <2> QED
    BY <1>1, <1>4, <2>1, OthersKeep
<1>7. pc'[c] = "install" /\ ver[c] \in Versions /\ ~rec[c].ok /\ todo[c] = {}
  BY <1>1 DEF BuildInv, TypeOK, Running
<1>8. Running(c)'
  <2>1. Running(c)
    BY DEF BuildInv
  <2> QED
    BY <1>1, <1>7, <2>1 DEF Running, Way, Panics, UsePkg
<1>9. Progress(c)'
  <2>1. Undisturbed(c)' => Undisturbed(c)
    BY <1>1, TouchAlone DEF Undisturbed
  <2>2. SUFFICES ASSUME Copied(c), Configured(c)
                 PROVE  Progress(c)'
    BY <2>1 DEF BuildInv, Progress
  <2>3. \A f \in Code : files[d][f] = [ver |-> ver[c], new |-> TRUE]
    BY <1>1, <1>7, <2>2, FileNames DEF Copied
  <2>4. conf[d].nopie = env[c].nopie
    BY <1>1, <2>2 DEF Configured
  <2>5. S = Code
    BY <2>3 DEF S, Stale
  <2>6. o = [f \in Code |-> [ver |-> ver[c], nopie |-> env[c].nopie]]
    BY <2>3, <2>4, <2>5 DEF o, Compiled
  <2>7. Stale(d)' = {}
    <3>1. \A f \in Code : ~files'[d][f].new /\ obj'[d][f].ver # Missing
      BY <1>4, <1>7, <2>5, <2>6, VersionsAreInt
    <3> QED
      BY <3>1 DEF Stale
  <2>8. Made(c)'
    BY <1>1, <1>4, <2>6, <2>7 DEF Made
  <2>9. Configured(c)'
    BY <1>1, <2>4 DEF Configured
  <2> QED
    BY <1>1, <1>7, <2>8, <2>9 DEF Progress, Copied, Installed
<1> QED
  BY <1>4, <1>5, <1>6, <1>8, <1>9 DEF BuildInv

LEMMA InstallKeeps ==
  ASSUME BuildInv, IsFcn, NEW c \in Checkouts, Install(c)
  PROVE  BuildInv' /\ IsFcn'
<1> DEFINE d == Dir(c)
           S == Stale(d)
           o == Compiled(d, S)
<1>1. /\ pc[c] = "install" /\ pc' = [pc EXCEPT ![c] = "link"] /\ Touch(c)
      /\ obj' = [obj EXCEPT ![d] = o] /\ files' = [files EXCEPT ![d] = Built(d, S)]
      /\ lib' = [lib EXCEPT ![d] = [ok |-> TRUE, obj |-> o]]
      /\ rec' = [rec EXCEPT ![c] = Succeeded(c, env[c], ver[c])]
      /\ UNCHANGED <<setup, linked, env, ver, conf, todo, skipped>>
  BY DEF Install, MakeIn
<1>2. d \in Dirs /\ S \in SUBSET Code
  BY DirType DEF Stale
<1>3. o \in [Code -> Object]
  BY <1>2, CompiledType
<1> HIDE DEF o, S
<1>4. /\ files' \in [Dirs -> [Files -> [ver : Int, new : BOOLEAN]]]
      /\ obj' \in [Dirs -> [Code -> Object]]
      /\ \A b \in Dirs \ {d} : files'[b] = files[b] /\ obj'[b] = obj[b]
      /\ \A b \in Dirs : files'[b][".git"] = NoFile
  BY <1>1, <1>2, <1>3, MakeChanges
<1>5. /\ lib' \in [Dirs -> [ok : BOOLEAN, obj : [Code -> Object]]]
      /\ lib'[d] = [ok |-> TRUE, obj |-> o] /\ \A b \in Dirs \ {d} : lib'[b] = lib[b]
  <2>1. [ok |-> TRUE, obj |-> o] \in [ok : BOOLEAN, obj : [Code -> Object]]
    BY <1>3
  <2> QED
    BY <1>1, <1>2, <2>1 DEF BuildInv, TypeOK
<1>6. TypeOK' /\ IsFcn'
  <2>1. alone' \in [Checkouts -> BOOLEAN]
    BY <1>1, TouchAlone
  <2> QED
    BY <1>1, <1>4, <1>5, <2>1 DEF BuildInv, TypeOK, IsFcn, Walked, Files, Steps, Object
<1>7. \A x \in Checkouts \ {c} : Running(x)' /\ Progress(x)'
  <2>1. \A x \in Checkouts \ {c} : /\ pc'[x] = pc[x] /\ rec'[x] = rec[x]
                                   /\ alone'[x] => alone[x] /\ Dir(x) # Dir(c)
    BY <1>1, TouchAlone DEF BuildInv, TypeOK, IsFcn
  <2> QED
    BY <1>1, <1>4, <1>5, <2>1, OthersKeep
<1>8. /\ pc'[c] = "link" /\ rec'[c].ok /\ rec'[c].env = env[c] /\ rec'[c].ver = ver[c]
      /\ rec'[c].link = Directives(c, env[c])
  BY <1>1 DEF BuildInv, TypeOK, IsFcn, Succeeded
<1>9. Running(c)'
  <2>0. ~Panics(env[c])
    BY <1>1 DEF BuildInv, Running
  <2>1. UpToDate(c, env[c])'
    BY <1>1, <1>8 DEF UpToDate
  <2>2. (rec[c].link = Directives(c, rec[c].env) /\ ~Panics(rec[c].env))'
    BY <1>1, <1>8, <2>0 DEF Directives, Way, UsePkg, Panics, LibDir, LinkName, Windows
  <2> QED
    BY <1>1, <1>8, <2>1, <2>2 DEF Running
<1>10. Progress(c)'
  <2>1. Undisturbed(c)' => Undisturbed(c)
    BY <1>1, TouchAlone DEF Undisturbed
  <2>2. Undisturbed(c) => Installed(c)'
    <3>1. SUFFICES ASSUME Made(c)
                   PROVE  Installed(c)'
      BY DEF BuildInv, Progress
    <3>2. S = {} /\ obj[d] = [f \in Code |-> [ver |-> ver[c], nopie |-> env[c].nopie]]
      BY <1>1, <3>1 DEF Made, S
    <3>3. o = [f \in Code |-> [ver |-> ver[c], nopie |-> env[c].nopie]]
      BY <3>2 DEF o, Compiled
    <3>4. lib'[d].ok /\ lib'[d].obj = o
      BY <1>5
    <3> QED
      BY <1>8, <3>3, <3>4 DEF Installed
  <2> QED
    BY <1>8, <2>1, <2>2, AtRest
<1> QED
  BY <1>4, <1>6, <1>7, <1>9, <1>10 DEF BuildInv

-----------------------------------------------------------------------------
(* Failures, links and cleaning                                            *)

\* A script that ends without success, whatever it leaves in its directory.
LEMMA FailureKeeps ==
  ASSUME BuildInv, IsFcn, NEW c \in Checkouts, pc[c] \in {"copy", "make", "install"}, Stop(c),
         UNCHANGED <<setup, rec, linked, skipped, conf>>,
         alone' \in [Checkouts -> BOOLEAN],
         \A x \in Checkouts \ {c} : alone'[x] => alone[x] /\ Dir(x) # Dir(c),
         files' \in [Dirs -> [Files -> [ver : Int, new : BOOLEAN]]],
         obj' \in [Dirs -> [Code -> Object]],
         lib' \in [Dirs -> [ok : BOOLEAN, obj : [Code -> Object]]],
         \A d \in Dirs \ {Dir(c)} : files'[d] = files[d] /\ obj'[d] = obj[d] /\ lib'[d] = lib[d],
         \A d \in Dirs : files'[d][".git"] = NoFile
  PROVE  BuildInv' /\ IsFcn'
<1>1. /\ pc' = [pc EXCEPT ![c] = "idle"] /\ env' = [env EXCEPT ![c] = NoEnv]
      /\ ver' = [ver EXCEPT ![c] = Missing] /\ todo' = [todo EXCEPT ![c] = {}]
  BY DEF Stop
<1>2. TypeOK' /\ IsFcn'
  BY <1>1 DEF BuildInv, TypeOK, IsFcn, Walked, Files, Steps, Object, NoEnv
<1>3. \A x \in Checkouts \ {c} : Running(x)' /\ Progress(x)'
  <2>1. \A x \in Checkouts \ {c} :
          pc'[x] = pc[x] /\ env'[x] = env[x] /\ ver'[x] = ver[x] /\ todo'[x] = todo[x]
    BY <1>1 DEF BuildInv, TypeOK, IsFcn
  <2> QED
    BY <2>1, OthersKeep
<1>4. pc'[c] = "idle" /\ ~rec'[c].ok
  BY <1>1 DEF BuildInv, TypeOK, Running
<1>5. Running(c)' /\ Progress(c)'
  BY <1>4, AtRest DEF Running, Installed
<1> QED
  BY <1>2, <1>3, <1>5 DEF BuildInv

LEMMA FailCopyKeeps ==
  ASSUME BuildInv, IsFcn, NEW c \in Checkouts, FailCopy(c)
  PROVE  BuildInv' /\ IsFcn'
<1>1. pc[c] = "copy" /\ Stop(c) /\ UNCHANGED <<setup, rec, linked, conf, obj, lib, skipped>>
  BY DEF FailCopy, Rest
<1>2. /\ obj' \in [Dirs -> [Code -> Object]]
      /\ lib' \in [Dirs -> [ok : BOOLEAN, obj : [Code -> Object]]]
  BY <1>1 DEF BuildInv, TypeOK
<1>3. CASE todo[c] # {} /\ CopyTo(Dir(c), Entry(c), Partial) /\ Touch(c)
  <2>1. Entry(c) \in Walked
    BY <1>3, EntryType
  <2>2. /\ files' \in [Dirs -> [Files -> [ver : Int, new : BOOLEAN]]]
        /\ \A d \in Dirs \ {Dir(c)} : files'[d] = files[d]
        /\ \A d \in Dirs : files'[d][".git"] = NoFile
    BY <1>3, <2>1, VersionsAreInt, CopyChanges
  <2> QED
    BY <1>1, <1>2, <1>3, <2>2, TouchAlone, FailureKeeps
<1>4. CASE UNCHANGED <<files, alone>>
  <2>1. /\ pc' = [pc EXCEPT ![c] = "idle"] /\ env' = [env EXCEPT ![c] = NoEnv]
        /\ ver' = [ver EXCEPT ![c] = Missing] /\ todo' = [todo EXCEPT ![c] = {}]
    BY <1>1 DEF Stop
  <2>2. TypeOK' /\ IsFcn'
    BY <1>1, <1>2, <1>4, <2>1 DEF BuildInv, TypeOK, IsFcn, Walked, Files, Steps, Object, NoEnv
  <2>3. \A x \in Checkouts \ {c} :
          pc'[x] = pc[x] /\ env'[x] = env[x] /\ ver'[x] = ver[x] /\ todo'[x] = todo[x]
    BY <2>1 DEF BuildInv, TypeOK, IsFcn
  <2>4. \A x \in Checkouts \ {c} : Running(x)' /\ Progress(x)'
    BY <1>1, <1>4, <2>3, OthersKeepDisk DEF disk
  <2>5. pc'[c] = "idle" /\ ~rec'[c].ok
    BY <1>1, <2>1 DEF BuildInv, TypeOK, Running
  <2>6. Running(c)' /\ Progress(c)'
    BY <2>5, AtRest DEF Running, Installed
  <2> QED
    BY <1>4, <2>2, <2>4, <2>6 DEF BuildInv
<1> QED
  BY <1>3, <1>4 DEF FailCopy

LEMMA FailMakeKeeps ==
  ASSUME BuildInv, IsFcn, NEW c \in Checkouts, FailMake(c)
  PROVE  BuildInv' /\ IsFcn'
<1> DEFINE d == Dir(c)
<1>1. PICK S \in SUBSET Stale(d) :
        /\ files' = [files EXCEPT ![d] = Built(d, S)]
        /\ \/ obj' = [obj EXCEPT ![d] = Compiled(d, S)]
           \/ \E f \in S : obj' = [obj EXCEPT ![d] = [Compiled(d, S) EXCEPT ![f].ver = Partial]]
  BY DEF FailMake
<1>2. /\ pc[c] = "make" /\ Stop(c) /\ Touch(c)
      /\ UNCHANGED <<setup, rec, linked, conf, lib, skipped>>
  BY DEF FailMake, Rest
<1>3. d \in Dirs /\ S \in SUBSET Code
  BY DirType DEF Stale
<1>4. PICK o \in [Code -> Object] : obj' = [obj EXCEPT ![d] = o]
  <2>1. Compiled(d, S) \in [Code -> Object]
    BY <1>3, CompiledType
  <2>2. \A f \in S : [Compiled(d, S) EXCEPT ![f].ver = Partial] \in [Code -> Object]
    <3> TAKE f \in S
    <3> DEFINE k == Compiled(d, S)
    <3>1. k[f] \in Object /\ f \in Code
      BY <1>3, <2>1
    <3>2. [k[f] EXCEPT !.ver = Partial] \in Object
      BY <3>1, VersionsAreInt DEF Object
    <3> HIDE DEF k
    <3>3. k \in [Code -> Object]
      BY <2>1 DEF k
    <3>4. [k EXCEPT ![f].ver = Partial] = [k EXCEPT ![f] = [k[f] EXCEPT !.ver = Partial]]
      OBVIOUS
    <3>5. [k EXCEPT ![f] = [k[f] EXCEPT !.ver = Partial]] \in [Code -> Object]
      BY <3>2, <3>3
    <3> QED
      BY <3>4, <3>5 DEF k
  <2> QED
    BY <1>1, <2>1, <2>2
<1>5. /\ files' \in [Dirs -> [Files -> [ver : Int, new : BOOLEAN]]]
      /\ obj' \in [Dirs -> [Code -> Object]]
      /\ \A b \in Dirs \ {d} : files'[b] = files[b] /\ obj'[b] = obj[b]
      /\ \A b \in Dirs : files'[b][".git"] = NoFile
  BY <1>1, <1>3, <1>4, MakeChanges
<1>6. lib' \in [Dirs -> [ok : BOOLEAN, obj : [Code -> Object]]]
  BY <1>2 DEF BuildInv, TypeOK
<1> QED
  BY <1>2, <1>5, <1>6, TouchAlone, FailureKeeps

LEMMA FailInstallKeeps ==
  ASSUME BuildInv, IsFcn, NEW c \in Checkouts, FailInstall(c)
  PROVE  BuildInv' /\ IsFcn'
<1>1. /\ pc[c] = "install" /\ Stop(c) /\ Touch(c) /\ lib' = [lib EXCEPT ![Dir(c)] = NoLib]
      /\ UNCHANGED <<setup, rec, linked, files, conf, obj, skipped>>
  BY DEF FailInstall, Rest
<1>2. NoLib \in [ok : BOOLEAN, obj : [Code -> Object]]
  <2>1. NoObject \in Object
    BY VersionsAreInt DEF NoObject, Object
  <2> QED
    BY <2>1 DEF NoLib
<1>3. /\ lib' \in [Dirs -> [ok : BOOLEAN, obj : [Code -> Object]]]
      /\ \A d \in Dirs \ {Dir(c)} : lib'[d] = lib[d]
  BY <1>1, <1>2, DirType DEF BuildInv, TypeOK
<1>4. /\ files' \in [Dirs -> [Files -> [ver : Int, new : BOOLEAN]]]
      /\ obj' \in [Dirs -> [Code -> Object]]
      /\ \A d \in Dirs : files'[d][".git"] = NoFile
  BY <1>1 DEF BuildInv, TypeOK
<1> QED
  BY <1>1, <1>3, <1>4, TouchAlone, FailureKeeps

\* The end of a build: cargo remembers the script, the disk stays.
LEMMA EndKeeps ==
  ASSUME BuildInv, IsFcn, NEW c \in Checkouts, pc[c] \in {"link", "reuse"}, Stop(c),
         UNCHANGED <<setup, rec, disk, alone, skipped>>,
         linked' = [x \in Checkouts |-> linked'[x]]
  PROVE  BuildInv' /\ IsFcn'
<1>1. /\ pc' = [pc EXCEPT ![c] = "idle"] /\ env' = [env EXCEPT ![c] = NoEnv]
      /\ ver' = [ver EXCEPT ![c] = Missing] /\ todo' = [todo EXCEPT ![c] = {}]
  BY DEF Stop
<1>2. TypeOK' /\ IsFcn'
  BY <1>1 DEF BuildInv, TypeOK, IsFcn, Walked, Files, Steps, Object, NoEnv, disk
<1>3. \A x \in Checkouts \ {c} : Running(x)' /\ Progress(x)'
  <2>1. \A x \in Checkouts \ {c} :
          pc'[x] = pc[x] /\ env'[x] = env[x] /\ ver'[x] = ver[x] /\ todo'[x] = todo[x]
    BY <1>1 DEF BuildInv, TypeOK, IsFcn
  <2> QED
    BY <2>1, OthersKeepDisk
<1>4. pc'[c] = "idle"
  BY <1>1 DEF BuildInv, TypeOK
<1>5. Running(c)'
  <2>1. rec[c].ok => rec[c].link = Directives(c, rec[c].env) /\ ~Panics(rec[c].env)
    BY DEF BuildInv, Running
  <2>2. (rec[c].ok => rec[c].link = Directives(c, rec[c].env) /\ ~Panics(rec[c].env))'
    BY <2>1 DEF Directives, Way, UsePkg, Panics, LibDir, LinkName, Windows
  <2> QED
    BY <1>4, <2>2 DEF Running
<1>6. Progress(c)'
  <2>1. Undisturbed(c)' => Undisturbed(c)
    BY DEF Undisturbed
  <2>2. Undisturbed(c) => Installed(c)
    BY DEF BuildInv, Progress
  <2>3. Installed(c) => Installed(c)'
    BY DEF Installed, FromDir, Windows, disk
  <2> QED
    BY <1>4, <2>1, <2>2, <2>3, AtRest
<1> QED
  BY <1>2, <1>3, <1>5, <1>6 DEF BuildInv, disk

LEMMA LinkKeeps ==
  ASSUME BuildInv, IsFcn, NEW c \in Checkouts, Link(c) \/ LinkFails(c)
  PROVE  BuildInv' /\ IsFcn'
<1>1. /\ pc[c] \in {"link", "reuse"} /\ Stop(c) /\ UNCHANGED <<setup, rec, disk, alone, skipped>>
      /\ linked' = [x \in Checkouts |-> linked'[x]]
  BY DEF Link, LinkFails, Rest, IsFcn
<1> QED
  BY <1>1, EndKeeps

LEMMA CleanKeeps ==
  ASSUME BuildInv, IsFcn, NEW c \in Checkouts, Clean(c)
  PROVE  BuildInv' /\ IsFcn'
<1>1. /\ pc[c] = "idle" /\ rec' = [rec EXCEPT ![c] = NoRec]
      /\ files' = [files EXCEPT ![c] = [f \in Files |-> NoFile]]
      /\ conf' = [conf EXCEPT ![c] = NoObject]
      /\ obj' = [obj EXCEPT ![c] = [f \in Code |-> NoObject]]
      /\ lib' = [lib EXCEPT ![c] = NoLib]
      /\ UNCHANGED <<setup, pc, env, ver, todo, alone, skipped, linked>>
  BY DEF Clean
<1>2. /\ c \in Dirs /\ NoObject \in Object /\ NoFile \in [ver : Int, new : BOOLEAN]
      /\ [f \in Code |-> NoObject] \in [Code -> Object]
  BY VersionsAreInt DEF Dirs, NoObject, Object, NoFile
<1>3. NoLib \in [ok : BOOLEAN, obj : [Code -> Object]]
  BY <1>2 DEF NoLib
<1>4. /\ files' \in [Dirs -> [Files -> [ver : Int, new : BOOLEAN]]]
      /\ conf' \in [Dirs -> Object] /\ obj' \in [Dirs -> [Code -> Object]]
      /\ lib' \in [Dirs -> [ok : BOOLEAN, obj : [Code -> Object]]]
  BY <1>1, <1>2, <1>3 DEF BuildInv, TypeOK
<1>5. TypeOK' /\ IsFcn'
  BY <1>1, <1>4 DEF BuildInv, TypeOK, IsFcn, Walked, Files, Steps, Object
<1>6. \A d \in Dirs : files'[d][".git"] = NoFile
  BY <1>1, <1>2 DEF BuildInv, TypeOK, Files
<1>7. \A x \in Checkouts \ {c} : Running(x)' /\ Progress(x)'
  <2> TAKE x \in Checkouts \ {c}
  <2>1. Dir(x) \in Dirs /\ Dir(x) # c
    BY DirType, BuildAssumption DEF Dir
  <2>2. /\ files'[Dir(x)] = files[Dir(x)] /\ conf'[Dir(x)] = conf[Dir(x)]
        /\ obj'[Dir(x)] = obj[Dir(x)] /\ lib'[Dir(x)] = lib[Dir(x)]
    BY <1>1, <2>1 DEF BuildInv, TypeOK
  <2>3. rec'[x] = rec[x]
    BY <1>1 DEF IsFcn
  <2>4. Running(x) /\ Progress(x)
    BY DEF BuildInv
  <2> QED
    BY <1>1, <2>2, <2>3, <2>4, Frame
<1>8. pc'[c] = "idle" /\ ~rec'[c].ok
  BY <1>1 DEF IsFcn, NoRec
<1>9. Running(c)' /\ Progress(c)'
  BY <1>8, AtRest DEF Running, Installed
<1> QED
  BY <1>5, <1>6, <1>7, <1>9 DEF BuildInv

-----------------------------------------------------------------------------
(* The invariant                                                           *)

LEMMA BuildInit ==
  ASSUME Init
  PROVE  BuildInv /\ IsFcn
<1>1. /\ NoObject \in Object /\ NoFile \in [ver : Int, new : BOOLEAN]
      /\ [f \in Code |-> NoObject] \in [Code -> Object]
  BY VersionsAreInt DEF NoObject, Object, NoFile
<1>2. NoLib \in [ok : BOOLEAN, obj : [Code -> Object]]
  BY <1>1 DEF NoLib
<1>3. TypeOK /\ IsFcn
  BY <1>1, <1>2 DEF Init, TypeOK, IsFcn, Steps, NoEnv
<1>4. \A c \in Checkouts : Running(c) /\ Progress(c)
  BY DEF Init, Running, Progress, Undisturbed, NoRec
<1>5. \A d \in Dirs : files[d][".git"] = NoFile
  BY DEF Init, Files
<1> QED
  BY <1>3, <1>4, <1>5 DEF BuildInv

LEMMA Stutter ==
  ASSUME BuildInv, IsFcn, UNCHANGED vars
  PROVE  BuildInv' /\ IsFcn'
<1>1. TypeOK' /\ IsFcn'
  BY DEF BuildInv, TypeOK, IsFcn, vars, disk, Walked, Files, Steps, Object
<1>2. \A x \in Checkouts : Running(x)' /\ Progress(x)'
  <2> TAKE x \in Checkouts
  <2>1. Running(x) /\ Progress(x)
    BY DEF BuildInv
  <2> QED
    BY <2>1, Frame DEF vars, disk
<1> QED
  BY <1>1, <1>2 DEF BuildInv, vars, disk

LEMMA BuildNext ==
  ASSUME BuildInv, IsFcn, [Next]_vars
  PROVE  BuildInv' /\ IsFcn'
<1>1. CASE \E c \in setup.who : Cargo(c)
  <2>1. PICK c \in setup.who, e \in setup.envs :
          \/ Refuse(c, e)
          \/ \E v \in setup.versions : Reuse(c, e, v) \/ Find(c, e, v) \/ StartSource(c, e, v)
    BY <1>1 DEF Cargo
  <2>2. c \in Checkouts
    BY BuildAssumption DEF BuildInv, TypeOK
  <2> QED
    BY <2>1, <2>2, ReuseKeeps, RefuseKeeps, FindKeeps, StartKeeps
<1>2. CASE \E c \in Checkouts : \/ Copy(c) \/ Skip(c) \/ UsePrebuilt(c) \/ Configure(c)
                                \/ Make(c) \/ Install(c)
  BY <1>2, CopyKeeps, SkipKeeps, PrebuiltKeeps, ConfigureKeeps, MakeKeeps, InstallKeeps
<1>3. CASE \E c \in Checkouts : \/ FailCopy(c) \/ FailMake(c) \/ FailInstall(c)
                                \/ Link(c) \/ LinkFails(c) \/ Clean(c)
  BY <1>3, FailCopyKeeps, FailMakeKeeps, FailInstallKeeps, LinkKeeps, CleanKeeps
<1>4. CASE UNCHANGED vars
  BY <1>4, Stutter
<1> QED
  BY <1>1, <1>2, <1>3, <1>4 DEF Next

\* The steps of an undisturbed script leave what they should, for any number
\* of checkouts and builds before it: BuildInv is inductive.
THEOREM BuildInvHolds == Spec => []BuildInv
<1>1. BuildInv /\ IsFcn /\ [Next]_vars => (BuildInv /\ IsFcn)'
  BY BuildNext
<1> QED
  BY <1>1, BuildInit, PTL DEF Spec

-----------------------------------------------------------------------------
(* What is linked                                                          *)

LinkedSources(c) == IF linked[c].reused THEN linked[c].built ELSE linked[c].ver

LinkedWell(c) ==
  /\ linked[c].ok =>
       /\ linked[c].link = Directives(c, linked[c].env)
       /\ ~(linked[c].env.libdir # Unset /\ UsePkg(linked[c].env))
  /\ linked[c].ok /\ linked[c].own =>
       linked[c].obj = [f \in Code |-> [ver |-> LinkedSources(c), nopie |-> linked[c].env.nopie]]

LEMMA LinkedFrame ==
  ASSUME NEW x \in Checkouts, LinkedWell(x), setup' = setup,
         linked'[x] = linked[x] \/ linked'[x] = NotLinked
  PROVE  LinkedWell(x)'
<1>1. CASE linked'[x] = NotLinked
  BY <1>1 DEF LinkedWell, NotLinked
<1>2. CASE linked'[x] = linked[x]
  <2>1. CASE ~linked[x].ok
    BY <1>2, <2>1 DEF LinkedWell
  <2>2. CASE linked[x].ok
    <3>1. Directives(x, linked[x].env)' = Directives(x, linked[x].env)
      BY <1>2 DEF Directives, Way, UsePkg, LibDir, LinkName, Windows
    <3>2. UsePkg(linked[x].env)' = UsePkg(linked[x].env)
      BY <1>2 DEF UsePkg
    <3> QED
      BY <1>2, <2>2, <3>1, <3>2 DEF LinkedWell, LinkedSources
  <2> QED
    BY <2>1, <2>2
<1> QED
  BY <1>1, <1>2

LEMMA LinkStep ==
  ASSUME BuildInv, IsFcn, NEW c \in Checkouts, Link(c)
  PROVE  LinkedWell(c)'
<1> DEFINE r == rec[c]
           e == env[c]
           k == [ok |-> TRUE, env |-> e, ver |-> ver[c], link |-> r.link,
                 reused |-> pc[c] = "reuse", built |-> r.ver,
                 own |-> FromDir(c) /\ alone[c] /\ ~skipped[c], obj |-> lib[Dir(c)].obj]
<1>1. pc[c] \in {"link", "reuse"} /\ setup' = setup /\ linked'[c] = k
  BY DEF Link, IsFcn
<1>2. /\ r.ok /\ r.link = Directives(c, r.env) /\ ~Panics(r.env)
      /\ \A w \in Watched : r.env[w] = e[w]
      /\ pc[c] = "link" => r.ver = ver[c]
  BY <1>1 DEF BuildInv, Running, UpToDate
<1>3. r.env.libdir = e.libdir /\ r.env.shared = e.shared /\ r.env.pkg = e.pkg
      /\ (~Windows => r.env.nopie = e.nopie)
  BY <1>2 DEF Watched
<1> HIDE DEF r, e
<1>4. Directives(c, r.env) = Directives(c, e) /\ ~(e.libdir # Unset /\ UsePkg(e))
  BY <1>2, <1>3 DEF Directives, Way, UsePkg, LibDir, LinkName, Windows, Panics
<1>5. (FromDir(c) /\ alone[c] /\ ~skipped[c]) =>
        lib[Dir(c)].obj = [f \in Code |-> [ver |-> r.ver, nopie |-> e.nopie]]
  <2>1. SUFFICES ASSUME FromDir(c), Undisturbed(c)
                 PROVE  lib[Dir(c)].obj = [f \in Code |-> [ver |-> r.ver, nopie |-> e.nopie]]
    BY DEF Undisturbed
  <2>2. Installed(c)
    BY <2>1 DEF BuildInv, Progress
  <2>3. lib[Dir(c)].obj = [f \in Code |-> [ver |-> r.ver, nopie |-> r.env.nopie]]
    BY <1>2, <2>1, <2>2 DEF Installed, r
  <2>4. r.env.nopie = e.nopie
    BY <1>3, <2>1 DEF FromDir
  <2> QED
    BY <2>3, <2>4
<1>6. /\ k.ok /\ k.env = e /\ k.link = r.link /\ k.ver = ver[c] /\ k.built = r.ver
      /\ k.obj = lib[Dir(c)].obj
      /\ k.reused <=> pc[c] = "reuse"
      /\ k.own <=> (FromDir(c) /\ alone[c] /\ ~skipped[c])
  OBVIOUS
<1> HIDE DEF k
<1>7. Directives(c, e) = r.link
  BY <1>2, <1>4
<1>8. (linked[c].link = Directives(c, linked[c].env)
       /\ ~(linked[c].env.libdir # Unset /\ UsePkg(linked[c].env)))'
  BY <1>1, <1>4, <1>6, <1>7 DEF Directives, Way, UsePkg, LibDir, LinkName, Windows
<1>9. LinkedSources(c)' = r.ver
  <2>1. CASE pc[c] = "reuse"
    BY <1>1, <1>6, <2>1 DEF LinkedSources
  <2>2. CASE pc[c] = "link"
    BY <1>1, <1>2, <1>6, <2>2 DEF LinkedSources
  <2> QED
    BY <1>1, <2>1, <2>2
<1>10. (linked[c].own =>
          linked[c].obj = [f \in Code |-> [ver |-> LinkedSources(c), nopie |-> linked[c].env.nopie]])'
  BY <1>1, <1>5, <1>6, <1>9
<1> QED
  BY <1>8, <1>10 DEF LinkedWell

LEMMA LinkedNext ==
  ASSUME BuildInv, IsFcn, \A x \in Checkouts : LinkedWell(x), [Next]_vars
  PROVE  (\A x \in Checkouts : LinkedWell(x))'
<1> SUFFICES ASSUME NEW x \in Checkouts
             PROVE  LinkedWell(x)'
  OBVIOUS
<1>1. CASE \E c \in Checkouts : Link(c)
  <2>1. PICK c \in Checkouts : Link(c)
    BY <1>1
  <2>2. CASE x = c
    BY <2>1, <2>2, LinkStep
  <2>3. CASE x # c
    <3>1. linked'[x] = linked[x] /\ setup' = setup
      BY <2>1, <2>3 DEF Link, IsFcn
    <3> QED
      BY <3>1, LinkedFrame
  <2> QED
    BY <2>2, <2>3
<1>2. CASE ~\E c \in Checkouts : Link(c)
  <2>1. setup' = setup /\ (linked' = linked \/ \E c : linked' = [linked EXCEPT ![c] = NotLinked])
    <3>1. CASE \E c \in setup.who : Cargo(c)
      BY <3>1 DEF Cargo, Reuse, Refuse, Find, StartSource, Begin, Called
    <3>2. CASE \E c \in Checkouts : \/ Copy(c) \/ Skip(c) \/ UsePrebuilt(c) \/ Configure(c)
                                    \/ Make(c) \/ Install(c)
      BY <3>2 DEF Copy, Skip, UsePrebuilt, Configure, Make, Install, Rest
    <3>3. CASE \E c \in Checkouts : \/ FailCopy(c) \/ FailMake(c) \/ FailInstall(c)
                                    \/ LinkFails(c) \/ Clean(c)
      BY <3>3 DEF FailCopy, FailMake, FailInstall, LinkFails, Clean, Rest
    <3>4. CASE UNCHANGED vars
      BY <3>4 DEF vars
    <3> QED
      BY <1>2, <3>1, <3>2, <3>3, <3>4 DEF Next
  <2>2. linked'[x] = linked[x] \/ linked'[x] = NotLinked
    BY <2>1 DEF IsFcn
  <2> QED
    BY <2>1, <2>2, LinkedFrame
<1> QED
  BY <1>1, <1>2

LEMMA LinkedAlways == Spec => [](\A x \in Checkouts : LinkedWell(x))
<1>1. Init => \A x \in Checkouts : LinkedWell(x)
  BY DEF Init, LinkedWell, NotLinked
<1>2. BuildInv /\ IsFcn /\ [Next]_vars => (BuildInv /\ IsFcn)'
  BY BuildNext
<1>3. BuildInv /\ IsFcn /\ (\A x \in Checkouts : LinkedWell(x)) /\ [Next]_vars
        => (\A x \in Checkouts : LinkedWell(x))'
  BY LinkedNext
<1> QED
  BY <1>1, <1>2, <1>3, BuildInit, PTL DEF Spec

\* The variables that cargo is told of are enough: what is linked is what the
\* script would name now.
THEOREM WatchedIsEnough == Spec => []LinkFollowsEnv
<1>1. (\A x \in Checkouts : LinkedWell(x)) => LinkFollowsEnv
  BY DEF LinkedWell, LinkFollowsEnv
<1> QED
  BY <1>1, LinkedAlways, PTL

\* A build that has its directory to itself links a library of one version of the
\* sources, compiled with its own flags, whatever was left in the directory: of
\* its own version if its script ran, and otherwise of the version for which the
\* record that cargo found up to date was made.
THEOREM LinksOwnLibrary == Spec => []OwnLibrary
<1>1. (\A x \in Checkouts : LinkedWell(x)) => OwnLibrary
  BY DEF LinkedWell, LinkedSources, OwnLibrary
<1> QED
  BY <1>1, LinkedAlways, PTL
=============================================================================
