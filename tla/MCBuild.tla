------------------------------- MODULE MCBuild -------------------------------
(* The instance of Build that TLC checks.                                    *)
EXTENDS Build

CONSTANTS c1, c2, c3

Environments == [static : BOOLEAN, libdir : {Unset, "one", "two"}, pkg : BOOLEAN,
                 shared : BOOLEAN, nopie : BOOLEAN]

Setup(host, target, feature, envs, who, versions, readonly, n) ==
  [host |-> host, target |-> target, feature |-> feature, envs |-> envs, who |-> who,
   versions |-> versions, readonly |-> readonly, runs |-> n]

\* One checkout with all environments on each platform; one that builds several
\* versions with different flags, or from a tree with a read-only file; two that
\* share the fallback directory.
MCSetups ==
  {Setup(h, t, ft, Environments, {c3}, {1}, {}, 2) :
     h \in {"unix", "mingw", "msvc"}, t \in {"unix", "unknown-ios", "mingw", "msvc"}, ft \in BOOLEAN}
  \cup {Setup("unix", "unix", FALSE, {NoEnv, [NoEnv EXCEPT !.nopie = TRUE]}, {c}, Versions, ro, 3) :
          c \in {c1, c3}, ro \in {{}, {"a"}}}
  \cup {Setup("unix", "unix", FALSE, {NoEnv}, {c1, c2}, Versions, {}, 3)}
=============================================================================
