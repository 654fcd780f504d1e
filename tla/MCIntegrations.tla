---------------------------- MODULE MCIntegrations ----------------------------
(***************************************************************************)
(* Integrations on small instances.                                        *)
(***************************************************************************)
EXTENDS Integrations, TLC

CONSTANTS t1, t2, h1, h2, p1, p2, m1, m2

TwoContexts == {t1, t2}
TwoHooks == {h1, h2}
TwoPtrs == {p1, p2}
TwoResources == {m1, m2}
OtherLibraries == {"CuPy", "rmm", "Numba"}
ThreePrograms == {{NumPy}, {"Numba"}, {"CuPy", "rmm"}}

\* NumPy 1 with its extension where it kept it, and what is refused: none, an older, a
\* newer and an unreadable one, and one without the extension.
SixNumPys ==
  { Absent, OneNumPy(<<1, 21>>, "numpy.core"), OneNumPy(<<1, 26>>, "numpy.core"),
    OneNumPy(<<3, 0>>, "numpy._core"), OneNumPy(<<2>>, "numpy._core"),
    OneNumPy(<<2, 1>>, None) }

\* No definition tells contexts, hooks, addresses or resources apart.
Symmetry ==
  Permutations(Contexts) \cup Permutations(Hooks) \cup Permutations(Ptrs)
    \cup Permutations(Addresses) \cup Permutations(Resources)
===============================================================================
