----------------------------- MODULE Installers -----------------------------
(***************************************************************************)
(* How devmm puts itself into other libraries and takes itself out again   *)
(* (integrations/_support.py and the install() of each integration).  An   *)
(* installation is called a hook here.  Every hook captures what was in    *)
(* force before it and its Installer restores that, once.                  *)
(*                                                                         *)
(*   Exchange           install() into NumPy: set_handler returns what it  *)
(*                      replaced, in the context of the caller             *)
(*   Capture, Replace   install() into CuPy, rmm and Numba: read what is   *)
(*                      in force, then replace it, for everybody           *)
(*   Uninstall, Restore Installer.uninstall: the flag under the lock, the  *)
(*                      restore outside of it                              *)
(*                                                                         *)
(* An uninstall of a spent installer changes nothing and is left out.      *)
(* What install() asks before its first effect is the business of the      *)
(* modules that extend this one, NumpyHandler and DeviceHooks.             *)
(***************************************************************************)
EXTENDS Naturals, Sequences, SequencesExt

CONSTANTS
  Contexts,    \* the threads, or tasks, each with a context of its own
  Hooks,       \* bound: the installations of a behaviour
  Shared       \* the libraries, except NumPy, with one hook for all contexts

NumPy == "NumPy"
Libraries == {NumPy} \cup Shared

\* What is in force before any hook; and no hook, or no library.
Original == "original"
None == "none"

ASSUME InstallersAssumption ==
  /\ {Original, None} \cap (Hooks \cup Libraries) = {}
  /\ NumPy \notin Shared

Everybody == "everybody"
Slots == {NumPy} \X Contexts \cup Shared \X {Everybody}
\* Where a call in context c reads and sets the hook of a library.
Slot(library, c) == IF library = NumPy THEN <<NumPy, c>> ELSE <<library, Everybody>>

VARIABLES
  inForce,   \* the hook of each slot
  library,   \* the library that each hook is in, None if it is not made yet
  previous,  \* what the hook's restore captured
  installed, \* Installer._installed
  held,      \* the hooks whose Installer the program holds
  pc, job,   \* where the call of each context is, and what it is about
  home,      \* history: the slot that the hook was put in
  stack,     \* history: the hooks that were put in a slot and not restored, in order
  tangled    \* history: the slots in which hooks came and went in another order

hooks == <<inForce, library, previous, installed, held>>
history == <<home, stack, tangled>>

\* What a call is about: a hook and, for calls of a hook, the memory; see the modules
\* that extend this one.
NoJob == [hook |-> None]

InitInstallers ==
  /\ inForce = [s \in Slots |-> Original]
  /\ library = [h \in Hooks |-> None]
  /\ previous = [h \in Hooks |-> None]
  /\ installed = [h \in Hooks |-> FALSE]
  /\ held = {}
  /\ pc = [c \in Contexts |-> "idle"]
  /\ job = [c \in Contexts |-> NoJob]
  /\ home = [h \in Hooks |-> <<None, None>>]
  /\ stack = [s \in Slots |-> <<>>]
  /\ tangled = {}

Goto(c, to, j) == pc' = [pc EXCEPT ![c] = to] /\ job' = [job EXCEPT ![c] = j]
Return(c) == Goto(c, "idle", NoJob)

\* A function with one more point, and without one.
With(f, p, x) == [q \in DOMAIN f \cup {p} |-> IF q = p THEN x ELSE f[q]]
Without(f, p) == [q \in DOMAIN f \ {p} |-> f[q]]

Top(s) == IF stack[s] = <<>> THEN Original ELSE Last(stack[s])
\* A stack without one place of h, if it has any.
Unstacked(s, h) ==
  LET places == {i \in DOMAIN s : s[i] = h} IN
  IF places = {} THEN s ELSE RemoveAt(s, CHOOSE i \in places : TRUE)
-------------------------------------------------------------------------------
\* The hook h takes a slot over, where `top` was the last one when it was captured, and
\* the program gets its Installer.
PutInForce(h, s, top) ==
  /\ inForce' = [inForce EXCEPT ![s] = h]
  /\ installed' = [installed EXCEPT ![h] = TRUE]
  /\ held' = held \cup {h}
  /\ home' = [home EXCEPT ![h] = s]
  /\ stack' = [stack EXCEPT ![s] = Append(@, h)]
  /\ tangled' = IF top = Top(s) THEN tangled ELSE tangled \cup {s}

\* numpy.install: a new handler's capsule, and set_handler.
Exchange(c, h) ==
  /\ pc[c] = "idle"
  /\ library[h] = None
  /\ library' = [library EXCEPT ![h] = NumPy]
  /\ previous' = [previous EXCEPT ![h] = inForce[Slot(NumPy, c)]]
  /\ PutInForce(h, Slot(NumPy, c), Top(Slot(NumPy, c)))
  /\ UNCHANGED <<pc, job>>

\* A slip: what is in force is not read, so nothing is there to restore.
CaptureNothing(c, h, l) ==
  /\ pc[c] = "idle"
  /\ library[h] = None
  /\ l \in Shared
  /\ library' = [library EXCEPT ![h] = l]
  /\ Goto(c, "replace", [hook |-> h, top |-> Top(Slot(l, c))])
  /\ UNCHANGED <<inForce, previous, installed, held, history>>

\* cupy.install, rmm.install and numba.install.
Capture(c, h, l) ==
  /\ pc[c] = "idle"
  /\ library[h] = None
  /\ l \in Shared
  /\ library' = [library EXCEPT ![h] = l]
  /\ previous' = [previous EXCEPT ![h] = inForce[Slot(l, c)]]
  /\ Goto(c, "replace", [hook |-> h, top |-> Top(Slot(l, c))])
  /\ UNCHANGED <<inForce, installed, held, history>>

Replace(c) ==
  LET h == job[c].hook IN
  /\ pc[c] = "replace"
  /\ PutInForce(h, Slot(library[h], c), job[c].top)
  /\ Return(c)
  /\ UNCHANGED <<library, previous>>

\* A slip: the flag is tested without the lock and cleared after the restore.
UninstallUnlocked(c, h) ==
  /\ pc[c] = "idle"
  /\ h \in held
  /\ installed[h]
  /\ Goto(c, "restore", [hook |-> h])
  /\ UNCHANGED <<hooks, history>>

\* Installer.uninstall, by a call or by the end of a `with` block.
Uninstall(c, h) ==
  /\ pc[c] = "idle"
  /\ h \in held
  /\ installed[h]
  /\ installed' = [installed EXCEPT ![h] = FALSE]
  /\ Goto(c, "restore", [hook |-> h])
  /\ UNCHANGED <<inForce, library, previous, held, history>>

\* A slip: the library's own default is restored, whatever was in force.
RestoreOriginal(c) ==
  LET h == job[c].hook
      s == Slot(library[h], c)
  IN
  /\ pc[c] = "restore"
  /\ inForce' = [inForce EXCEPT ![s] = Original]
  /\ stack' = [stack EXCEPT ![home[h]] = Unstacked(@, h)]
  /\ tangled' = IF Top(s) = h THEN tangled ELSE tangled \cup {s, home[h]}
  /\ Return(c)
  /\ UNCHANGED <<library, previous, installed, held, home>>

\* The `_restore` of the four integrations.  NumPy's acts on the context it runs in.
Restore(c) ==
  LET h == job[c].hook
      s == Slot(library[h], c)
  IN
  /\ pc[c] = "restore"
  /\ inForce' = [inForce EXCEPT ![s] = previous[h]]
  /\ stack' = [stack EXCEPT ![home[h]] = Unstacked(@, h)]
  /\ tangled' = IF Top(s) = h THEN tangled ELSE tangled \cup {s, home[h]}
  /\ Return(c)
  /\ UNCHANGED <<library, previous, installed, held, home>>

\* The program lets go of an Installer, which does not uninstall.
Drop(h) ==
  /\ h \in held
  /\ held' = held \ {h}
  /\ UNCHANGED <<inForce, library, previous, installed, pc, job, history>>
-------------------------------------------------------------------------------
\* Installer.uninstall: "concurrent uninstalls cannot both observe "installed" and run
\* the restore twice".  A hook that is about to be restored never was, and nobody else
\* is about to restore it, so a spent Installer cannot undo what came after it.
RestoredOnce ==
  \A c \in Contexts : pc[c] = "restore" =>
    LET h == job[c].hook IN
    /\ h \in Range(stack[home[h]])
    /\ \A d \in Contexts \ {c} : pc[d] = "restore" => job[d].hook # h

\* Installer: stacked installs that are uninstalled in LIFO order, in the context they
\* were made in, restore what each replaced: the hook in force is the last one that was
\* put there and not restored.
LastInForce == \A s \in Slots \ tangled : inForce[s] = Top(s)
===============================================================================
