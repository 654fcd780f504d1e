----------------------------- MODULE Integrations -----------------------------
(***************************************************************************)
(* A program that puts devmm into other libraries: the installers of all   *)
(* four integrations (Installers), the NumPy handler they switch           *)
(* (NumpyHandler), and the allocations of CuPy, rmm and Numba that go      *)
(* through devmm (DeviceHooks).                                            *)
(*                                                                         *)
(* NumPy's memory, Numba's and the chains of CuPy's and rmm's resources    *)
(* have no state in common: a program uses some of the libraries.          *)
(***************************************************************************)
EXTENDS NumpyHandler, DeviceHooks

CONSTANTS
  Programs,  \* bound: the sets of libraries that programs use
  NumPys     \* the NumPys that may be there

ASSUME ProgramAssumption == Programs \subseteq SUBSET Libraries

VARIABLE uses

vars == <<uses, hooks, history, pc, job, memory, device>>

Init ==
  /\ uses \in Programs
  /\ InitInstallers
  /\ InitHandlers(IF NumPy \in uses THEN NumPys ELSE {Absent})
  /\ InitDevice

\* Steps of devmm in NumPy.
NumPyStep ==
  /\ NumPy \in uses
  /\ \/ \E c \in Contexts : \/ \E h \in Hooks : InstallNumPy(c, h)
                            \/ CaptureHandler(c)
                            \/ HandlerStep(c)
     \/ \E h \in Hooks : DropCaptured(h) \/ CapsuleDies(h)
  /\ UNCHANGED <<uses, device>>

\* Steps of devmm in the libraries that use the device.
DeviceLibraryStep ==
  /\ \E c \in Contexts :
       \/ \E h \in Hooks, l \in uses \cap Shared, links \in Chains : InstallDevice(c, h, l, links)
       \/ "Numba" \in uses /\ \E h \in Hooks : InstallNumba(c, h)
       \/ DeviceStep(c)
  /\ UNCHANGED <<uses, memory>>

\* Steps of the program and of Numba that the device's memory depends on.
DeviceProgramStep ==
  /\ "Numba" \in uses
  /\ CreateContext \/ \E mr \in Resources : SetCurrent(mr)
  /\ UNCHANGED <<uses, memory>>

\* Steps of installers, whatever library they are for.
InstallerStep ==
  /\ \/ /\ \E c \in Contexts : Replace(c) \/ \E h \in Hooks : Uninstall(c, h)
        /\ UNCHANGED memory
     \/ \E h \in Hooks : Drop(h) /\ UNCHANGED memory
     \/ \E c \in Contexts : EndUninstall(c)
  /\ UNCHANGED <<uses, device>>

Next == NumPyStep \/ DeviceLibraryStep \/ DeviceProgramStep \/ InstallerStep

Spec == Init /\ [][Next]_vars
-------------------------------------------------------------------------------
(***************************************************************************)
(* Properties of both kinds of memory                                      *)
(***************************************************************************)
\* What NumPy's arrays and the entries of Numba's pointers refer to is a block of their own,
\* at the resource that it came from; a pointer without an entry is one that a reset, or one
\* the finalizer of such a pointer, took it from.
AllBacked == ArraysBacked /\ PointersBacked

\* A resource is only given back what it gave out, and the size it gave: neither the
\* callbacks of NumPy nor a finalizer has anybody to tell.
GivenBackExactly == ~refused /\ ~misgiven

\* No block is forgotten, on the host or on the device.
NothingLeft == NothingStranded /\ DeviceNothingLeft
===============================================================================
