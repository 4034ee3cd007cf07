----------------------------- MODULE ModuleStore ------------------------------
(***************************************************************************)
(* What loading a module promises: modules are only ever added, one at a   *)
(* time and whole, and a load that fails changes nothing.                  *)
(*                                                                         *)
(* store is the structure of what is loaded: vectors that the indexes of   *)
(* other items point into.  contents are the entries of the tables, the    *)
(* bytes of the memories and the values of the globals.                    *)
(***************************************************************************)
EXTENDS Integers, Sequences, SequencesExt

CONSTANTS Vectors,      \* the names of the vectors of the store
          InitStore, InitContents

VARIABLES store, contents, phase

vars == <<store, contents, phase>>

Init ==
    /\ store = InitStore
    /\ contents = InitContents
    /\ phase = "idle"

(* Everything that was there stays where it is.                             *)
Grown == \A v \in Vectors : IsPrefix(store[v], store'[v])

Begin ==
    /\ phase = "idle"
    /\ phase' = "loading"
    /\ UNCHANGED <<store, contents>>

(* A module that cannot be loaded.                                          *)
Fail ==
    /\ phase = "loading"
    /\ phase' = "idle"
    /\ UNCHANGED <<store, contents>>

(* The segments are written once the whole module has been read.            *)
Finish ==
    /\ phase = "loading"
    /\ phase' = "loaded"
    /\ UNCHANGED store

(* The start function has run.                                              *)
Commit ==
    /\ phase = "loaded"
    /\ phase' = "idle"
    /\ Grown
    /\ Len(store'.modules) = Len(store.modules) + 1

(* A module that is not wanted or whose start function trapped; what it     *)
(* wrote is not taken back.                                                 *)
Drop ==
    /\ phase = "loaded"
    /\ phase' = "idle"
    /\ UNCHANGED store

Invoke ==
    /\ phase = "idle"
    /\ UNCHANGED <<store, phase>>

Next == Begin \/ Fail \/ Finish \/ Commit \/ Drop \/ Invoke

Spec == Init /\ [][Next]_vars
=============================================================================
