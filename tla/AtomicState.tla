---------------------------- MODULE AtomicState ----------------------------
(***************************************************************************)
(* What a state transaction of lianli-control promises its callers, with   *)
(* no journal, no backup directory and no crash in sight: the saved        *)
(* settings (a function from files to contents) are replaced as a whole,   *)
(* by a set of files that was asked for or that was the state before.      *)
(* Other programs may still edit one file at a time.                       *)
(* StateTransaction implements this specification.                         *)
(***************************************************************************)

EXTENDS Naturals

CONSTANTS
  Files,      (* the state files: configuration, templates, presets, profiles *)
  Contents,   (* what a file may hold, its mode and group included            *)
  Absent      (* the file does not exist                                      *)

State == [Files -> Contents \cup {Absent}]

VARIABLES
  state,      (* the saved settings, as the next daemon start will find them  *)
  saved,      (* every complete state retained as one side of a backup        *)
  edits       (* how many edits other programs made                           *)

vars == <<state, saved, edits>>

Init ==
  /\ state \in State
  /\ saved = {}
  /\ edits = 0

(* A transaction is prepared: the state it replaces is retained with the one *)
(* it asks for.                                                              *)
Retain(requested) ==
  /\ saved' = saved \cup {state, requested}
  /\ UNCHANGED <<state, edits>>

(* The whole state changes, to one that was retained. *)
Replace ==
  /\ state' \in saved
  /\ UNCHANGED <<saved, edits>>

(* Another program changes one file. *)
Edit(f, c) ==
  /\ state' = [state EXCEPT ![f] = c]
  /\ edits' = edits + 1
  /\ UNCHANGED saved

Next ==
  \/ \E requested \in State : Retain(requested)
  \/ Replace
  \/ \E f \in Files, c \in Contents \cup {Absent} : Edit(f, c)

Spec == Init /\ [][Next]_vars

=============================================================================
