------------------------------- MODULE Modules -------------------------------
(* The states of ir.module (ir/module.py), set by buttons and applied by the   *)
(* loading of the modules in the order of their graph (modules/__init__.py).   *)
EXTENDS Naturals, Sequences, FiniteSets, SequencesExt, FiniteSetsExt
CONSTANTS
  Module,      \* numbers, in the order of the names
  Deps         \* module -> those it depends on
VARIABLES
  state,       \* module -> the state in the database
  load,        \* the loading that runs: [on, todo, update, known, marks]
  mixed        \* ghost: modules were loaded for removal and for something else
moduleVars == <<state, load, mixed>>

NotActivated == "not activated"
PendingActivation == {"to activate"}
Pending == {"to activate", "to upgrade"}
Marked == {"to activate", "to upgrade", "to remove"}
NoLoad == [on |-> FALSE]
RECURSIVE Parents(_), Childs(_)
Parents(S) == LET more == S \cup UNION {Deps[m] : m \in S}
              IN IF more = S THEN S ELSE Parents(more)
Childs(S) == LET more == S \cup {m \in Module : Deps[m] \cap S # {}}
             IN IF more = S THEN S ELSE Childs(more)
Init ==
  /\ state \in [Module -> {NotActivated, "activated"}]
  /\ \A m \in Module, d \in Module :
       state[m] = "activated" /\ d \in Deps[m] => state[d] = "activated"
  /\ load = NoLoad /\ mixed = FALSE

(* ---------------- the buttons; each filters by filter_state ----------------- *)
In(S, s) == {m \in S : state[m] = s}
Button(S, to) ==
  /\ S # {}
  /\ state' = [m \in Module |-> IF m \in S THEN to ELSE state[m]]
  /\ mixed' = (mixed \/ load.on) /\ UNCHANGED load
Activate(S) == Button(In(Parents(In(S, NotActivated)), NotActivated), "to activate")
ActivateCancel(S) == Button(In(S, "to activate"), NotActivated)
Upgrade(S) == Button(In(Childs(In(S, "activated")), "activated"), "to upgrade")
UpgradeCancel(S) == Button(In(S, "to upgrade"), "activated")
DeactivateAny(S) == Button(In(S, "activated"), "to remove")
Deactivate(S) ==
  /\ \A m \in In(S, "activated") : \A c \in Module :
       m \in Deps[c] => state[c] \in {NotActivated, "to remove"}
  /\ Button(In(S, "activated"), "to remove")
DeactivateCancel(S) == Button(In(S, "to remove"), NotActivated)

(* -------------------------------- the loading ------------------------------- *)
\* create_graph: the nodes are visited by depth, then by name.
Depth[m \in Module] == IF Deps[m] = {} THEN 0 ELSE 1 + Max({Depth[d] : d \in Deps[m]})
Graph(S) == SetToSortSeq(S, LAMBDA a, b : Depth[a] < Depth[b] \/ (Depth[a] = Depth[b] /\ a < b))
Missing(S) == UNION {Deps[m] : m \in S} \ S
\* load_modules for an update: by the wizard, all that is marked; by trytond-admin,
\* any module, and those it lacks when activatedeps is asked.
StartLoad(update, activatedeps) ==
  LET listed == update \cup {m \in Module : state[m] # NotActivated}
      wanted == IF activatedeps THEN Parents(listed) ELSE listed
  IN /\ ~load.on /\ update # {} /\ Missing(wanted) = {}
     /\ load' = [on |-> TRUE, todo |-> Graph(wanted), known |-> state, marks |-> state,
                 update |-> update \cup (wanted \ listed)]
     /\ mixed' = (mixed \/ \E m, n \in wanted :
                    /\ state[m] = "to remove" /\ state[n] # "to remove"
                    /\ n \in update \/ state[n] # "activated")
     /\ UNCHANGED state
\* load_module_graph: one module, and the commit that follows it.
LoadModule ==
  LET m == Head(load.todo)
      known == load.known[m]
      acts == m \in load.update \/ known \in Pending
      does == IF known = "activated" THEN "to upgrade"
              ELSE IF known \in Marked THEN known ELSE "to activate"
      passed == [n \in Module |-> IF m \in Deps[n] THEN does ELSE load.known[n]]
      rest == [load EXCEPT !.todo = Tail(@)]
  IN /\ load.on /\ load.todo # <<>> /\ UNCHANGED mixed
     /\ IF ~acts THEN load' = rest /\ UNCHANGED state
        ELSE IF does = "to remove" THEN load' = [rest EXCEPT !.known = passed] /\ UNCHANGED state
        ELSE /\ load' = [rest EXCEPT !.known = [passed EXCEPT ![m] = "activated"]]
             /\ state' = [state EXCEPT ![m] = "activated"]
\* The data of the modules to remove are deleted.
EndLoad ==
  /\ load.on /\ load.todo = <<>>
  /\ state' = [m \in Module |-> IF state[m] = "to remove" THEN NotActivated ELSE state[m]]
  /\ load' = NoLoad /\ UNCHANGED mixed
\* An error in a module, or the end of the process.
Crash == load.on /\ load.todo # <<>> /\ load' = NoLoad /\ UNCHANGED <<state, mixed>>

Next ==
  \/ LoadModule \/ EndLoad \/ Crash
  \/ \E S \in SUBSET Module \ {{}} :
       \/ Activate(S) \/ ActivateCancel(S) \/ Upgrade(S) \/ UpgradeCancel(S)
       \/ Deactivate(S) \/ DeactivateCancel(S)
  \/ StartLoad({m \in Module : state[m] \in Marked}, FALSE)
  \/ \E m \in Module, activatedeps \in BOOLEAN : StartLoad({m}, activatedeps)
Spec == Init /\ [][Next]_moduleVars

(* -------------------------------- properties ------------------------------- *)
\* An activated module never depends on one that is not, whatever is marked,
\* cancelled and loaded, and wherever a loading stops; as long as removals are not
\* loaded together with activations and upgrades.
DependenciesActivated ==
  ~mixed => \A m \in Module : state[m] \in {"activated", "to upgrade"} =>
    \A d \in Deps[m] : state[d] \in {"activated", "to upgrade"}
\* A loading that comes to its end has done what was marked, and deactivated
\* nothing else.
MarksApplied ==
  [][load.on /\ load.todo = <<>> /\ ~load'.on /\ ~mixed => \A m \in Module :
       /\ load.marks[m] \in {"activated", "to activate", "to upgrade"} => state'[m] = "activated"
       /\ load.marks[m] = "to remove" => state'[m] = NotActivated]_moduleVars
==============================================================================
