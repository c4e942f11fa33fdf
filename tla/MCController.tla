---------------------------- MODULE MCController ----------------------------
(* Scripts, command lines and users for Controller. *)
EXTENDS Controller

cmd(id, arg) == [id |-> id, arg |-> arg]

(* Two scripts, neither of which runs another. *)
FlatLines == [main |-> <<event("analyze"), event("dcfile")>>,
              tail |-> <<event("open"), event("dc")>>]

(* adc <target> and adc <target> -script main *)
TargetBoot == <<event("new")>>

ScriptBoot == <<event("new"), cmd("EVENT_SCRIPT", "main")>>

NoCommands == {}

Typed == {event(id) : id \in {"new", "newadd", "open", "analyze", "dc", "dcfile", "other"}}
            \cup {cmd("script", "main")}
=============================================================================
