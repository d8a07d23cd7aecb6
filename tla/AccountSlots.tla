---------------------------- MODULE AccountSlots ----------------------------
(***************************************************************************)
(* What the account slots of a host promise to whoever uses them, with no  *)
(* commands, Docker calls or interruptions: a slot takes one login, for    *)
(* good; its gateway is created, configured once, started and stopped, and *)
(* taken away only while it is still new; a stranger's container is left   *)
(* alone; and a start names a slot only if its gateway serves then, with a *)
(* subscription that no other slot it names has.                           *)
(***************************************************************************)
EXTENDS Naturals

CONSTANTS Commands, Slots, Identities, Key, None, Cut,
          Files,    \* problem files that pass validation
          Images    \* builds of the gateway image

VARIABLES
  login,     \* of each slot: its credentials, or what is there instead
  gateway,   \* of each slot: the container with its name
  file,      \* the problem file, or None
  reported   \* of each command: the slots it named as ready

slotVars == <<login, gateway, file, reported>>

Nobody == [owner |-> "nobody", new |-> FALSE, key |-> None, image |-> 0, running |-> FALSE]

Absent(a) == gateway[a] = Nobody
Own(a) == gateway[a].owner = "slot"

SlotsInit ==
    /\ login \in [Slots -> {"no volume", "empty", Cut} \cup Identities]
    /\ \A a \in Slots : ~gateway[a].new /\ (Own(a) => gateway[a].key # None)
    /\ file = None
    /\ reported = [p \in Commands |-> {}]

\* Whatever happens, a command may end with it.
Quit == /\ reported' \in [Commands -> SUBSET Slots]
        /\ \A p \in Commands : reported'[p] \in {reported[p], {}}

LogIn(a) ==
    /\ \/ login[a] = "no volume" /\ login' = [login EXCEPT ![a] = "empty"]
       \/ /\ login[a] = "empty"
          /\ \E given \in Identities \cup {Cut} : login' = [login EXCEPT ![a] = given]
    /\ UNCHANGED <<gateway, file>>
    /\ Quit

Turn(a, state) ==
    /\ gateway' = [gateway EXCEPT ![a] = state]
    /\ UNCHANGED <<login, file>>
    /\ Quit

Create(a) ==
    /\ Absent(a)
    /\ \E image \in Images :
          Turn(a, [owner |-> "slot", new |-> TRUE, key |-> None, image |-> image, running |-> FALSE])

Configure(a) ==
    /\ Own(a) /\ gateway[a].new /\ gateway[a].key = None
    /\ Turn(a, [gateway[a] EXCEPT !.key = Key])

TakeAway(a) ==
    /\ Own(a) /\ gateway[a].new /\ ~gateway[a].running
    /\ Turn(a, Nobody)

StartOrStop(a) ==
    Own(a) /\ \E on \in BOOLEAN : Turn(a, [gateway[a] EXCEPT !.running = on])

Publish == file = None /\ file' \in Files /\ UNCHANGED <<login, gateway>> /\ Quit

Report(p, a) ==
    /\ Own(a) /\ gateway[a].running /\ gateway[a].key = Key
    /\ login[a] \in Identities
    /\ \A b \in reported[p] \ {a} : login[b] # login[a]
    /\ reported' = [reported EXCEPT ![p] = @ \cup {a}]
    /\ UNCHANGED <<login, gateway, file>>

GoOn == Quit /\ UNCHANGED <<login, gateway, file>>

SlotsNext ==
    \/ \E a \in Slots : \/ LogIn(a) \/ Create(a) \/ Configure(a) \/ TakeAway(a) \/ StartOrStop(a)
                        \/ \E p \in Commands : Report(p, a)
    \/ Publish \/ GoOn

SlotsSpec == SlotsInit /\ [][SlotsNext]_slotVars
=============================================================================
