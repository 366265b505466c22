------------------------------ MODULE KeptLists ------------------------------
(***************************************************************************)
(* What core/app_list.h makes of the white and the black list: an edit      *)
(* adds or removes one package and nothing else, one at a time.  A restart  *)
(* keeps the lists, but for one that its file does not have: since          *)
(* write_lines truncates first, that one is lost as a whole.                *)
(***************************************************************************)
CONSTANTS Lists, Pkgs, NoEdit

VARIABLES
  sets,     \* the lists
  pending,  \* the edit under way, or NoEdit
  unsaved   \* the lists that their files do not have

keptVars == <<sets, pending, unsaved>>

KeptInit == sets = [l \in Lists |-> {}] /\ pending = NoEdit /\ unsaved = {}

\* The list's file is truncated.
Begin ==
  /\ pending = NoEdit
  /\ pending' \in [list : Lists, pkg : Pkgs, add : BOOLEAN]
  /\ unsaved' \in {unsaved, unsaved \cup {pending'.list}}
  /\ UNCHANGED sets

\* The write may have failed without anybody knowing.
Done ==
  /\ pending # NoEdit /\ pending' = NoEdit
  /\ sets' = [sets EXCEPT ![pending.list] =
                IF pending.add THEN @ \cup {pending.pkg} ELSE @ \ {pending.pkg}]
  /\ unsaved' \in {unsaved \ {pending.list}, unsaved \cup {pending.list}}

\* The daemon goes down, whatever it was doing.
Restarted ==
  /\ sets' = [l \in Lists |-> IF l \in unsaved THEN {} ELSE sets[l]]
  /\ pending' = NoEdit /\ unsaved' = {}

KeptNext == Begin \/ Done \/ Restarted

KeptSpec == KeptInit /\ [][KeptNext]_keptVars

=============================================================================
