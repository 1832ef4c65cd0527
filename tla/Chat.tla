-------------------------------- MODULE Chat --------------------------------
(***************************************************************************)
(* What a conversation with the engine promises: a text that prompts and   *)
(* the network's greedy choices extend, and a saved text to go on from.    *)
(* A step may say several tokens, each the greedy choice after all the     *)
(* text before it.  A step may also go wrong; the text is unsound from     *)
(* then on, saved or not.                                                  *)
(***************************************************************************)
EXTENDS Integers, Sequences

CONSTANTS Nets, Greedy(_, _), Prompts

VARIABLES net, text, live,
          sound,
          saved     \* a text and its soundness; the text << >> is none

vars == <<net, text, live, sound, saved>>

Nothing == [text |-> <<>>, sound |-> TRUE]

Init == net \in Nets /\ text = <<>> /\ live = FALSE /\ sound = TRUE /\ saved = Nothing

\* A run begins, fresh or from the saved text.
Begin ==
    /\ ~live /\ live'
    /\ \E p \in Prompts :
         \/ text' = p /\ sound' = TRUE
         \/ saved # Nothing /\ text' = saved.text \o p /\ sound' = saved.sound
    /\ UNCHANGED <<net, saved>>

Say ==
    /\ live /\ live' /\ (sound' => sound)
    /\ Len(text') > Len(text) /\ SubSeq(text', 1, Len(text)) = text
    /\ sound' => \A i \in (Len(text) + 1)..Len(text') :
                    text'[i] = Greedy(net, SubSeq(text', 1, i - 1))
    /\ UNCHANGED <<net, saved>>

\* Saving begins; until it is done there is no saved text.
Tear == live /\ saved' = Nothing /\ UNCHANGED <<net, text, live, sound>>

Store ==
    /\ live /\ ~live' /\ saved' = [text |-> text, sound |-> sound]
    /\ UNCHANGED <<net, text, sound>>

\* The run ends, or is killed.
Stop == live /\ ~live' /\ UNCHANGED <<net, text, sound, saved>>

Next == Begin \/ Say \/ Tear \/ Store \/ Stop

Spec == Init /\ [][Next]_vars
=============================================================================
