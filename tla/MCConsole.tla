----------------------------- MODULE MCConsole ------------------------------
(***************************************************************************)
(* The keyboard driver and the text console for model checking.  They      *)
(* share no variable, and every property speaks of one of them, so it is   *)
(* enough to let one of them move at a time.                               *)
(***************************************************************************)
EXTENDS Keyboard, TextConsole

VARIABLE part    \* the one that moves

\* Screens of two and of three short lines.  The widths give four columns, of
\* which MaxColumns are used.
MCFramebuffers == {[width |-> 64, height |-> 60], [width |-> 63, height |-> 82]}
MCScrollSteps == {-9, -1, 1, 9}

Init == part \in {"keyboard", "screen"} /\ KbInit /\ TcInit

Next ==
    \/ part = "keyboard" /\ KbNext /\ UNCHANGED <<tcVars, part>>
    \/ part = "screen" /\ TcNext /\ UNCHANGED <<kbVars, part>>

\* The shell polls the keyboard in a loop.
Spec ==
    /\ Init /\ [][Next]_<<kbVars, tcVars, part>>
    /\ WF_<<kbVars, tcVars, part>>(/\ part = "keyboard" /\ scdk_keyboard_poll
                                   /\ UNCHANGED <<tcVars, part>>)

=============================================================================
