---------------------------- MODULE SpeechChannel ----------------------------
(***************************************************************************)
(* What the three workers of the speech pipeline promise the audio sockets *)
(* of a room: from the chunks said they make frames, each of a chunk and   *)
(* in a language.  While nothing has failed the frames come in the order   *)
(* of the chunks and none comes twice; after a failure a frame may be made *)
(* again, behind later ones.  SpeechPipeline implements it, and the frames *)
(* of AudioSession are its frames.                                         *)
(***************************************************************************)
EXTENDS Naturals, Sequences

CONSTANT Languages

VARIABLES
    said,       \* the number of chunks said
    spoken,     \* the frames
    faults      \* the number of failures

vars == <<said, spoken, faults>>

Frame(k, l) == [chunk |-> k, lang |-> l]

\* The frame comes neither behind a later chunk nor again.
InTurn(f) ==
    \A i \in 1..Len(spoken) : spoken[i].chunk <= f.chunk /\ spoken[i] # f

Init == said = 0 /\ spoken = <<>> /\ faults = 0

Say == said' = said + 1 /\ UNCHANGED spoken

Speak(k, l) ==
    /\ k \in 1..said
    /\ faults' = 0 => InTurn(Frame(k, l))
    /\ spoken' = Append(spoken, Frame(k, l))
    /\ UNCHANGED said

Rest == UNCHANGED <<said, spoken>>

Next ==
    /\ faults' \in {faults, faults + 1}
    /\ Say \/ Rest \/ \E k \in 1..said, l \in Languages : Speak(k, l)

Spec == Init /\ [][Next]_vars
==============================================================================
