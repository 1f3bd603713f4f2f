--------------------------- MODULE MCAudioSession ---------------------------
(* Small instances of AudioSession. *)
EXTENDS AudioSession, TLC

CONSTANTS ana, ben, a1, a2, b1, w1, w2, en, fr

Named == (a1 :> ana) @@ (a2 :> ana) @@ (b1 :> ben)
MCUserOf == [s \in Sockets |-> Named[s]]
OneWorker == [s \in Sockets |-> w1]
MCLanguageOf == [s \in Sockets |-> IF UserOf[s] = ana THEN fr ELSE en]
=============================================================================
