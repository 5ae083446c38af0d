----------------------------- MODULE MCPrograms -----------------------------
(* A sound configuration, one with a range upside down, one without a window. *)
EXTENDS Programs

Sound == [urls |-> TRUE, address |-> "fixture", depth |-> 1, min |-> 1, max |-> 2, queue |-> 1, flow |-> 1]

MCSettings == { Sound, [Sound EXCEPT !.min = 3], [Sound EXCEPT !.flow = 0] }

\* Two experiments and a writer of their data, or two writers of it and an experiment
MCMaxOf == [bellwether |-> 1, demo |-> 1, experiment |-> 2]
=============================================================================
